---------------------------- MODULE AccountsProof ----------------------------
(***************************************************************************)
(* Proofs about Accounts, for any sets of users, admins, e-mails and       *)
(* requests: a registered user is found and is the only one, entry needs   *)
(* the password, and the service implements the directory.                 *)
(***************************************************************************)
EXTENDS Accounts, TLAPS

(* Spellings of one e-mail have one normal form, which is a value.         *)
LEMMA NormalForm ==
  /\ \A x \in Spelling : Normal(x) \in Stored
  /\ \A x \in Stored : x = Normal(x) /\ x \in Spelling
  /\ \A x, y \in Spelling : x.mail = y.mail => Normal(x) = Normal(y)
  /\ None \notin Stored
<1>1. \A x \in Spelling : Normal(x) \in Stored
  BY DEF Stored
<1>2. ASSUME NEW x \in Spelling PROVE Normal(x) \in Spelling
  BY DEF Normal, Spelling
<1>3. ASSUME NEW x \in Spelling PROVE Normal(x) = Normal(Normal(x))
  BY DEF Normal
<1>4. ASSUME NEW x \in Stored PROVE x = Normal(x) /\ x \in Spelling
  BY <1>2, <1>3 DEF Stored
<1>5. ASSUME NEW x \in Spelling, NEW y \in Spelling, x.mail = y.mail
      PROVE  Normal(x) = Normal(y)
  BY <1>5 DEF Normal
<1> QED
  BY <1>1, <1>4, <1>5, SpellingAssumption

LEMMA InitIInv == Init => IInv
BY AccountAssumption
   DEF Init, IInv, TypeOK, RequestType, Labels, Idle, Locals, RowsWhole, Account,
       OneLivePerEmail, Exists, RequestConsistent

LEMMA StepIInv == IInv /\ [Next]_vars => IInv'
<1> SUFFICES ASSUME IInv, [Next]_vars PROVE IInv'
  OBVIOUS
<1> USE AccountAssumption, NormalForm
    DEF IInv, TypeOK, RequestType, Labels, At, Account
<1>1. ASSUME NEW r \in Request, NEW x \in Spelling, NEW w \in Password,
             \/ BeginRegister(r, x, w) \/ BeginLoginUser(r, x, w)
             \/ BeginLoginAdmin(r, x, w)
      PROVE  IInv'
  BY <1>1 DEF BeginRegister, BeginLoginUser, BeginLoginAdmin, Start, Locals,
     tables, RowsWhole, OneLivePerEmail, Exists, RequestConsistent
<1>2. ASSUME NEW r \in Request, NEW a \in Account, NEW w \in Password,
             BeginComplete(r, a, w)
      PROVE  IInv'
  BY <1>2 DEF BeginComplete, Start, Locals, tables, RowsWhole, OneLivePerEmail,
     Exists, RequestConsistent
<1>3. ASSUME NEW r \in Request, NEW u \in User, Create(r, u)
      PROVE  IInv'
  <2>1. CASE IndexAdmits(req[r].mail)
    <3>1. /\ email' = [email EXCEPT ![u] = req[r].mail]
          /\ password' = [password EXCEPT ![u] = req[r].pw]
          /\ req' = [req EXCEPT ![r] = Locals("mint", req[r].mail, req[r].pw, u)]
          /\ UNCHANGED <<deleted, partial>>
          /\ req[r].mail \in Stored /\ req[r].pw \in Password /\ email[u] = None
      BY <1>3, <2>1 DEF Create, Goto, RequestConsistent
    <3>2. TypeOK' /\ RowsWhole'
      BY <3>1 DEF RowsWhole, Locals
    <3>3. OneLivePerEmail'
      BY <2>1, <3>1 DEF OneLivePerEmail, Exists, IndexAdmits, UsersByEmail
    <3>4. \A q \in Request : RequestConsistent(q)'
      BY <3>1 DEF RequestConsistent, Locals
    <3> QED
      BY <3>2, <3>3, <3>4
  <2>2. CASE ~IndexAdmits(req[r].mail)
    BY <1>3, <2>2 DEF Create, Finish, Idle, Locals, RowsWhole, OneLivePerEmail,
       Exists, RequestConsistent
  <2> QED
    BY <2>1, <2>2
<1>4. ASSUME NEW r \in Request, FindEmail(r) \/ Factor(r) \/ ReadById(r) \/ End(r)
      PROVE  IInv'
  BY <1>4 DEF FindEmail, Factor, ReadById, End, Goto, Finish, Idle, Locals, tables,
     RowsWhole, OneLivePerEmail, Exists, RequestConsistent
<1>5. ASSUME NEW r \in Request, ReadUser(r) \/ ReadAdmin(r)
      PROVE  IInv'
  BY <1>5 DEF ReadUser, ReadAdmin, UsersByEmail, AdminsByEmail, Goto, Finish, Idle,
     Locals, tables, RowsWhole, OneLivePerEmail, Exists, RequestConsistent
<1>6. ASSUME NEW a \in Account, NEW w \in Password,
             UpdatePasswordHash(a, w) \/ LapsePartial(a, w)
      PROVE  IInv'
  BY <1>6 DEF UpdatePasswordHash, LapsePartial, tables, RowsWhole,
     OneLivePerEmail, Exists, RequestConsistent
<1>7. ASSUME NEW a \in Account, Delete(a)
      PROVE  IInv'
  BY <1>7 DEF Delete, RowsWhole, OneLivePerEmail, Exists, RequestConsistent
<1>8. CASE UNCHANGED vars
  BY <1>8 DEF vars, tables, RowsWhole, OneLivePerEmail, Exists, RequestConsistent
<1> QED
  BY <1>1, <1>2, <1>3, <1>4, <1>5, <1>6, <1>7, <1>8 DEF Next

(* The accounts are well formed, and live users have e-mails of their own. *)
THEOREM Invariance == Spec => []IInv
BY InitIInv, StepIInv, PTL DEF Spec

(* However an e-mail is spelled, its one live user is found.               *)
THEOREM RegisteredUsersAreFound == Spec => []RegisteredIsFound
<1>1. IInv => RegisteredIsFound
  <2> SUFFICES ASSUME IInv, NEW u \in User, Exists(u),
                      NEW x \in Spelling, x.mail = email[u].mail
               PROVE  UsersByEmail(Normal(x)) = {u}
    BY DEF RegisteredIsFound
  <2>1. email[u] \in Stored
    BY DEF IInv, TypeOK, Exists, Account
  <2>2. email[u] = Normal(x)
    BY <2>1, NormalForm
  <2> QED
    BY <2>2 DEF IInv, OneLivePerEmail, UsersByEmail
<1> QED
  BY Invariance, <1>1, PTL

(* Nothing is let in with a password that does not open the account.       *)
THEOREM EntryTakesThePassword == Spec => EntryNeedsPassword
<1>1. ASSUME IInv, [Next]_vars, NEW a \in Account, NEW w \in Password, LetIn(a, w)'
      PROVE  LetIn(a, w) \/ Opens(a, w)'
  <2> USE <1>1, AccountAssumption DEF IInv, TypeOK, RequestType, Labels, At, Account, LetIn
  <2>1. ASSUME NEW r \in Request, NEW x \in Spelling, NEW v \in Password,
               \/ BeginRegister(r, x, v) \/ BeginLoginUser(r, x, v)
               \/ BeginLoginAdmin(r, x, v)
        PROVE  LetIn(a, w)
    BY <2>1 DEF BeginRegister, BeginLoginUser, BeginLoginAdmin, Start, Locals
  <2>2. ASSUME NEW r \in Request, NEW b \in Account, NEW v \in Password,
               BeginComplete(r, b, v)
        PROVE  LetIn(a, w)
    BY <2>2 DEF BeginComplete, Start, Locals
  <2>3. ASSUME NEW r \in Request, NEW u \in User, Create(r, u)
        PROVE  LetIn(a, w) \/ Opens(a, w)'
    <3>1. CASE IndexAdmits(req[r].mail)
      <4>1. /\ email'[u] = req[r].mail /\ password'[u] = req[r].pw
            /\ req' = [req EXCEPT ![r] = Locals("mint", req[r].mail, req[r].pw, u)]
            /\ UNCHANGED <<deleted, partial>>
            /\ req[r].mail \in Stored
        BY <2>3, <3>1 DEF Create, Goto, RequestConsistent
      <4>2. CASE a = u /\ w = req[r].pw
        <5>1. u \notin deleted
          BY <2>3 DEF Create, RowsWhole
        <5> QED
          BY <4>1, <4>2, <5>1, NormalForm DEF Opens, Exists
      <4>3. CASE ~(a = u /\ w = req[r].pw)
        BY <4>1, <4>3 DEF Locals
      <4> QED
        BY <4>2, <4>3
    <3>2. CASE ~IndexAdmits(req[r].mail)
      BY <2>3, <3>2 DEF Create, Finish, Idle, Locals
    <3> QED
      BY <3>1, <3>2
  <2>4. ASSUME NEW r \in Request, FindEmail(r) \/ Factor(r) \/ ReadById(r) \/ End(r)
        PROVE  LetIn(a, w)
    BY <2>4 DEF FindEmail, Factor, ReadById, End, Goto, Finish, Idle, Locals
  <2>5. ASSUME NEW r \in Request, ReadUser(r) \/ ReadAdmin(r)
        PROVE  LetIn(a, w) \/ Opens(a, w)'
    BY <2>5 DEF ReadUser, ReadAdmin, UsersByEmail, AdminsByEmail, Goto, Finish, Idle,
       Locals, tables, Opens, Exists
  <2>6. ASSUME NEW b \in Account, NEW v \in Password,
               UpdatePasswordHash(b, v) \/ LapsePartial(b, v)
        PROVE  LetIn(a, w)
    BY <2>6 DEF UpdatePasswordHash, LapsePartial
  <2>7. ASSUME NEW b \in Account, Delete(b)
        PROVE  LetIn(a, w)
    BY <2>7 DEF Delete
  <2>8. CASE UNCHANGED vars
    BY <2>8 DEF vars
  <2> QED
    BY <2>1, <2>2, <2>3, <2>4, <2>5, <2>6, <2>7, <2>8 DEF Next
<1>2. IInv /\ [Next]_vars =>
        [\A a \in Account, w \in Password :
           LetIn(a, w)' => LetIn(a, w) \/ Opens(a, w)']_vars
  BY <1>1
<1> QED
  BY Invariance, <1>2, PTL DEF Spec, EntryNeedsPassword

(***************************************************************************)
(* The service implements the directory.                                   *)
(***************************************************************************)
(* What the directory sees of the requests. *)
Dialogues == [r \in Request |-> [state |-> Told[req[r].pc], mail |-> req[r].mail,
                                 secret |-> req[r].pw, who |-> req[r].acct]]

(* A request moves to the locals q, a dialogue to t. *)
Moves(r, q) == req' = [req EXCEPT ![r] = q]

TalkMoves(r, t) == Dialogues' = [Dialogues EXCEPT ![r] = t]

LEMMA ToldOf ==
  /\ Told["idle"] = "silent"     /\ Told["find"] = "joining"
  /\ Told["create"] = "joining"  /\ Told["conflict"] = "clash"
  /\ Told["user"] = "entering"   /\ Told["admin"] = "entering"
  /\ Told["factor"] = "admitted" /\ Told["code"] = "admitted"
  /\ Told["mint"] = "admitted"
BY DEF Told

(* The directory's talk follows a request that moves to new locals.        *)
LEMMA TalkFollows ==
  IInv => \A r \in Request : \A label, x, w, a :
    Moves(r, Locals(label, x, w, a)) => TalkMoves(r, Book!Talk(Told[label], x, w, a))
<1> SUFFICES ASSUME IInv, NEW r \in Request, NEW label, NEW x, NEW w, NEW a,
                    req' = [req EXCEPT ![r] = Locals(label, x, w, a)]
             PROVE  Dialogues' = [Dialogues EXCEPT ![r] = Book!Talk(Told[label], x, w, a)]
  BY DEF Moves, TalkMoves
<1>1. DOMAIN req = Request
  BY DEF IInv, TypeOK
<1>2. \A p \in Request : req'[p] = IF p = r THEN Locals(label, x, w, a) ELSE req[p]
  BY <1>1
<1>3. /\ Locals(label, x, w, a).pc = label /\ Locals(label, x, w, a).mail = x
      /\ Locals(label, x, w, a).pw = w     /\ Locals(label, x, w, a).acct = a
  BY DEF Locals
<1> QED
  BY <1>2, <1>3 DEF Dialogues, Book!Talk

LEMMA TalkIs ==
  ASSUME NEW r \in Request
  PROVE  /\ Dialogues[r].state = Told[req[r].pc]
         /\ Dialogues[r].mail = req[r].mail
         /\ Dialogues[r].secret = req[r].pw
         /\ Dialogues[r].who = req[r].acct
         /\ req[r] = Idle => Dialogues[r] = Book!Silent
         /\ Dialogues[r] = Book!Silent => Told[req[r].pc] = "silent"
BY ToldOf DEF Dialogues, Book!Talk, Book!Silent, Idle, Locals

(* A request that stays the same to the directory.                         *)
LEMMA TalkStays ==
  IInv => \A r \in Request : \A label :
    /\ Moves(r, Locals(label, req[r].mail, req[r].pw, req[r].acct))
    /\ Told[label] = Told[req[r].pc]
    => Dialogues' = Dialogues
<1> SUFFICES ASSUME IInv, NEW r \in Request, NEW label,
                    Moves(r, Locals(label, req[r].mail, req[r].pw, req[r].acct)),
                    Told[label] = Told[req[r].pc]
             PROVE  Dialogues' = Dialogues
  OBVIOUS
<1>1. TalkMoves(r, Book!Talk(Told[label], req[r].mail, req[r].pw, req[r].acct))
  BY TalkFollows
<1>2. Dialogues[r] = Book!Talk(Told[label], req[r].mail, req[r].pw, req[r].acct)
  BY DEF Dialogues, Book!Talk
<1> QED
  BY <1>1, <1>2 DEF TalkMoves, Dialogues

(* A request that ends hangs up.                                           *)
LEMMA FinishHangsUp ==
  ASSUME IInv, NEW r \in Request, ~At(r, "idle"), Finish(r), UNCHANGED <<tables, partial>>
  PROVE  Book!HangUp(r)
<1>0. Moves(r, Locals("idle", None, None, None))
  BY DEF Moves, Finish, Idle
<1>1. TalkMoves(r, Book!Silent)
  BY <1>0, TalkFollows, ToldOf DEF Book!Silent
<1>2. Told[req[r].pc] # "silent"
  BY ToldOf DEF IInv, TypeOK, RequestType, Labels, At
<1>3. Dialogues[r] # Book!Silent
  BY <1>2, TalkIs
<1> QED
  BY <1>1, <1>3 DEF TalkMoves, Dialogues, Book!HangUp, tables

LEMMA DirectoryStart == Init => Book!DirectoryInit
BY ToldOf, AccountAssumption
   DEF Init, Idle, Locals, Account, Book!DirectoryInit, Book!Silent, Book!Talk, Book!Holder

LEMMA StepDirectory ==
  IInv /\ [Next]_vars => [Book!DirectoryNext]_(Book!directoryVars)
<1> SUFFICES ASSUME IInv, [Next]_vars
             PROVE  Book!DirectoryNext \/ UNCHANGED Book!directoryVars
  OBVIOUS
<1> DEFINE Steps == Book!DirectoryNext \/ UNCHANGED Book!directoryVars
<1>a. \A r \in Request : \/ Book!Ask(r) \/ Book!Join(r) \/ Book!Clash(r) \/ Book!Admit(r)
                         \/ Book!Redeem(r) \/ Book!Vouch(r) \/ Book!HangUp(r)
                         => Steps
  BY DEF Book!DirectoryNext
<1>b. Dialogues' = Dialogues /\ UNCHANGED <<tables, partial>> => Steps
  BY DEF Book!directoryVars, Dialogues, tables
<1> HIDE DEF Steps
<1>1. ASSUME NEW r \in Request, NEW x \in Spelling, NEW w \in Password,
             NEW label \in {"find", "user", "admin"},
             Start(r, label, Normal(x), w, None), UNCHANGED <<tables, partial>>
      PROVE  Steps
  <2>1. Moves(r, Locals(label, Normal(x), w, None)) /\ req[r] = Idle
    BY <1>1 DEF Start, At, IInv, RequestConsistent, Moves
  <2>2. /\ TalkMoves(r, Book!Talk(Told[label], Normal(x), w, None))
        /\ Dialogues[r] = Book!Silent
    BY <2>1, TalkFollows, TalkIs
  <2>3. Told[label] \in {"joining", "entering"} /\ Normal(x) \in Stored
    BY ToldOf, NormalForm
  <2>4. \E state \in {"joining", "entering"}, m \in Stored, v \in Password :
          TalkMoves(r, Book!Talk(state, m, v, None))
    BY <2>2, <2>3
  <2> QED
    BY <1>1, <1>a, <2>2, <2>4 DEF Book!Ask, tables, Dialogues, TalkMoves
<1>2. ASSUME NEW r \in Request, FindEmail(r)
      PROVE  Steps
  <2>1. CASE UsersByEmail(req[r].mail) # {} /\ Goto(r, "conflict", None)
    <3>1. TalkMoves(r, Book!Talk("clash", Dialogues[r].mail, Dialogues[r].secret, None))
      <4>1. Moves(r, Locals("conflict", req[r].mail, req[r].pw, None))
        BY <2>1 DEF Goto, Moves
      <4> QED
        BY <4>1, TalkFollows, TalkIs, ToldOf
    <3>2. Dialogues[r].state = "joining" /\ Book!Belongs(Dialogues[r].mail)
      BY <1>2, <2>1, TalkIs, ToldOf
         DEF FindEmail, At, Book!Belongs, Book!Live, UsersByEmail, Exists
    <3> QED
      BY <1>2, <1>a, <3>1, <3>2
         DEF FindEmail, tables, Dialogues, TalkMoves, Book!Clash, Book!Settle
  <2>2. CASE Goto(r, "create", None)
    <3>1. req[r].pc = "find" /\ req[r].acct = None
      BY <1>2 DEF FindEmail, At, IInv, RequestConsistent
    <3>2. Moves(r, Locals("create", req[r].mail, req[r].pw, req[r].acct))
      BY <2>2, <3>1 DEF Goto, Moves
    <3> QED
      BY <1>2, <1>b, <3>1, <3>2, TalkStays, ToldOf DEF FindEmail
  <2> QED
    BY <1>2, <2>1, <2>2 DEF FindEmail
<1>3. ASSUME NEW r \in Request, NEW u \in User, Create(r, u)
      PROVE  Steps
  <2>1. CASE IndexAdmits(req[r].mail)
    <3>1. /\ email[u] = None
          /\ email' = [email EXCEPT ![u] = Dialogues[r].mail]
          /\ password' = [password EXCEPT ![u] = Dialogues[r].secret]
          /\ UNCHANGED <<deleted, partial>>
          /\ Moves(r, Locals("mint", req[r].mail, req[r].pw, u))
      BY <1>3, <2>1, TalkIs DEF Create, Goto, Moves
    <3>3. TalkMoves(r, Book!Talk("admitted", Dialogues[r].mail, Dialogues[r].secret, u))
      BY <3>1, TalkFollows, TalkIs, ToldOf
    <3>2. Dialogues[r].state = "joining" /\ ~Book!Belongs(Dialogues[r].mail)
      BY <1>3, <2>1, TalkIs, ToldOf
         DEF Create, At, IndexAdmits, UsersByEmail, Exists, Book!Belongs, Book!Live
    <3> QED
      BY <1>a, <3>1, <3>2, <3>3 DEF Dialogues, TalkMoves, Book!Join, Book!Settle
  <2>2. CASE ~IndexAdmits(req[r].mail)
    BY <1>3, <1>a, <2>2, FinishHangsUp DEF Create, At, tables
  <2> QED
    BY <2>1, <2>2
<1>4. ASSUME NEW r \in Request, NEW a \in Account,
             Exists(a), email[a] = req[r].mail, password[a] = req[r].pw,
             req[r].pc \in {"user", "admin"}, Goto(r, "factor", a),
             UNCHANGED <<tables, partial>>
      PROVE  Steps
  <2>0. Moves(r, Locals("factor", req[r].mail, req[r].pw, a))
    BY <1>4 DEF Goto, Moves
  <2>1. /\ TalkMoves(r, Book!Talk("admitted", Dialogues[r].mail, Dialogues[r].secret, a))
        /\ Dialogues[r].state = "entering"
        /\ email[a] = Dialogues[r].mail /\ password[a] = Dialogues[r].secret
    BY <1>4, <2>0, TalkFollows, TalkIs, ToldOf
  <2>2. Book!Live(a) /\ a \in Book!Holder
    BY <1>4 DEF Exists, Book!Live, Book!Holder, Account
  <2> QED
    BY <1>4, <1>a, <2>1, <2>2 DEF tables, Dialogues, TalkMoves, Book!Admit, Book!Settle
<1>5. ASSUME NEW r \in Request, ReadUser(r) \/ ReadAdmin(r)
      PROVE  Steps
  <2>1. CASE Goto(r, "admin", None) /\ ReadUser(r)
    <3>1. req[r].pc = "user" /\ req[r].acct = None
      BY <2>1 DEF ReadUser, At, IInv, RequestConsistent
    <3>2. Moves(r, Locals("admin", req[r].mail, req[r].pw, req[r].acct))
      BY <2>1, <3>1 DEF Goto, Moves
    <3> QED
      BY <1>b, <2>1, <3>1, <3>2, TalkStays, ToldOf DEF ReadUser
  <2>2. CASE Finish(r) /\ ReadAdmin(r)
    BY <1>a, <2>2, FinishHangsUp DEF ReadAdmin, At
  <2>3. CASE \E u \in Account : /\ Exists(u) /\ email[u] = req[r].mail
                                /\ password[u] = req[r].pw /\ Goto(r, "factor", u)
    BY <1>4, <1>5, <2>3 DEF ReadUser, ReadAdmin, At
  <2> QED
    BY <1>5, <2>1, <2>2, <2>3 DEF ReadUser, ReadAdmin, UsersByEmail, AdminsByEmail, Account
<1>6. ASSUME NEW r \in Request, Factor(r)
      PROVE  Steps
  <2>1. CASE Goto(r, "mint", req[r].acct) /\ UNCHANGED partial
    <3>1. Moves(r, Locals("mint", req[r].mail, req[r].pw, req[r].acct))
      BY <2>1 DEF Goto, Moves
    <3> QED
      BY <1>6, <1>b, <2>1, <3>1, TalkStays, ToldOf DEF Factor, At
  <2>2. CASE /\ partial' = partial \cup {<<req[r].acct, req[r].pw>>}
             /\ Finish(r)
    <3>0. Moves(r, Locals("idle", None, None, None))
      BY <2>2 DEF Finish, Idle, Moves
    <3>1. /\ TalkMoves(r, Book!Silent)
          /\ Dialogues[r].state = "admitted"
          /\ partial' = partial \cup {<<Dialogues[r].who, Dialogues[r].secret>>}
      BY <1>6, <2>2, <3>0, TalkFollows, TalkIs, ToldOf DEF Factor, At, Book!Silent
    <3> QED
      BY <1>6, <1>a, <3>1 DEF Factor, tables, Dialogues, TalkMoves, Book!Vouch
  <2> QED
    BY <1>6, <2>1, <2>2 DEF Factor
<1>7. ASSUME NEW r \in Request, NEW a \in Account, NEW w \in Password,
             BeginComplete(r, a, w)
      PROVE  Steps
  <2>1. /\ req[r] = Idle
        /\ Moves(r, Locals("code", None, w, a))
        /\ <<a, w>> \in partial
    BY <1>7 DEF Moves, BeginComplete, Start, At, IInv, RequestConsistent
  <2>2. /\ TalkMoves(r, Book!Talk("admitted", None, w, a))
        /\ Dialogues[r] = Book!Silent
    BY <2>1, TalkFollows, TalkIs, ToldOf
  <2>3. \E v \in partial : TalkMoves(r, Book!Talk("admitted", None, v[2], v[1]))
    BY <2>1, <2>2
  <2> QED
    BY <1>7, <1>a, <2>2, <2>3 DEF BeginComplete, tables, Dialogues, TalkMoves, Book!Redeem
<1>8. ASSUME NEW r \in Request, ReadById(r)
      PROVE  Steps
  <2>1. CASE Goto(r, "mint", req[r].acct)
    <3>1. Moves(r, Locals("mint", req[r].mail, req[r].pw, req[r].acct))
      BY <2>1 DEF Goto, Moves
    <3> QED
      BY <1>8, <1>b, <3>1, TalkStays, ToldOf DEF ReadById, At
  <2>2. CASE Finish(r)
    BY <1>8, <1>a, <2>2, FinishHangsUp DEF ReadById, At
  <2> QED
    BY <1>8, <2>1, <2>2 DEF ReadById
<1>9. ASSUME NEW r \in Request, End(r)
      PROVE  Steps
  BY <1>9, <1>a, FinishHangsUp DEF End
<1>10. Book!Keep => Steps
  BY DEF Book!DirectoryNext, Steps
<1>11. ASSUME NEW a \in Account,
              \/ Delete(a)
              \/ \E w \in Password : UpdatePasswordHash(a, w) \/ LapsePartial(a, w)
       PROVE  Steps
  <2>1. CASE Delete(a)
    BY <1>10, <2>1 DEF Delete, Account, Book!Keep, Book!Close, Book!Holder, Dialogues
  <2>2. CASE \E w \in Password : UpdatePasswordHash(a, w) \/ LapsePartial(a, w)
    BY <1>10, <2>2 DEF UpdatePasswordHash, LapsePartial, Exists, tables, Account,
       Book!Keep, Book!Replace, Book!Forget, Book!Live, Book!Holder, Dialogues
  <2> QED
    BY <1>11, <2>1, <2>2
<1>12. ASSUME UNCHANGED vars PROVE Steps
  <2>1. Dialogues' = Dialogues
    BY <1>12 DEF vars, Dialogues
  <2>2. UNCHANGED <<tables, partial>>
    BY <1>12 DEF vars
  <2> QED
    BY <1>b, <2>1, <2>2
<1>13. ASSUME NEW r \in Request, NEW x \in Spelling, NEW w \in Password,
             \/ BeginRegister(r, x, w) \/ BeginLoginUser(r, x, w)
             \/ BeginLoginAdmin(r, x, w)
      PROVE  Steps
  BY <1>13, <1>1 DEF BeginRegister, BeginLoginUser, BeginLoginAdmin
<1>14. Steps
  BY <1>13, <1>2, <1>3, <1>5, <1>6, <1>7, <1>8, <1>9, <1>11, <1>12 DEF Next
<1> QED
  BY <1>14 DEF Steps

(* Every run of the service is one of the directory.                       *)
THEOREM ServiceImplementsDirectory == Spec => ImplementsDirectory
BY DirectoryStart, StepDirectory, Invariance, PTL
   DEF Spec, ImplementsDirectory, Book!DirectorySpec
=============================================================================
