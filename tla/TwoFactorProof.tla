--------------------------- MODULE TwoFactorProof ---------------------------
(***************************************************************************)
(* Proofs about TwoFactor, for any sets of accounts, enrolments, backup    *)
(* codes and requests: a backup code removed is accepted by nobody who     *)
(* reads the row after, an enrolment replaced is dead, nobody enrolled     *)
(* gets in without a code and nobody is enrolled without having shown one. *)
(***************************************************************************)
EXTENDS TwoFactor, TLAPS

LEMMA InitIInv == Init => IInv
BY TwoFactorAssumption
DEF Init, IInv, TypeOK, RequestType, Labels, Idle, Locals, At, Code,
    RowConsistent, RequestConsistent

(* The steps that move one request and may touch its row.                  *)
LEMMA MoveKeeps ==
  ASSUME IInv, NEW r \in Request, NEW label \in Labels \ {"idle"}, Go(r, label),
         ~At(r, "idle"), UNCHANGED <<gone, issued, accepted>>,
         partial' \subseteq Account, spent' \subseteq accepted \cap (Enrolment \X Backup),
         row' \in [Account -> Row \cup {None}],
         \A a \in Account : RowConsistent(a)',
         label = "factor" => req[r].acc \notin Admin,
         label \notin {"match", "consume"}, ~At(r, "match"),
         label \in {"mark", "account", "ok"} => req[r].code # None,
         label = "mint" /\ req[r].acc \in Admin => req[r].code # None
  PROVE  IInv'
<1> USE DEF IInv, TypeOK
<1>1. req'[r] = [req[r] EXCEPT !.pc = label]
  BY DEF Go
<1>2. req'[r] \in RequestType /\ \A q \in Request \ {r} : req'[q] = req[q]
  BY <1>1 DEF Go, RequestType
<1>3. TypeOK'
  BY <1>2 DEF Go
<1>4. RequestConsistent(r)'
  BY <1>1 DEF RequestConsistent, RequestType, At
<1>5. \A q \in Request : RequestConsistent(q)'
  BY <1>2, <1>4 DEF RequestConsistent, At
<1> QED
  BY <1>3, <1>5

(* The steps that end a request.                                           *)
LEMMA FinishKeeps ==
  ASSUME IInv, NEW r \in Request, Finish(r), UNCHANGED <<row, gone, history>>,
         partial' \subseteq Account
  PROVE  IInv'
<1> USE DEF IInv, TypeOK
<1>1. /\ req'[r] = Idle
      /\ \A q \in Request \ {r} : req'[q] = req[q]
      /\ Idle \in RequestType
  BY DEF Finish, Idle, Locals, RequestType, Labels
<1>2. TypeOK'
  BY <1>1 DEF Finish, history
<1>3. \A q \in Request : RequestConsistent(q)'
  BY <1>1 DEF RequestConsistent, At, history, Idle, Locals
<1> QED
  BY <1>2, <1>3 DEF RowConsistent, history

(* A request that begins, with nothing but itself new.                     *)
LEMMA BeginKeeps ==
  ASSUME IInv, NEW r \in Request, NEW m \in RequestType,
         req' = [req EXCEPT ![r] = m],
         UNCHANGED <<row, partial, gone, history>>,
         m.pc \in {"upsert", "factor", "match"}, m.acc \in Account,
         m.pc = "factor" => m.acc \notin Admin,
         m.code # None <=> m.pc = "match",
         m.code # None => issued[m.code[1]] = m.acc
  PROVE  IInv'
<1> USE DEF IInv, TypeOK, history
<1>1. TypeOK'
  OBVIOUS
<1>2. RequestConsistent(r)'
  BY DEF RequestConsistent, At
<1>3. \A q \in Request : RequestConsistent(q)'
  BY <1>2 DEF RequestConsistent, At
<1> QED
  BY <1>1, <1>3 DEF RowConsistent

LEMMA StepIInv == IInv /\ [Next]_vars => IInv'
<1> SUFFICES ASSUME IInv, [Next]_vars PROVE IInv'
  OBVIOUS
<1> USE DEF IInv, TypeOK, history
<1>1. ASSUME NEW r \in Request, NEW a \in Account, LoginUser(r, a)
      PROVE  IInv'
  <2> DEFINE m == Locals("factor", a, None, TRUE, FALSE)
  <2>1. m \in RequestType /\ m.pc = "factor" /\ m.acc = a /\ m.code = None
    BY DEF Locals, RequestType, Labels
  <2> QED
    BY <1>1, <2>1, BeginKeeps DEF LoginUser
<1>2. ASSUME NEW r \in Request, NEW a \in Account, NEW login \in BOOLEAN,
             BeginEnroll(r, a, login)
      PROVE  IInv'
  <2> DEFINE m == Locals("upsert", a, None, login, FALSE)
  <2>1. m \in RequestType /\ m.pc = "upsert" /\ m.acc = a /\ m.code = None
    BY DEF Locals, RequestType, Labels
  <2> QED
    BY <1>2, <2>1, BeginKeeps DEF BeginEnroll
<1>3. ASSUME NEW r \in Request, NEW a \in Account, NEW login \in BOOLEAN,
             NEW c \in Code, VerifyRead(r, a, c, login)
      PROVE  IInv'
  <2> DEFINE m == Locals("match", a, c, login, ~IsEnrolled(a))
  <2>1. (~IsEnrolled(a)) \in BOOLEAN
    OBVIOUS
  <2>2. m \in RequestType /\ m.pc = "match" /\ m.acc = a /\ m.code = c
    BY <2>1 DEF Locals, RequestType, Labels
  <2>3. issued[c[1]] = a /\ c # None
    BY <1>3, TwoFactorAssumption DEF VerifyRead, Matches, RowConsistent, Code
  <2>4. req' = [req EXCEPT ![r] = m] /\ UNCHANGED <<row, partial, gone, history>>
    BY <1>3 DEF VerifyRead
  <2> HIDE DEF m
  <2> QED
    BY <2>2, <2>3, <2>4, BeginKeeps
<1>4. ASSUME NEW r \in Request, Accept(r)
       PROVE  IInv'
  <2> DEFINE c == req[r].code
             next == AfterConsume(req[r].login, req[r].first)
             label == IF c[2] = Totp THEN next ELSE "consume"
  <2>1. /\ c # None /\ c \in Code /\ issued[c[1]] = req[r].acc
        /\ req[r].acc \in Account /\ ~At(r, "idle")
    BY <1>4 DEF Accept, RequestConsistent, At, RequestType
  <2>2. /\ label \in {"consume", "mark", "account", "ok"}
        /\ label = "consume" => c[2] \in Backup
    BY <2>1 DEF AfterConsume, AfterMark, Code
  <2>3. /\ req'[r] = [req[r] EXCEPT !.pc = label]
        /\ \A q \in Request \ {r} : req'[q] = req[q]
    BY <1>4 DEF Accept, Go
  <2>4. /\ accepted' = accepted \cup {c}
        /\ UNCHANGED <<row, partial, gone, issued, spent>>
    BY <1>4 DEF Accept
  <2> HIDE DEF label
  <2>5. req'[r] \in RequestType
    BY <2>2, <2>3 DEF RequestType, Labels
  <2>6. TypeOK'
    BY <1>4, <2>1, <2>3, <2>4, <2>5 DEF Accept, Go
  <2>7. RequestConsistent(r)'
    BY <2>1, <2>2, <2>3, <2>4 DEF RequestConsistent, RequestType, At
  <2>8. \A q \in Request : RequestConsistent(q)'
    BY <2>3, <2>4, <2>7 DEF RequestConsistent, At
  <2>9. \A d \in accepted' : issued'[d[1]] # None
    BY <2>1, <2>4, TwoFactorAssumption
  <2> QED
    BY <2>4, <2>6, <2>8, <2>9 DEF RowConsistent
<1>5. ASSUME NEW r \in Request, NEW e \in Enrolment, Upsert(r, e)
      PROVE  IInv'
  <2> DEFINE a == req[r].acc
             new == NewRow(e)
  <2>1. a \in Account /\ new \in Row
    BY <1>5 DEF Upsert, RequestConsistent, At, Row, RequestType, NewRow
  <2>2. /\ req'[r] = Idle /\ Idle \in RequestType
        /\ \A q \in Request \ {r} : req'[q] = req[q]
    BY <1>5 DEF Upsert, Finish, Idle, Locals, RequestType, Labels
  <2>3. issued'[e] = a /\ \A d \in Enrolment \ {e} : issued'[d] = issued[d]
    BY <1>5 DEF Upsert
  <2>4. row'[a] = new /\ \A b \in Account \ {a} : row'[b] = row[b]
    BY <1>5, <2>1 DEF Upsert
  <2>5. \A c \in accepted : c[1] # e /\ c[1] \in Enrolment
    BY <1>5 DEF Upsert, Code
  <2>6. TypeOK'
    BY <1>5, <2>1, <2>2 DEF Upsert, Finish
  <2>7. \A b \in Account : RowConsistent(b)'
    <3>1. ASSUME NEW b \in Backup PROVE <<e, b>> \notin spent
      BY <2>5
    <3>2. ASSUME NEW b \in Account, b = a PROVE RowConsistent(b)'
      BY <1>5, <2>3, <2>4, <3>1, <3>2 DEF RowConsistent, Upsert, NewRow
    <3>3. ASSUME NEW b \in Account \ {a} PROVE RowConsistent(b)'
      <4>1. row[b] # None => row[b].secret # e /\ row[b].secret \in Enrolment
        BY <1>5, TwoFactorAssumption DEF Upsert, RowConsistent, Row
      <4> QED
        BY <1>5, <2>3, <2>4, <4>1 DEF RowConsistent, Upsert
    <3> QED
      BY <3>2, <3>3
  <2>8. \A q \in Request : RequestConsistent(q)'
    <3>1. RequestConsistent(r)'
      BY <2>2 DEF RequestConsistent, At, Idle, Locals
    <3>2. ASSUME NEW q \in Request \ {r} PROVE RequestConsistent(q)'
      <4>1. req[q].code # None => issued'[req[q].code[1]] = issued[req[q].code[1]]
        BY <1>5, <2>3, TwoFactorAssumption
        DEF Upsert, RequestConsistent, RequestType, Code, At
      <4>2. req'[q] = req[q] /\ UNCHANGED accepted
        BY <1>5, <2>2 DEF Upsert
      <4> QED
        BY <4>1, <4>2 DEF RequestConsistent, At
    <3> QED
      BY <3>1, <3>2
  <2>9. \A c \in accepted' : issued'[c[1]] # None
    BY <1>5, <2>3, <2>5 DEF Upsert
  <2> QED
    BY <2>6, <2>7, <2>8, <2>9
<1>6. ASSUME NEW r \in Request, ReadFactor(r)
      PROVE  IInv'
  <2>1. /\ req[r].acc \in Account \ Admin /\ req[r].code \in Code \cup {None}
        /\ ~At(r, "idle") /\ ~At(r, "match")
    BY <1>6 DEF ReadFactor, RequestConsistent, At, RequestType
  <2>2. CASE NeedsCode(req[r].acc) /\ partial' = partial \cup {req[r].acc} /\ Finish(r)
    BY <1>6, <2>1, <2>2, FinishKeeps DEF ReadFactor
  <2>3. CASE Go(r, "mint") /\ UNCHANGED partial
    BY <1>6, <2>1, <2>3, MoveKeeps DEF ReadFactor, Labels, RowConsistent
  <2>4. CASE /\ req' = [req EXCEPT ![r] = [@ EXCEPT !.pc = "mint", !.blind = TRUE]]
             /\ UNCHANGED partial
    <3>1. req'[r] = [req[r] EXCEPT !.pc = "mint", !.blind = TRUE]
      BY <2>4
    <3>2. req'[r] \in RequestType /\ \A q \in Request \ {r} : req'[q] = req[q]
      BY <2>4, <3>1 DEF RequestType, Labels
    <3>3. TypeOK'
      BY <1>6, <2>4, <3>2 DEF ReadFactor
    <3>4. RequestConsistent(r)'
      BY <1>6, <2>1, <3>1 DEF ReadFactor, RequestConsistent, RequestType, At
    <3>5. \A q \in Request : RequestConsistent(q)'
      BY <1>6, <3>2, <3>4 DEF ReadFactor, RequestConsistent, At
    <3> QED
      BY <1>6, <3>3, <3>5 DEF ReadFactor, RowConsistent
  <2> QED
    BY <1>6, <2>2, <2>3, <2>4 DEF ReadFactor
<1>7. ASSUME NEW r \in Request, Consume(r)
      PROVE  IInv'
  <2> DEFINE a == req[r].acc
             c == req[r].code
             label == AfterConsume(req[r].login, req[r].first)
  <2>1. /\ a \in Account /\ c \in accepted /\ c \in Code
        /\ c # None /\ ~At(r, "idle") /\ ~At(r, "match")
        /\ req[r].login \in BOOLEAN /\ req[r].first \in BOOLEAN
        /\ c \in Enrolment \X Backup
    BY <1>7 DEF Consume, RequestConsistent, At, RequestType, Code
  <2>2. label \in {"mark", "account", "ok"}
    BY <2>1 DEF AfterConsume, AfterMark
  <2>3. CASE UNCHANGED <<row, spent>>
    BY <1>7, <2>1, <2>2, <2>3, MoveKeeps DEF Consume, Labels, RowConsistent
  <2>4. CASE /\ row[a] # None /\ row[a].secret = c[1]
             /\ row' = [row EXCEPT ![a].codes = @ \ {c[2]}]
             /\ spent' = spent \cup {c}
    <3>1. row[a] \in Row /\ row'[a] = [row[a] EXCEPT !.codes = row[a].codes \ {c[2]}]
      BY <2>1, <2>4
    <3>2. /\ row'[a] \in Row /\ row'[a].secret = row[a].secret
          /\ row'[a].codes = row[a].codes \ {c[2]}
          /\ \A b \in Account \ {a} : row'[b] = row[b]
      BY <2>4, <3>1 DEF Row
    <3>3. row' \in [Account -> Row \cup {None}]
      BY <2>4, <3>2
    <3>4. c = <<c[1], c[2]>> /\ UNCHANGED issued
      BY <1>7, <2>1 DEF Code, Consume
    <3>5. ASSUME NEW d \in Account, d = a PROVE RowConsistent(d)'
      <4>1. ASSUME NEW b \in row[a].codes \ {c[2]}
            PROVE  <<row[a].secret, b>> \notin spent /\ <<row[a].secret, b>> # c
        BY <2>1, <2>4, <3>4, <4>1 DEF RowConsistent
      <4> QED
        BY <2>1, <2>4, <3>2, <3>4, <3>5, <4>1 DEF RowConsistent
    <3>6. ASSUME NEW b \in Account \ {a} PROVE RowConsistent(b)'
      <4>1. row[b] # None => row[b].secret # c[1]
        BY <2>1, <2>4 DEF RowConsistent
      <4> QED
        BY <2>4, <3>2, <3>4, <4>1 DEF RowConsistent
    <3>7. \A b \in Account : RowConsistent(b)'
      BY <3>5, <3>6
    <3> QED
      BY <1>7, <2>1, <2>2, <2>4, <3>3, <3>7, MoveKeeps DEF Consume, Labels
  <2> QED
    BY <1>7, <2>3, <2>4 DEF Consume
<1>8. ASSUME NEW r \in Request, MarkEnrolled(r)
      PROVE  IInv'
  <2> DEFINE a == req[r].acc
             label == AfterMark(req[r].login)
  <2>1. /\ a \in Account /\ req[r].code # None /\ ~At(r, "idle") /\ ~At(r, "match")
        /\ label \in {"account", "ok"}
    BY <1>8 DEF MarkEnrolled, RequestConsistent, At, AfterMark
  <2>2. CASE UNCHANGED row
    BY <1>8, <2>1, <2>2, MoveKeeps DEF MarkEnrolled, Labels, RowConsistent
  <2>3. CASE row[a] # None /\ row' = [row EXCEPT ![a].enrolled = TRUE]
    <3>1. row[a] \in Row /\ row'[a] = [row[a] EXCEPT !.enrolled = TRUE]
      BY <2>1, <2>3
    <3>2. /\ row'[a] \in Row /\ row'[a].secret = row[a].secret
          /\ row'[a].codes = row[a].codes
          /\ \A b \in Account \ {a} : row'[b] = row[b]
      BY <2>3, <3>1 DEF Row
    <3>3. row' \in [Account -> Row \cup {None}]
      BY <2>3, <3>2
    <3>4. \A b \in Account : RowConsistent(b)'
      BY <1>8, <2>3, <3>2 DEF RowConsistent, MarkEnrolled
    <3> QED
      BY <1>8, <2>1, <3>3, <3>4, MoveKeeps DEF MarkEnrolled, Labels
  <2> QED
    BY <1>8, <2>2, <2>3 DEF MarkEnrolled
<1>9. ASSUME NEW r \in Request, ReadAccount(r)
      PROVE  IInv'
  <2>1. ~At(r, "idle") /\ ~At(r, "match") /\ req[r].code # None
    BY <1>9 DEF ReadAccount, RequestConsistent, At
  <2> QED
    BY <1>9, <2>1, MoveKeeps, FinishKeeps DEF ReadAccount, Labels, RowConsistent
<1>10. ASSUME NEW r \in Request, Mint(r)
       PROVE  IInv'
  <2>1. ~At(r, "idle") /\ ~At(r, "match")
    BY <1>10 DEF Mint, At
  <2> QED
    BY <1>10, <2>1, MoveKeeps DEF Mint, Labels, RowConsistent
<1>11. ASSUME NEW r \in Request, Stop(r)
       PROVE  IInv'
  BY <1>11, FinishKeeps DEF Stop
<1>12. ASSUME NEW a \in Account, Disable(a)
       PROVE  IInv'
  BY <1>12 DEF Disable, RowConsistent, RequestConsistent, At
<1>13. ASSUME NEW a \in Account, LoginAdmin(a) \/ DeleteAccount(a)
       PROVE  IInv'
  BY <1>13 DEF LoginAdmin, DeleteAccount, RowConsistent, RequestConsistent, At
<1>14. CASE UNCHANGED vars
  BY <1>14 DEF vars, RowConsistent, RequestConsistent, At
<1> QED
  BY <1>1, <1>2, <1>3, <1>4, <1>5, <1>6, <1>7, <1>8, <1>9, <1>10, <1>11, <1>12,
     <1>13, <1>14 DEF Next

(* The inductive invariant: rows, partial tokens, requests and the history *)
(* of spent and accepted codes fit together.                               *)
THEOREM Invariance == Spec => []IInv
<1>1. IInv /\ [Next]_vars => IInv'
  BY StepIInv
<1> QED
  BY InitIInv, <1>1, PTL DEF Spec

(* An account that counts as enrolled has shown a code of an enrolment of  *)
(* its own: the mark is reached with a code accepted, which stays accepted *)
(* and stays the account's.                                                *)
THEOREM EnrolledShowed == Spec => []EnrolledShowedACode
<1>1. Init => EnrolledShowedACode
  BY DEF Init, EnrolledShowedACode, IsEnrolled
<1>2. ASSUME IInv, EnrolledShowedACode, [Next]_vars
      PROVE  EnrolledShowedACode'
  <2> USE <1>2 DEF IInv, TypeOK, history
  <2> SUFFICES ASSUME NEW a \in Account, IsEnrolled(a)'
               PROVE  \E c \in accepted' : issued'[c[1]] = a
    BY DEF EnrolledShowedACode
  <2>1. /\ accepted \subseteq accepted'
        /\ \A c \in accepted : issued'[c[1]] = issued[c[1]]
    <3>1. ASSUME NEW r \in Request, NEW e \in Enrolment, Upsert(r, e)
          PROVE  accepted' = accepted /\ \A c \in accepted : issued'[c[1]] = issued[c[1]]
      BY <3>1 DEF Upsert, Code
    <3>2. ASSUME NEW r \in Request, NEW b \in Account, NEW login \in BOOLEAN,
                 \/ LoginUser(r, b) \/ BeginEnroll(r, b, login)
                 \/ \E c \in Code : VerifyRead(r, b, c, login)
          PROVE  accepted \subseteq accepted' /\ UNCHANGED issued
      BY <3>2 DEF LoginUser, BeginEnroll, VerifyRead
    <3>3. ASSUME NEW r \in Request,
                 \/ ReadFactor(r) \/ Accept(r) \/ Consume(r) \/ MarkEnrolled(r)
                 \/ ReadAccount(r) \/ Mint(r) \/ Stop(r)
          PROVE  accepted \subseteq accepted' /\ UNCHANGED issued
      BY <3>3 DEF ReadFactor, Accept, Consume, MarkEnrolled, ReadAccount, Mint, Stop
    <3>4. ASSUME NEW b \in Account, Disable(b) \/ LoginAdmin(b) \/ DeleteAccount(b)
          PROVE  UNCHANGED <<accepted, issued>>
      BY <3>4 DEF Disable, LoginAdmin, DeleteAccount
    <3> QED
      BY <3>1, <3>2, <3>3, <3>4 DEF Next, vars
  <2>2. \/ IsEnrolled(a)
        \/ \E r \in Request : MarkEnrolled(r) /\ req[r].acc = a
    <3>1. ASSUME NEW r \in Request, NEW e \in Enrolment, Upsert(r, e)
          PROVE  IsEnrolled(a)
      BY <3>1 DEF Upsert, NewRow, IsEnrolled
    <3>2. ASSUME NEW r \in Request, Consume(r)
          PROVE  IsEnrolled(a)
      BY <3>2 DEF Consume, IsEnrolled, Row
    <3>3. ASSUME NEW r \in Request, MarkEnrolled(r)
          PROVE  IsEnrolled(a) \/ req[r].acc = a
      BY <3>3 DEF MarkEnrolled, IsEnrolled
    <3>4. ASSUME NEW b \in Account, Disable(b)
          PROVE  IsEnrolled(a)
      BY <3>4 DEF Disable, IsEnrolled
    <3>5. ASSUME UNCHANGED row
          PROVE  IsEnrolled(a)
      BY <3>5 DEF IsEnrolled
    <3>6. ASSUME NEW b \in Account,
                 \/ LoginAdmin(b) \/ DeleteAccount(b)
                 \/ \E r \in Request : LoginUser(r, b)
                 \/ \E r \in Request, login \in BOOLEAN :
                      \/ BeginEnroll(r, b, login)
                      \/ \E c \in Code : VerifyRead(r, b, c, login)
          PROVE  UNCHANGED row
      BY <3>6 DEF LoginUser, BeginEnroll, VerifyRead, LoginAdmin, DeleteAccount
    <3>7. ASSUME NEW r \in Request,
                 ReadFactor(r) \/ Accept(r) \/ ReadAccount(r) \/ Mint(r) \/ Stop(r)
          PROVE  UNCHANGED row
      BY <3>7 DEF ReadFactor, Accept, ReadAccount, Mint, Stop
    <3> QED
      BY <3>1, <3>2, <3>3, <3>4, <3>5, <3>6, <3>7 DEF Next, vars
  <2>3. CASE IsEnrolled(a)
    BY <2>1, <2>3 DEF EnrolledShowedACode
  <2>4. CASE \E r \in Request : MarkEnrolled(r) /\ req[r].acc = a
    <3>1. PICK r \in Request : MarkEnrolled(r) /\ req[r].acc = a
      BY <2>4
    <3>2. req[r].code \in accepted /\ issued[req[r].code[1]] = a
      BY <3>1 DEF MarkEnrolled, At, RequestConsistent
    <3> QED
      BY <2>1, <3>2
  <2> QED
    BY <2>2, <2>3, <2>4
<1> QED
  BY Invariance, <1>1, <1>2, PTL DEF Spec

(* The steps of a request other than r, or of none, leave r alone; its own *)
(* change its code only to drop it, or by a verification.                  *)
LEMMA CodeFromVerify ==
  ASSUME IInv, [Next]_vars, NEW r \in Request, req'[r].code # None
  PROVE  \/ req'[r].code = req[r].code
         \/ \E a \in Account, login \in BOOLEAN :
              req'[r].code \in Code /\ VerifyRead(r, a, req'[r].code, login)
<1> USE DEF IInv, TypeOK
<1>1. ASSUME NEW q \in Request, NEW m, req' = [req EXCEPT ![q] = m],
             m.code = None \/ m.code = req[q].code
      PROVE  req'[r].code = req[r].code
  BY <1>1
<1>2. ASSUME NEW q \in Request, NEW label, Go(q, label) \/ Finish(q)
      PROVE  req'[r].code = req[r].code
  BY <1>2 DEF Go, Finish, Idle, Locals, RequestType
<1>3. ASSUME NEW q \in Request,
             \/ \E e \in Enrolment : Upsert(q, e)
             \/ Accept(q) \/ Consume(q) \/ MarkEnrolled(q) \/ ReadAccount(q)
             \/ Mint(q) \/ Stop(q)
      PROVE  req'[r].code = req[r].code
  BY <1>2, <1>3 DEF Upsert, Accept, Consume, MarkEnrolled, ReadAccount, Mint, Stop
<1>4. ASSUME NEW q \in Request, ReadFactor(q)
      PROVE  req'[r].code = req[r].code
  BY <1>1, <1>2, <1>4 DEF ReadFactor, RequestType
<1>5. ASSUME NEW q \in Request, NEW a \in Account, NEW login \in BOOLEAN,
             LoginUser(q, a) \/ BeginEnroll(q, a, login)
      PROVE  req'[r].code = req[r].code
  BY <1>1, <1>5 DEF LoginUser, BeginEnroll, Locals
<1>6. ASSUME NEW q \in Request, NEW a \in Account, NEW login \in BOOLEAN,
             NEW c \in Code, VerifyRead(q, a, c, login)
      PROVE  \/ req'[r].code = req[r].code
             \/ q = r /\ req'[r].code = c
  BY <1>6 DEF VerifyRead, Locals
<1>7. ASSUME NEW a \in Account, Disable(a) \/ LoginAdmin(a) \/ DeleteAccount(a)
      PROVE  req'[r].code = req[r].code
  BY <1>7 DEF Disable, LoginAdmin, DeleteAccount
<1>8. CASE UNCHANGED vars
  BY <1>8 DEF vars
<1> QED
  BY <1>3, <1>4, <1>5, <1>6, <1>7, <1>8 DEF Next

(* Nobody who reads the row of an account after a backup code was removed  *)
(* from it gets that code accepted.                                        *)
THEOREM SpentCodesDrain == Spec => SpentDrains
<1>1. ASSUME IInv, [Next]_vars, NEW c \in spent, NEW r \in Comparing(c)'
      PROVE  r \in Comparing(c)
  <2> USE <1>1 DEF IInv, TypeOK, Comparing, At
  <2>1. c = <<c[1], c[2]>> /\ c # None /\ c[2] # Totp
    BY TwoFactorAssumption
  <2>2. CASE req'[r].code = req[r].code
    <3>1. ASSUME NEW q \in Request, NEW m, req' = [req EXCEPT ![q] = m],
                 m.pc # "match" \/ m.code # c
          PROVE  r \in Comparing(c)
      BY <2>2, <3>1
    <3>2. ASSUME NEW q \in Request, NEW label, Go(q, label), label # "match"
          PROVE  r \in Comparing(c)
      BY <2>2, <3>2 DEF Go, RequestType
    <3>3. ASSUME NEW q \in Request, Finish(q)
          PROVE  r \in Comparing(c)
      BY <3>1, <3>3 DEF Finish, Idle, Locals
    <3>4. ASSUME NEW q \in Request, NEW a \in Account, NEW login \in BOOLEAN,
                 LoginUser(q, a) \/ BeginEnroll(q, a, login)
          PROVE  r \in Comparing(c)
      BY <3>1, <3>4 DEF LoginUser, BeginEnroll, Locals
    <3>5. ASSUME NEW q \in Request, NEW a \in Account, NEW login \in BOOLEAN,
                 NEW d \in Code, VerifyRead(q, a, d, login)
          PROVE  r \in Comparing(c)
      <4>1. d # c
        BY <2>1, <3>5 DEF VerifyRead, Matches, RowConsistent
      <4> QED
        BY <3>1, <3>5, <4>1 DEF VerifyRead, Locals
    <3>6. ASSUME NEW q \in Request,
                 \/ \E e \in Enrolment : Upsert(q, e)
                 \/ Accept(q) \/ Consume(q) \/ MarkEnrolled(q)
                 \/ ReadAccount(q) \/ Mint(q) \/ Stop(q)
          PROVE  r \in Comparing(c)
      BY <3>2, <3>3, <3>6 DEF Upsert, Accept, Consume, MarkEnrolled, ReadAccount,
         Mint, Stop, AfterConsume, AfterMark
    <3>7. ASSUME NEW q \in Request, ReadFactor(q)
          PROVE  r \in Comparing(c)
      <4>1. CASE req' = [req EXCEPT ![q] = [@ EXCEPT !.pc = "mint", !.blind = TRUE]]
        BY <4>1 DEF RequestType
      <4> QED
        BY <3>2, <3>3, <3>7, <4>1 DEF ReadFactor
    <3>8. ASSUME NEW a \in Account, Disable(a) \/ LoginAdmin(a) \/ DeleteAccount(a)
          PROVE  r \in Comparing(c)
      BY <3>8 DEF Disable, LoginAdmin, DeleteAccount
    <3>9. CASE UNCHANGED vars
      BY <3>9 DEF vars
    <3> QED
      BY <3>4, <3>5, <3>6, <3>7, <3>8, <3>9 DEF Next
  <2>3. ASSUME NEW a \in Account, NEW login \in BOOLEAN, VerifyRead(r, a, c, login)
        PROVE  FALSE
    BY <2>1, <2>3 DEF VerifyRead, Matches, RowConsistent
  <2> QED
    BY <2>1, <2>2, <2>3, CodeFromVerify
<1>2. IInv /\ [Next]_vars =>
        [\A c \in spent : Comparing(c)' \subseteq Comparing(c)]_vars
  BY <1>1
<1> QED
  BY Invariance, <1>2, PTL DEF Spec, SpentDrains

(* An enrolment replaced or removed is dead.                               *)
THEOREM ReplacedEnrolmentsDrain == Spec => ReplacedDrains
<1>1. ASSUME IInv, [Next]_vars, NEW e \in Enrolment, issued[e] # None, ~Current(e)
      PROVE  issued'[e] = issued[e] /\ ~Current(e)'
  <2> USE <1>1 DEF IInv, TypeOK
  <2>1. ASSUME NEW r \in Request, NEW d \in Enrolment, Upsert(r, d)
        PROVE  issued'[e] = issued[e] /\ ~Current(e)'
    <3>1. d # e /\ issued' = [issued EXCEPT ![d] = req[r].acc]
      BY <2>1 DEF Upsert
    <3>2. \A a \in Account : row'[a] = row[a] \/ row'[a].secret = d
      BY <2>1 DEF Upsert, NewRow
    <3> QED
      BY <3>1, <3>2 DEF Current
  <2>2. ASSUME UNCHANGED issued,
               \A a \in Account : \/ row'[a] = row[a]
                                  \/ row'[a] = None
                                  \/ row[a] # None /\ row'[a].secret = row[a].secret
        PROVE  issued'[e] = issued[e] /\ ~Current(e)'
    BY <2>2 DEF Current
  <2>3. ASSUME NEW r \in Request, Consume(r) \/ MarkEnrolled(r)
        PROVE  issued'[e] = issued[e] /\ ~Current(e)'
    <3>1. UNCHANGED issued
      BY <2>3 DEF Consume, MarkEnrolled, history
    <3>2. \A a \in Account : \/ row'[a] = row[a]
                             \/ row[a] # None /\ row'[a].secret = row[a].secret
      <4> SUFFICES ASSUME NEW a \in Account, row'[a] # row[a]
                   PROVE  row[a] # None /\ row'[a].secret = row[a].secret
        OBVIOUS
      <4>1. CASE Consume(r)
        <5>1. a = req[r].acc /\ row[a] # None
              /\ row' = [row EXCEPT ![a].codes = @ \ {req[r].code[2]}]
          BY <4>1 DEF Consume
        <5> QED
          BY <5>1 DEF Row
      <4>2. CASE MarkEnrolled(r)
        <5>1. a = req[r].acc /\ row[a] # None /\ row' = [row EXCEPT ![a].enrolled = TRUE]
          BY <4>2 DEF MarkEnrolled
        <5> QED
          BY <5>1 DEF Row
      <4> QED
        BY <2>3, <4>1, <4>2
    <3> QED
      BY <2>2, <3>1, <3>2
  <2>4. ASSUME NEW a \in Account, Disable(a)
        PROVE  issued'[e] = issued[e] /\ ~Current(e)'
    BY <2>2, <2>4 DEF Disable, history
  <2>5. ASSUME UNCHANGED <<row, issued>>
        PROVE  issued'[e] = issued[e] /\ ~Current(e)'
    BY <2>5 DEF Current
  <2>6. ASSUME NEW a \in Account,
               \/ LoginAdmin(a) \/ DeleteAccount(a)
               \/ \E r \in Request : LoginUser(r, a)
               \/ \E r \in Request, login \in BOOLEAN :
                    \/ BeginEnroll(r, a, login)
                    \/ \E c \in Code : VerifyRead(r, a, c, login)
        PROVE  UNCHANGED <<row, issued>>
    BY <2>6 DEF LoginUser, BeginEnroll, VerifyRead, LoginAdmin, DeleteAccount, history
  <2>7. ASSUME NEW r \in Request,
               ReadFactor(r) \/ Accept(r) \/ ReadAccount(r) \/ Mint(r) \/ Stop(r)
        PROVE  UNCHANGED <<row, issued>>
    BY <2>7 DEF ReadFactor, Accept, ReadAccount, Mint, Stop, history
  <2>8. CASE UNCHANGED vars
    BY <2>5, <2>8 DEF vars, history
  <2> QED
    BY <2>1, <2>3, <2>4, <2>5, <2>6, <2>7, <2>8 DEF Next
<1>2. ASSUME IInv, [Next]_vars, NEW e \in Enrolment, issued[e] # None,
             ~Current(e), InUse(e)'
      PROVE  InUse(e)
  <2>1. PICK r \in Request : req'[r].code # None /\ req'[r].code[1] = e
    BY <1>2 DEF InUse
  <2>2. CASE req'[r].code = req[r].code
    BY <2>1, <2>2 DEF InUse
  <2>3. CASE \E a \in Account, login \in BOOLEAN :
               VerifyRead(r, a, req'[r].code, login)
    BY <1>2, <2>1, <2>3 DEF VerifyRead, Matches, Current, IInv, RowConsistent
  <2> QED
    BY <1>2, <2>1, <2>2, <2>3, CodeFromVerify
<1>3. IInv /\ [Next]_vars =>
        [\A e \in Enrolment : issued[e] # None /\ ~Current(e) =>
           /\ ~Current(e)'
           /\ ~InUse(e) => ~InUse(e)']_vars
  BY <1>1, <1>2
<1> QED
  BY Invariance, <1>3, PTL DEF Spec, ReplacedDrains

(* Nobody enrolled gets in without a code, and no admin ever.              *)
THEOREM EnrolledAccountsDrain == Spec => EnrolledDrains
<1>1. ASSUME IInv, [Next]_vars, NEW a \in Account, IsEnrolled(a),
             NEW r \in Request, r \in Bare(a)'
      PROVE  r \in Bare(a)
  <2> USE <1>1 DEF IInv, TypeOK, Bare, At
  <2>1. ASSUME req'[r] = req[r]
        PROVE  r \in Bare(a)
    BY <2>1
  <2>2. ASSUME NEW q \in Request, NEW m, req' = [req EXCEPT ![q] = m],
               m.pc # "mint" \/ m.code # None \/ m.blind
        PROVE  r \in Bare(a)
    BY <2>2
  <2>3. ASSUME NEW q \in Request, NEW label, Go(q, label), label # "mint"
        PROVE  r \in Bare(a)
    BY <2>3 DEF Go, RequestType
  <2>4. ASSUME NEW q \in Request, Finish(q)
        PROVE  r \in Bare(a)
    BY <2>2, <2>4 DEF Finish, Idle, Locals
  <2>5. ASSUME NEW q \in Request, NEW b \in Account, NEW login \in BOOLEAN,
               \/ LoginUser(q, b) \/ BeginEnroll(q, b, login)
               \/ \E c \in Code : VerifyRead(q, b, c, login)
        PROVE  r \in Bare(a)
    BY <2>2, <2>5 DEF LoginUser, BeginEnroll, VerifyRead, Locals, AfterConsume,
       AfterMark
  <2>6. ASSUME NEW q \in Request,
               \/ \E e \in Enrolment : Upsert(q, e)
               \/ Accept(q) \/ Consume(q) \/ MarkEnrolled(q) \/ Mint(q) \/ Stop(q)
        PROVE  r \in Bare(a)
    BY <2>3, <2>4, <2>6 DEF Upsert, Accept, Consume, MarkEnrolled, Mint, Stop,
       AfterConsume, AfterMark
  <2>7. ASSUME NEW q \in Request, ReadFactor(q)
        PROVE  r \in Bare(a)
    <3>1. CASE Finish(q)
      BY <2>4, <3>1
    <3>2. CASE req' = [req EXCEPT ![q] = [@ EXCEPT !.pc = "mint", !.blind = TRUE]]
      BY <3>2 DEF RequestType
    <3>3. CASE ~NeedsCode(req[q].acc) /\ Go(q, "mint")
      BY <3>3 DEF Go, NeedsCode, RequestType
    <3> QED
      BY <2>7, <3>1, <3>2, <3>3 DEF ReadFactor
  <2>8. ASSUME NEW q \in Request, ReadAccount(q)
        PROVE  r \in Bare(a)
    <3>1. CASE Finish(q)
      BY <2>4, <3>1
    <3>2. CASE Go(q, "mint")
      <4>1. req[q].code # None
        BY <2>8 DEF ReadAccount, RequestConsistent
      <4> QED
        BY <3>2, <4>1 DEF Go, RequestType
    <3> QED
      BY <2>8, <3>1, <3>2 DEF ReadAccount
  <2>9. ASSUME NEW b \in Account, Disable(b) \/ LoginAdmin(b) \/ DeleteAccount(b)
        PROVE  r \in Bare(a)
    BY <2>9 DEF Disable, LoginAdmin, DeleteAccount
  <2>10. CASE UNCHANGED vars
    BY <2>10 DEF vars
  <2> QED
    BY <2>5, <2>6, <2>7, <2>8, <2>9, <2>10 DEF Next
<1>2. IInv /\ [Next]_vars =>
        [/\ \A a \in Account : IsEnrolled(a) /\ Bare(a) = {} => Bare(a)' = {}
         /\ \A r \in Request : req[r].acc \in Admin /\ At(r, "mint") =>
              req[r].code # None]_vars
  <2> SUFFICES ASSUME IInv, [Next]_vars
               PROVE  /\ \A a \in Account :
                           IsEnrolled(a) /\ Bare(a) = {} => Bare(a)' = {}
                      /\ \A r \in Request : req[r].acc \in Admin /\ At(r, "mint") =>
                           req[r].code # None
    OBVIOUS
  <2>1. \A a \in Account : Bare(a)' \subseteq Request
    BY DEF Bare
  <2>2. ASSUME NEW a \in Account, IsEnrolled(a), Bare(a) = {}
        PROVE  Bare(a)' = {}
    BY <1>1, <2>1, <2>2
  <2> QED
    BY <2>2 DEF IInv, RequestConsistent
<1> QED
  BY Invariance, <1>2, PTL DEF Spec, EnrolledDrains
=============================================================================
