------------------------------ MODULE Accounts ------------------------------
(***************************************************************************)
(* Accounts by e-mail: RegisterUser, LoginUser, LoginAdmin and the end of  *)
(* CompleteLogin2FA over the tables users and admins.  A request is a      *)
(* program counter with the locals it carries from one statement to the    *)
(* next, and every statement commits alone: two registrations can both     *)
(* find an e-mail free, an account can be deleted, or its password         *)
(* replaced, while a login that has compared it goes on, and the e-mail of *)
(* a deleted user is free to be registered again.                          *)
(***************************************************************************)
CONSTANTS User,      \* rows of users: ids that uuid.New can draw
          Admin,     \* rows of admins, which another service makes
          Email,     \* e-mails that differ by more than case and blanks
          Password,
          Request,   \* the requests that can be under way at once
          None       \* SQL NULL, Go's nil

ASSUME AccountAssumption ==
  /\ User \cap Admin = {}
  /\ None \notin User \cup Admin \cup Password

Account == User \cup Admin

(* An e-mail as somebody spells it: raw, with capitals or blanks around,   *)
(* or in the form ToLower and TrimSpace give.                              *)
Spelling == [mail : Email, raw : BOOLEAN]

ASSUME SpellingAssumption == None \notin Spelling

(* A registration that forgets the normal form: a mutant. *)
AsTyped(x) == x

Normal(x) == [mail |-> x.mail, raw |-> FALSE]

Stored == {Normal(x) : x \in Spelling}

VARIABLES
  email,     \* e-mail of each account, None without row
  password,  \* password_hash of each account
  deleted,   \* users with deleted_at NOT NULL, admins whose row is gone
  partial,   \* partial tokens not expired: the account and, history, the
             \* password that was given for them
  req        \* the goroutine of each request

tables == <<email, password, deleted>>
vars == <<tables, partial, req>>

(* Where a request stands: before the statement the label names. *)
Labels == {"idle",
           "find",      \* RegisterUser: look the e-mail up
           "conflict",  \* RegisterUser: about to answer ErrConflict
           "create",    \* RegisterUser: insert the row
           "user",      \* LoginUser: read users
           "admin",     \* LoginUser, LoginAdmin: read admins
           "factor",    \* password accepted: partial token or session
           "code",      \* CompleteLogin2FA: read the account by its id
           "mint"}      \* open the session

RequestType == [pc   : Labels,
                mail : Stored \cup {None},
                pw   : Password \cup {None},
                acct : Account \cup {None}]

Locals(label, x, w, a) == [pc |-> label, mail |-> x, pw |-> w, acct |-> a]

Idle == Locals("idle", None, None, None)

At(r, label) == req[r].pc = label

Start(r, label, x, w, a) ==
  At(r, "idle") /\ req' = [req EXCEPT ![r] = Locals(label, x, w, a)]

Goto(r, label, a) ==
  req' = [req EXCEPT ![r] = Locals(label, req[r].mail, req[r].pw, a)]

Finish(r) == req' = [req EXCEPT ![r] = Idle]

TypeOK ==
  /\ email \in [Account -> Stored \cup {None}]
  /\ password \in [Account -> Password \cup {None}]
  /\ deleted \subseteq Account
  /\ partial \subseteq Account \X Password
  /\ req \in [Request -> RequestType]

Init ==
  /\ email \in [Account -> Stored \cup {None}]
  /\ password \in [Account -> Password \cup {None}]
  /\ \A a \in Account : (email[a] = None) = (a \in User)
                        /\ (password[a] = None) = (a \in User)
  /\ deleted = {} /\ partial = {}
  /\ req = [r \in Request |-> Idle]

(***************************************************************************)
(* Queries.                                                                *)
(***************************************************************************)
Exists(a) == email[a] # None /\ a \notin deleted

(* A GetByEmail that lost its deleted_at IS NULL: a mutant. *)
UsersByEmailEver(x) == {u \in User : email[u] = x}

(* UserRepo.GetByEmail finds live users only; AdminRepo.GetByEmail.        *)
UsersByEmail(x) == {u \in User : Exists(u) /\ email[u] = x}

AdminsByEmail(x) == {d \in Admin : Exists(d) /\ email[d] = x}

(* GetByID finds a user deleted or not, an admin only while there.         *)
FoundById(a) == a \in User \/ Exists(a)

(* A database without the migration that makes the index, which the schema *)
(* check at start-up does not look for: a mutant.                          *)
IndexMissing(x) == TRUE

(* The unique index on the e-mails of live users.                          *)
IndexAdmits(x) == UsersByEmail(x) = {}

(***************************************************************************)
(* RegisterUser.                                                           *)
(***************************************************************************)
BeginRegister(r, x, w) ==
  /\ Start(r, "find", Normal(x), w, None)
  /\ UNCHANGED <<tables, partial>>

(* The e-mail is looked up; the error of a lookup that fails is dropped    *)
(* and the e-mail taken for free.  Hashing the password follows.           *)
FindEmail(r) ==
  /\ At(r, "find")
  /\ \/ UsersByEmail(req[r].mail) # {} /\ Goto(r, "conflict", None)
     \/ Goto(r, "create", None)
  /\ UNCHANGED <<tables, partial>>

(* A Create that updates the row the index complains of: a mutant. *)
CreateUpsert(r, u) ==
  /\ At(r, "create")
  /\ \/ email[u] = None /\ IndexAdmits(req[r].mail)
     \/ u \in UsersByEmail(req[r].mail)
  /\ email' = [email EXCEPT ![u] = req[r].mail]
  /\ password' = [password EXCEPT ![u] = req[r].pw]
  /\ Goto(r, "mint", u)
  /\ UNCHANGED <<deleted, partial>>

(* The row is inserted under a fresh id, or the index refuses it and the   *)
(* request ends with that error.                                           *)
Create(r, u) ==
  /\ At(r, "create") /\ email[u] = None
  /\ \/ /\ IndexAdmits(req[r].mail)
        /\ email' = [email EXCEPT ![u] = req[r].mail]
        /\ password' = [password EXCEPT ![u] = req[r].pw]
        /\ Goto(r, "mint", u)
     \/ ~IndexAdmits(req[r].mail) /\ Finish(r) /\ UNCHANGED <<email, password>>
  /\ UNCHANGED <<deleted, partial>>

(***************************************************************************)
(* Logins.  A lookup that fails counts as one that finds nothing.          *)
(***************************************************************************)
BeginLoginUser(r, x, w) ==
  /\ Start(r, "user", Normal(x), w, None)
  /\ UNCHANGED <<tables, partial>>

BeginLoginAdmin(r, x, w) ==
  /\ Start(r, "admin", Normal(x), w, None)
  /\ UNCHANGED <<tables, partial>>

(* The user of the e-mail, if its password is the one given; if not,       *)
(* LoginUser goes on to the admins.                                        *)
ReadUser(r) ==
  /\ At(r, "user")
  /\ \/ \E u \in UsersByEmail(req[r].mail) :
          password[u] = req[r].pw /\ Goto(r, "factor", u)
     \/ Goto(r, "admin", None)
  /\ UNCHANGED <<tables, partial>>

ReadAdmin(r) ==
  /\ At(r, "admin")
  /\ \/ \E d \in AdminsByEmail(req[r].mail) :
          password[d] = req[r].pw /\ Goto(r, "factor", d)
     \/ Finish(r)
  /\ UNCHANGED <<tables, partial>>

(* A second factor or none: a partial token is the answer, or the session  *)
(* is opened at once.                                                      *)
Factor(r) ==
  /\ At(r, "factor")
  /\ \/ Goto(r, "mint", req[r].acct) /\ UNCHANGED partial
     \/ /\ partial' = partial \cup {<<req[r].acct, req[r].pw>>}
        /\ Finish(r)
  /\ UNCHANGED tables

(* CompleteLogin2FA with a partial token and a code that is accepted.      *)
BeginComplete(r, a, w) ==
  /\ <<a, w>> \in partial
  /\ Start(r, "code", None, w, a)
  /\ UNCHANGED <<tables, partial>>

ReadById(r) ==
  /\ At(r, "code")
  /\ \/ FoundById(req[r].acct) /\ Goto(r, "mint", req[r].acct)
     \/ ~FoundById(req[r].acct) /\ Finish(r)
  /\ UNCHANGED <<tables, partial>>

(* The request ends: at "mint" with the session, at "conflict" with that   *)
(* error, and wherever it stands with the error of its statement, a        *)
(* cancelled context or a dead process.                                    *)
End(r) ==
  /\ ~At(r, "idle")
  /\ Finish(r)
  /\ UNCHANGED <<tables, partial>>

(***************************************************************************)
(* What goes on around: deletions by the service that owns the accounts,   *)
(* the UPDATE of a confirmed reset, five minutes.                          *)
(***************************************************************************)
Delete(a) ==
  /\ Exists(a)
  /\ deleted' = deleted \cup {a}
  /\ UNCHANGED <<email, password, partial, req>>

UpdatePasswordHash(a, w) ==
  /\ Exists(a)
  /\ password' = [password EXCEPT ![a] = w]
  /\ UNCHANGED <<email, deleted, partial, req>>

LapsePartial(a, w) ==
  /\ <<a, w>> \in partial
  /\ partial' = partial \ {<<a, w>>}
  /\ UNCHANGED <<tables, req>>

Next ==
  \/ \E r \in Request :
       \/ \E x \in Spelling, w \in Password :
            BeginRegister(r, x, w) \/ BeginLoginUser(r, x, w) \/ BeginLoginAdmin(r, x, w)
       \/ \E a \in Account, w \in Password : BeginComplete(r, a, w)
       \/ \E u \in User : Create(r, u)
       \/ FindEmail(r) \/ ReadUser(r) \/ ReadAdmin(r) \/ Factor(r) \/ ReadById(r) \/ End(r)
  \/ \E a \in Account :
       \/ Delete(a)
       \/ \E w \in Password : UpdatePasswordHash(a, w) \/ LapsePartial(a, w)

Spec == Init /\ [][Next]_vars

(***************************************************************************)
(* Properties.                                                             *)
(***************************************************************************)
(* A registered user is found: however the e-mail is spelled, the query of *)
(* logins and resets finds that one live account and no other, although    *)
(* the check of RegisterUser may be stale or may not have happened, and    *)
(* although deleted users keep the e-mail in their rows.                   *)
RegisteredIsFound ==
  \A u \in User : Exists(u) =>
    \A x \in Spelling : x.mail = email[u].mail => UsersByEmail(Normal(x)) = {u}

(* What has been let in with a password w to the account a: requests that  *)
(* are about to open a session, and partial tokens.                        *)
LetIn(a, w) ==
  \/ <<a, w>> \in partial
  \/ \E r \in Request : req[r].pc \in {"factor", "code", "mint"}
                        /\ req[r].acct = a /\ req[r].pw = w

Opens(a, w) == Exists(a) /\ password[a] = w

(* Entry needs the password: nothing is let in with a password but while   *)
(* that opens the account.  So when a reset replaces a password, or a      *)
(* deletion closes the account, only the logins under way and the partial  *)
(* tokens already out can still open a session, and once these are gone    *)
(* none does, whoever registers the e-mail next.                           *)
EntryNeedsPassword ==
  [][\A a \in Account, w \in Password :
       LetIn(a, w)' => LetIn(a, w) \/ Opens(a, w)']_vars

(* The service is a directory that settles every request in one step: a    *)
(* registration by its insert, a conflict by its lookup, a login by the    *)
(* row that matched.                                                       *)
Told == [idle   |-> "silent",
         find   |-> "joining",  create |-> "joining",  conflict |-> "clash",
         user   |-> "entering", admin  |-> "entering",
         factor |-> "admitted", code   |-> "admitted", mint     |-> "admitted"]

Book == INSTANCE Directory WITH
  Mail <- Stored, mailOf <- email, secretOf <- password,
  closed <- deleted, voucher <- partial,
  talk <- [r \in Request |-> [state |-> Told[req[r].pc], mail |-> req[r].mail,
                              secret |-> req[r].pw, who |-> req[r].acct]]

ImplementsDirectory == Book!DirectorySpec

(***************************************************************************)
(* The inductive invariant.                                                *)
(***************************************************************************)
(* Why RegisteredIsFound holds: the index keeps live e-mails apart.        *)
OneLivePerEmail ==
  \A u, v \in User : Exists(u) /\ Exists(v) /\ email[u] = email[v] => u = v

RowsWhole ==
  /\ \A a \in Account : (email[a] = None) = (password[a] = None)
  /\ \A a \in deleted : email[a] # None

(* A request has the locals its next statement uses, the e-mail normal.    *)
RequestConsistent(r) ==
  /\ req[r].pc = "idle" => req[r] = Idle
  /\ req[r].pc \in {"find", "create", "user", "admin"} =>
       req[r].mail \in Stored /\ req[r].pw \in Password /\ req[r].acct = None
  /\ req[r].pc \in {"factor", "code", "mint"} =>
       req[r].acct \in Account /\ req[r].pw \in Password

IInv ==
  /\ TypeOK /\ RowsWhole /\ OneLivePerEmail
  /\ \A r \in Request : RequestConsistent(r)
=============================================================================
