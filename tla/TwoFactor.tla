----------------------------- MODULE TwoFactor -----------------------------
(***************************************************************************)
(* The second factor: enrolment, verification and removal over the tables  *)
(* user_2fa and admin_2fa (one row per account, the two alike), and the    *)
(* logins that ask for it.  Verify2FA reads the row once and then acts on  *)
(* what it read: it removes the backup code, marks the row enrolled, lets  *)
(* the login go on, each with a statement that does not look whether the   *)
(* row is still the one that was read.                                     *)
(*                                                                         *)
(* An enrolment stands for the secret and the backup codes drawn together. *)
(* A code is a pair of the enrolment it comes from and the backup code, or *)
(* Totp for what an authenticator holding the secret shows; a code that    *)
(* matches nothing is refused and changes nothing.  Decryption and bcrypt  *)
(* are exact.  A partial token serves for some minutes, any number of      *)
(* times: it is here from its issue on.                                    *)
(***************************************************************************)
CONSTANTS Account,    \* users, and admins with requires_2fa
          Admin,      \* the admins among them
          Enrolment,  \* enrolments that can be made
          Backup,     \* backup codes of an enrolment
          Request,    \* requests that can be under way at once
          Totp,       \* the code an authenticator shows
          None        \* SQL NULL

ASSUME TwoFactorAssumption ==
  /\ Admin \subseteq Account
  /\ Totp \notin Backup
  /\ None \notin Account /\ None \notin Enrolment \X (Backup \cup {Totp})

VARIABLES
  row,       \* the row of each account, None without
  issued,    \* history: the account each enrolment was made for
  partial,   \* accounts a partial token was issued for
  gone,      \* users soft-deleted, admins deleted
  req,       \* the goroutine of each request
  accepted,  \* history: codes accepted
  spent      \* history: backup codes removed by ConsumeBackupCode

history == <<issued, accepted, spent>>
vars == <<row, partial, gone, req, history>>

Code == Enrolment \X (Backup \cup {Totp})

Row == [secret : Enrolment, codes : SUBSET Backup, enrolled : BOOLEAN]

Labels == {"idle",
           "upsert",   \* Enroll2FA: account read, row to be written
           "factor",   \* LoginUser: password accepted, read the row
           "match",    \* Verify2FA: row read, code to be compared with it
           "consume",  \* Verify2FA: backup code matched, to be removed
           "mark",     \* Verify2FA: code accepted, row to be marked enrolled
           "account",  \* CompleteLogin2FA: read the account
           "mint",     \* login: mint the session
           "open",     \* login: about to answer with the session
           "ok"}       \* TwoFAVerify: about to answer ok

RequestType == [pc    : Labels,
                acc   : Account \cup {None},
                code  : Code \cup {None},   \* the code shown, that matches the row read
                login : BOOLEAN,            \* whether a login asked for this
                first : BOOLEAN,            \* Verify2FA: not wasEnrolled
                blind : BOOLEAN]            \* LoginUser: the row was not read

Locals(label, a, c, login, first) ==
  [pc |-> label, acc |-> a, code |-> c, login |-> login, first |-> first,
   blind |-> FALSE]

Idle == Locals("idle", None, None, FALSE, FALSE)

At(r, label) == req[r].pc = label

Go(r, label) == req' = [req EXCEPT ![r].pc = label]

Finish(r) == req' = [req EXCEPT ![r] = Idle]

TypeOK ==
  /\ row \in [Account -> Row \cup {None}]
  /\ issued \in [Enrolment -> Account \cup {None}]
  /\ partial \subseteq Account /\ gone \subseteq Account
  /\ req \in [Request -> RequestType]
  /\ accepted \subseteq Code
  /\ spent \subseteq accepted \cap (Enrolment \X Backup)

Init ==
  /\ row = [a \in Account |-> None]
  /\ issued = [e \in Enrolment |-> None]
  /\ partial = {} /\ gone = {} /\ accepted = {} /\ spent = {}
  /\ req = [r \in Request |-> Idle]

(* TwoFA.IsEnrolled of the row of a. *)
IsEnrolled(a) == row[a] # None /\ row[a].enrolled

(* GetByID: the row of a soft-deleted user is found, of an admin deleted   *)
(* there is none.                                                          *)
FoundByID(a) == a \in Admin => a \notin gone

(* ParsePartialToken, of a token issued for a. *)
PartialFor(a) == a \in partial

(***************************************************************************)
(* Enroll2FA, for an account named by an internal caller or by an admin's  *)
(* partial token.  The upsert replaces whatever row there is.              *)
(***************************************************************************)
BeginEnroll(r, a, login) ==
  /\ At(r, "idle") /\ FoundByID(a)
  /\ login => PartialFor(a) /\ a \in Admin
  /\ req' = [req EXCEPT ![r] = Locals("upsert", a, None, login, FALSE)]
  /\ UNCHANGED <<row, partial, gone, history>>

(* An enrolment that counts from the moment it is made: a mutant. *)
NewRowEnrolled(e) == [secret |-> e, codes |-> Backup, enrolled |-> TRUE]

(* The record Enroll2FA builds, its enrolled_at nil, as the upsert leaves it. *)
NewRow(e) == [secret |-> e, codes |-> Backup, enrolled |-> FALSE]

Upsert(r, e) ==
  /\ At(r, "upsert") /\ issued[e] = None
  /\ issued' = [issued EXCEPT ![e] = req[r].acc]
  /\ row' = [row EXCEPT ![req[r].acc] = NewRow(e)]
  /\ Finish(r)
  /\ UNCHANGED <<partial, gone, accepted, spent>>

(* Disable2FA: one DELETE, no code asked. *)
Disable(a) ==
  /\ row[a] # None
  /\ row' = [row EXCEPT ![a] = None]
  /\ UNCHANGED <<partial, gone, req, history>>

(***************************************************************************)
(* Login up to the second factor.  GetByEmail hides deleted accounts.      *)
(***************************************************************************)
LoginAdmin(a) ==
  /\ a \in Admin \ gone
  /\ partial' = partial \cup {a}
  /\ UNCHANGED <<row, gone, req, history>>

LoginUser(r, a) ==
  /\ At(r, "idle") /\ a \in Account \ (Admin \cup gone)
  /\ req' = [req EXCEPT ![r] = Locals("factor", a, None, TRUE, FALSE)]
  /\ UNCHANGED <<row, partial, gone, history>>

(* A login that asks for a code only while backup codes are left: a mutant. *)
NeedsCodeWhileLeft(a) == IsEnrolled(a) /\ row[a].codes # {}

(* Whether the login asks for a code. *)
NeedsCode(a) == IsEnrolled(a)

(* The row read, or an error in its place, which counts as no row. *)
ReadFactor(r) ==
  LET a == req[r].acc IN
    /\ At(r, "factor")
    /\ \/ NeedsCode(a) /\ partial' = partial \cup {a} /\ Finish(r)
       \/ ~NeedsCode(a) /\ Go(r, "mint") /\ UNCHANGED partial
       \/ /\ req' = [req EXCEPT ![r] = [@ EXCEPT !.pc = "mint", !.blind = TRUE]]
          /\ UNCHANGED partial
    /\ UNCHANGED <<row, gone, history>>

(***************************************************************************)
(* Verify2FA, for an internal caller or for CompleteLogin2FA.              *)
(***************************************************************************)
(* A comparison with every secret the account has ever had: a mutant. *)
MatchesEver(a, c) == row[a] # None /\ issued[c[1]] = a

(* The code against the row just read: Verify2FA compares with the copy it *)
(* holds, so what it will find is settled here, and a code that will not   *)
(* match goes no further.                                                  *)
Matches(a, c) ==
  /\ row[a] # None /\ c[1] = row[a].secret
  /\ c[2] \in row[a].codes \cup {Totp}

(* Where an accepted code leads once it is removed, and once the row is    *)
(* marked.                                                                 *)
AfterMark(login) == IF login THEN "account" ELSE "ok"

AfterConsume(login, first) == IF first THEN "mark" ELSE AfterMark(login)

VerifyRead(r, a, c, login) ==
  /\ At(r, "idle")
  /\ login => PartialFor(a)
  /\ Matches(a, c)
  /\ req' = [req EXCEPT ![r] = Locals("match", a, c, login, ~IsEnrolled(a))]
  /\ UNCHANGED <<row, partial, gone, history>>

(* The decryption or the bcrypt comparisons are over: the code is accepted.*)
Accept(r) ==
  LET c == req[r].code
      next == AfterConsume(req[r].login, req[r].first)
  IN /\ At(r, "match")
     /\ accepted' = accepted \cup {c}
     /\ Go(r, IF c[2] = Totp THEN next ELSE "consume")
     /\ UNCHANGED <<row, partial, gone, issued, spent>>

(* A removal that leaves the array as it was: a mutant. *)
ConsumeNothing(r) ==
  /\ At(r, "consume")
  /\ spent' = spent \cup {req[r].code}
  /\ Go(r, AfterConsume(req[r].login, req[r].first))
  /\ UNCHANGED <<row, partial, gone, issued, accepted>>

(* ConsumeBackupCode: array_remove of the hash, which does nothing to the  *)
(* codes of a later enrolment.  Its error is dropped.                      *)
Consume(r) ==
  LET a == req[r].acc
      c == req[r].code
  IN /\ At(r, "consume")
     /\ \/ /\ row[a] # None /\ row[a].secret = c[1]
           /\ row' = [row EXCEPT ![a].codes = @ \ {c[2]}]
           /\ spent' = spent \cup {c}
        \/ UNCHANGED <<row, spent>>
     /\ Go(r, AfterConsume(req[r].login, req[r].first))
     /\ UNCHANGED <<partial, gone, issued, accepted>>

(* MarkEnrolled, of whatever row the account has now.  Its error, no row   *)
(* included, is dropped.                                                   *)
MarkEnrolled(r) ==
  LET a == req[r].acc IN
    /\ At(r, "mark")
    /\ \/ row[a] # None /\ row' = [row EXCEPT ![a].enrolled = TRUE]
       \/ UNCHANGED row
    /\ Go(r, AfterMark(req[r].login))
    /\ UNCHANGED <<partial, gone, history>>

(***************************************************************************)
(* CompleteLogin2FA after the code, and the mint that ends every login.    *)
(***************************************************************************)
ReadAccount(r) ==
  /\ At(r, "account")
  /\ IF FoundByID(req[r].acc) THEN Go(r, "mint") ELSE Finish(r)
  /\ UNCHANGED <<row, partial, gone, history>>

Mint(r) ==
  /\ At(r, "mint")
  /\ Go(r, "open")
  /\ UNCHANGED <<row, partial, gone, history>>

(* The answer; or an error, a cancelled context, a dead process. *)
Stop(r) ==
  /\ ~At(r, "idle")
  /\ Finish(r)
  /\ UNCHANGED <<row, partial, gone, history>>

DeleteAccount(a) ==
  /\ a \notin gone
  /\ gone' = gone \cup {a}
  /\ UNCHANGED <<row, partial, req, history>>

Next ==
  \/ \E r \in Request :
       \/ \E a \in Account :
            \/ LoginUser(r, a)
            \/ \E login \in BOOLEAN :
                 \/ BeginEnroll(r, a, login)
                 \/ \E c \in Code : VerifyRead(r, a, c, login)
       \/ \E e \in Enrolment : Upsert(r, e)
       \/ ReadFactor(r) \/ Accept(r) \/ Consume(r) \/ MarkEnrolled(r)
       \/ ReadAccount(r) \/ Mint(r) \/ Stop(r)
  \/ \E a \in Account : Disable(a) \/ LoginAdmin(a) \/ DeleteAccount(a)

Spec == Init /\ [][Next]_vars

(***************************************************************************)
(* Properties.                                                             *)
(***************************************************************************)
(* Verifications that read a row with the code c and are comparing it.     *)
Comparing(c) == {r \in Request : At(r, "match") /\ req[r].code = c}

(* Once ConsumeBackupCode has removed a backup code, only the verifications *)
(* that had read the row before it did can still accept the code, and once *)
(* they are over nobody does, whichever enrolments, removals and other     *)
(* verifications of the account go on meanwhile.                           *)
SpentDrains == [][\A c \in spent : Comparing(c)' \subseteq Comparing(c)]_vars

Current(e) == issued[e] # None /\ row[issued[e]] # None /\ row[issued[e]].secret = e

InUse(e) == \E r \in Request : req[r].code # None /\ req[r].code[1] = e

(* An enrolment replaced or removed is dead: once the verifications that   *)
(* had read it are over, none of its codes gets anybody anywhere, and its  *)
(* secret never becomes the account's again.                               *)
ReplacedDrains ==
  [][\A e \in Enrolment : issued[e] # None /\ ~Current(e) =>
       /\ ~Current(e)'
       /\ ~InUse(e) => ~InUse(e)']_vars

(* Logins of a on the way to a session without a code. *)
Bare(a) == {r \in Request : req[r].acc = a /\ req[r].code = None
                            /\ At(r, "mint") /\ ~req[r].blind}

(* From the moment an account is enrolled, only the logins that had read   *)
(* its row before open a session without a code, however often codes are   *)
(* spent or marked meanwhile; an admin never opens one.  (A login that     *)
(* failed to read the row opens one too: the code takes the error for no   *)
(* row.)                                                                   *)
EnrolledDrains ==
  [][/\ \A a \in Account : IsEnrolled(a) /\ Bare(a) = {} => Bare(a)' = {}
     /\ \A r \in Request : req[r].acc \in Admin /\ At(r, "mint") => req[r].code # None]_vars

(* Nobody is locked behind a second factor without having shown one: an    *)
(* account whose row counts as enrolled has had a code of an enrolment of  *)
(* its own accepted, however enrolments, removals, verifications and       *)
(* failures interleaved, though not always of the enrolment in the row     *)
(* (EnrolledWasVerified below).                                            *)
EnrolledShowedACode ==
  \A a \in Account : IsEnrolled(a) => \E c \in accepted : issued[c[1]] = a

(***************************************************************************)
(* The inductive invariant.                                                *)
(***************************************************************************)
(* A row holds the secret of an enrolment of its account, and no backup    *)
(* code of it that has been spent.                                         *)
RowConsistent(a) ==
  row[a] # None =>
    /\ issued[row[a].secret] = a
    /\ \A b \in row[a].codes : <<row[a].secret, b>> \notin spent

(* What a request carries from one statement to the next belongs to its    *)
(* account, and a login past its second factor has one unless it is a      *)
(* user's.                                                                 *)
RequestConsistent(r) ==
  /\ ~At(r, "idle") => req[r].acc \in Account
  /\ At(r, "idle") => req[r].code = None
  /\ At(r, "factor") => req[r].acc \notin Admin
  /\ req[r].pc \in {"match", "consume", "mark", "account", "ok"} => req[r].code # None
  /\ At(r, "consume") => req[r].code[2] \in Backup
  /\ At(r, "mint") /\ req[r].acc \in Admin => req[r].code # None
  /\ req[r].code # None => /\ issued[req[r].code[1]] = req[r].acc
                           /\ At(r, "match") \/ req[r].code \in accepted

IInv ==
  /\ TypeOK
  /\ \A a \in Account : RowConsistent(a)
  /\ \A r \in Request : RequestConsistent(r)
  /\ \A c \in accepted : issued[c[1]] # None

(***************************************************************************)
(* What comments of the source claim and the code does not do.             *)
(***************************************************************************)
(* The step at which a code is accepted.                                   *)
Accepts(r) == At(r, "match") /\ ~At(r, "match")' /\ ~At(r, "idle")'

(* totp.go:124 calls the backup codes use-once: no code is accepted twice. *)
BackupUsedOnce ==
  [][\A r \in Request : Accepts(r) /\ req[r].code[2] # Totp =>
       req[r].code \notin accepted]_vars

(* twofa.go:15 says enrolled_at is null until the first verification       *)
(* passes: of a row that is enrolled, a code has been accepted.            *)
EnrolledWasVerified ==
  \A a \in Account : IsEnrolled(a) => \E c \in accepted : c[1] = row[a].secret
=============================================================================
