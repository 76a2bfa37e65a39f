------------------------------ MODULE Recovery ------------------------------
(***************************************************************************)
(* Passwords in front of sessions: login, its second step with a partial   *)
(* token, the request for a password reset and its confirmation.  The      *)
(* sessions are those of the module Sessions, whose steps go on underneath *)
(* while the requests added here move between their own statements:        *)
(* a confirmation marks the reset used, sets the password and then forces  *)
(* the logout of Sessions, three statements with no transaction around.    *)
(*                                                                         *)
(* A password is named by the reset that set it, None the first one.       *)
(***************************************************************************)
EXTENDS Sessions

CONSTANT Reset     \* rows of password_resets: id, token_hash and raw token

ASSUME ResetAssumption == None \notin Reset

VARIABLES
  password,  \* password_hash of each account
  resetOf,   \* user_id or admin_id of each reset, None without row
  used,      \* resets with used_at NOT NULL
  lapsed,    \* resets whose hour has passed
  partial,   \* accounts that somebody holds a valid partial token of
  form,      \* per request: what it does besides sessions
  applied    \* history: the resets that have set a password

recoveryVars == <<password, resetOf, used, lapsed, partial, form, applied>>
rvars == <<vars, recoveryVars>>

Password == Reset \cup {None}

FormLabels == {"none",
               "login",    \* password accepted, minting
               "partial",  \* password accepted, about to sign a partial token
               "issue",    \* RequestPasswordReset: insert the row
               "mark",     \* ConfirmPasswordReset: mark the reset used
               "set",      \* ConfirmPasswordReset: set the password
               "force"}    \* ConfirmPasswordReset: force the logout

FormType == [pc     : FormLabels,
             subj   : Subject \cup {None},
             reset  : Reset \cup {None},
             before : SUBSET Token]   \* history: alive at the change

FormOf(label, s, k) == [pc |-> label, subj |-> s, reset |-> k, before |-> {}]

NoForm == FormOf("none", None, None)

RecoveryTypeOK ==
  /\ TypeOK
  /\ password \in [Subject -> Password]
  /\ resetOf \in [Reset -> Subject \cup {None}]
  /\ used \subseteq Reset /\ lapsed \subseteq Reset /\ applied \subseteq Reset
  /\ partial \subseteq Subject
  /\ form \in [Request -> FormType]

RecoveryInit ==
  /\ Init
  /\ password = [s \in Subject |-> None]
  /\ resetOf = [k \in Reset |-> None]
  /\ used = {} /\ lapsed = {} /\ partial = {} /\ applied = {}
  /\ form = [r \in Request |-> NoForm]

Free(r) == form[r].pc = "none" /\ At(r, "idle")

InForm(r, label) == form[r].pc = label

Close(r) == form' = [form EXCEPT ![r] = NoForm]

(* A lookup by e-mail that lost its deleted_at clause: a mutant. *)
ByEmailEver(s) == TRUE

(* GetByEmail's WHERE clause, deleted_at IS NULL. *)
ByEmail(s) == s \notin gone

(***************************************************************************)
(* Login.  LoginUser and LoginAdmin read the account by its e-mail, which  *)
(* hides deleted ones, and compare the password with the hash they read;   *)
(* with a second factor the answer is a partial token, good for minutes    *)
(* and as often as it is presented, else the session is minted.            *)
(***************************************************************************)
LoginMint(r, s) ==
  /\ Free(r) /\ ByEmail(s)
  /\ BeginMint(r, s)
  /\ form' = [form EXCEPT ![r] = FormOf("login", s, None)]
  /\ UNCHANGED <<password, resetOf, used, lapsed, partial, applied>>

LoginPartial(r, s) ==
  /\ Free(r) /\ ByEmail(s)
  /\ form' = [form EXCEPT ![r] = FormOf("partial", s, None)]
  /\ UNCHANGED <<vars, password, resetOf, used, lapsed, partial, applied>>

MintPartial2FA(r) ==
  /\ InForm(r, "partial")
  /\ partial' = partial \cup {form[r].subj}
  /\ Close(r)
  /\ UNCHANGED <<vars, password, resetOf, used, lapsed, applied>>

(* The last partial token of s has expired. *)
LapsePartial(s) ==
  /\ s \in partial
  /\ partial' = partial \ {s}
  /\ UNCHANGED <<vars, password, resetOf, used, lapsed, form, applied>>

(* CompleteLogin2FA, its code accepted.  The account is read by its id,    *)
(* which finds a user deleted or not; an admin's row is deleted outright,  *)
(* and then the request ends here, as it may for any other reason.         *)
CompleteLogin(r, s) ==
  /\ Free(r) /\ s \in partial
  /\ BeginMint(r, s)
  /\ form' = [form EXCEPT ![r] = FormOf("login", s, None)]
  /\ UNCHANGED <<password, resetOf, used, lapsed, partial, applied>>

(***************************************************************************)
(* RequestPasswordReset: the account, then the row.                        *)
(***************************************************************************)
RequestReset(r, s) ==
  /\ Free(r) /\ ByEmail(s)
  /\ form' = [form EXCEPT ![r] = FormOf("issue", s, None)]
  /\ UNCHANGED <<vars, password, resetOf, used, lapsed, partial, applied>>

IssueReset(r, k) ==
  /\ InForm(r, "issue") /\ resetOf[k] = None
  /\ resetOf' = [resetOf EXCEPT ![k] = form[r].subj]
  /\ Close(r)
  /\ UNCHANGED <<vars, password, used, lapsed, partial, applied>>

LapseReset(k) ==
  /\ resetOf[k] # None /\ k \notin lapsed
  /\ lapsed' = lapsed \cup {k}
  /\ UNCHANGED <<vars, password, resetOf, used, partial, form, applied>>

(***************************************************************************)
(* ConfirmPasswordReset.                                                   *)
(***************************************************************************)
ConfirmLookup(r, k) ==
  /\ Free(r)
  /\ resetOf[k] # None /\ k \notin used /\ k \notin lapsed
  /\ form' = [form EXCEPT ![r] = FormOf("mark", resetOf[k], k)]
  /\ UNCHANGED <<vars, password, resetOf, used, lapsed, partial, applied>>

(* Mutants of MarkUsable: no IS NULL, nor a test of the rows affected. *)
AlwaysUsable(k) == TRUE

(* MarkUsed's WHERE clause, used_at IS NULL: whether it affects the row. *)
MarkUsable(k) == k \notin used

MarkUsed(r) ==
  LET k == form[r].reset IN
    /\ InForm(r, "mark")
    /\ \/ /\ MarkUsable(k)
          /\ used' = used \cup {k}
          /\ form' = [form EXCEPT ![r].pc = "set"]
       \/ ~MarkUsable(k) /\ Close(r) /\ UNCHANGED used
    /\ UNCHANGED <<vars, password, resetOf, lapsed, partial, applied>>

(* UpdatePasswordHash's WHERE clause: whether the account is there. *)
HasPassword(s) == s \notin gone

(* A SetPassword that answers without the forced logout: a mutant. *)
SetPasswordOnly(r) ==
  LET k == form[r].reset
      s == form[r].subj
  IN /\ InForm(r, "set") /\ HasPassword(s)
     /\ password' = [password EXCEPT ![s] = k]
     /\ applied' = applied \cup {k}
     /\ form' = [form EXCEPT ![r] = [@ EXCEPT !.pc = "force",
                   !.before = {t \in Live : owner[t] = s}]]
     /\ req' = [req EXCEPT ![r] = Locals("purged", s, None)]
     /\ UNCHANGED <<tableVars, gone, granted, root, resetOf, used, lapsed,
                    partial>>

(* UpdatePasswordHash affects no row of a deleted account, and that error  *)
(* ends the confirmation with the reset used up; else the forced logout    *)
(* begins.                                                                 *)
SetPassword(r) ==
  LET k == form[r].reset
      s == form[r].subj
  IN /\ InForm(r, "set")
     /\ \/ /\ HasPassword(s)
           /\ password' = [password EXCEPT ![s] = k]
           /\ applied' = applied \cup {k}
           /\ form' = [form EXCEPT ![r] = [@ EXCEPT !.pc = "force",
                         !.before = {t \in Live : owner[t] = s}]]
           /\ BeginPurge(r, s)
        \/ ~HasPassword(s) /\ Close(r) /\ UNCHANGED <<vars, password, applied>>
     /\ UNCHANGED <<resetOf, used, lapsed, partial>>

(* Error, cancelled context or dead process between these statements. *)
StopForm(r) ==
  /\ form[r].pc \in {"partial", "issue", "mark", "set"}
  /\ Close(r)
  /\ UNCHANGED <<vars, password, resetOf, used, lapsed, partial, applied>>

(***************************************************************************)
(* The steps of Sessions under all this.  A request minting or forcing a   *)
(* logout is over when its session steps are.                              *)
(***************************************************************************)
CloseIfDone(r) ==
  form' = IF req'[r].pc = "idle" THEN [form EXCEPT ![r] = NoForm] ELSE form

MintStep(r, t) ==
  /\ MintLogin(r, t) \/ MintRefresh(r, t)
  /\ CloseIfDone(r)
  /\ UNCHANGED <<password, resetOf, used, lapsed, partial, applied>>

RefreshStep(r) ==
  /\ \/ Free(r) /\ \E t \in Token : RefreshActive(r, t) \/ RefreshReplay(r, t)
     \/ RefreshAccount(r) \/ Rotate(r)
  /\ UNCHANGED recoveryVars

PurgeStep(r) ==
  /\ PurgeSnapshot(r) \/ PurgeCommit(r) \/ Stop(r)
  /\ CloseIfDone(r)
  /\ UNCHANGED <<password, resetOf, used, lapsed, partial, applied>>

OutsideStep ==
  /\ \/ \E t \in Token : Logout(t) \/ Expire(t)
     \/ \E s \in Subject : DeleteAccount(s)
  /\ UNCHANGED recoveryVars

RequestStep(r) ==
  \/ \E s \in Subject : \/ LoginMint(r, s) \/ LoginPartial(r, s)
                        \/ CompleteLogin(r, s) \/ RequestReset(r, s)
  \/ \E k \in Reset : IssueReset(r, k) \/ ConfirmLookup(r, k)
  \/ MintPartial2FA(r) \/ MarkUsed(r) \/ SetPassword(r) \/ StopForm(r)
  \/ \E t \in Token : MintStep(r, t)
  \/ RefreshStep(r) \/ PurgeStep(r)

RecoveryNext ==
  \/ \E r \in Request : RequestStep(r)
  \/ \E s \in Subject : LapsePartial(s)
  \/ \E k \in Reset : LapseReset(k)
  \/ OutsideStep

RecoverySpec == RecoveryInit /\ [][RecoveryNext]_rvars

(***************************************************************************)
(* Properties.                                                             *)
(***************************************************************************)
(* A reset sets a password at most once, however many confirmations of it  *)
(* passed the check for used_at together, and whichever of them failed     *)
(* half way.                                                               *)
ResetSingleUse ==
  [][\A s \in Subject : password'[s] # password[s] => password'[s] \notin applied]_rvars

(* Why: one confirmation at most is past MarkUsed with a given reset.      *)
OneSetter ==
  \A r \in Request : InForm(r, "set") =>
    /\ form[r].reset \in used \ applied
    /\ \A q \in Request : InForm(q, "set") /\ form[q].reset = form[r].reset => q = r

(* Inductive with that: what is applied is used, and a confirmation knows  *)
(* its account and its reset.                                              *)
AppliedUsed ==
  /\ applied \subseteq used
  /\ \A k \in used \cup lapsed : resetOf[k] # None

FormConsistent(r) ==
  /\ form[r].pc \in {"partial", "issue", "mark", "set"} => form[r].subj \in Subject
  /\ form[r].pc \in {"mark", "set"} =>
       form[r].reset \in Reset /\ resetOf[form[r].reset] = form[r].subj

RecoveryCore ==
  /\ RecoveryTypeOK /\ AppliedUsed /\ OneSetter
  /\ \A r \in Request : FormConsistent(r)

(* And while a confirmation forces the logout, alone with its reset, its   *)
(* RevokeBySubject has all that was alive at the change in hand: not       *)
(* chosen yet, chosen, revoked.                                            *)
Forcing(r) ==
  InForm(r, "force") =>
    /\ form[r].reset \in applied /\ resetOf[form[r].reset] = req[r].subj
    /\ \A t \in form[r].before : t \in Rows /\ owner[t] = req[r].subj
    /\ \/ At(r, "purge")
       \/ At(r, "purging") /\ form[r].before \subseteq revoked \cup req[r].snap
       \/ At(r, "purged") /\ form[r].before \subseteq revoked

OneForcer ==
  \A r, q \in Request :
    InForm(r, "force") /\ InForm(q, "force") /\ form[r].reset = form[q].reset => q = r

(* A request does one thing: while it mints for a login it is in that      *)
(* form, and between the other statements of a form it has no session step *)
(* under way.                                                              *)
FormMatches(r) ==
  /\ InForm(r, "login") <=> At(r, "mint") /\ req[r].old = None
  /\ form[r].pc \in {"partial", "issue", "mark", "set"} => At(r, "idle")

RecoveryInv ==
  /\ RecoveryCore /\ OneForcer
  /\ \A r \in Request : Forcing(r) /\ FormMatches(r)

(* A confirmed reset cuts off: when it answers, no token that was alive    *)
(* when the password changed is alive, and what is alive of the account    *)
(* was minted since, by a login or by a refresh under way.                 *)
ResetCutsOff ==
  \A r \in Request : InForm(r, "force") /\ At(r, "purged") =>
    form[r].before \cap Live = {}

(* The logins of s under way: past the password, or past the code.         *)
Entering(s) ==
  {r \in Request : \/ InForm(r, "login") /\ req[r].subj = s
                   \/ InForm(r, "partial") /\ form[r].subj = s}

(* A deleted account is shut: a login, a partial token and a refresh from  *)
(* before the deletion may each outlive it, and the partial token is never *)
(* held against deleted_at; but once they are over none comes back, and    *)
(* the account is given no refresh token any more.                         *)
DeletedDrains ==
  [][\A s \in gone : s \notin partial /\ Entering(s) = {} /\ Refreshing(s) = {} =>
       /\ s \notin partial' /\ Entering(s)' = {} /\ Refreshing(s)' = {}
       /\ \A t \in granted' \ granted : owner'[t] # s]_rvars

(***************************************************************************)
(* What a reset promises, in ResetPromise: a ticket of one use that stands *)
(* open until a confirmation claims it, and whose redemption condemns the  *)
(* sessions of its account.                                                *)
(***************************************************************************)
Holding(k, label) == {r \in Request : InForm(r, label) /\ form[r].reset = k}

StateOf(k) ==
  IF resetOf[k] = None THEN "none"
  ELSE IF k \notin used
       THEN IF k \in lapsed /\ Holding(k, "mark") = {} THEN "over" ELSE "open"
  ELSE IF Holding(k, "set") # {} THEN "claimed"
  ELSE IF Holding(k, "force") = {} THEN "over"
  ELSE IF \E r \in Holding(k, "force") : At(r, "purged") THEN "settled"
  ELSE "redeemed"

Condemned(k) ==
  {t \in Token : \E r \in Holding(k, "force") : t \in form[r].before}

Promise == INSTANCE ResetPromise WITH
  live      <- Live,
  login     <- [t \in Token |-> IF t \in granted THEN root[t] ELSE None],
  holder    <- [t \in Token |-> IF t \in granted THEN owner[t] ELSE None],
  secret    <- password,
  ticket    <- [k \in Reset |-> StateOf(k)],
  bearer    <- resetOf,
  condemned <- [k \in Reset |-> Condemned(k)]

ImplementsPromise == Promise!PromiseSpec
=============================================================================
