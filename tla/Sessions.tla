------------------------------ MODULE Sessions ------------------------------
(***************************************************************************)
(* The refresh-token life cycle of TokenService over the table             *)
(* refresh_tokens: mint, Refresh with its replay detection, Logout, and    *)
(* the forced logout of a whole subject.  Requests run concurrently, each  *)
(* in its goroutine, and meet only in the database, so a request is a      *)
(* program counter with the locals it carries from one statement to the    *)
(* next, and every statement is one step (two for RevokeBySubject).  At    *)
(* any of them a request may end: the statement fails, its context is      *)
(* cancelled by the client, or the process dies.                           *)
(*                                                                         *)
(* A client holds the tokens of the sessions the service answered with and *)
(* may present any of them at any time, any number of times: a stale copy, *)
(* a retry and a stolen token look alike to the service.                   *)
(***************************************************************************)
EXTENDS RefreshTokens

CONSTANT Request   \* the requests that can be under way at once

VARIABLES
  gone,     \* accounts deleted or deactivated by the service that owns them
  granted,  \* tokens the service has answered a client with
  root,     \* history: the first token of the chain each row belongs to
  req       \* the goroutine of each request

sessionVars == <<gone, granted, root, req>>
vars == <<tableVars, sessionVars>>

(* Where a request stands: before the statement the label names. *)
Labels == {"idle",     \* no request
           "account",  \* Refresh, token found active: read the account
           "mint",     \* insert the row of a new token
           "rotate",   \* Refresh: revoke the token presented
           "purge",    \* RevokeBySubject not started
           "purging",  \* RevokeBySubject has chosen its rows
           "purged"}   \* RevokeBySubject done, about to answer

RequestType == [pc   : Labels,
                subj : Subject \cup {None},
                old  : Token \cup {None},    \* the token presented
                new  : Token \cup {None},    \* the token minted for it
                snap : SUBSET Token]         \* rows RevokeBySubject has chosen

Locals(label, s, t) ==
  [pc |-> label, subj |-> s, old |-> t, new |-> None, snap |-> {}]

Idle == Locals("idle", None, None)

At(r, label) == req[r].pc = label

Start(r, label, s, t) ==
  /\ At(r, "idle")
  /\ req' = [req EXCEPT ![r] = Locals(label, s, t)]

Step(r, label) == req' = [req EXCEPT ![r].pc = label]

Finish(r) == req' = [req EXCEPT ![r] = Idle]

(***************************************************************************)
(* Type invariant.                                                         *)
(***************************************************************************)
TypeOK ==
  /\ TableTypeOK
  /\ gone \subseteq Subject
  /\ granted \subseteq Token
  /\ root \in [Token -> Token \cup {None}]
  /\ req \in [Request -> RequestType]

Init ==
  /\ TableInit
  /\ gone = {}
  /\ granted = {}
  /\ root = [t \in Token |-> None]
  /\ req = [r \in Request |-> Idle]

(***************************************************************************)
(* Minting.  Login, second factor and registration call MintForUser or     *)
(* MintForAdmin once they have authenticated s; how they do is not this    *)
(* module's business.                                                      *)
(***************************************************************************)
BeginMint(r, s) ==
  /\ Start(r, "mint", s, None)
  /\ UNCHANGED <<tableVars, gone, granted, root>>

(* mint for a login: the row is the last statement, the answer follows. *)
MintLogin(r, t) ==
  /\ At(r, "mint") /\ req[r].old = None
  /\ Create(t, req[r].subj)
  /\ root' = [root EXCEPT ![t] = t]
  /\ granted' = granted \cup {t}
  /\ Finish(r)
  /\ UNCHANGED gone

(* A mint that answers with the new token before the old one is revoked. *)
MintRefreshEager(r, t) ==
  /\ At(r, "mint") /\ req[r].old # None
  /\ Create(t, req[r].subj)
  /\ root' = [root EXCEPT ![t] = root[req[r].old]]
  /\ req' = [req EXCEPT ![r] = [@ EXCEPT !.pc = "rotate", !.new = t]]
  /\ granted' = granted \cup {t}
  /\ UNCHANGED gone

(* mint for a Refresh: the session stays inside until the old is revoked. *)
MintRefresh(r, t) ==
  /\ At(r, "mint") /\ req[r].old # None
  /\ Create(t, req[r].subj)
  /\ root' = [root EXCEPT ![t] = root[req[r].old]]
  /\ req' = [req EXCEPT ![r] = [@ EXCEPT !.pc = "rotate", !.new = t]]
  /\ UNCHANGED <<gone, granted>>

(***************************************************************************)
(* Refresh.  A hash with no row is refused and changes nothing.            *)
(***************************************************************************)
RefreshActive(r, t) ==
  /\ t \in granted /\ IsActive(t)
  /\ Start(r, "account", owner[t], t)
  /\ UNCHANGED <<tableVars, gone, granted, root>>

(* Not active, revoked or merely expired: taken for a replay. *)
RefreshReplay(r, t) ==
  /\ t \in granted /\ ~IsActive(t)
  /\ Start(r, "purge", owner[t], t)
  /\ UNCHANGED <<tableVars, gone, granted, root>>

(* An account check that lost its deleted_at clause: a mutant. *)
AnyAccount(r) == TRUE

(* The account read again: still there and, for a user, DeletedAt nil. *)
AccountExists(r) == req[r].subj \notin gone

RefreshAccount(r) ==
  /\ At(r, "account")
  /\ \/ AccountExists(r) /\ Step(r, "mint")
     \/ ~AccountExists(r) /\ Finish(r)
  /\ UNCHANGED <<tableVars, gone, granted, root>>

(* A Rotate that ignores that Revoke affected no row: a mutant. *)
RotateUnchecked(r) ==
  /\ At(r, "rotate")
  /\ Revoke(req[r].old, None)
  /\ granted' = granted \cup {req[r].new}
  /\ Finish(r)
  /\ UNCHANGED <<gone, root>>

(* Revoke the token presented, its successor left NULL; the session is     *)
(* answered only when a row was affected.  Otherwise the row of the new    *)
(* token stays, but nobody holds its secret.                               *)
Rotate(r) ==
  /\ At(r, "rotate")
  /\ \/ /\ CanRevoke(req[r].old)
        /\ Revoke(req[r].old, None)
        /\ granted' = granted \cup {req[r].new}
     \/ /\ ~CanRevoke(req[r].old)
        /\ UNCHANGED <<tableVars, granted>>
  /\ Finish(r)
  /\ UNCHANGED <<gone, root>>

(***************************************************************************)
(* Logout.  Its lookup changes nothing and its error is dropped, so the    *)
(* statement that revokes is the whole of it.                              *)
(***************************************************************************)
Logout(t) ==
  /\ t \in granted
  /\ CanRevoke(t)
  /\ Revoke(t, None)
  /\ UNCHANGED sessionVars

(***************************************************************************)
(* Forced logout: after a replay, or at the end of a password reset.       *)
(***************************************************************************)
BeginPurge(r, s) ==
  /\ Start(r, "purge", s, None)
  /\ UNCHANGED <<tableVars, gone, granted, root>>

PurgeSnapshot(r) ==
  /\ At(r, "purge")
  /\ req' = [req EXCEPT ![r] = [@ EXCEPT !.pc = "purging",
                                        !.snap = ActiveOf(req[r].subj)]]
  /\ UNCHANGED <<tableVars, gone, granted, root>>

PurgeCommit(r) ==
  /\ At(r, "purging")
  /\ RevokeAll(req[r].snap)
  /\ Step(r, "purged")
  /\ UNCHANGED <<gone, granted, root>>

(* The request ends here: its answer after a purge, and before any other   *)
(* statement that statement's error, a cancelled context or a dead process. *)
Stop(r) ==
  /\ ~At(r, "idle")
  /\ Finish(r)
  /\ UNCHANGED <<tableVars, gone, granted, root>>

(***************************************************************************)
(* The environment: time, and the services that own the accounts.          *)
(***************************************************************************)
Expire(t) == Lapse(t) /\ UNCHANGED sessionVars

DeleteAccount(s) ==
  /\ s \notin gone
  /\ gone' = gone \cup {s}
  /\ UNCHANGED <<tableVars, granted, root, req>>

Next ==
  \/ \E r \in Request :
       \/ \E s \in Subject : BeginMint(r, s) \/ BeginPurge(r, s)
       \/ \E t \in Token : \/ MintLogin(r, t) \/ MintRefresh(r, t)
                           \/ RefreshActive(r, t) \/ RefreshReplay(r, t)
       \/ RefreshAccount(r) \/ Rotate(r)
       \/ PurgeSnapshot(r) \/ PurgeCommit(r) \/ Stop(r)
  \/ \E t \in Token : Logout(t) \/ Expire(t)
  \/ \E s \in Subject : DeleteAccount(s)

Spec == Init /\ [][Next]_vars

(***************************************************************************)
(* Properties.                                                             *)
(***************************************************************************)
(* The tokens a client holds that no revocation has reached. *)
Live == granted \ revoked

(* A login never has two usable refresh tokens: of the copies of a token   *)
(* presented at once, to any number of requests, at most one gets a        *)
(* successor, although Refresh mints before it revokes.                    *)
OneLivePerLogin == \A t, u \in Live : root[t] = root[u] => t = u

Chain(t) == {u \in Live : root[u] = root[t]}

(* A chain that logout, replay detection or a reset has ended stays ended: *)
(* no Refresh still under way brings it back with the token it minted      *)
(* before the revocation.                                                  *)
EndedStaysEnded ==
  [][\A t \in granted : Chain(t) = {} => Chain(t)' = {}]_vars

(* The refreshes of s that have passed the account check. *)
Refreshing(s) ==
  {r \in Request : req[r].subj = s /\ req[r].old # None
                   /\ (At(r, "mint") \/ At(r, "rotate"))}

(* A deleted account drains: the refreshes that had read it before the     *)
(* deletion may still mint, but once they are over no refresh token that   *)
(* survives the deletion is ever exchanged again.                          *)
GoneAccountDrains ==
  [][\A s \in gone : Refreshing(s) = {} =>
       /\ Refreshing(s)' = {}
       /\ \A t \in granted' \ granted : owner'[t] = s => root'[t] = t]_vars

(* What a client sees of all this is SessionChains: the rows minted and    *)
(* not yet answered with, or abandoned by a failed Refresh, do not show.   *)
Chains == INSTANCE SessionChains WITH
  live   <- Live,
  login  <- [t \in Token |-> IF t \in granted THEN root[t] ELSE None],
  holder <- [t \in Token |-> IF t \in granted THEN owner[t] ELSE None]

ImplementsChains == Chains!ChainSpec

(***************************************************************************)
(* The inductive invariant.                                                *)
(***************************************************************************)
(* Rows and their history agree; what is held, revoked or chosen is a row. *)
RowsConsistent ==
  /\ granted \subseteq Rows
  /\ revoked \subseteq Rows
  /\ \A t \in Rows : root[t] \in Rows
  /\ \A r \in Request : req[r].snap \subseteq Rows

(* The locals of a request agree with the table they were read from.       *)
RequestConsistent(r) ==
  /\ At(r, "mint") => req[r].subj \in Subject
  /\ At(r, "account") \/ At(r, "rotate") => req[r].old # None
  /\ req[r].old # None =>
       req[r].old \in granted /\ req[r].subj = owner[req[r].old]
  /\ At(r, "rotate") =>
       /\ req[r].new \in Rows \ granted
       /\ root[req[r].new] = root[req[r].old]
       /\ owner[req[r].new] = owner[req[r].old]

(* No two refreshes wait to answer with the same token.                    *)
PendingDistinct ==
  \A r, q \in Request :
    At(r, "rotate") /\ At(q, "rotate") /\ req[r].new = req[q].new => r = q

(* A forced logout reaches the token a refresh has minted only together    *)
(* with the token it will revoke: before that refresh can commit, either   *)
(* both are alive, or the old one is dead and the refresh will fail.       *)
PendingFallTogether ==
  \A r \in Request : At(r, "rotate") /\ req[r].old \notin revoked =>
    /\ req[r].new \notin revoked
    /\ \A q \in Request : req[r].new \in req[q].snap /\ At(q, "purging") =>
         req[r].old \in req[q].snap

IInv ==
  /\ TypeOK
  /\ RowsConsistent
  /\ \A r \in Request : RequestConsistent(r)
  /\ PendingDistinct
  /\ PendingFallTogether
  /\ OneLivePerLogin

(***************************************************************************)
(* What comments of the source claim and the code does not do.             *)
(***************************************************************************)
(* refresh_token_repo.go:64 says that forced logout is total, every active *)
(* token of the subject becomes revoked: when RevokeBySubject returns, no  *)
(* session that it found active is alive.                                  *)
ForceLogoutTotal ==
  \A r \in Request : At(r, "purged") =>
    \A t \in req[r].snap : Chain(t) = {}
=============================================================================
