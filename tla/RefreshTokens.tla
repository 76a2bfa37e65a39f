--------------------------- MODULE RefreshTokens ---------------------------
(***************************************************************************)
(* The table refresh_tokens and the statements RefreshTokenRepo runs on    *)
(* it.  Every method of the repository is one SQL statement outside any    *)
(* transaction, so each statement that touches one row is one atomic       *)
(* step.  The UPDATE of RevokeBySubject touches many rows: PostgreSQL's    *)
(* READ COMMITTED (the pool's default) chooses the rows from the snapshot  *)
(* taken when the statement starts and tests revoked_at IS NULL again on   *)
(* each row it locks, so the choice and the effect are two steps.          *)
(***************************************************************************)
CONSTANTS Token,     \* rows that can exist: id, token_hash and raw token alike
          Subject,   \* accounts, users and admins together
          None       \* SQL NULL

ASSUME NoneAssumption == None \notin Token /\ None \notin Subject

VARIABLES
  owner,       \* user_id or admin_id of the row of each token, None without row
  revoked,     \* the rows with revoked_at NOT NULL
  replacedBy,  \* replaced_by_id of each row
  expired      \* the rows whose expires_at has passed

tableVars == <<owner, revoked, replacedBy, expired>>

TableTypeOK ==
  /\ owner \in [Token -> Subject \cup {None}]
  /\ revoked \subseteq Token
  /\ replacedBy \in [Token -> Token \cup {None}]
  /\ expired \subseteq Token

TableInit ==
  /\ owner = [t \in Token |-> None]
  /\ revoked = {}
  /\ replacedBy = [t \in Token |-> None]
  /\ expired = {}

(* The rows, and RefreshToken.IsActive. *)
Rows == {t \in Token : owner[t] # None}

IsActive(t) == t \notin revoked /\ t \notin expired

(* RefreshTokenRepo.Create: a fresh id and a fresh 256-bit token. *)
Create(t, s) ==
  /\ owner[t] = None
  /\ owner' = [owner EXCEPT ![t] = s]
  /\ UNCHANGED <<revoked, replacedBy, expired>>

(* Revoke's WHERE clause (revoked_at IS NULL): whether it affects a row. *)
CanRevoke(t) == t \in Rows /\ t \notin revoked

(* A Revoke that writes the subject's id for the successor's: a mutant. *)
RevokeMiswritten(t, successor) ==
  /\ revoked' = revoked \cup {t}
  /\ replacedBy' = [replacedBy EXCEPT ![t] = owner[t]]
  /\ UNCHANGED <<owner, expired>>

(* The effect of Revoke on the one row it affects. *)
Revoke(t, successor) ==
  /\ revoked' = revoked \cup {t}
  /\ replacedBy' = [replacedBy EXCEPT ![t] = successor]
  /\ UNCHANGED <<owner, expired>>

(* A RevokeBySubject that leaves expired rows alone: a mutant. *)
ActiveUnexpired(s) == {t \in Rows : owner[t] = s /\ IsActive(t)}

(* RevokeBySubject: the rows its snapshot selects, and the later effect.   *)
(* A row revoked in between fails the second test and keeps its values,    *)
(* which adding it to the set again leaves as they are.                    *)
ActiveOf(s) == {t \in Rows : owner[t] = s /\ t \notin revoked}

RevokeAll(T) ==
  /\ revoked' = revoked \cup T
  /\ UNCHANGED <<owner, replacedBy, expired>>

(* expires_at passes: time, not a statement. *)
Lapse(t) ==
  /\ t \in Rows \ expired
  /\ expired' = expired \cup {t}
  /\ UNCHANGED <<owner, revoked, replacedBy>>
=============================================================================
