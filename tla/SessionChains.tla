--------------------------- MODULE SessionChains ---------------------------
(***************************************************************************)
(* What the service promises of its sessions, whatever happens inside:     *)
(* every login opens a chain of refresh tokens; a refresh replaces the     *)
(* chain's one live token by its successor, in one step; a revocation      *)
(* kills any set of live tokens; and a chain with no live token is over.   *)
(* Nothing here knows of requests, statements or half-done work.           *)
(***************************************************************************)
CONSTANTS Token, Subject, None

VARIABLES
  live,      \* the tokens a client can still exchange
  login,     \* for each token given to a client: the first token of its chain
  holder     \* for each token given to a client: the account it stands for

chainVars == <<live, login, holder>>

ChainInit ==
  /\ live = {}
  /\ login = [t \in Token |-> None]
  /\ holder = [t \in Token |-> None]

Login(t, s) ==
  /\ login[t] = None
  /\ live' = live \cup {t}
  /\ login' = [login EXCEPT ![t] = t]
  /\ holder' = [holder EXCEPT ![t] = s]

Rotate(old, new) ==
  /\ old \in live
  /\ login[new] = None
  /\ live' = (live \ {old}) \cup {new}
  /\ login' = [login EXCEPT ![new] = login[old]]
  /\ holder' = [holder EXCEPT ![new] = holder[old]]

RevokeSet(T) ==
  /\ T \subseteq live
  /\ live' = live \ T
  /\ UNCHANGED <<login, holder>>

ChainNext ==
  \/ \E t \in Token, s \in Subject : Login(t, s)
  \/ \E old, new \in Token : Rotate(old, new)
  \/ \E T \in SUBSET live : RevokeSet(T)

ChainSpec == ChainInit /\ [][ChainNext]_chainVars
=============================================================================
