---------------------------- MODULE SessionsProof ----------------------------
(***************************************************************************)
(* Proofs of the properties of Sessions, for any sets of tokens, subjects  *)
(* and requests.                                                           *)
(***************************************************************************)
EXTENDS Sessions, TLAPS

LEMMA InitIInv == Init => IInv
BY NoneAssumption
   DEF Init, TableInit, IInv, TypeOK, TableTypeOK, RequestType, Labels, Locals, Idle,
       Rows, At, RowsConsistent, RequestConsistent, PendingDistinct,
       PendingFallTogether, OneLivePerLogin, Live

LEMMA StepIInv == IInv /\ [Next]_vars => IInv'
<1> SUFFICES ASSUME IInv, [Next]_vars PROVE IInv'
  OBVIOUS
<1> USE NoneAssumption
    DEF IInv, TypeOK, TableTypeOK, RequestType, Labels, Rows, At
<1>1. ASSUME NEW r \in Request, NEW s \in Subject,
             BeginMint(r, s) \/ BeginPurge(r, s)
      PROVE  IInv'
  <2> USE <1>1 DEF BeginMint, BeginPurge, Start, Locals, tableVars
  <2>1. TypeOK'
    BY DEF RowsConsistent, RequestConsistent
  <2>2. RowsConsistent'
    BY DEF RowsConsistent, RequestConsistent
  <2>3. \A q \in Request : RequestConsistent(q)'
    BY DEF RowsConsistent, RequestConsistent
  <2>4. PendingDistinct'
    BY DEF RowsConsistent, RequestConsistent, PendingDistinct
  <2>5. PendingFallTogether'
    BY DEF RowsConsistent, RequestConsistent, PendingFallTogether
  <2>6. OneLivePerLogin'
    BY DEF RowsConsistent, RequestConsistent, OneLivePerLogin, Live
  <2> QED
    BY <2>1, <2>2, <2>3, <2>4, <2>5, <2>6
<1>2. ASSUME NEW r \in Request, NEW t \in Token, MintLogin(r, t)
      PROVE  IInv'
  <2> USE <1>2 DEF MintLogin, Create, Finish, Idle, Locals
  <2>1. TypeOK'
    BY DEF RowsConsistent, RequestConsistent
  <2>2. RowsConsistent'
    BY DEF RowsConsistent, RequestConsistent
  <2>3. \A q \in Request : RequestConsistent(q)'
    BY DEF RowsConsistent, RequestConsistent
  <2>4. PendingDistinct'
    BY DEF RowsConsistent, RequestConsistent, PendingDistinct
  <2>5. PendingFallTogether'
    BY DEF RowsConsistent, RequestConsistent, PendingFallTogether
  <2>6. OneLivePerLogin'
    BY DEF RowsConsistent, RequestConsistent, OneLivePerLogin, Live
  <2> QED
    BY <2>1, <2>2, <2>3, <2>4, <2>5, <2>6
<1>3. ASSUME NEW r \in Request, NEW t \in Token, MintRefresh(r, t)
      PROVE  IInv'
  <2> USE <1>3 DEF MintRefresh, Create
  <2>1. TypeOK'
    <3>1. req[r] \in RequestType /\ req[r].old \in Token
      OBVIOUS
    <3>2. TableTypeOK' /\ root' \in [Token -> Token \cup {None}]
      BY <3>1
    <3>3. req' \in [Request -> RequestType]
      BY <3>1
    <3> QED
      BY <3>2, <3>3
  <2>2. RowsConsistent'
    BY DEF RowsConsistent, RequestConsistent
  <2>3. \A q \in Request : RequestConsistent(q)'
    BY DEF RowsConsistent, RequestConsistent
  <2>4. PendingDistinct'
    BY DEF RowsConsistent, RequestConsistent, PendingDistinct
  <2>5. PendingFallTogether'
    BY DEF RowsConsistent, RequestConsistent, PendingFallTogether
  <2>6. OneLivePerLogin'
    BY DEF RowsConsistent, RequestConsistent, OneLivePerLogin, Live
  <2> QED
    BY <2>1, <2>2, <2>3, <2>4, <2>5, <2>6
<1>4. ASSUME NEW r \in Request, NEW t \in Token,
             RefreshActive(r, t) \/ RefreshReplay(r, t)
      PROVE  IInv'
  <2> USE <1>4 DEF RefreshActive, RefreshReplay, Start, Locals, tableVars
  <2>1. TypeOK'
    BY DEF RowsConsistent, RequestConsistent
  <2>2. RowsConsistent'
    BY DEF RowsConsistent, RequestConsistent
  <2>3. \A q \in Request : RequestConsistent(q)'
    BY DEF RowsConsistent, RequestConsistent
  <2>4. PendingDistinct'
    BY DEF RowsConsistent, RequestConsistent, PendingDistinct
  <2>5. PendingFallTogether'
    BY DEF RowsConsistent, RequestConsistent, PendingFallTogether
  <2>6. OneLivePerLogin'
    BY DEF RowsConsistent, RequestConsistent, OneLivePerLogin, Live
  <2> QED
    BY <2>1, <2>2, <2>3, <2>4, <2>5, <2>6
<1>5. ASSUME NEW r \in Request, RefreshAccount(r)
      PROVE  IInv'
  <2> USE <1>5 DEF RefreshAccount, Step, Finish, Idle, Locals, tableVars
  <2>1. TypeOK'
    BY DEF RowsConsistent, RequestConsistent
  <2>2. RowsConsistent'
    BY DEF RowsConsistent, RequestConsistent
  <2>3. \A q \in Request : RequestConsistent(q)'
    BY DEF RowsConsistent, RequestConsistent
  <2>4. PendingDistinct'
    BY DEF RowsConsistent, RequestConsistent, PendingDistinct
  <2>5. PendingFallTogether'
    BY DEF RowsConsistent, RequestConsistent, PendingFallTogether
  <2>6. OneLivePerLogin'
    BY DEF RowsConsistent, RequestConsistent, OneLivePerLogin, Live
  <2> QED
    BY <2>1, <2>2, <2>3, <2>4, <2>5, <2>6
<1>6. ASSUME NEW r \in Request, Rotate(r)
      PROVE  IInv'
  <2> USE <1>6 DEF Rotate, CanRevoke, Revoke, Finish, Idle, Locals, tableVars
  <2>1. TypeOK'
    BY DEF RowsConsistent, RequestConsistent
  <2>2. RowsConsistent'
    BY DEF RowsConsistent, RequestConsistent
  <2>3. ASSUME NEW q \in Request PROVE RequestConsistent(q)'
    <3>1. CASE q = r
      BY <3>1 DEF RequestConsistent
    <3>2. CASE q # r
      BY <3>2 DEF RequestConsistent, PendingDistinct
    <3> QED
      BY <3>1, <3>2
  <2>4. PendingDistinct'
    BY DEF RowsConsistent, RequestConsistent, PendingDistinct
  <2>5. PendingFallTogether'
    BY DEF RowsConsistent, RequestConsistent, PendingFallTogether
  <2>6. OneLivePerLogin'
    BY DEF RowsConsistent, RequestConsistent, OneLivePerLogin, Live
  <2> QED
    BY <2>1, <2>2, <2>3, <2>4, <2>5, <2>6
<1>7. ASSUME NEW r \in Request, PurgeSnapshot(r)
      PROVE  IInv'
  <2> USE <1>7 DEF PurgeSnapshot, ActiveOf, tableVars
  <2>1. TypeOK'
    <3>1. req[r] \in RequestType /\ ActiveOf(req[r].subj) \subseteq Token
      OBVIOUS
    <3>2. req' \in [Request -> RequestType]
      BY <3>1
    <3> QED
      BY <3>2
  <2>2. RowsConsistent'
    BY DEF RowsConsistent, RequestConsistent
  <2>3. \A q \in Request : RequestConsistent(q)'
    BY DEF RowsConsistent, RequestConsistent
  <2>4. PendingDistinct'
    BY DEF RowsConsistent, RequestConsistent, PendingDistinct
  <2>5. PendingFallTogether'
    BY DEF RowsConsistent, RequestConsistent, PendingFallTogether
  <2>6. OneLivePerLogin'
    BY DEF RowsConsistent, RequestConsistent, OneLivePerLogin, Live
  <2> QED
    BY <2>1, <2>2, <2>3, <2>4, <2>5, <2>6
<1>8. ASSUME NEW r \in Request, PurgeCommit(r)
      PROVE  IInv'
  <2> USE <1>8 DEF PurgeCommit, RevokeAll, Step
  <2>1. TypeOK'
    BY DEF RowsConsistent, RequestConsistent
  <2>2. RowsConsistent'
    BY DEF RowsConsistent, RequestConsistent
  <2>3. \A q \in Request : RequestConsistent(q)'
    BY DEF RowsConsistent, RequestConsistent
  <2>4. PendingDistinct'
    BY DEF RowsConsistent, RequestConsistent, PendingDistinct
  <2>5. PendingFallTogether'
    BY DEF RowsConsistent, RequestConsistent, PendingFallTogether
  <2>6. OneLivePerLogin'
    BY DEF RowsConsistent, RequestConsistent, OneLivePerLogin, Live
  <2> QED
    BY <2>1, <2>2, <2>3, <2>4, <2>5, <2>6
<1>9. ASSUME NEW r \in Request, Stop(r)
      PROVE  IInv'
  <2> USE <1>9 DEF Stop, Finish, Idle, Locals, tableVars
  <2>1. TypeOK'
    BY DEF RowsConsistent, RequestConsistent
  <2>2. RowsConsistent'
    BY DEF RowsConsistent, RequestConsistent
  <2>3. \A q \in Request : RequestConsistent(q)'
    BY DEF RowsConsistent, RequestConsistent
  <2>4. PendingDistinct'
    BY DEF RowsConsistent, RequestConsistent, PendingDistinct
  <2>5. PendingFallTogether'
    BY DEF RowsConsistent, RequestConsistent, PendingFallTogether
  <2>6. OneLivePerLogin'
    BY DEF RowsConsistent, RequestConsistent, OneLivePerLogin, Live
  <2> QED
    BY <2>1, <2>2, <2>3, <2>4, <2>5, <2>6
<1>10. ASSUME NEW t \in Token, Logout(t) \/ Expire(t)
      PROVE  IInv'
  <2> USE <1>10 DEF Logout, Expire, Lapse, CanRevoke, Revoke, sessionVars
  <2>1. TypeOK'
    BY DEF RowsConsistent, RequestConsistent
  <2>2. RowsConsistent'
    BY DEF RowsConsistent, RequestConsistent
  <2>3. \A q \in Request : RequestConsistent(q)'
    BY DEF RowsConsistent, RequestConsistent
  <2>4. PendingDistinct'
    BY DEF RowsConsistent, RequestConsistent, PendingDistinct
  <2>5. PendingFallTogether'
    BY DEF RowsConsistent, RequestConsistent, PendingFallTogether
  <2>6. OneLivePerLogin'
    BY DEF RowsConsistent, RequestConsistent, OneLivePerLogin, Live
  <2> QED
    BY <2>1, <2>2, <2>3, <2>4, <2>5, <2>6
<1>11. ASSUME NEW s \in Subject, DeleteAccount(s)
      PROVE  IInv'
  <2> USE <1>11 DEF DeleteAccount, tableVars
  <2>1. TypeOK'
    BY DEF RowsConsistent, RequestConsistent
  <2>2. RowsConsistent'
    BY DEF RowsConsistent, RequestConsistent
  <2>3. \A q \in Request : RequestConsistent(q)'
    BY DEF RowsConsistent, RequestConsistent
  <2>4. PendingDistinct'
    BY DEF RowsConsistent, RequestConsistent, PendingDistinct
  <2>5. PendingFallTogether'
    BY DEF RowsConsistent, RequestConsistent, PendingFallTogether
  <2>6. OneLivePerLogin'
    BY DEF RowsConsistent, RequestConsistent, OneLivePerLogin, Live
  <2> QED
    BY <2>1, <2>2, <2>3, <2>4, <2>5, <2>6
<1>12. CASE UNCHANGED vars
  BY <1>12 DEF vars, tableVars, sessionVars, RowsConsistent, RequestConsistent,
     PendingDistinct, PendingFallTogether, OneLivePerLogin, Live
<1> QED
  BY <1>1, <1>2, <1>3, <1>4, <1>5, <1>6, <1>7, <1>8, <1>9, <1>10, <1>11, <1>12
  DEF Next

(* The inductive invariant: rows and requests fit together, no two         *)
(* refreshes under way can both answer, and no login has two live tokens.  *)
THEOREM Invariance == Spec => []IInv
BY InitIInv, StepIInv, PTL DEF Spec

(* No TypeOK-breaking value ever reaches the table or the locals of a      *)
(* request: every subject, token and program counter is one the code has.  *)
THEOREM TypeCorrect == Spec => []TypeOK
<1>1. IInv => TypeOK
  BY DEF IInv
<1> QED
  BY Invariance, <1>1, PTL

(* At most one usable token per login in every reachable state: the CAS in *)
(* RefreshTokenRepo.Revoke is enough, without any transaction, although    *)
(* mint inserts the successor first.                                       *)
THEOREM AtMostOneLive == Spec => []OneLivePerLogin
<1>1. IInv => OneLivePerLogin
  BY DEF IInv
<1> QED
  BY Invariance, <1>1, PTL

-----------------------------------------------------------------------------
(* What a step may do to the chains clients hold: rows keep their history, *)
(* and a token becomes live only as the first of its chain or in place of  *)
(* a live one of the same chain.                                           *)
LEMMA StepLive ==
  ASSUME IInv, [Next]_vars
  PROVE  /\ granted \subseteq granted'
         /\ \A t \in Rows : root'[t] = root[t] /\ owner'[t] = owner[t]
         /\ \A u \in Live' \ Live : \/ u \notin Rows /\ root'[u] = u
                                  \/ /\ u \in Rows
                                     /\ \E old \in Live : root[u] = root[old]
<1> USE DEF IInv, TypeOK, TableTypeOK, RequestType, RowsConsistent, Rows, Live, At
<1>1. ASSUME NEW r \in Request, NEW t \in Token, MintLogin(r, t)
      PROVE  /\ granted' = granted \cup {t} /\ revoked' = revoked
             /\ t \notin Rows /\ root'[t] = t
             /\ \A u \in Rows : root'[u] = root[u] /\ owner'[u] = owner[u]
  BY <1>1 DEF MintLogin, Create
<1>2. ASSUME NEW r \in Request, NEW t \in Token, MintRefresh(r, t)
      PROVE  /\ granted' = granted /\ revoked' = revoked
             /\ \A u \in Rows : root'[u] = root[u] /\ owner'[u] = owner[u]
  BY <1>2 DEF MintRefresh, Create
<1>3. ASSUME NEW r \in Request, Rotate(r)
      PROVE  /\ granted \subseteq granted' /\ root' = root /\ owner' = owner
             /\ \A u \in Live' \ Live :
                  u \in Rows /\ req[r].old \in Live /\ root[u] = root[req[r].old]
  BY <1>3 DEF Rotate, CanRevoke, Revoke, tableVars, RequestConsistent
<1>4. ASSUME \/ \E r \in Request :
                  \/ \E s \in Subject : BeginMint(r, s) \/ BeginPurge(r, s)
                  \/ \E t \in Token : RefreshActive(r, t) \/ RefreshReplay(r, t)
                  \/ RefreshAccount(r) \/ PurgeSnapshot(r) \/ PurgeCommit(r)
                  \/ Stop(r)
             \/ \E t \in Token : Logout(t) \/ Expire(t)
             \/ \E s \in Subject : DeleteAccount(s)
             \/ UNCHANGED vars
      PROVE  /\ granted' = granted /\ revoked \subseteq revoked'
             /\ root' = root /\ owner' = owner
  BY <1>4 DEF BeginMint, BeginPurge, RefreshActive, RefreshReplay,
     RefreshAccount, PurgeSnapshot, PurgeCommit, Stop, Logout, Expire, Lapse,
     Revoke, RevokeAll, DeleteAccount, tableVars, sessionVars, vars
<1> QED
  BY <1>1, <1>2, <1>3, <1>4 DEF Next

(* A chain that a revocation has ended is never revived, whatever refresh  *)
(* was under way when it ended.                                            *)
THEOREM EndedChainsStayEnded == Spec => EndedStaysEnded
<1>1. ASSUME IInv, [Next]_vars
      PROVE  \A t \in granted : Chain(t) = {} => Chain(t)' = {}
  <2> SUFFICES ASSUME NEW t \in granted, NEW u \in Live', root'[u] = root'[t]
               PROVE  \E v \in Live : root[v] = root[t]
    BY DEF Chain
  <2>1. t \in Rows /\ root[t] \in Rows /\ Live \subseteq Rows
    BY <1>1 DEF IInv, RowsConsistent, Live
  <2>2. root'[t] = root[t]
    BY <1>1, <2>1, StepLive
  <2>3. CASE u \in Live
    BY <1>1, <2>1, <2>2, <2>3, StepLive
  <2>4. CASE u \notin Rows /\ root'[u] = u
    BY <2>1, <2>2, <2>4
  <2>5. CASE \E old \in Live : u \in Rows /\ root[u] = root[old]
    BY <1>1, <2>2, <2>5, StepLive
  <2> QED
    BY <1>1, <2>3, <2>4, <2>5, StepLive
<1> QED
  BY InitIInv, StepIInv, <1>1, PTL DEF Spec, EndedStaysEnded

(* With no refresh of a deleted account past the account check, a step     *)
(* takes none past it, and answers no refresh of the account.              *)
LEMMA StepGone ==
  ASSUME IInv, [Next]_vars, NEW s \in gone, Refreshing(s) = {}
  PROVE  /\ Refreshing(s)' = {}
         /\ \A t \in granted' \ granted : owner'[t] = s => root'[t] = t
<1> DEFINE Past(q) == /\ req[q].subj = s /\ req[q].old # None
                      /\ At(q, "mint") \/ At(q, "rotate")
<1> USE NoneAssumption
    DEF IInv, TypeOK, TableTypeOK, RequestType, Rows, At
<1>1. \A q \in Request : ~Past(q)
  BY DEF Refreshing
<1>2. SUFFICES /\ \A q \in Request : ~Past(q)'
               /\ \A t \in granted' \ granted : owner'[t] = s => root'[t] = t
  BY DEF Refreshing
<1>3. ASSUME NEW r \in Request, NEW t \in Token, MintLogin(r, t)
      PROVE  /\ \A q \in Request : ~Past(q)'
             /\ \A u \in granted' \ granted : owner'[u] = s => root'[u] = u
  BY <1>1, <1>3 DEF MintLogin, Create, Finish, Idle, Locals
<1>4. ASSUME NEW r \in Request, NEW t \in Token, MintRefresh(r, t)
      PROVE  granted' = granted /\ \A q \in Request : ~Past(q)'
  BY <1>1, <1>4 DEF MintRefresh
<1>5. ASSUME NEW r \in Request, RefreshAccount(r)
      PROVE  granted' = granted /\ \A q \in Request : ~Past(q)'
  BY <1>1, <1>5 DEF RefreshAccount, AccountExists, Step, Finish, Idle, Locals
<1>6. ASSUME NEW r \in Request, Rotate(r)
      PROVE  /\ \A q \in Request : ~Past(q)'
             /\ \A u \in granted' \ granted : owner'[u] = s => root'[u] = u
  <2>1. granted' \ granted \subseteq {req[r].new} /\ owner' = owner
    BY <1>6 DEF Rotate, Revoke, tableVars
  <2>2. owner[req[r].new] # s
    BY <1>1, <1>6 DEF Rotate, RequestConsistent
  <2>3. \A q \in Request : ~Past(q)'
    BY <1>1, <1>6 DEF Rotate, Finish, Idle, Locals
  <2> QED
    BY <2>1, <2>2, <2>3
<1>7. ASSUME NEW r \in Request,
             \/ \E q \in Subject : BeginMint(r, q) \/ BeginPurge(r, q)
             \/ \E t \in Token : RefreshActive(r, t) \/ RefreshReplay(r, t)
      PROVE  granted' = granted /\ \A q \in Request : ~Past(q)'
  BY <1>1, <1>7 DEF BeginMint, BeginPurge, Start, RefreshActive,
     RefreshReplay, Locals
<1>8. ASSUME NEW r \in Request, PurgeSnapshot(r) \/ PurgeCommit(r) \/ Stop(r)
      PROVE  granted' = granted /\ \A q \in Request : ~Past(q)'
  <2>1. CASE PurgeSnapshot(r)
    BY <1>1, <2>1 DEF PurgeSnapshot
  <2>2. CASE PurgeCommit(r)
    BY <1>1, <2>2 DEF PurgeCommit, Step
  <2>3. CASE Stop(r)
    BY <1>1, <2>3 DEF Stop, Finish, Idle, Locals
  <2> QED
    BY <1>8, <2>1, <2>2, <2>3
<1>9. ASSUME \/ \E t \in Token : Logout(t) \/ Expire(t)
             \/ \E q \in Subject : DeleteAccount(q)
             \/ UNCHANGED vars
      PROVE  granted' = granted /\ \A q \in Request : ~Past(q)'
  BY <1>1, <1>9 DEF Logout, Expire, DeleteAccount, sessionVars, vars
<1> QED
  BY <1>3, <1>4, <1>5, <1>6, <1>7, <1>8, <1>9 DEF Next

(* A deleted account drains: with no refresh of it past the account check, *)
(* no refresh gets past it again and none is answered.                     *)
THEOREM GoneAccountsDrain == Spec => GoneAccountDrains
<1>1. ASSUME IInv, [Next]_vars
      PROVE  \A s \in gone : Refreshing(s) = {} =>
               /\ Refreshing(s)' = {}
               /\ \A t \in granted' \ granted : owner'[t] = s => root'[t] = t
  BY <1>1, StepGone
<1> QED
  BY InitIInv, StepIInv, <1>1, PTL DEF Spec, GoneAccountDrains

-----------------------------------------------------------------------------
(* Every step of the requests is a step of the chains, or leaves them.     *)
LEMMA StepChains ==
  IInv /\ [Next]_vars => [Chains!ChainNext]_(Chains!chainVars)
<1> SUFFICES ASSUME IInv, [Next]_vars
             PROVE  [Chains!ChainNext]_(Chains!chainVars)
  OBVIOUS
<1> USE NoneAssumption
    DEF IInv, TypeOK, TableTypeOK, RequestType, RowsConsistent, Rows, Live, At
<1>1. ASSUME NEW r \in Request, NEW t \in Token, MintLogin(r, t)
      PROVE  Chains!Login(t, req[r].subj) /\ req[r].subj \in Subject
  <2>1. /\ granted' = granted \cup {t} /\ revoked' = revoked
        /\ root' = [root EXCEPT ![t] = t]
        /\ owner' = [owner EXCEPT ![t] = req[r].subj]
        /\ t \notin granted /\ t \notin revoked
        /\ req[r].subj \in Subject
    BY <1>1 DEF MintLogin, Create, RequestConsistent
  <2>2. Live' = Live \cup {t}
    BY <2>1
  <2>3. [u \in Token |-> IF u \in granted' THEN root'[u] ELSE None]
        = [[u \in Token |-> IF u \in granted THEN root[u] ELSE None] EXCEPT ![t] = t]
    BY <2>1
  <2>4. [u \in Token |-> IF u \in granted' THEN owner'[u] ELSE None]
        = [[u \in Token |-> IF u \in granted THEN owner[u] ELSE None]
             EXCEPT ![t] = req[r].subj]
    BY <2>1
  <2> QED
    BY <2>1, <2>2, <2>3, <2>4 DEF Chains!Login
<1>2. ASSUME NEW r \in Request, Rotate(r), CanRevoke(req[r].old)
      PROVE  /\ Chains!Rotate(req[r].old, req[r].new)
             /\ req[r].old \in Token /\ req[r].new \in Token
  <2> DEFINE old == req[r].old
             new == req[r].new
  <2>1. /\ granted' = granted \cup {new} /\ revoked' = revoked \cup {old}
        /\ UNCHANGED <<owner, root>>
    BY <1>2 DEF Rotate, Revoke
  <2>2. /\ old \in granted \ revoked /\ new \in Token
        /\ new \notin granted /\ new \notin revoked
        /\ root[new] = root[old] /\ owner[new] = owner[old]
    BY <1>2 DEF Rotate, CanRevoke, RequestConsistent, PendingFallTogether
  <2>3. Live' = (Live \ {old}) \cup {new}
    BY <2>1, <2>2
  <2> HIDE DEF old, new
  <2>4. Chains!Rotate(old, new)
    BY <2>1, <2>2, <2>3 DEF Chains!Rotate
  <2> QED
    BY <2>2, <2>4 DEF old, new
<1>3. ASSUME NEW t \in Token, Logout(t)
      PROVE  Chains!RevokeSet({t})
  BY <1>3 DEF Logout, CanRevoke, Revoke, sessionVars, Chains!RevokeSet
<1>4. ASSUME NEW r \in Request, PurgeCommit(r)
      PROVE  Chains!RevokeSet(req[r].snap \cap Live)
  BY <1>4 DEF PurgeCommit, RevokeAll, Chains!RevokeSet
<1>5. ASSUME NEW r \in Request, NEW t \in Token, MintRefresh(r, t)
      PROVE  UNCHANGED Chains!chainVars
  BY <1>5 DEF MintRefresh, Create, Chains!chainVars
<1>6. ASSUME \/ \E r \in Request :
                  \/ \E s \in Subject : BeginMint(r, s) \/ BeginPurge(r, s)
                  \/ \E t \in Token : RefreshActive(r, t) \/ RefreshReplay(r, t)
                  \/ RefreshAccount(r) \/ PurgeSnapshot(r) \/ Stop(r)
                  \/ Rotate(r) /\ ~CanRevoke(req[r].old)
             \/ \E t \in Token : Expire(t)
             \/ \E s \in Subject : DeleteAccount(s)
             \/ UNCHANGED vars
      PROVE  UNCHANGED Chains!chainVars
  <2>1. UNCHANGED <<owner, revoked, granted, root>>
    BY <1>6 DEF BeginMint, BeginPurge, RefreshActive, RefreshReplay,
       RefreshAccount, PurgeSnapshot, Stop, Rotate, Expire, Lapse,
       DeleteAccount, tableVars, sessionVars, vars
  <2> QED
    BY <2>1 DEF Chains!chainVars
<1>7. ASSUME NEW T, Chains!RevokeSet(T)
      PROVE  Chains!ChainNext
  BY ONLY <1>7 DEF Chains!ChainNext, Chains!RevokeSet
<1>8. CASE \E r \in Request, t \in Token : MintLogin(r, t)
  <2> PICK r \in Request, t \in Token : MintLogin(r, t)
    BY <1>8
  <2> DEFINE who == req[r].subj
  <2>1. Chains!Login(t, who) /\ who \in Subject
    BY <1>1
  <2> HIDE DEF who
  <2>2. Chains!ChainNext
    BY ONLY <2>1, t \in Token DEF Chains!ChainNext, Chains!Login
  <2> QED
    BY <2>2
<1>9. CASE \E r \in Request : Rotate(r) /\ CanRevoke(req[r].old)
  <2> PICK r \in Request : Rotate(r) /\ CanRevoke(req[r].old)
    BY <1>9
  <2> DEFINE old == req[r].old
             new == req[r].new
  <2>1. Chains!Rotate(old, new) /\ old \in Token /\ new \in Token
    BY <1>2
  <2> HIDE DEF old, new
  <2>2. Chains!ChainNext
    BY ONLY <2>1 DEF Chains!ChainNext, Chains!Rotate
  <2> QED
    BY <2>2
<1>10. CASE \/ \E t \in Token : Logout(t)
            \/ \E r \in Request : PurgeCommit(r)
  BY <1>3, <1>4, <1>7, <1>10
<1> HIDE DEF IInv
<1> QED
  BY <1>5, <1>6, <1>8, <1>9, <1>10 DEF Next

(* The service implements the chains: to its clients a refresh replaces    *)
(* one token by one other in a single step and a revocation is final,      *)
(* however requests interleave, fail or die between their statements.      *)
THEOREM ServiceImplementsChains == Spec => ImplementsChains
<1>1. Init => Chains!ChainInit
  BY DEF Init, TableInit, Live, Chains!ChainInit
<1> QED
  BY InitIInv, StepIInv, StepChains, <1>1, PTL
  DEF Spec, ImplementsChains, Chains!ChainSpec
=============================================================================
