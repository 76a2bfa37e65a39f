-------------------------- MODULE AccessTokensProof --------------------------
(***************************************************************************)
(* Proofs about AccessTokens, for any number of tokens and requests, any   *)
(* TTL, any time, any skew of the database's clock and any expiries that   *)
(* callers of TokenRevoke send.                                            *)
(***************************************************************************)
EXTENDS AccessTokens, TLAPS

LEMMA InitIInv == Init => IInv
BY AccessAssumption
   DEF Init, IInv, TypeOK, RowOutlivesToken, States, Expiry, Idle, Minted

(* An insert never takes a row away, and leaves one at least as long as    *)
(* the expiry asked for when no shorter one was there before.              *)
LEMMA InsertKeeps ==
  ASSUME hot \in [Jti -> Expiry \cup {None}], NEW j \in Jti, NEW e \in Nat,
         Insert(j, e)
  PROVE  /\ hot' \in [Jti -> Expiry \cup {None}]
         /\ \A i \in Jti : hot[i] # None => hot'[i] = hot[i]
         /\ \A i \in Jti : i # j => hot'[i] = hot[i]
         /\ hot'[j] # None
         /\ hot[j] = None => hot'[j] = e
BY AccessAssumption DEF Insert, Expiry

LEMMA StepIInv == IInv /\ [Next]_vars => IInv'
<1> SUFFICES ASSUME IInv, [Next]_vars PROVE IInv'
  OBVIOUS
<1> USE AccessAssumption
    DEF IInv, TypeOK, RowOutlivesToken, States, Expiry, Idle, Minted, history
<1>1. ASSUME NEW c \in Call, NEW j \in Jti, BeginVerify(c, j) \/ BeginLogout(c, j)
      PROVE  IInv'
  BY <1>1 DEF BeginVerify, BeginLogout, Parses
<1>2. ASSUME NEW c \in Call, CheckRevoked(c) \/ Stop(c)
      PROVE  IInv'
  BY <1>2 DEF CheckRevoked, Stop
<1>3. ASSUME NEW c \in Call, LogoutAdd(c)
      PROVE  IInv'
  <2> DEFINE j == call[c].jti
  <2>1. j \in Jti /\ exp[j] \in Nat /\ Insert(j, exp[j])
    BY <1>3 DEF LogoutAdd
  <2>2. /\ hot' \in [Jti -> Expiry \cup {None}]
        /\ \A i \in Jti : hot[i] # None => hot'[i] = hot[i]
        /\ \A i \in Jti : i # j => hot'[i] = hot[i]
        /\ hot'[j] # None
        /\ hot[j] = None => hot'[j] = exp[j]
    BY <2>1, InsertKeeps
  <2>3. TypeOK'
    BY <1>3, <2>1, <2>2 DEF LogoutAdd
  <2>4. RowOutlivesToken'
    BY <1>3, <2>1, <2>2 DEF LogoutAdd
  <2> QED
    BY <2>3, <2>4
<1>4. ASSUME NEW j \in Jti, Mint(j)
      PROVE  IInv'
  BY <1>4 DEF Mint
<1>5. ASSUME NEW j \in Jti, TokenRevoke(j)
      PROVE  IInv'
  <2>1. PICK e \in Asked :
          /\ Insert(j, e)
          /\ shortened' = IF hot[j] = None /\ e < exp[j] THEN shortened \cup {j}
                                                        ELSE shortened
    BY <1>5 DEF TokenRevoke
  <2>2. e \in Nat /\ exp[j] \in Nat /\ forced' = forced \cup {j}
    BY <1>5, <2>1 DEF TokenRevoke
  <2>3. /\ hot' \in [Jti -> Expiry \cup {None}]
        /\ \A i \in Jti : hot[i] # None => hot'[i] = hot[i]
        /\ \A i \in Jti : i # j => hot'[i] = hot[i]
        /\ hot'[j] # None
        /\ hot[j] = None => hot'[j] = e
    BY <2>1, <2>2, InsertKeeps
  <2>4. TypeOK'
    BY <1>5, <2>1, <2>3 DEF TokenRevoke
  <2>5. hot[j] = None => j \in shortened' \/ exp[j] <= hot'[j]
    BY <2>1, <2>2, <2>3
  <2>6. shortened \subseteq shortened' /\ shortened' \subseteq shortened \cup {j}
    BY <2>1
  <2>7. RowOutlivesToken'
    BY <1>5, <2>2, <2>3, <2>5, <2>6 DEF TokenRevoke
  <2> QED
    BY <2>4, <2>7
<1>6. CASE Tick \/ UNCHANGED vars
  BY <1>6 DEF Tick, vars
<1> QED
  BY <1>1, <1>2, <1>3, <1>4, <1>5, <1>6 DEF Next

(* The types hold in every state, whatever the callers of TokenRevoke      *)
(* send.                                                                   *)
THEOREM TypeCorrect == Spec => []TypeOK
<1>1. IInv => TypeOK
  BY DEF IInv
<1>2. IInv /\ [Next]_vars => IInv'
  BY StepIInv
<1> QED
  BY InitIInv, <1>1, <1>2, PTL DEF Spec

(* Every revocation, by logout or by /token/revoke and in whatever order,  *)
(* leaves a row that lasts at least as long as its token, but for the      *)
(* tokens whose first row a caller of TokenRevoke asked to be shorter.     *)
THEOREM RowsOutliveTokens == Spec => []RowOutlivesToken
<1>1. IInv => RowOutlivesToken
  BY DEF IInv
<1>2. IInv /\ [Next]_vars => IInv'
  BY StepIInv
<1> QED
  BY InitIInv, <1>1, <1>2, PTL DEF Spec

(* A revoked token is accepted only when, by the clock of the process, it  *)
(* has expired or will within the skew of the two clocks, or when its row  *)
(* is a short one.                                                         *)
THEOREM RevocationLasts == Spec => RefusedButLastSkew
<1>1. ASSUME IInv, [Next]_vars
      PROVE  \A c \in Call :
               Accepts(c) /\ call[c].jti \in (loggedOut \cup forced) \ shortened =>
                 exp[call[c].jti] <= now + Skew
  <2> SUFFICES ASSUME NEW c \in Call, Accepts(c),
                      call[c].jti \in (loggedOut \cup forced) \ shortened
               PROVE  exp[call[c].jti] <= now + Skew
    OBVIOUS
  <2> DEFINE j == call[c].jti
  <2>1. CheckRevoked(c)
    <3> USE DEF Accepts, IInv, TypeOK
    <3>1. ASSUME NEW d \in Call, CheckRevoked(d) PROVE d = c
      BY <1>1, <3>1 DEF CheckRevoked, Idle
    <3>2. ~(\E d \in Call : LogoutAdd(d) \/ Stop(d))
      BY <1>1 DEF LogoutAdd, Stop, Idle
    <3>3. ~(\E d \in Call, i \in Jti : BeginVerify(d, i) \/ BeginLogout(d, i))
      BY <1>1 DEF BeginVerify, BeginLogout
    <3>4. ~((\E i \in Jti : Mint(i) \/ TokenRevoke(i)) \/ Tick
            \/ UNCHANGED vars)
      BY DEF Mint, TokenRevoke, Tick, vars
    <3> QED
      BY <1>1, <3>1, <3>2, <3>3, <3>4 DEF Next
  <2>2. PICK t \in DBClock : ~IsRevoked(j, t)
    BY <1>1, <2>1 DEF CheckRevoked, Accepts, IInv, TypeOK, Idle
  <2>3. j \in Jti /\ hot[j] # None /\ exp[j] <= hot[j] /\ j \in Minted
    BY <1>1 DEF IInv, TypeOK, RowOutlivesToken
  <2>4. hot[j] \in Nat /\ exp[j] \in Nat /\ now \in Nat
    BY <1>1, <2>3, AccessAssumption DEF IInv, TypeOK, Minted, Expiry
  <2>5. t \in Nat /\ t <= now + Skew
    BY <2>4, AccessAssumption DEF DBClock
  <2>6. hot[j] <= t
    BY <2>2, <2>3, <2>4, <2>5 DEF IsRevoked
  <2> QED
    BY <2>3, <2>4, <2>5, <2>6, AccessAssumption
<1>2. IInv /\ [Next]_vars => IInv'
  BY StepIInv
<1> QED
  BY InitIInv, <1>1, <1>2, PTL DEF Spec, RefusedButLastSkew
=============================================================================
