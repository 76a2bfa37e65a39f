---------------------------- MODULE AccessTokens ----------------------------
(***************************************************************************)
(* Access tokens: signed, never stored, and valid until their exp unless   *)
(* their jti is in the table revoked_jtis.  VerifyAccess reads the clock   *)
(* of the process when it parses the token and the clock of the database   *)
(* when it asks for the jti, in that order, with anything in between; the  *)
(* two clocks need not agree.  Logout parses the token and inserts its jti *)
(* later; TokenRevoke inserts a jti with whatever expiry its caller sends, *)
(* too early ones included.                                                *)
(* A row is never updated: the INSERT is ON CONFLICT DO NOTHING, so the    *)
(* first row of a jti decides how long it is refused.                      *)
(***************************************************************************)
EXTENDS Naturals

CONSTANTS Jti,        \* the access tokens, by the jti mint draws for them
          Call,       \* requests that can be under way at once
          AccessTTL,  \* accessTTL, in ticks
          Skew,       \* how far the database's clock is off at most, either way
          Asked,      \* expires_at in the calls of TokenRevoke, 0 when left out
          MaxTime,    \* bound: the last instant explored
          None

ASSUME AccessAssumption ==
  /\ AccessTTL \in Nat \ {0} /\ Skew \in Nat /\ MaxTime \in Nat
  /\ Asked \subseteq Nat
  /\ None \notin Jti /\ None \notin Nat

VARIABLES
  now,        \* the clock of the processes
  exp,        \* exp claim of each token, None before it is minted
  hot,        \* revoked_jtis: expires_at of the row of each jti, None without
  call,       \* what each request does, and with which token
  loggedOut,  \* history: tokens whose jti a Logout has inserted
  forced,     \* history: jtis for which TokenRevoke has answered ok
  shortened   \* history: jtis whose row a TokenRevoke inserted for less than
              \* the life of the token

history == <<loggedOut, forced, shortened>>
vars == <<now, exp, hot, call, history>>

States == {"idle",
           "parsed",   \* VerifyAccess: signature and exp accepted
           "valid",    \* VerifyAccess: about to answer that the token is valid
           "logout"}   \* Logout: token accepted, jti to be inserted

Expiry == Nat

Idle == [pc |-> "idle", jti |-> None]

TypeOK ==
  /\ now \in Nat
  /\ exp \in [Jti -> Expiry \cup {None}]
  /\ hot \in [Jti -> Expiry \cup {None}]
  /\ call \in [Call -> [pc : States, jti : Jti \cup {None}]]
  /\ \A c \in Call : call[c].pc # "idle" => call[c].jti \in Jti /\ exp[call[c].jti] # None
  /\ loggedOut \subseteq Jti /\ forced \subseteq Jti /\ shortened \subseteq Jti

Init ==
  /\ now = 0
  /\ exp = [j \in Jti |-> None]
  /\ hot = [j \in Jti |-> None]
  /\ call = [c \in Call |-> Idle]
  /\ loggedOut = {} /\ forced = {} /\ shortened = {}

Minted == {j \in Jti : exp[j] # None}

(* What the clock of the database may say. *)
DBClock == {t \in 0 .. now + Skew : now <= t + Skew}

(* mint: exp is the process's clock plus the TTL. *)
Mint(j) ==
  /\ j \notin Minted
  /\ exp' = [exp EXCEPT ![j] = now + AccessTTL]
  /\ UNCHANGED <<now, hot, call, history>>

(* A parser that accepts a signature of somebody else: a mutant. *)
ParsesForged(j) == TRUE

(* parseDualSign: of the tokens minted here, those before their exp. *)
Parses(j) == j \in Minted /\ now < exp[j]

(* A query that wants the row to last a tick longer: a mutant. *)
IsRevokedEarly(j, t) == hot[j] # None /\ hot[j] > t + 1

(* RevokedJTIRepo.IsRevoked: a row that has not expired by NOW(). *)
IsRevoked(j, t) == hot[j] # None /\ hot[j] > t

(* RevokedJTIRepo.Add: DO NOTHING when the jti has a row. *)
Insert(j, e) ==
  hot' = IF hot[j] = None THEN [hot EXCEPT ![j] = e] ELSE hot

(***************************************************************************)
(* VerifyAccess, for /token/verify.  A token that does not parse is        *)
(* refused and changes nothing.                                            *)
(***************************************************************************)
BeginVerify(c, j) ==
  /\ call[c].pc = "idle"
  /\ Parses(j)
  /\ call' = [call EXCEPT ![c] = [pc |-> "parsed", jti |-> j]]
  /\ UNCHANGED <<now, exp, hot, history>>

CheckRevoked(c) ==
  /\ call[c].pc = "parsed"
  /\ \E t \in DBClock :
       \/ /\ IsRevoked(call[c].jti, t)
          /\ call' = [call EXCEPT ![c] = Idle]
       \/ /\ ~IsRevoked(call[c].jti, t)
          /\ call' = [call EXCEPT ![c].pc = "valid"]
  /\ UNCHANGED <<now, exp, hot, history>>

(***************************************************************************)
(* Logout.  The handler verifies the token for its jti and exp and takes   *)
(* a revoked one too; the answer is ok whatever becomes of the insert.     *)
(***************************************************************************)
BeginLogout(c, j) ==
  /\ call[c].pc = "idle"
  /\ Parses(j)
  /\ call' = [call EXCEPT ![c] = [pc |-> "logout", jti |-> j]]
  /\ UNCHANGED <<now, exp, hot, history>>

(* A mutant of LogoutAdd: the row expires at once. *)
LogoutAddNow(c) ==
  LET j == call[c].jti IN
    /\ call[c].pc = "logout"
    /\ Insert(j, now)
    /\ loggedOut' = loggedOut \cup {j}
    /\ call' = [call EXCEPT ![c] = Idle]
    /\ UNCHANGED <<now, exp, forced, shortened>>

LogoutAdd(c) ==
  LET j == call[c].jti IN
    /\ call[c].pc = "logout"
    /\ Insert(j, exp[j])
    /\ loggedOut' = loggedOut \cup {j}
    /\ call' = [call EXCEPT ![c] = Idle]
    /\ UNCHANGED <<now, exp, forced, shortened>>

(***************************************************************************)
(* TokenRevoke: one transaction.  The row expires when the body says;      *)
(* handlers.go:222 asks for the end of the token's life, nothing compares  *)
(* the two, and a body without the field gives time 0.                     *)
(***************************************************************************)
TokenRevoke(j) ==
  /\ j \in Minted
  /\ \E e \in Asked :
       /\ Insert(j, e)
       /\ shortened' = IF hot[j] = None /\ e < exp[j] THEN shortened \cup {j}
                                                     ELSE shortened
  /\ forced' = forced \cup {j}
  /\ UNCHANGED <<now, exp, call, loggedOut>>

(* The answer; or an error, a cancelled context, a dead process. *)
Stop(c) ==
  /\ call[c].pc # "idle"
  /\ call' = [call EXCEPT ![c] = Idle]
  /\ UNCHANGED <<now, exp, hot, history>>

Tick ==
  /\ now < MaxTime
  /\ now' = now + 1
  /\ UNCHANGED <<exp, hot, call, history>>

Next ==
  \/ \E c \in Call : \/ CheckRevoked(c) \/ LogoutAdd(c) \/ Stop(c)
                     \/ \E j \in Jti : BeginVerify(c, j) \/ BeginLogout(c, j)
  \/ \E j \in Jti : Mint(j) \/ TokenRevoke(j)
  \/ Tick

Spec == Init /\ [][Next]_vars

(***************************************************************************)
(* Properties.                                                             *)
(***************************************************************************)
(* The step that accepts a token. *)
Accepts(c) == call[c].pc = "parsed" /\ call'[c].pc = "valid"

(* How long a revocation lasts: whoever revoked it, and with however many  *)
(* other calls between, a token is accepted after its revocation only when *)
(* its life, by the clock that parses it, is over or in its last Skew      *)
(* ticks; unless the row its first revocation left was a short one, which  *)
(* only a caller of TokenRevoke can have asked for.  The gap is the code's *)
(* own: the row expires with the token, but by the database's clock, so    *)
(* with that ahead a token still good may be looked up after its row.      *)
RefusedButLastSkew ==
  [][\A c \in Call :
       Accepts(c) /\ call[c].jti \in (loggedOut \cup forced) \ shortened =>
         exp[call[c].jti] <= now + Skew]_vars

(* Why: every revocation has left a row, whichever of them came first, and *)
(* every row outlives its token but those asked for shorter.               *)
RowOutlivesToken ==
  /\ shortened \subseteq forced
  /\ \A j \in loggedOut \cup forced : hot[j] # None
  /\ \A j \in Jti : hot[j] # None =>
       j \in Minted /\ (j \in shortened \/ exp[j] <= hot[j])

(* What the README says of TokenRevoke, with no exception: once the call   *)
(* has answered ok, the token is accepted only when it has expired since   *)
(* it was parsed.  The documented body, {jti}, makes it fail; the run has  *)
(* no skew, so that nothing else does.                                     *)
RevokedMeansRefused ==
  [][\A c \in Call :
       Accepts(c) /\ call[c].jti \in forced => exp[call[c].jti] <= now]_vars

IInv == TypeOK /\ RowOutlivesToken
=============================================================================
