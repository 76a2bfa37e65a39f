----------------------------- MODULE RateLimiter -----------------------------
(***************************************************************************)
(* ipRateLimiter, the sliding window in front of the public handlers of    *)
(* login, second factor, registration and admin enrolment, which call      *)
(* Allow concurrently.  Allow reads the clock first and takes the mutex    *)
(* afterwards, so calls may enter the critical section in another order    *)
(* than their readings.                                                    *)
(*                                                                         *)
(* Only differences of readings matter, so every time is kept as an age,   *)
(* and Tick makes all of them older: the state stays finite although time  *)
(* never ends.  Ages beyond Horizon can no longer matter to anyone.  Allow *)
(* only filters its slices and takes their lengths, so a slice is the      *)
(* number of readings of each age.                                         *)
(***************************************************************************)
EXTENDS Naturals, FiniteSets

CONSTANTS IP,         \* client addresses
          Call,       \* goroutines that can be inside Allow at once
          Limit,      \* limit: admissions per window
          Window,     \* window, in ticks
          SweepInt,   \* sweepInt, in ticks
          MaxWait,    \* bound: ticks a call may wait for the mutex
          NoIP        \* of a goroutine with no call under way

ASSUME LimiterAssumption ==
  /\ Limit \in Nat \ {0} /\ Window \in Nat \ {0}
  /\ SweepInt \in Nat /\ MaxWait \in Nat
  /\ NoIP \notin IP
  /\ IsFiniteSet(Call) /\ Call # {}

(* No call waits as long as a window: 15 minutes in the code. *)
ASSUME ShortWaits == MaxWait < Window

VARIABLES
  hits,     \* the map: of each age, the readings kept for an address
  sweptAge, \* age of lastSwp
  call,     \* per goroutine: the address, its clock reading, the answer
  log       \* history: all admissions by this process within the horizon

vars == <<hits, sweptAge, call, log>>

Horizon == Window + MaxWait

Age == 0 .. Horizon

(***************************************************************************)
(* Tallies: how many readings there are of each age.                       *)
(***************************************************************************)
Tally == [Age -> Nat]

Nothing == [a \in Age |-> 0]

Items(t, S) == UNION {{a} \X (1 .. t[a]) : a \in S}

Size(t, S) == Cardinality(Items(t, S))

Push(t, age) == [t EXCEPT ![age] = @ + 1]

(* A tick later; what is at the horizon stays there. *)
Grown(t) ==
  [a \in Age |-> (IF a = 0 THEN 0 ELSE t[a - 1]) + (IF a = Horizon THEN t[a] ELSE 0)]

States == {"idle", "waiting", "allowed", "denied"}

TypeOK ==
  /\ hits \in [IP -> Tally]
  /\ sweptAge \in 0 .. SweepInt + MaxWait + 1
  /\ call \in [Call -> [pc : States, ip : IP \cup {NoIP}, age : 0 .. MaxWait]]
  /\ \A c \in Call : call[c].pc # "idle" => call[c].ip \in IP
  /\ log \in [IP -> Tally]

NoCall == [pc |-> "idle", ip |-> NoIP, age |-> 0]

Init ==
  /\ hits = [ip \in IP |-> Nothing]
  /\ sweptAge = 0
  /\ call = [c \in Call |-> NoCall]
  /\ log = [ip \in IP |-> Nothing]

(* now := time.Now(), before l.mu.Lock(). *)
Arrive(c, ip) ==
  /\ call[c].pc = "idle"
  /\ call' = [call EXCEPT ![c] = [pc |-> "waiting", ip |-> ip, age |-> 0]]
  /\ UNCHANGED <<hits, sweptAge, log>>

(* A window one tick too short, and no pruning at all: mutants. *)
RecentShort(t, c) == [a \in Age |-> IF a < call[c].age + Window - 1 THEN t[a] ELSE 0]
RecentAll(t, c) == t

(* The hits after the cutoff of a call: less than Window older than it. *)
Recent(t, c) == [a \in Age |-> IF a < call[c].age + Window THEN t[a] ELSE 0]

SweepDue(c) == sweptAge > call[c].age + SweepInt

(* A sweep that deletes every entry it visits, and none at all: mutants. *)
SweptAway(c) == IF SweepDue(c) THEN [ip \in IP |-> Nothing] ELSE hits
NeverSwept(c) == hits

(* The map as the sweep leaves it: every address loses what is before the  *)
(* cutoff of the call that happens to sweep.                               *)
Swept(c) ==
  IF SweepDue(c) THEN [ip \in IP |-> Recent(hits[ip], c)] ELSE hits

(* A mutant of Admits: > for >=. *)
AdmitsOneMore(kept) == Size(kept, Age) <= Limit

Admits(kept) == Size(kept, Age) < Limit

(* A mutant of Record: the refused attempt too. *)
RecordRefused(kept, age) == Push(kept, age)

Record(kept, age) == IF Admits(kept) THEN Push(kept, age) ELSE kept

(* The critical section: sweep when due, prune, compare, record.  The      *)
(* admission is recorded with the reading taken before the lock.           *)
Enter(c) ==
  LET ip == call[c].ip
      now == call[c].age
      kept == Recent(Swept(c)[ip], c)
  IN /\ call[c].pc = "waiting"
     /\ hits' = [Swept(c) EXCEPT ![ip] = Record(kept, now)]
     /\ sweptAge' = IF SweepDue(c) THEN now ELSE sweptAge
     /\ \/ /\ Admits(kept)
           /\ call' = [call EXCEPT ![c].pc = "allowed"]
           /\ log' = [log EXCEPT ![ip] = Push(@, now)]
        \/ /\ ~Admits(kept)
           /\ call' = [call EXCEPT ![c].pc = "denied"]
           /\ log' = log

(* The handler goes on, or answers 429. *)
Return(c) ==
  /\ call[c].pc \in {"allowed", "denied"}
  /\ call' = [call EXCEPT ![c] = NoCall]
  /\ UNCHANGED <<hits, sweptAge, log>>

(* The process ends and another one starts, with a map of its own.         *)
Restart ==
  /\ hits' = [ip \in IP |-> Nothing]
  /\ sweptAge' = 0
  /\ call' = [c \in Call |-> NoCall]
  /\ log' = [ip \in IP |-> Nothing]

(* Time passes, but no call waits for the mutex longer than MaxWait. *)
Tick ==
  /\ \A c \in Call : call[c].pc = "waiting" => call[c].age < MaxWait
  /\ hits' = [ip \in IP |-> Grown(hits[ip])]
  /\ sweptAge' = IF sweptAge > SweepInt + MaxWait THEN sweptAge ELSE sweptAge + 1
  /\ call' = [c \in Call |->
                [call[c] EXCEPT !.age = IF call[c].pc = "waiting" THEN @ + 1 ELSE 0]]
  /\ log' = [ip \in IP |-> [Grown(log[ip]) EXCEPT ![Horizon] = 0]]

Next ==
  \/ \E c \in Call : Enter(c) \/ Return(c) \/ \E ip \in IP : Arrive(c, ip)
  \/ Tick \/ Restart

Spec == Init /\ [][Next]_vars

(* Time passes, the mutex is granted (sync.Mutex hands it over to a        *)
(* goroutine starved for a millisecond) and handlers run to their end.     *)
(* Nothing is assumed of the clients.                                      *)
FairSpec ==
  Spec /\ WF_vars(Tick) /\ \A c \in Call : WF_vars(Enter(c)) /\ WF_vars(Return(c))

(***************************************************************************)
(* Properties.                                                             *)
(***************************************************************************)
(* The ages of a window that ends at an age. *)
Span(end) == {a \in Age : end <= a /\ a < end + Window}

(* public_handlers.go:23 promises 10 attempts in 15 minutes, by a sliding  *)
(* window: no interval of the length of the window holds more admissions   *)
(* of an address than the limit, wherever it starts.                       *)
WindowLimit ==
  \A ip \in IP : \A end \in Age : Size(log[ip], Span(end)) <= Limit

(* What remains of that promise when calls wait for the mutex with an old  *)
(* reading: a newer call may have pruned what still counts for them, so a  *)
(* window can overrun, but by no more admissions than calls can wait.      *)
(* (One process, from its start: a restart or a replica begins anew.)      *)
BurstBound ==
  \A ip \in IP : \A end \in Age :
    Size(log[ip], Span(end)) <= Limit + Cardinality(Call) - 1

(* The readings newer than an age. *)
Newer(age) == {a \in Age : a < age}

(* An address is denied only for what it did itself: when a call is        *)
(* refused, a full budget of its own admissions lies in the window that    *)
(* ends with its reading or is newer than that.  Denied calls cost         *)
(* nothing, nor do other addresses or whoever sweeps.  The newer ones must *)
(* be counted: a call may be refused with no admission in its own window,  *)
(* when calls that read the clock after it took the mutex before it.       *)
DeniedForOwnHits ==
  [][\A c \in Call : call[c].pc = "waiting" /\ call'[c].pc = "denied" =>
       LET age == call[c].age
       IN  Limit <= Size(log[call[c].ip], Span(age) \cup Newer(age))]_vars

(* The map does not grow with every address that ever came (the comment at *)
(* public_handlers.go:54): whenever a call is answered, no address keeps a *)
(* reading that was older, when the call read the clock, than the window   *)
(* and the interval of sweeps, be it an address that never came again.     *)
MapForgets ==
  [][\A c \in Call : call[c].pc = "waiting" /\ call'[c].pc \in {"allowed", "denied"} =>
       \A ip \in IP : \A a \in Age :
         hits'[ip][a] > 0 => a < Window + SweepInt + call[c].age]_vars

(* The map keeps at most one budget of readings per address, however many  *)
(* calls arrive, and neither sweep nor pruning forgets an admission that   *)
(* is younger than the window now.                                         *)
MapBounded ==
  \A ip \in IP :
    /\ Size(hits[ip], Age) <= Limit
    /\ \A a \in 0 .. Window - 1 : log[ip][a] <= hits[ip][a]

(* A client that is answered again and again is admitted again and again,  *)
(* even one that never pauses: refused attempts do not prolong its         *)
(* punishment, and a restart only forgives.                                *)
PersistentClientsGetIn ==
  LET Answered(ip, pcs) == \E c \in Call : call[c].ip = ip /\ call[c].pc \in pcs
  IN  \A ip \in IP : []<>Answered(ip, {"allowed", "denied"}) => []<>Answered(ip, {"allowed"})

(***************************************************************************)
(* The inductive invariant.                                                *)
(***************************************************************************)
Waiting(end) == {c \in Call : call[c].pc = "waiting" /\ call[c].age >= end}

(* Nobody with a reading newer than the window has pruned it.              *)
Whole(ip, end) == \A a \in Span(end) : log[ip][a] <= hits[ip][a]

(* What has been pruned too early lets in at most those who wait with      *)
(* readings of that time, and the one who pruned is none of them.          *)
Overrun(ip, end) ==
  Size(log[ip], Span(end)) + Cardinality(Waiting(end)) <= Limit + Cardinality(Call) - 1

(* A sweep left only what was in its window, and since then readings have  *)
(* aged with the sweep.                                                    *)
SinceSweep ==
  \A ip \in IP : \A a \in Age : hits[ip][a] > 0 => a < sweptAge + Window

IInv ==
  /\ TypeOK
  /\ SinceSweep
  /\ \A ip \in IP :
       /\ log[ip][Horizon] = 0
       /\ \A a \in 0 .. Horizon - 1 : hits[ip][a] <= log[ip][a]
       /\ \A end \in Age : Whole(ip, end) \/ Overrun(ip, end)
  /\ MapBounded
=============================================================================
