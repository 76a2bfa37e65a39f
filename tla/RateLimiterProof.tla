-------------------------- MODULE RateLimiterProof --------------------------
(***************************************************************************)
(* Proofs of the safety properties of RateLimiter, for any addresses, any  *)
(* number of calls, any limit and any window.                              *)
(***************************************************************************)
EXTENDS RateLimiter, FiniteSetTheorems, TLAPS

(***************************************************************************)
(* Tallies.                                                                *)
(***************************************************************************)
LEMMA HorizonType == Horizon \in Nat /\ Horizon > 0
BY LimiterAssumption DEF Horizon

LEMMA ItemsAre ==
  ASSUME NEW t \in Tally, NEW S \in SUBSET Age, NEW x
  PROVE  x \in Items(t, S) <=> \E a \in S : \E i \in 1 .. t[a] : x = <<a, i>>
BY DEF Items

LEMMA SizeType ==
  ASSUME NEW t \in Tally, NEW S \in SUBSET Age
  PROVE  IsFiniteSet(Items(t, S)) /\ Size(t, S) \in Nat
<1> DEFINE f == [a \in S |-> {a} \X (1 .. t[a])]
           T == {{a} \X (1 .. t[a]) : a \in S}
<1>1. IsFiniteSet(S)
  <2>1. 0 \in Int /\ Horizon \in Int
    BY HorizonType
  <2>2. IsFiniteSet(Age)
    BY <2>1, FS_Interval DEF Age
  <2> QED
    BY <2>2, FS_Subset
<1>2. f \in Surjection(S, T)
  BY DEF Surjection
<1>3. IsFiniteSet(T)
  BY <1>1, <1>2, FS_Surjection
<1>4. ASSUME NEW a \in S PROVE IsFiniteSet({a} \X (1 .. t[a]))
  <2>1. IsFiniteSet({a}) /\ IsFiniteSet(1 .. t[a])
    <3>1. 1 \in Int /\ t[a] \in Int
      BY DEF Tally
    <3> QED
      BY <3>1, FS_Singleton, FS_Interval
  <2> QED
    BY <2>1, FS_Product
<1>5. IsFiniteSet(UNION T)
  BY <1>3, <1>4, FS_UNION
<1> QED
  BY <1>5, FS_CardinalityType DEF Items, Size

LEMMA SizeMono ==
  ASSUME NEW t \in Tally, NEW u \in Tally, NEW S \in SUBSET Age, NEW T \in SUBSET Age,
         S \subseteq T, \A a \in S : t[a] <= u[a]
  PROVE  Size(t, S) <= Size(u, T)
<1>1. Items(t, S) \subseteq Items(u, T)
  BY ItemsAre DEF Tally
<1> QED
  BY <1>1, SizeType, FS_Subset DEF Size

LEMMA SizeNothing ==
  ASSUME NEW t \in Tally, NEW S \in SUBSET Age, \A a \in S : t[a] = 0
  PROVE  Size(t, S) = 0
<1>1. Items(t, S) = {}
  BY ItemsAre
<1> QED
  BY <1>1, FS_EmptySet DEF Size

LEMMA PushType ==
  ASSUME NEW t \in Tally, NEW b \in Age
  PROVE  /\ Push(t, b) \in Tally
         /\ \A a \in Age : Push(t, b)[a] = IF a = b THEN t[a] + 1 ELSE t[a]
BY DEF Push, Tally

LEMMA SizePush ==
  ASSUME NEW t \in Tally, NEW S \in SUBSET Age, NEW b \in Age
  PROVE  Size(Push(t, b), S) = IF b \in S THEN Size(t, S) + 1 ELSE Size(t, S)
<1> DEFINE u == Push(t, b)
<1>1. u \in Tally /\ \A a \in Age : u[a] = IF a = b THEN t[a] + 1 ELSE t[a]
  BY PushType
<1>2. CASE b \in S
  <2> DEFINE new == <<b, t[b] + 1>>
  <2>1. \A x : x \in Items(u, S) <=> x \in Items(t, S) \cup {new}
    <3> TAKE x
    <3>1. x \in Items(u, S) <=> \E a \in S : \E i \in 1 .. u[a] : x = <<a, i>>
      BY <1>1, ItemsAre
    <3>2. x \in Items(t, S) <=> \E a \in S : \E i \in 1 .. t[a] : x = <<a, i>>
      BY ItemsAre
    <3>3. \A a \in S, i \in Nat : i \in 1 .. u[a] <=> i \in 1 .. t[a] \/ <<a, i>> = new
      BY <1>1 DEF Tally
    <3>4. t[b] + 1 \in 1 .. u[b]
      BY <1>1, <1>2 DEF Tally
    <3> QED
      BY <3>1, <3>2, <3>3, <3>4, <1>2, <1>1 DEF Tally
  <2>2. Items(u, S) = Items(t, S) \cup {new}
    BY <2>1
  <2>3. new \notin Items(t, S)
    BY ItemsAre DEF Tally
  <2> QED
    BY <1>2, <2>2, <2>3, SizeType, FS_AddElement DEF Size
<1>3. CASE b \notin S
  <2>1. Size(u, S) <= Size(t, S) /\ Size(t, S) <= Size(u, S)
    BY <1>1, <1>3, SizeMono DEF Tally
  <2> QED
    BY <1>1, <1>3, <2>1, SizeType
<1> QED
  BY <1>2, <1>3

(* A tick moves the readings of each age on, those at the horizon stay.    *)
LEMMA GrownType ==
  ASSUME NEW t \in Tally
  PROVE  /\ Grown(t) \in Tally
         /\ Grown(t)[0] = 0
         /\ \A a \in Age : a # Horizon => a + 1 \in Age
         /\ \A a \in Age : a # Horizon /\ a + 1 # Horizon => Grown(t)[a + 1] = t[a]
         /\ Horizon - 1 \in Age /\ Horizon \in Age
         /\ Grown(t)[Horizon] = t[Horizon - 1] + t[Horizon]
BY HorizonType DEF Grown, Tally, Age

LEMMA SizeGrown ==
  ASSUME NEW t \in Tally
  PROVE  Size(Grown(t), Age) <= Size(t, Age)
<1> DEFINE u == Grown(t)
           I == Items(u, Age)
           J == Items(t, Age)
           f == [x \in I |->
                   IF x[1] # Horizon THEN <<x[1] - 1, x[2]>>
                   ELSE IF x[2] <= t[Horizon] THEN x
                   ELSE <<Horizon - 1, x[2] - t[Horizon]>>]
<1>1. u \in Tally
  BY GrownType
<1>2. ASSUME NEW a \in Age, NEW i \in Nat, i \in 1 .. u[a]
      PROVE  /\ a # Horizon => a - 1 \in Age /\ i \in 1 .. t[a - 1]
             /\ a = Horizon => \/ i \in 1 .. t[Horizon]
                              \/ i - t[Horizon] \in 1 .. t[Horizon - 1]
  BY <1>2, GrownType, HorizonType DEF Grown, Tally, Age
<1>3. ASSUME NEW x \in I
      PROVE  \E a \in Age, i \in Nat : i \in 1 .. u[a] /\ x = <<a, i>>
  BY <1>1, ItemsAre DEF Tally
<1>4. f \in [I -> J]
  <2> SUFFICES ASSUME NEW x \in I PROVE f[x] \in J
    OBVIOUS
  <2>1. PICK a \in Age, i \in Nat : i \in 1 .. u[a] /\ x = <<a, i>>
    BY <1>3
  <2>2. \E b \in Age : \E j \in 1 .. t[b] : f[x] = <<b, j>>
    BY <2>1, <1>2, GrownType
  <2> QED
    BY <2>2, ItemsAre
<1>5. ASSUME NEW x \in I, NEW y \in I, f[x] = f[y]
      PROVE  x = y
  <2>1. PICK a \in Age, i \in Nat : i \in 1 .. u[a] /\ x = <<a, i>>
    BY <1>3
  <2>2. PICK b \in Age, j \in Nat : j \in 1 .. u[b] /\ y = <<b, j>>
    BY <1>3
  <2> QED
    <3>1. x[1] = a /\ x[2] = i /\ y[1] = b /\ y[2] = j
      BY <2>1, <2>2
    <3>2. t[Horizon] \in Nat
      BY GrownType DEF Tally
    <3>3. a \in 0 .. Horizon /\ b \in 0 .. Horizon
      BY DEF Age
    <3>4. /\ f[x] = IF a # Horizon THEN <<a - 1, i>>
                    ELSE IF i <= t[Horizon] THEN <<a, i>> ELSE <<Horizon - 1, i - t[Horizon]>>
          /\ f[y] = IF b # Horizon THEN <<b - 1, j>>
                    ELSE IF j <= t[Horizon] THEN <<b, j>> ELSE <<Horizon - 1, j - t[Horizon]>>
      BY <3>1, <2>1, <2>2
    <3>5. a = b /\ i = j
      BY <1>5, <3>2, <3>3, <3>4, <2>1, <2>2, HorizonType
    <3> QED
      BY <3>5, <2>1, <2>2
<1>6. f \in Injection(I, J)
  BY <1>4, <1>5 DEF Injection, IsInjective
<1> QED
  BY <1>6, SizeType, FS_Injection DEF Size

(* What a window holds after a tick, it held one earlier before.           *)
LEMMA SizeShift ==
  ASSUME NEW t \in Tally, NEW u \in Tally, NEW S \in SUBSET Age, NEW T \in SUBSET Age,
         \A a \in S : u[a] # 0 => a - 1 \in T /\ u[a] <= t[a - 1]
  PROVE  Size(u, S) <= Size(t, T)
<1> DEFINE I == Items(u, S)
           J == Items(t, T)
           f == [x \in I |-> <<x[1] - 1, x[2]>>]
<1>1. ASSUME NEW x \in I
      PROVE  \E a \in S, i \in Nat : i \in 1 .. u[a] /\ x = <<a, i>>
  BY ItemsAre DEF Tally
<1>2. f \in [I -> J]
  <2> SUFFICES ASSUME NEW x \in I PROVE f[x] \in J
    OBVIOUS
  <2>1. PICK a \in S, i \in Nat : i \in 1 .. u[a] /\ x = <<a, i>>
    BY <1>1
  <2>2. f[x] = <<a - 1, i>> /\ a - 1 \in T /\ i \in 1 .. t[a - 1]
    BY <2>1 DEF Tally, Age
  <2> QED
    BY <2>2, ItemsAre
<1>3. ASSUME NEW x \in I, NEW y \in I, f[x] = f[y]
      PROVE  x = y
  <2>1. PICK a \in S, i \in Nat : i \in 1 .. u[a] /\ x = <<a, i>>
    BY <1>1
  <2>2. PICK b \in S, j \in Nat : j \in 1 .. u[b] /\ y = <<b, j>>
    BY <1>1
  <2> QED
    BY <1>3, <2>1, <2>2 DEF Age
<1>4. f \in Injection(I, J)
  BY <1>2, <1>3 DEF Injection, IsInjective
<1> QED
  BY <1>4, SizeType, FS_Injection DEF Size

(***************************************************************************)
(* The inductive invariant.                                                *)
(***************************************************************************)
LEMMA NoCallType == NoCall \in [pc : States, ip : IP \cup {NoIP}, age : 0 .. MaxWait]
BY LimiterAssumption DEF NoCall, States

LEMMA InitIInv == Init => IInv
<1> SUFFICES ASSUME Init PROVE IInv
  OBVIOUS
<1>1. Nothing \in Tally /\ \A a \in Age : Nothing[a] = 0
  BY DEF Nothing, Tally
<1>2. TypeOK
  BY <1>1, NoCallType, LimiterAssumption DEF Init, TypeOK, NoCall
<1>3. 0 .. Horizon - 1 \subseteq Age /\ 0 .. Window - 1 \subseteq Age /\ Horizon \in Age
  BY LimiterAssumption, HorizonType DEF Age, Horizon
<1>4. MapBounded
  BY <1>1, <1>3, SizeNothing, LimiterAssumption DEF MapBounded, Init
<1>5. ASSUME NEW ip \in IP
      PROVE  /\ log[ip][Horizon] = 0
             /\ \A a \in 0 .. Horizon - 1 : hits[ip][a] <= log[ip][a]
             /\ \A end \in Age : Whole(ip, end)
  BY <1>1, <1>3 DEF Init, Whole, Span
<1>6. SinceSweep
  BY <1>1 DEF Init, SinceSweep
<1> QED
  BY <1>2, <1>4, <1>5, <1>6 DEF IInv

LEMMA RestartKeeps == IInv /\ Restart => IInv'
<1> SUFFICES ASSUME Restart PROVE IInv'
  OBVIOUS
<1>1. Nothing \in Tally /\ \A a \in Age : Nothing[a] = 0
  BY DEF Nothing, Tally
<1>2. TypeOK'
  BY <1>1, NoCallType, LimiterAssumption DEF Restart, TypeOK, NoCall
<1>3. 0 .. Horizon - 1 \subseteq Age /\ 0 .. Window - 1 \subseteq Age /\ Horizon \in Age
  BY LimiterAssumption, HorizonType DEF Age, Horizon
<1>4. MapBounded'
  BY <1>1, <1>3, SizeNothing, LimiterAssumption DEF MapBounded, Restart
<1>5. ASSUME NEW ip \in IP
      PROVE  /\ log'[ip][Horizon] = 0
             /\ \A a \in 0 .. Horizon - 1 : hits'[ip][a] <= log'[ip][a]
             /\ \A end \in Age : Whole(ip, end)'
  BY <1>1, <1>3 DEF Restart, Whole, Span
<1>6. SinceSweep'
  BY <1>1 DEF Restart, SinceSweep
<1> QED
  BY <1>2, <1>4, <1>5, <1>6 DEF IInv

(* Some of the calls: no more than all of them, fewer if one is missing.   *)
LEMMA SomeCalls ==
  ASSUME NEW S \in SUBSET Call
  PROVE  /\ IsFiniteSet(S) /\ Cardinality(S) \in Nat
         /\ Cardinality(Call) \in Nat /\ Cardinality(Call) > 0
         /\ \A c \in Call : c \notin S => Cardinality(S) <= Cardinality(Call) - 1
         /\ \A c \in S : Cardinality(S \ {c}) = Cardinality(S) - 1
         /\ \A T \in SUBSET S : Cardinality(T) \in Nat /\ Cardinality(T) <= Cardinality(S)
<1>1. IsFiniteSet(Call) /\ Call # {}
  BY LimiterAssumption
<1>2. IsFiniteSet(S) /\ Cardinality(S) \in Nat
  BY <1>1, FS_Subset, FS_CardinalityType
<1>3. Cardinality(Call) \in Nat /\ Cardinality(Call) > 0
  BY <1>1, FS_CardinalityType, FS_EmptySet
<1>4. ASSUME NEW c \in Call, c \notin S
      PROVE  Cardinality(S) <= Cardinality(Call) - 1
  <2>1. IsFiniteSet(Call \ {c}) /\ Cardinality(Call \ {c}) = Cardinality(Call) - 1
    BY <1>1, FS_RemoveElement
  <2>2. S \in SUBSET (Call \ {c})
    BY <1>4
  <2> QED
    BY <2>1, <2>2, FS_Subset
<1>5. ASSUME NEW c \in S
      PROVE  Cardinality(S \ {c}) = Cardinality(S) - 1
  BY <1>2, FS_RemoveElement
<1>6. ASSUME NEW T \in SUBSET S
      PROVE  Cardinality(T) \in Nat /\ Cardinality(T) <= Cardinality(S)
  BY <1>2, FS_Subset, FS_CardinalityType
<1> QED
  BY <1>2, <1>3, <1>4, <1>5, <1>6

(* A window that is whole holds no more than the map does.                 *)
LEMMA WholeFits ==
  ASSUME IInv, NEW ip \in IP, NEW end \in Age, Whole(ip, end)
  PROVE  Size(log[ip], Span(end)) <= Limit
<1>1. log[ip] \in Tally /\ hits[ip] \in Tally
  BY DEF IInv, TypeOK
<1>2. Span(end) \in SUBSET Age
  BY DEF Span
<1>3. Size(log[ip], Span(end)) <= Size(hits[ip], Age)
  BY <1>1, <1>2, SizeMono DEF Whole
<1>4. Size(hits[ip], Age) <= Limit
  BY DEF IInv, MapBounded
<1> QED
  BY <1>1, <1>2, <1>3, <1>4, SizeType, LimiterAssumption

(* One tally is below another, and the same up to the cutoff of a reading. *)
Pruned(t, u, age) == \A a \in Age : t[a] <= u[a] /\ (a < age + Window => t[a] = u[a])

LEMMA PrunedSize ==
  ASSUME NEW t \in Tally, NEW u \in Tally, NEW age, Pruned(t, u, age)
  PROVE  Size(t, Age) <= Size(u, Age)
<1>1. \A a \in Age : t[a] <= u[a]
  BY DEF Pruned
<1> QED
  BY <1>1, SizeMono

LEMMA RecentPrunes ==
  ASSUME NEW c, NEW t \in Tally, NEW u \in Tally, call[c].age \in 0 .. MaxWait,
         Pruned(t, u, call[c].age)
  PROVE  Recent(t, c) \in Tally /\ Pruned(Recent(t, c), u, call[c].age)
BY LimiterAssumption, HorizonType DEF Recent, Tally, Pruned, Age

LEMMA PrunedSelf == ASSUME NEW t \in Tally, NEW age PROVE Pruned(t, t, age)
BY DEF Pruned, Tally

(* Pruned, and then one more.                                              *)
LEMMA PrunedPush ==
  ASSUME NEW t \in Tally, NEW u \in Tally, NEW age \in 0 .. MaxWait, Pruned(t, u, age),
         NEW a \in Age
  PROVE  LET d == IF a = age THEN 1 ELSE 0
         IN  /\ Push(t, age)[a] <= u[a] + d
             /\ a < age + Window => Push(t, age)[a] = u[a] + d
             /\ Push(u, age)[a] = u[a] + d
<1>1. age \in Age
  BY LimiterAssumption DEF Age, Horizon
<1>2. t[a] \in Nat /\ u[a] \in Nat
  BY DEF Tally
<1> QED
  BY <1>1, <1>2, PushType DEF Pruned

(* What the critical section makes of the map and the history.             *)
LEMMA Entered ==
  ASSUME IInv, NEW c \in Call, Enter(c)
  PROVE  LET ip == call[c].ip
             now == call[c].age
         IN  /\ call[c].pc = "waiting" /\ ip \in IP
             /\ now \in 0 .. MaxWait /\ now \in Age /\ now < Horizon
             /\ hits \in [IP -> Tally] /\ log \in [IP -> Tally]
             /\ hits' \in [IP -> Tally]
             /\ \A q \in IP : Size(hits'[q], Age) <= Limit
             /\ \A q \in IP : q # ip => Pruned(hits'[q], hits[q], now)
             /\ \/ /\ call' = [call EXCEPT ![c].pc = "allowed"]
                   /\ log' = [log EXCEPT ![ip] = Push(log[ip], now)]
                   /\ \E kept \in Tally : /\ hits'[ip] = Push(kept, now)
                                         /\ Pruned(kept, hits[ip], now)
                \/ /\ call' = [call EXCEPT ![c].pc = "denied"]
                   /\ log' = log
                   /\ Pruned(hits'[ip], hits[ip], now)
                   /\ Size(hits'[ip], Age) >= Limit
                   /\ \A a \in Age : a >= now + Window => hits'[ip][a] = 0
<1> DEFINE ip == call[c].ip
           now == call[c].age
           kept == Recent(Swept(c)[ip], c)
<1>1. /\ call[c].pc = "waiting" /\ ip \in IP /\ now \in 0 .. MaxWait
      /\ hits \in [IP -> Tally] /\ log \in [IP -> Tally]
  BY DEF IInv, TypeOK, Enter
<1>2. now \in Age /\ now < Horizon
  BY <1>1, LimiterAssumption DEF Age, Horizon
<1>3. Swept(c) \in [IP -> Tally] /\ \A q \in IP : Pruned(Swept(c)[q], hits[q], now)
  <2>1. \A q \in IP : Pruned(hits[q], hits[q], now)
    BY <1>1, PrunedSelf
  <2>2. \A q \in IP : Recent(hits[q], c) \in Tally /\ Pruned(Recent(hits[q], c), hits[q], now)
    BY <2>1, <1>1, RecentPrunes
  <2> QED
    BY <2>1, <2>2, <1>1 DEF Swept
<1>4. kept \in Tally /\ Pruned(kept, hits[ip], now)
  BY <1>1, <1>3, RecentPrunes
<1>5. hits' = [Swept(c) EXCEPT ![ip] = Record(kept, now)]
  BY DEF Enter
<1>6. Push(kept, now) \in Tally
  BY <1>2, <1>4, PushType
<1>7. hits' \in [IP -> Tally] /\ hits'[ip] = Record(kept, now)
  BY <1>1, <1>3, <1>4, <1>5, <1>6 DEF Record
<1>8. ASSUME NEW q \in IP, q # ip
      PROVE  Pruned(hits'[q], hits[q], now) /\ Size(hits'[q], Age) <= Limit
  <2>1. hits'[q] = Swept(c)[q]
    BY <1>3, <1>5, <1>8
  <2>2. Pruned(hits'[q], hits[q], now)
    BY <2>1, <1>3
  <2>3. hits[q] \in Tally /\ hits'[q] \in Tally
    BY <1>1, <1>7
  <2>4. Size(hits'[q], Age) <= Size(hits[q], Age)
    BY <2>2, <2>3, PrunedSize
  <2>5. Size(hits[q], Age) <= Limit
    BY DEF IInv, MapBounded
  <2> QED
    BY <2>2, <2>3, <2>4, <2>5, SizeType, LimiterAssumption
<1>9. CASE Admits(kept)
  <2>1. /\ call' = [call EXCEPT ![c].pc = "allowed"]
        /\ log' = [log EXCEPT ![ip] = Push(log[ip], now)]
        /\ hits'[ip] = Push(kept, now)
    BY <1>7, <1>9 DEF Enter, Record
  <2>2. Size(hits'[ip], Age) <= Limit
    <3>1. Size(hits'[ip], Age) = Size(kept, Age) + 1
      BY <2>1, <1>2, <1>4, SizePush
    <3>2. Size(kept, Age) < Limit
      BY <1>9 DEF Admits
    <3> QED
      BY <3>1, <3>2, <1>4, SizeType, LimiterAssumption
  <2> HIDE DEF kept
  <2> QED
    BY <2>1, <2>2, <1>1, <1>2, <1>4, <1>7, <1>8
<1>10. CASE ~Admits(kept)
  <2>1. /\ call' = [call EXCEPT ![c].pc = "denied"]
        /\ log' = log
        /\ hits'[ip] = kept
    BY <1>7, <1>10 DEF Enter, Record
  <2>2. Size(kept, Age) \in Nat /\ Size(hits[ip], Age) \in Nat
    BY <1>1, <1>4, SizeType
  <2>3. Size(kept, Age) >= Limit
    BY <2>2, <1>10, LimiterAssumption DEF Admits
  <2>4. Size(kept, Age) <= Limit
    <3>1. Size(kept, Age) <= Size(hits[ip], Age)
      BY <1>1, <1>4, PrunedSize
    <3>2. Size(hits[ip], Age) <= Limit
      BY <1>1 DEF IInv, MapBounded
    <3> QED
      BY <3>1, <3>2, <2>2, LimiterAssumption
  <2>5. \A a \in Age : a >= now + Window => kept[a] = 0
    BY <1>1, LimiterAssumption DEF Recent, Age, Horizon
  <2> HIDE DEF kept
  <2> QED
    BY <2>1, <2>3, <2>4, <2>5, <1>1, <1>2, <1>4, <1>7, <1>8
<1> QED
  BY <1>9, <1>10

(* The same, reading by reading: an admission adds one to both counts, and *)
(* what it does not cut off follows it.                                    *)
Counted(q, a, ip, now) ==
  \E d \in {0, 1} : /\ d = 1 => q = ip /\ a = now
                    /\ hits'[q][a] <= hits[q][a] + d
                    /\ a < now + Window => hits'[q][a] = hits[q][a] + d
                    /\ log'[q][a] = log[q][a] + d

LEMMA EnteredCounts ==
  ASSUME IInv, NEW c \in Call, Enter(c)
  PROVE  /\ log' \in [IP -> Tally]
         /\ \A q \in IP, a \in Age : Counted(q, a, call[c].ip, call[c].age)
<1> DEFINE ip == call[c].ip
           now == call[c].age
<1>1. /\ ip \in IP /\ now \in Age /\ now \in 0 .. MaxWait
      /\ hits \in [IP -> Tally] /\ log \in [IP -> Tally]
      /\ \A q \in IP : q # ip => Pruned(hits'[q], hits[q], now)
  BY Entered
<1>2. ASSUME NEW q \in IP, NEW a \in Age, Pruned(hits'[q], hits[q], now), log'[q] = log[q]
      PROVE  Counted(q, a, ip, now)
  <2>1. hits[q][a] \in Nat /\ log[q][a] \in Nat
    BY <1>1 DEF Tally
  <2>2. hits'[q][a] <= hits[q][a] /\ (a < now + Window => hits'[q][a] = hits[q][a])
    BY <1>2 DEF Pruned
  <2> HIDE DEF now, ip
  <2> QED
    BY <2>1, <2>2, <1>2 DEF Counted
<1>3. CASE log' = log /\ Pruned(hits'[ip], hits[ip], now)
  BY <1>1, <1>2, <1>3
<1>4. CASE /\ log' = [log EXCEPT ![ip] = Push(log[ip], now)]
           /\ \E kept \in Tally : hits'[ip] = Push(kept, now) /\ Pruned(kept, hits[ip], now)
  <2>1. PICK kept \in Tally : hits'[ip] = Push(kept, now) /\ Pruned(kept, hits[ip], now)
    BY <1>4
  <2>2. log' \in [IP -> Tally] /\ log'[ip] = Push(log[ip], now)
    BY <1>1, <1>4, PushType
  <2>3. ASSUME NEW a \in Age
        PROVE  Counted(ip, a, ip, now)
    <3> DEFINE d == IF a = now THEN 1 ELSE 0
    <3>1. /\ hits'[ip][a] <= hits[ip][a] + d
          /\ a < now + Window => hits'[ip][a] = hits[ip][a] + d
      BY <1>1, <2>1, PrunedPush
    <3>2. log'[ip][a] = log[ip][a] + d
      <4>1. log[ip] \in Tally /\ log[ip][a] \in Nat
        BY <1>1 DEF Tally
      <4>2. Push(log[ip], now)[a] = IF a = now THEN log[ip][a] + 1 ELSE log[ip][a]
        BY <4>1, <1>1, PushType
      <4> QED
        BY <4>1, <4>2, <2>2
    <3>3. d \in {0, 1} /\ (d = 1 => a = now)
      OBVIOUS
    <3> HIDE DEF d
    <3> QED
      BY <3>1, <3>2, <3>3 DEF Counted
  <2>4. \A q \in IP : q # ip => log'[q] = log[q]
    BY <1>1, <1>4
  <2> QED
    BY <2>2, <2>3, <2>4, <1>1, <1>2
<1> QED
  BY <1>3, <1>4, Entered

(* What the critical section leaves in the map is no older than the last   *)
(* sweep allows, which is not longer ago than a sweep's interval.          *)
LEMMA EnterForgets ==
  ASSUME IInv, NEW c \in Call, Enter(c)
  PROVE  /\ SinceSweep'
         /\ \A q \in IP, a \in Age : hits'[q][a] > 0 => a < Window + SweepInt + call[c].age
<1> DEFINE ip == call[c].ip
           now == call[c].age
           kept == Recent(Swept(c)[ip], c)
<1>1. /\ ip \in IP /\ now \in 0 .. MaxWait /\ now \in Age
      /\ hits \in [IP -> Tally] /\ sweptAge \in Nat
  BY Entered DEF IInv, TypeOK
<1>2. /\ hits' = [Swept(c) EXCEPT ![ip] = Record(kept, now)]
      /\ sweptAge' = IF SweepDue(c) THEN now ELSE sweptAge
  BY DEF Enter
<1>3. /\ Swept(c) \in [IP -> Tally] /\ kept \in Tally
      /\ \A a \in Age : kept[a] = Swept(c)[ip][a] \/ kept[a] = 0
  <2>1. \A q \in IP : Recent(hits[q], c) \in Tally
    BY <1>1, LimiterAssumption DEF Recent, Tally
  <2>2. Swept(c) \in [IP -> Tally]
    BY <2>1, <1>1 DEF Swept
  <2> QED
    BY <2>2, <1>1 DEF Recent, Tally
<1>4. ASSUME NEW q \in IP, NEW a \in Age, Swept(c)[q][a] > 0
      PROVE  a < sweptAge' + Window
  <2>1. CASE SweepDue(c)
    BY <2>1, <1>1, <1>2, <1>4 DEF Swept, Recent
  <2>2. CASE ~SweepDue(c)
    BY <2>2, <1>1, <1>2, <1>4 DEF Swept, SinceSweep, IInv
  <2> QED
    BY <2>1, <2>2
<1>5. now < sweptAge' + Window
  BY <1>1, <1>2, ShortWaits, LimiterAssumption
<1>6. ASSUME NEW q \in IP, NEW a \in Age, hits'[q][a] > 0
      PROVE  a < sweptAge' + Window
  <2>1. CASE q # ip
    BY <2>1, <1>2, <1>3, <1>4, <1>6
  <2>2. CASE q = ip
    <3>1. hits'[q] = kept \/ hits'[q] = Push(kept, now)
      BY <2>2, <1>1, <1>2, <1>3 DEF Record
    <3>2. a # now => hits'[q][a] = kept[a]
      BY <3>1, <1>1, <1>3, PushType
    <3> QED
      BY <3>2, <1>1, <1>3, <1>4, <1>5, <1>6
  <2> QED
    BY <2>1, <2>2
<1>7. sweptAge' \in Nat /\ sweptAge' <= SweepInt + now
  BY <1>1, <1>2, LimiterAssumption DEF SweepDue
<1>8. ASSUME NEW q \in IP, NEW a \in Age, hits'[q][a] > 0
      PROVE  a < Window + SweepInt + now
  <2>1. a \in Nat /\ a < sweptAge' + Window
    BY <1>6, <1>8, HorizonType DEF Age
  <2>2. sweptAge' \in Nat /\ sweptAge' <= SweepInt + now /\ now \in Nat
    BY <1>1, <1>7, LimiterAssumption
  <2>3. \A s, w, i, n \in Nat : a < s + w /\ s <= i + n => a < w + i + n
    BY <2>1
  <2>4. Window \in Nat /\ SweepInt \in Nat
    BY LimiterAssumption
  <2> HIDE DEF now
  <2> QED
    BY <2>1, <2>2, <2>3, <2>4
<1>9. SinceSweep'
  BY <1>6 DEF SinceSweep
<1> QED
  BY <1>8, <1>9

LEMMA EnterKeeps ==
  ASSUME IInv, NEW c \in Call, Enter(c)
  PROVE  IInv'
<1> DEFINE ip == call[c].ip
           now == call[c].age
<1>1. /\ call[c].pc = "waiting" /\ ip \in IP /\ now \in 0 .. MaxWait
      /\ now \in Age /\ now < Horizon
      /\ hits' \in [IP -> Tally] /\ log' \in [IP -> Tally]
      /\ \A q \in IP : Size(hits'[q], Age) <= Limit
  BY Entered, EnteredCounts
<1>2. \E pc \in {"allowed", "denied"} : call' = [call EXCEPT ![c].pc = pc]
  BY Entered
<1>3. TypeOK /\ MapBounded
  BY DEF IInv
<1>4. TypeOK'
  <2>1. call' \in [Call -> [pc : States, ip : IP \cup {NoIP}, age : 0 .. MaxWait]]
        /\ \A q \in Call : call'[q].pc # "idle" => call'[q].ip \in IP
    BY <1>1, <1>2, <1>3 DEF TypeOK, States
  <2>2. sweptAge' \in 0 .. SweepInt + MaxWait + 1
    BY <1>1, <1>3, LimiterAssumption DEF Enter, TypeOK
  <2> QED
    BY <2>1, <2>2, <1>1 DEF TypeOK
<1>5. ASSUME NEW q \in IP, NEW a \in Age
      PROVE  /\ a \in Nat /\ hits[q][a] \in Nat /\ log[q][a] \in Nat
             /\ hits'[q][a] \in Nat /\ log'[q][a] \in Nat
             /\ hits[q][a] <= log[q][a] => hits'[q][a] <= log'[q][a]
             /\ log[q][a] <= hits[q][a] /\ a < now + Window => log'[q][a] <= hits'[q][a]
             /\ a # now => log'[q][a] = log[q][a]
  <2>1. Counted(q, a, ip, now)
    BY EnteredCounts
  <2>2. a \in Nat
    BY HorizonType DEF Age
  <2>3. /\ hits[q][a] \in Nat /\ log[q][a] \in Nat
        /\ hits'[q][a] \in Nat /\ log'[q][a] \in Nat
    BY <1>1, <1>3 DEF TypeOK, Tally
  <2> HIDE DEF now, ip
  <2>4. PICK d \in {0, 1} : /\ d = 1 => q = ip /\ a = now
                            /\ hits'[q][a] <= hits[q][a] + d
                            /\ a < now + Window => hits'[q][a] = hits[q][a] + d
                            /\ log'[q][a] = log[q][a] + d
    BY <2>1 DEF Counted
  <2> QED
    BY <2>2, <2>3, <2>4
<1>6. ASSUME NEW q \in IP
      PROVE  /\ log'[q][Horizon] = 0
             /\ \A a \in 0 .. Horizon - 1 : hits'[q][a] <= log'[q][a]
             /\ \A a \in 0 .. Window - 1 : log'[q][a] <= hits'[q][a]
  <2>1. log'[q][Horizon] = 0
    <3>1. Horizon \in Age /\ log[q][Horizon] = 0
      BY HorizonType DEF Age, IInv
    <3> QED
      BY <3>1, <1>1, <1>5
  <2>2. ASSUME NEW a \in 0 .. Horizon - 1 PROVE hits'[q][a] <= log'[q][a]
    <3>1. a \in Age /\ hits[q][a] <= log[q][a]
      BY HorizonType DEF Age, IInv
    <3> QED
      BY <3>1, <1>5
  <2>3. ASSUME NEW a \in 0 .. Window - 1 PROVE log'[q][a] <= hits'[q][a]
    <3>1. a \in Age /\ log[q][a] <= hits[q][a] /\ a < now + Window
      BY <1>1, <1>3, LimiterAssumption DEF Age, Horizon, MapBounded
    <3> QED
      BY <3>1, <1>5
  <2> QED
    BY <2>1, <2>2, <2>3
<1>7. MapBounded'
  BY <1>1, <1>6 DEF MapBounded
<1>8. ASSUME NEW q \in IP, NEW end \in Age
      PROVE  Whole(q, end)' \/ Overrun(q, end)'
  <2> DEFINE S == Span(end)
             W == Waiting(end)
  <2>1. S \in SUBSET Age /\ W \in SUBSET Call /\ W' \in SUBSET Call
    BY DEF Span, Waiting
  <2>2. W' = W \ {c}
    BY <1>1, <1>2, <1>3 DEF Waiting, TypeOK
  <2>3. /\ Size(log[q], S) \in Nat /\ Size(log'[q], S) \in Nat
        /\ log[q] \in Tally /\ log'[q] \in Tally
    BY <1>1, <1>3, <2>1, SizeType DEF TypeOK
  <2>4. Whole(q, end) \/ Overrun(q, end)
    BY DEF IInv
  <2>5. /\ Cardinality(W) \in Nat /\ Cardinality(Call) \in Nat
        /\ Cardinality(W') \in Nat
        /\ c \notin W' => Cardinality(W') <= Cardinality(Call) - 1
        /\ c \in W => Cardinality(W \ {c}) = Cardinality(W) - 1
    BY <2>1, SomeCalls
  <2>6. CASE now >= end
    <3>1. c \in W
      BY <2>6, <1>1 DEF Waiting
    <3>2. ASSUME Whole(q, end) PROVE Whole(q, end)'
      <4> SUFFICES ASSUME NEW a \in S PROVE log'[q][a] <= hits'[q][a]
        BY DEF Whole
      <4>1. a \in Age /\ a < end + Window /\ log[q][a] <= hits[q][a]
        BY <3>2 DEF Span, Whole
      <4>2. a < now + Window
        BY <4>1, <2>6, <1>1, LimiterAssumption, HorizonType DEF Age
      <4> QED
        BY <4>1, <4>2, <1>5
    <3>3. Size(log'[q], S) <= Size(log[q], S) + 1
      <4>1. log'[q] = log[q] \/ log'[q] = Push(log[q], now)
        BY Entered
      <4> QED
        BY <4>1, <2>1, <2>3, <1>1, SizePush
    <3>4. ASSUME Overrun(q, end) PROVE Overrun(q, end)'
      <4>1. Size(log[q], S) + Cardinality(W) <= Limit + Cardinality(Call) - 1
        BY <3>4 DEF Overrun
      <4>2. Size(log'[q], S) + Cardinality(W') <= Limit + Cardinality(Call) - 1
        BY <4>1, <3>1, <3>3, <2>2, <2>3, <2>5, LimiterAssumption
      <4> QED
        BY <4>2 DEF Overrun
    <3> QED
      BY <3>2, <3>4, <2>4
  <2>7. CASE ~(now >= end)
    <3>1. now \notin S
      BY <2>7, <1>1 DEF Span
    <3>2. Size(log'[q], S) = Size(log[q], S)
      <4>1. log'[q] = log[q] \/ log'[q] = Push(log[q], now)
        BY Entered
      <4> QED
        BY <4>1, <3>1, <2>1, <2>3, <1>1, SizePush
    <3>3. c \notin W /\ W' = W
      BY <2>2, <2>7, <1>1 DEF Waiting
    <3>4. Size(log[q], S) + Cardinality(W) <= Limit + Cardinality(Call) - 1
      <4>1. ASSUME Whole(q, end) PROVE Size(log[q], S) <= Limit
        BY <4>1, WholeFits
      <4>2. Cardinality(W) <= Cardinality(Call) - 1
        BY <3>3, <2>5
      <4>3. Overrun(q, end) => Size(log[q], S) + Cardinality(W) <= Limit + Cardinality(Call) - 1
        BY DEF Overrun
      <4> QED
        BY <4>1, <4>2, <4>3, <2>3, <2>4, <2>5, LimiterAssumption
    <3>5. Size(log'[q], S) + Cardinality(W') <= Limit + Cardinality(Call) - 1
      BY <3>2, <3>3, <3>4
    <3> QED
      BY <3>5 DEF Overrun
  <2> QED
    BY <2>6, <2>7
<1> QED
  BY <1>4, <1>6, <1>7, <1>8, EnterForgets DEF IInv

LEMMA ReturnKeeps ==
  ASSUME IInv, NEW c \in Call, Return(c)
  PROVE  IInv'
<1>1. UNCHANGED <<hits, sweptAge, log>> /\ call' = [call EXCEPT ![c] = NoCall]
  BY DEF Return
<1>2. TypeOK' /\ MapBounded'
  BY <1>1, NoCallType DEF IInv, TypeOK, MapBounded, NoCall
<1>3. ASSUME NEW end \in Age PROVE Waiting(end)' = Waiting(end)
  BY <1>1 DEF Waiting, Return, NoCall, IInv, TypeOK
<1> QED
  BY <1>1, <1>2, <1>3 DEF IInv, Whole, Overrun, SinceSweep

LEMMA ArriveKeeps ==
  ASSUME IInv, NEW c \in Call, NEW ip \in IP, Arrive(c, ip)
  PROVE  IInv'
<1>1. /\ UNCHANGED <<hits, sweptAge, log>>
      /\ call' = [call EXCEPT ![c] = [pc |-> "waiting", ip |-> ip, age |-> 0]]
  BY DEF Arrive
<1>2. TypeOK' /\ MapBounded'
  BY <1>1, LimiterAssumption DEF IInv, TypeOK, MapBounded, States
<1>3. ASSUME NEW end \in Age, end # 0 PROVE Waiting(end)' = Waiting(end)
  BY <1>1, <1>3, HorizonType DEF Waiting, Arrive, Age, IInv, TypeOK
<1>4. ASSUME NEW q \in IP PROVE Whole(q, 0)'
  BY <1>2, LimiterAssumption DEF MapBounded, Whole, Span, Age
<1> QED
  BY <1>1, <1>2, <1>3, <1>4 DEF IInv, Whole, Overrun, SinceSweep

(* A tick, reading by reading.                                             *)
LEMMA Ticked ==
  ASSUME IInv, Tick, NEW q \in IP
  PROVE  /\ hits[q] \in Tally /\ hits'[q] \in Tally
         /\ log[q] \in Tally /\ log'[q] \in Tally
         /\ Size(hits'[q], Age) <= Size(hits[q], Age)
         /\ hits'[q][0] = 0 /\ log'[q][0] = 0 /\ log'[q][Horizon] = 0
         /\ \A a \in Age : a # 0 /\ a # Horizon =>
              /\ a - 1 \in Age
              /\ hits'[q][a] = hits[q][a - 1] /\ log'[q][a] = log[q][a - 1]
<1>1. hits[q] \in Tally /\ log[q] \in Tally
  BY DEF IInv, TypeOK
<1>2. hits'[q] = Grown(hits[q]) /\ log'[q] = [Grown(log[q]) EXCEPT ![Horizon] = 0]
  BY DEF Tick
<1>3. Grown(hits[q]) \in Tally /\ Grown(log[q]) \in Tally
  BY <1>1, GrownType
<1>4. log'[q] \in Tally /\ log'[q][Horizon] = 0
      /\ \A a \in Age : a # Horizon => log'[q][a] = Grown(log[q])[a]
  BY <1>2, <1>3, HorizonType DEF Tally, Age
<1>5. \A a \in Age : a # 0 /\ a # Horizon =>
        a - 1 \in Age /\ Grown(hits[q])[a] = hits[q][a - 1] /\ Grown(log[q])[a] = log[q][a - 1]
  BY <1>1, HorizonType DEF Grown, Tally, Age
<1>6. Grown(hits[q])[0] = 0 /\ Grown(log[q])[0] = 0 /\ 0 \in Age /\ 0 # Horizon
  BY <1>1, GrownType, HorizonType DEF Age
<1>7. Size(Grown(hits[q]), Age) <= Size(hits[q], Age)
  BY <1>1, SizeGrown
<1> QED
  BY <1>1, <1>2, <1>3, <1>4, <1>5, <1>6, <1>7

LEMMA TickKeeps ==
  ASSUME IInv, Tick
  PROVE  IInv'
<1>1. TypeOK /\ MapBounded
  BY DEF IInv
<1>2. TypeOK'
  <2>1. hits' \in [IP -> Tally] /\ log' \in [IP -> Tally]
    BY Ticked DEF Tick
  <2>2. sweptAge' \in 0 .. SweepInt + MaxWait + 1
    BY <1>1, LimiterAssumption DEF Tick, TypeOK
  <2>3. ASSUME NEW c \in Call
        PROVE  /\ call'[c] \in [pc : States, ip : IP \cup {NoIP}, age : 0 .. MaxWait]
               /\ call'[c].pc = call[c].pc /\ call'[c].ip = call[c].ip
    BY <1>1, LimiterAssumption DEF Tick, TypeOK
  <2>4. call' \in [Call -> [pc : States, ip : IP \cup {NoIP}, age : 0 .. MaxWait]]
    BY <2>3 DEF Tick
  <2> QED
    BY <1>1, <2>1, <2>2, <2>3, <2>4 DEF TypeOK
<1>3. ASSUME NEW q \in IP
      PROVE  /\ log'[q][Horizon] = 0
             /\ \A a \in 0 .. Horizon - 1 : hits'[q][a] <= log'[q][a]
             /\ \A a \in 0 .. Window - 1 : log'[q][a] <= hits'[q][a]
             /\ Size(hits'[q], Age) <= Limit
  <2>1. \A a \in 0 .. Horizon - 1 : hits[q][a] <= log[q][a]
    BY DEF IInv
  <2>2. \A a \in 0 .. Window - 1 : log[q][a] <= hits[q][a]
    BY <1>1 DEF MapBounded
  <2>3. ASSUME NEW a \in 0 .. Horizon - 1 PROVE hits'[q][a] <= log'[q][a]
    <3>1. a \in Age /\ a # Horizon /\ (a # 0 => a - 1 \in 0 .. Horizon - 1)
      BY HorizonType DEF Age
    <3> QED
      BY <3>1, <2>1, Ticked
  <2>4. ASSUME NEW a \in 0 .. Window - 1 PROVE log'[q][a] <= hits'[q][a]
    <3>1. a \in Age /\ a # Horizon /\ (a # 0 => a - 1 \in 0 .. Window - 1)
      BY LimiterAssumption DEF Age, Horizon
    <3> QED
      BY <3>1, <2>2, Ticked
  <2>5. Size(hits'[q], Age) <= Limit
    <3>1. Size(hits[q], Age) <= Limit /\ Size(hits'[q], Age) <= Size(hits[q], Age)
      BY <1>1, Ticked DEF MapBounded
    <3> QED
      BY <3>1, Ticked, SizeType, LimiterAssumption
  <2> QED
    BY <2>3, <2>4, <2>5, Ticked
<1>4. MapBounded'
  BY <1>3 DEF MapBounded
<1>5. ASSUME NEW q \in IP, NEW end \in Age
      PROVE  Whole(q, end)' \/ Overrun(q, end)'
  <2>1. CASE end = 0
    <3>1. \A a \in Span(0) : a \in 0 .. Window - 1
      BY LimiterAssumption DEF Span, Age
    <3> QED
      BY <2>1, <3>1, <1>3 DEF Whole
  <2>2. CASE end # 0
    <3> DEFINE S == Span(end)
               T == Span(end - 1)
    <3>1. end - 1 \in Age /\ S \in SUBSET Age /\ T \in SUBSET Age
      BY <2>2, HorizonType DEF Age, Span
    <3>2. \A a \in S : a \in Age /\ a # 0 /\ a - 1 \in T
      BY <2>2, HorizonType, LimiterAssumption DEF Age, Span
    <3>3. ASSUME Whole(q, end - 1) PROVE Whole(q, end)'
      <4> SUFFICES ASSUME NEW a \in S PROVE log'[q][a] <= hits'[q][a]
        BY DEF Whole
      <4>1. a \in Age /\ a # 0 /\ log[q][a - 1] <= hits[q][a - 1]
        BY <3>2, <3>3 DEF Whole
      <4>2. log'[q][Horizon] = 0 /\ hits'[q][a] \in Nat
        BY <4>1, Ticked DEF Tally
      <4>3. a # Horizon => log'[q][a] = log[q][a - 1] /\ hits'[q][a] = hits[q][a - 1]
        BY <4>1, Ticked
      <4> QED
        BY <4>1, <4>2, <4>3
    <3>4. ASSUME Overrun(q, end - 1) PROVE Overrun(q, end)'
      <4>1. Size(log'[q], S) <= Size(log[q], T)
        <5>1. \A a \in S : log'[q][a] # 0 => a - 1 \in T /\ log'[q][a] <= log[q][a - 1]
          <6> SUFFICES ASSUME NEW a \in S, log'[q][a] # 0
                       PROVE  a - 1 \in T /\ log'[q][a] <= log[q][a - 1]
            OBVIOUS
          <6>1. a \in Age /\ a # 0 /\ a # Horizon /\ a - 1 \in T
            BY <3>2, Ticked
          <6>2. log'[q][a] = log[q][a - 1] /\ log'[q][a] \in Nat
            BY <6>1, Ticked DEF Tally
          <6> QED
            BY <6>1, <6>2
        <5>2. log[q] \in Tally /\ log'[q] \in Tally
          BY Ticked
        <5> HIDE DEF S, T
        <5> QED
          BY <3>1, <5>1, <5>2, SizeShift
      <4>2. Waiting(end)' \subseteq Waiting(end - 1)
        <5> SUFFICES ASSUME NEW c \in Call, call'[c].pc = "waiting", call'[c].age >= end
                     PROVE  call[c].pc = "waiting" /\ call[c].age >= end - 1
          BY DEF Waiting
        <5>1. call[c].pc = "waiting" /\ call'[c].age = call[c].age + 1
          BY <1>1 DEF Tick, TypeOK
        <5>2. call[c].age \in Nat /\ end \in Nat
          BY <1>1, HorizonType DEF TypeOK, Age
        <5> QED
          BY <5>1, <5>2
      <4>3. /\ Cardinality(Waiting(end)') \in Nat /\ Cardinality(Waiting(end - 1)) \in Nat
            /\ Cardinality(Waiting(end)') <= Cardinality(Waiting(end - 1))
            /\ Cardinality(Call) \in Nat
        <5>1. Waiting(end - 1) \in SUBSET Call
          BY DEF Waiting
        <5> QED
          BY <5>1, <4>2, SomeCalls
      <4>4. Size(log'[q], S) \in Nat /\ Size(log[q], T) \in Nat
        BY <3>1, Ticked, SizeType
      <4>5. Size(log[q], T) + Cardinality(Waiting(end - 1)) <= Limit + Cardinality(Call) - 1
        BY <3>4 DEF Overrun
      <4>6. Size(log'[q], S) + Cardinality(Waiting(end)') <= Limit + Cardinality(Call) - 1
        <5> HIDE DEF S, T
        <5> QED
          BY <4>1, <4>3, <4>4, <4>5, LimiterAssumption
      <4> QED
        BY <4>6 DEF Overrun
    <3>5. Whole(q, end - 1) \/ Overrun(q, end - 1)
      BY <3>1 DEF IInv
    <3> QED
      BY <3>3, <3>4, <3>5
  <2> QED
    BY <2>1, <2>2
<1>6. SinceSweep'
  <2> SUFFICES ASSUME NEW q \in IP, NEW a \in Age, hits'[q][a] > 0
               PROVE  a < sweptAge' + Window
    BY DEF SinceSweep
  <2>1. sweptAge \in 0 .. SweepInt + MaxWait + 1
        /\ sweptAge' = IF sweptAge > SweepInt + MaxWait THEN sweptAge ELSE sweptAge + 1
    BY <1>1 DEF TypeOK, Tick
  <2>2. a \in 0 .. Horizon
    BY DEF Age
  <2>3. CASE sweptAge > SweepInt + MaxWait
    BY <2>1, <2>2, <2>3, LimiterAssumption DEF Horizon
  <2>4. CASE ~(sweptAge > SweepInt + MaxWait)
    <3>1. sweptAge' = sweptAge + 1
      BY <2>1, <2>4
    <3>2. PICK b \in Age : hits[q][b] > 0 /\ a <= b + 1
      <4>1. CASE a = Horizon
        <5>1. hits'[q] = Grown(hits[q]) /\ hits[q] \in Tally
          BY <1>1 DEF Tick, TypeOK
        <5>2. hits'[q][Horizon] = hits[q][Horizon - 1] + hits[q][Horizon]
          BY <5>1, GrownType
        <5>3. hits[q][Horizon - 1] \in Nat /\ hits[q][Horizon] \in Nat
              /\ Horizon - 1 \in Age /\ Horizon \in Age
          BY <5>1, GrownType DEF Tally
        <5> QED
          BY <4>1, <5>2, <5>3, HorizonType
      <4>2. CASE a # Horizon
        <5>1. a # 0
          BY Ticked
        <5>2. a - 1 \in Age /\ hits'[q][a] = hits[q][a - 1]
          BY <4>2, <5>1, Ticked
        <5> QED
          BY <5>2, <2>2
      <4> QED
        BY <4>1, <4>2
    <3>3. b \in Nat /\ b < sweptAge + Window
      BY <3>2, HorizonType DEF Age, IInv, SinceSweep
    <3> QED
      BY <2>1, <2>2, <3>1, <3>2, <3>3, LimiterAssumption
  <2> QED
    BY <2>3, <2>4
<1> QED
  BY <1>2, <1>3, <1>4, <1>5, <1>6 DEF IInv

LEMMA StepIInv == IInv /\ [Next]_vars => IInv'
<1> SUFFICES ASSUME IInv, [Next]_vars PROVE IInv'
  OBVIOUS
<1>1. ASSUME UNCHANGED vars PROVE IInv'
  BY <1>1 DEF vars, IInv, TypeOK, SinceSweep, MapBounded, Whole, Overrun, Waiting
<1>2. ASSUME NEW c \in Call, Enter(c) PROVE IInv'
  BY <1>2, EnterKeeps
<1>3. ASSUME NEW c \in Call, Return(c) PROVE IInv'
  BY <1>3, ReturnKeeps
<1>4. ASSUME NEW c \in Call, NEW ip \in IP, Arrive(c, ip) PROVE IInv'
  BY <1>4, ArriveKeeps
<1>5. ASSUME Tick PROVE IInv'
  BY <1>5, TickKeeps
<1>6. ASSUME Restart PROVE IInv'
  BY <1>6, RestartKeeps
<1> QED
  BY <1>1, <1>2, <1>3, <1>4, <1>5, <1>6 DEF Next

(***************************************************************************)
(* What is proved of the specification.                                    *)
(***************************************************************************)
(* ipRateLimiter.Allow, time and restarts keep the invariant: every window *)
(* is either still whole in the map, or those who can overrun it are among *)
(* the calls that wait for the mutex.                                      *)
THEOREM Invariance == Spec => []IInv
<1>1. Init => IInv
  BY InitIInv
<1>2. IInv /\ [Next]_vars => IInv'
  BY StepIInv
<1> QED
  BY <1>1, <1>2, PTL DEF Spec

(* Between two calls the map holds at most one budget of readings for each *)
(* address, and all the admissions that are younger than the window.       *)
THEOREM MapStaysBounded == Spec => []MapBounded
<1>1. IInv => MapBounded
  BY DEF IInv
<1> QED
  BY <1>1, Invariance, PTL

(* No interval of a window's length holds more admissions of an address    *)
(* than the limit and the calls that can wait for the mutex but one: what  *)
(* Allow guarantees although it reads the clock before it takes the mutex. *)
THEOREM BurstIsBounded == Spec => []BurstBound
<1>1. ASSUME IInv PROVE BurstBound
  <2> SUFFICES ASSUME NEW ip \in IP, NEW end \in Age
               PROVE  Size(log[ip], Span(end)) <= Limit + Cardinality(Call) - 1
    BY DEF BurstBound
  <2>1. Size(log[ip], Span(end)) \in Nat
    <3>1. log[ip] \in Tally /\ Span(end) \in SUBSET Age
      BY <1>1 DEF IInv, TypeOK, Span
    <3> QED
      BY <3>1, SizeType
  <2>2. /\ Cardinality(Call) \in Nat /\ Cardinality(Call) > 0
        /\ Cardinality(Waiting(end)) \in Nat
    <3>1. Waiting(end) \in SUBSET Call
      BY DEF Waiting
    <3> QED
      BY <3>1, SomeCalls
  <2>3. ASSUME Whole(ip, end) PROVE Size(log[ip], Span(end)) <= Limit
    BY <1>1, <2>3, WholeFits
  <2>4. ASSUME Overrun(ip, end)
        PROVE  Size(log[ip], Span(end)) + Cardinality(Waiting(end)) <= Limit + Cardinality(Call) - 1
    BY <2>4 DEF Overrun
  <2>5. Whole(ip, end) \/ Overrun(ip, end)
    BY <1>1 DEF IInv
  <2> QED
    BY <2>1, <2>2, <2>3, <2>4, <2>5, LimiterAssumption
<1> QED
  BY <1>1, Invariance, PTL

(* A call that is answered has been through the critical section.          *)
LEMMA AnsweredEntered ==
  ASSUME IInv, [Next]_vars, NEW c \in Call, call[c].pc = "waiting",
         call'[c].pc \in {"allowed", "denied"}
  PROVE  Enter(c)
<1>1. call \in [Call -> [pc : States, ip : IP \cup {NoIP}, age : 0 .. MaxWait]]
  BY DEF IInv, TypeOK
<1>2. ASSUME NEW d \in Call, Enter(d), d # c PROVE call'[c] = call[c]
  BY <1>1, <1>2 DEF Enter
<1>3. ASSUME NEW d \in Call, Return(d) PROVE call'[c].pc \in {"idle", "waiting"}
  BY <1>1, <1>3 DEF Return, NoCall
<1>4. ASSUME NEW d \in Call, NEW q \in IP, Arrive(d, q) PROVE call'[c].pc = "waiting"
  BY <1>1, <1>4 DEF Arrive
<1>5. ASSUME Tick PROVE call'[c].pc = "waiting"
  BY <1>1, <1>5 DEF Tick
<1>6. ASSUME Restart PROVE call'[c].pc = "idle"
  BY <1>6 DEF Restart, NoCall
<1> QED
  BY <1>2, <1>3, <1>4, <1>5, <1>6 DEF Next, vars

(* A call is refused only when a full budget of its own address's          *)
(* admissions lies in the window that ends with its reading or is newer,   *)
(* made by calls that read the clock later and took the mutex earlier.     *)
THEOREM DenialsAreEarned == Spec => DeniedForOwnHits
<1>1. ASSUME IInv, [Next]_vars, NEW c \in Call, call[c].pc = "waiting", call'[c].pc = "denied"
      PROVE  LET age == call[c].age
             IN  Limit <= Size(log[call[c].ip], Span(age) \cup Newer(age))
  <2> DEFINE ip == call[c].ip
             now == call[c].age
             S == Span(now) \cup Newer(now)
  <2>1. Enter(c)
    BY <1>1, AnsweredEntered
  <2>2. /\ ip \in IP /\ now \in 0 .. MaxWait
        /\ hits \in [IP -> Tally] /\ log \in [IP -> Tally] /\ hits' \in [IP -> Tally]
        /\ Pruned(hits'[ip], hits[ip], now)
        /\ Size(hits'[ip], Age) >= Limit
        /\ \A a \in Age : a >= now + Window => hits'[ip][a] = 0
    <3>1. call' # [call EXCEPT ![c].pc = "allowed"]
      BY <1>1 DEF IInv, TypeOK
    <3> QED
      BY <1>1, <2>1, <3>1, Entered
  <2>3. S \in SUBSET Age /\ \A a \in S : a \in 0 .. Horizon - 1
    BY <2>2, LimiterAssumption DEF Age, Horizon, Span, Newer
  <2>4. hits[ip] \in Tally /\ hits'[ip] \in Tally /\ log[ip] \in Tally
    BY <2>2
  <2>5. ASSUME NEW a \in S
        PROVE  /\ hits'[ip][a] \in Nat /\ log[ip][a] \in Nat
               /\ hits'[ip][a] <= log[ip][a]
    <3>1. hits'[ip][a] <= hits[ip][a]
      BY <2>2, <2>3 DEF Pruned
    <3>2. hits[ip][a] <= log[ip][a]
      BY <1>1, <2>2, <2>3 DEF IInv
    <3>3. hits'[ip][a] \in Nat /\ hits[ip][a] \in Nat /\ log[ip][a] \in Nat
      BY <2>3, <2>4 DEF Tally
    <3> QED
      BY <3>1, <3>2, <3>3
  <2>6. \A a \in Age : a \notin S => hits'[ip][a] = 0
    BY <2>2, LimiterAssumption DEF Age, Horizon, Span, Newer
  <2>7. Items(hits'[ip], Age) \subseteq Items(log[ip], S)
    <3> HIDE DEF S, ip
    <3> SUFFICES ASSUME NEW x \in Items(hits'[ip], Age) PROVE x \in Items(log[ip], S)
      OBVIOUS
    <3>1. PICK a \in Age, i \in Nat : i \in 1 .. hits'[ip][a] /\ x = <<a, i>>
      BY <2>4, ItemsAre DEF Tally
    <3>2. a \in S
      BY <2>6, <3>1
    <3>3. i \in 1 .. log[ip][a]
      BY <2>5, <3>1, <3>2
    <3> QED
      BY <2>3, <2>4, <3>1, <3>2, <3>3, ItemsAre
  <2>8. Size(hits'[ip], Age) <= Size(log[ip], S)
    BY <2>3, <2>4, <2>7, SizeType, FS_Subset DEF Size
  <2>9. Size(hits'[ip], Age) \in Nat /\ Size(log[ip], S) \in Nat
    BY <2>3, <2>4, SizeType
  <2> HIDE DEF S
  <2>10. Limit <= Size(log[ip], S)
    BY <2>2, <2>8, <2>9, LimiterAssumption
  <2> QED
    BY <2>10 DEF S
<1>2. IInv /\ [Next]_vars =>
        [\A c \in Call : call[c].pc = "waiting" /\ call'[c].pc = "denied" =>
           LET age == call[c].age
           IN  Limit <= Size(log[call[c].ip], Span(age) \cup Newer(age))]_vars
  BY <1>1
<1> QED
  BY <1>2, Invariance, PTL DEF Spec, DeniedForOwnHits

(* Whenever a call is answered the map holds nothing that was older than   *)
(* the window and the interval of sweeps, for any number of addresses:     *)
(* those that stay away are forgotten.                                     *)
THEOREM AddressesAreForgotten == Spec => MapForgets
<1>1. ASSUME IInv, [Next]_vars, NEW c \in Call, call[c].pc = "waiting",
             call'[c].pc \in {"allowed", "denied"}
      PROVE  \A ip \in IP : \A a \in Age :
               hits'[ip][a] > 0 => a < Window + SweepInt + call[c].age
  BY <1>1, AnsweredEntered, EnterForgets
<1>2. IInv /\ [Next]_vars =>
        [\A c \in Call : call[c].pc = "waiting" /\ call'[c].pc \in {"allowed", "denied"} =>
           \A ip \in IP : \A a \in Age :
             hits'[ip][a] > 0 => a < Window + SweepInt + call[c].age]_vars
  BY <1>1
<1> QED
  BY <1>2, Invariance, PTL DEF Spec, MapForgets
=============================================================================
