---------------------------- MODULE JwtKeysProof ----------------------------
(***************************************************************************)
(* Proofs about JwtKeys, for any number of processes and keys: a key file  *)
(* once settled is never changed, and what is left of a race for it runs   *)
(* dry.                                                                    *)
(***************************************************************************)
EXTENDS JwtKeys, TLAPS

LEMMA InitIInv == Init => IInv
BY KeyAssumption DEF Init, IInv, TypeOK, Off, State, Labels

LEMMA StepIInv == IInv /\ [Next]_vars => IInv'
<1> SUFFICES ASSUME IInv, [Next]_vars PROVE IInv'
  OBVIOUS
<1> USE KeyAssumption DEF IInv, TypeOK, State, Become, At, Labels
<1>1. ASSUME NEW p \in Process, Load(p) \/ FindNone(p) \/ Serve(p) \/ End(p)
      PROVE  IInv'
  BY <1>1 DEF Load, FindNone, Serve, End
<1>2. ASSUME NEW p \in Process, NEW k \in Key, Generate(p, k) PROVE IInv'
  BY <1>2 DEF Generate
<1>3. ASSUME NEW p \in Process, Truncate(p) \/ Write(p) PROVE IInv'
  BY <1>3 DEF Truncate, Write
<1>4. CASE UNCHANGED vars
  BY <1>4 DEF vars
<1> QED
  BY <1>1, <1>2, <1>3, <1>4 DEF Next

(* Every state is typed, and only keys are ever written.                   *)
THEOREM Invariance == Spec => []IInv
BY InitIInv, StepIInv, PTL DEF Spec

LEMMA SettledStep ==
  ASSUME IInv, [Next]_vars, file # Absent, Generating = {}
  PROVE  file' = file /\ Generating' = {}
<1> USE KeyAssumption DEF IInv, TypeOK, State, Become, At, Generating
<1>1. ASSUME NEW p \in Process, Load(p) \/ Serve(p) \/ End(p)
      PROVE  file' = file /\ Generating' = {}
  BY <1>1 DEF Load, Serve, End
<1>2. ASSUME NEW p \in Process,
             \/ FindNone(p) \/ Truncate(p) \/ Write(p)
             \/ \E k \in Key : Generate(p, k)
      PROVE  FALSE
  BY <1>2 DEF FindNone, Truncate, Write, Generate
<1>3. CASE UNCHANGED vars
  BY <1>3 DEF vars
<1> QED
  BY <1>1, <1>2, <1>3 DEF Next

(* A settled file never changes.                                           *)
THEOREM SettledFileStays == Spec => SettledStays
<1>1. IInv /\ [Next]_vars =>
        [file # Absent /\ Generating = {} => file' = file /\ Generating' = {}]_vars
  BY SettledStep
<1> QED
  BY Invariance, <1>1, PTL DEF Spec, SettledStays

(* A process that is up was so with the same key, or has loaded the file's,*)
(* or was making one.                                                      *)
LEMMA UpStep ==
  ASSUME IInv, [Next]_vars, NEW p \in Process, p \in Up'
  PROVE  \/ p \in Up /\ proc'[p].key = proc[p].key
         \/ proc'[p].key = file /\ UNCHANGED file
         \/ p \in Generating
<1> USE DEF IInv, TypeOK, State, Become, At, Up, Generating
<1>1. ASSUME NEW q \in Process, Load(q) \/ Write(q)
      PROVE  \/ p \in Up /\ proc'[p].key = proc[p].key
             \/ proc'[p].key = file /\ UNCHANGED file
             \/ p \in Generating
  BY <1>1 DEF Load, Write
<1>2. ASSUME NEW q \in Process,
             \/ FindNone(q) \/ Truncate(q) \/ Serve(q) \/ End(q)
             \/ \E k \in Key : Generate(q, k)
      PROVE  p \in Up /\ proc'[p].key = proc[p].key
  BY <1>2 DEF FindNone, Truncate, Serve, End, Generate
<1>3. CASE UNCHANGED vars
  BY <1>3 DEF vars
<1> QED
  BY <1>1, <1>2, <1>3 DEF Next

(* Nobody begins to make a key when there is a file.                       *)
LEMMA GeneratingDrains ==
  ASSUME IInv, [Next]_vars, file # Absent
  PROVE  Generating' \subseteq Generating
<1> USE DEF IInv, TypeOK, State, Become, At, Generating
<1>1. ASSUME NEW p \in Process,
             \/ Load(p) \/ Truncate(p) \/ Write(p) \/ Serve(p) \/ End(p)
             \/ \E k \in Key : Generate(p, k)
      PROVE  Generating' \subseteq Generating
  BY <1>1 DEF Load, Truncate, Write, Serve, End, Generate
<1>2. ASSUME NEW p \in Process, FindNone(p) PROVE FALSE
  BY <1>2 DEF FindNone
<1>3. CASE UNCHANGED vars
  BY <1>3 DEF vars
<1> QED
  BY <1>1, <1>2, <1>3 DEF Next

LEMMA StraysDrain ==
  ASSUME IInv, [Next]_vars, file # Absent, Generating = {}
  PROVE  Strays' \subseteq Strays
<1> SUFFICES ASSUME NEW p \in Process, p \in Up', proc'[p].key # file'
             PROVE  p \in Up /\ proc[p].key # file
  BY DEF Strays, Up
<1>1. file' = file
  BY SettledStep
<1> QED
  BY <1>1, UpStep

(* After a race for the file nobody joins those who make a key, and when   *)
(* they are done nobody joins those who go by another key than the file's, *)
(* for any number of processes.                                            *)
THEOREM RacesDrain == Spec => RaceDrains
<1>1. IInv /\ [Next]_vars =>
        [file # Absent =>
           /\ Generating' \subseteq Generating
           /\ Generating = {} => Strays' \subseteq Strays]_vars
  BY GeneratingDrains, StraysDrain
<1> QED
  BY Invariance, <1>1, PTL DEF Spec, RaceDrains
=============================================================================
