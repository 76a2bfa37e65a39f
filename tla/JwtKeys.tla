------------------------------ MODULE JwtKeys ------------------------------
(***************************************************************************)
(* The RSA key that signs every token: LoadOrGenerate at the start of a    *)
(* process.  Several processes share the path (two instances, a restart    *)
(* overlapping the old one) and nothing locks it.  os.WriteFile truncates  *)
(* the file and then writes it; the last to write wins.  A process keeps   *)
(* the key it loaded or made until it ends, whatever the file becomes:     *)
(* while it goes on starting, and when it serves, where it accepts only    *)
(* tokens signed with that key.                                            *)
(***************************************************************************)
CONSTANTS Process,
          Key,        \* keys that can be generated
          Absent,     \* no file
          Empty       \* a file truncated and not yet written

ASSUME KeyAssumption == Absent \notin Key /\ Empty \notin Key /\ Absent # Empty

VARIABLES
  file,   \* what the path holds
  proc,   \* each process: where it stands, and its key
  drawn   \* keys generated

vars == <<file, proc, drawn>>

Labels == {"off",
           "generate",  \* found no file, about to draw a key
           "truncate",  \* about to open the file for writing
           "write",     \* file open and truncated
           "loaded",    \* LoadOrGenerate has returned, main goes on
           "serving"}

State(label, k) == [pc |-> label, key |-> k]

Off == State("off", Absent)

At(p, label) == proc[p].pc = label

Become(p, label, k) == proc' = [proc EXCEPT ![p] = State(label, k)]

TypeOK ==
  /\ file \in Key \cup {Absent, Empty}
  /\ proc \in [Process -> [pc : Labels, key : Key \cup {Absent}]]
  /\ drawn \subseteq Key

Init == file = Absent /\ proc = [p \in Process |-> Off] /\ drawn = {}

(* A start that makes do with a key of its own, kept in memory, when it    *)
(* fails to read the file: a mutant.                                       *)
LoadOrEphemeral(p) ==
  /\ At(p, "off") /\ file \in Key
  /\ \E k \in {file} \cup (Key \ drawn) :
       /\ Become(p, "loaded", k)
       /\ drawn' = drawn \cup {k}
  /\ UNCHANGED file

(* The file read and parsed.  One that does not parse ends the process.    *)
Load(p) ==
  /\ At(p, "off") /\ file \in Key
  /\ Become(p, "loaded", file)
  /\ UNCHANGED <<file, drawn>>

(* A FindNone that takes a truncated file for none: a mutant. *)
FindNoneOrEmpty(p) ==
  /\ At(p, "off") /\ file \in {Absent, Empty}
  /\ Become(p, "generate", Absent)
  /\ UNCHANGED <<file, drawn>>

(* A start that takes a file it fails to read for none: a mutant. *)
FindUnreadable(p) ==
  /\ At(p, "off")
  /\ Become(p, "generate", Absent)
  /\ UNCHANGED <<file, drawn>>

FindNone(p) ==
  /\ At(p, "off") /\ file = Absent
  /\ Become(p, "generate", Absent)
  /\ UNCHANGED <<file, drawn>>

(* A Generate whose key goes to a variable of an inner scope: a mutant. *)
GenerateShadowed(p, k) ==
  /\ At(p, "generate") /\ k \notin drawn
  /\ drawn' = drawn \cup {k}
  /\ Become(p, "truncate", Absent)
  /\ UNCHANGED file

Generate(p, k) ==
  /\ At(p, "generate") /\ k \notin drawn
  /\ drawn' = drawn \cup {k}
  /\ Become(p, "truncate", k)
  /\ UNCHANGED file

Truncate(p) ==
  /\ At(p, "truncate")
  /\ file' = Empty
  /\ Become(p, "write", proc[p].key)
  /\ UNCHANGED drawn

Write(p) ==
  /\ At(p, "write")
  /\ file' = proc[p].key
  /\ Become(p, "loaded", proc[p].key)
  /\ UNCHANGED drawn

(* main reads the rest of its configuration and listens.                   *)
Serve(p) ==
  /\ At(p, "loaded")
  /\ Become(p, "serving", proc[p].key)
  /\ UNCHANGED <<file, drawn>>

(* The process ends: an error, a signal, a crash. *)
End(p) ==
  /\ ~At(p, "off")
  /\ Become(p, "off", Absent)
  /\ UNCHANGED <<file, drawn>>

Next ==
  \E p \in Process :
    \/ Load(p) \/ FindNone(p) \/ Truncate(p) \/ Write(p) \/ Serve(p) \/ End(p)
    \/ \E k \in Key : Generate(p, k)

Spec == Init /\ [][Next]_vars

(***************************************************************************)
(* Properties.                                                             *)
(***************************************************************************)
Generating == {p \in Process : proc[p].pc \in {"generate", "truncate", "write"}}

(* Once there is a file and nobody is in the middle of making one, the     *)
(* file never changes again, through any number of starts, ends and        *)
(* crashes: tokens outlive restarts.  (A file left truncated by a crash    *)
(* stays so too, and no process starts until somebody removes it.)         *)
SettledStays ==
  [][file # Absent /\ Generating = {} => file' = file /\ Generating' = {}]_vars

(* The processes that go by another key than the file's. *)
Up == {p \in Process : proc[p].pc \in {"loaded", "serving"}}
Strays == {p \in Up : proc[p].key # file}

(* What is left of a race for the file runs dry.  Only who looked before   *)
(* the first of them opened it still makes a key; and when they are done,  *)
(* whoever has lost keeps the key it has till it ends, but nobody comes up *)
(* with another key than the one in the file any more.                     *)
RaceDrains ==
  [][file # Absent =>
       /\ Generating' \subseteq Generating
       /\ Generating = {} => Strays' \subseteq Strays]_vars

(* Inductive: what is about to be written, and what has been, is a key.    *)
IInv ==
  /\ TypeOK
  /\ \A p \in Process :
       proc[p].pc \in {"truncate", "write", "loaded", "serving"} => proc[p].key \in Key
=============================================================================
