------------------------------- MODULE Retire -------------------------------
(***************************************************************************)
(* What the core pipeline as a whole promises about instructions, with     *)
(* none of its buffers: the oracle hands out Mops in sequence order;       *)
(* commit retires them oldest first, several per cycle if it likes; a      *)
(* recovery to Mop m discards every younger Mop and never one that has     *)
(* already retired; a flush discards every Mop not yet retired.            *)
(* Pipeline (decode and commit composed) is checked to implement it.       *)
(***************************************************************************)
EXTENDS Naturals, Sequences, FiniteSets
LOCAL INSTANCE SequencesExt

CONSTANT MaxSeq

VARIABLES
  fetched,  \* Mops handed out so far: 1..fetched
  done,     \* Mops retired, in retirement order
  dead      \* Mops discarded by a recovery or a flush

vars == <<fetched, done, dead>>

RetiredSet == Range(done)
Live == {m \in 1..fetched : m \notin dead \cup RetiredSet}
\* the live Mops, oldest first
LiveInOrder == SetToSortSeq(Live, <)

Init == fetched = 0 /\ done = <<>> /\ dead = {}

Fetch ==
  /\ fetched < MaxSeq
  /\ fetched' = fetched + 1
  /\ UNCHANGED <<done, dead>>

\* the k oldest live Mops retire, in order
Retire ==
  /\ \E k \in 1..Cardinality(Live) : done' = done \o SubSeq(LiveInOrder, 1, k)
  /\ UNCHANGED <<fetched, dead>>

\* a recovery to m: only Mops younger than m go, and none of them has retired
Squash(m) ==
  /\ m \in 1..fetched
  /\ \A x \in RetiredSet : x <= m
  /\ dead' = dead \cup {x \in 1..fetched : x > m}
  /\ UNCHANGED <<fetched, done>>

Flush ==
  /\ dead' = dead \cup Live
  /\ UNCHANGED <<fetched, done>>

Next == Fetch \/ Retire \/ (\E m \in 1..MaxSeq : Squash(m)) \/ Flush

Spec == Init /\ [][Next]_vars
=============================================================================
