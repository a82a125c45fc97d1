---------------------------- MODULE MCWorkerGroup ----------------------------
(***************************************************************************)
(* Values of WorkerGroup's constants for TLC: shapes of small datasets and *)
(* the slots of one and two workers.                                       *)
(***************************************************************************)
EXTENDS WorkerGroup, TLC

\* Two conversations of a single turn.
PairGraphOf == <<1, 2>>
PairParents == <<{}, {}>>

\* One conversation whose two turns do not depend on each other.
ForkGraphOf == <<1, 1>>
ForkParents == <<{}, {}>>

\* One conversation of three turns that do not depend on each other.
ThreeGraphOf == <<1, 1, 1>>
ThreeParents == <<{}, {}, {}>>

\* One conversation: a root and two branches.
BranchGraphOf == <<1, 1, 1>>
BranchParents == <<{}, {1}, {1}>>

OneSlot == [w \in Workers |-> 1]
TwoSlots == [w \in Workers |-> 2]

Symmetry == Permutations(Workers)
=============================================================================
