-------------------------------- MODULE MCGc --------------------------------
(***************************************************************************)
(* Instances of Gc for TLC.                                                *)
(***************************************************************************)
EXTENDS Gc, TLC

CONSTANTS r, a, b, c, d      \* model values

AllEqual == [t \in TypeDefs |-> "shape"]
Symmetry == Permutations({a, b, c, d} \cap (Object \ (Made \cup Opaque)))

\* Three objects beside the root, or two together with a thread and a cache entry.
\* The host keeps what it pins rooted.
Explored ==
  /\ (threads # {} \/ cache # {}) => Cardinality(Live) <= 3
  /\ lapses = {}

\* A thread with one definition at most.  With the carrier b in use, only a sound heap
\* of definitions made of b and the root is explored.
Interned ==
  /\ threads # {} => Cardinality(Live) <= 2
  /\ b \in Live =>
       /\ lapses = {} /\ threads = {}
       /\ Pinned \subseteq Made /\ Cardinality(Pinned) <= 2
       /\ Root \in Live /\ refs[Root] \subseteq TypeDefs
       /\ refs[b] \subseteq {Root}
       /\ \A t \in TypeDefs : refs[t] \subseteq {b, Root}

=============================================================================
