---------------------------- MODULE Reachability ----------------------------
(***************************************************************************)
(* Reachability in the object graph, without recursion: the objects        *)
(* reachable from S are those that belong to every set which contains S    *)
(* and is closed under the references of its members.                      *)
(***************************************************************************)

CONSTANT Object    \* the memory cells that hold objects

\* A is closed under the references E.
Closed(E, A) == \A o \in A : E[o] \subseteq A

Reach(E, S) ==
  LET supersets == {A \in SUBSET Object : S \subseteq A /\ Closed(E, A)}
  IN  {o \in Object : \A A \in supersets : o \in A}

=============================================================================
