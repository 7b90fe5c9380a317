----------------------------- MODULE MCDispatch -----------------------------
(***************************************************************************)
(* Instances of Dispatch: two functions of two instructions.               *)
(***************************************************************************)
EXTENDS Dispatch, TLC

CONSTANTS c1, c2, f, g, nat

MCLength == [h \in Regular |-> 2]

\* The contexts are alike, and so are the regular functions.
Alike == Permutations({c1, c2}) \cup Permutations({f, g})

=============================================================================
