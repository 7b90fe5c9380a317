--------------------------- MODULE MCContextStack ---------------------------
(***************************************************************************)
(* ContextStack, with the activations that its memory stands for recorded  *)
(* in a variable of their own, so that TLC reads them off once per state.  *)
(***************************************************************************)
EXTENDS ContextStack

VARIABLE activations

MCInit == Init /\ activations = Frames
MCNext == Next /\ activations' = Frames'
MCSpec == MCInit /\ [][MCNext]_<<vars, activations>>

Abstract == INSTANCE CallStack WITH frames <- activations, Nil <- Plain(Invalid)

(***************************************************************************)
(* The interpreter's stack implements the abstract one: an activation      *)
(* keeps its registers, arguments and scopes whatever the functions that   *)
(* it calls do with the memory above it, and gets their results.           *)
(***************************************************************************)
ImplementsCallStack == Abstract!Spec

=============================================================================
