-------------------------------- MODULE Heap --------------------------------
(***************************************************************************)
(* What the slake garbage collector promises to the code that uses the     *)
(* heap: a program links and pins the objects it can reach, and an object  *)
(* disappears only once nothing can reach it any more.  The collector      *)
(* itself - generations, marking, sweeping - is in module Gc, which        *)
(* implements this specification.                                          *)
(***************************************************************************)
EXTENDS Reachability, Naturals

CONSTANT Root      \* the cell of Runtime::_root_object

VARIABLES
  live,      \* the cells that hold an object
  refs,      \* refs[o]: the objects that o refers to
  pins,      \* pins[o]: Object::host_ref_count
  roots      \* the objects that the runtime itself keeps

vars == <<live, refs, pins, roots>>

Pinned     == {o \in live : pins[o] > 0}
Accessible == Reach(refs, roots \cup Pinned)

Init ==
  /\ live  = {Root}
  /\ refs  = [o \in Object |-> {}]
  /\ pins  = [o \in Object |-> 0]
  /\ roots = {Root}

\* A new object is born pinned: alloc() returns a HostObjectRef.
Alloc(o) ==
  /\ o \notin live
  /\ live' = live \cup {o}
  /\ refs' = [refs EXCEPT ![o] = {}]
  /\ pins' = [pins EXCEPT ![o] = 1]
  /\ UNCHANGED roots

\* A running program rearranges what it can reach.
Relink ==
  /\ \E a \in Accessible, S \in SUBSET Accessible : refs' = [refs EXCEPT ![a] = S]
  /\ UNCHANGED <<live, pins, roots>>

Pin(o) ==
  /\ o \in Accessible
  /\ pins' = [pins EXCEPT ![o] = @ + 1]
  /\ UNCHANGED <<live, refs, roots>>

Unpin(o) ==
  /\ pins[o] > 0
  /\ pins' = [pins EXCEPT ![o] = @ - 1]
  /\ UNCHANGED <<live, refs, roots>>

\* An object that nothing refers to any more, but that is still whole, is taken
\* back into use: an interned definition that is asked for again.
Revive ==
  /\ \E a \in Accessible, b \in live :
        /\ Reach(refs, {b}) \subseteq live
        /\ refs' = [refs EXCEPT ![a] = @ \cup {b}]
  /\ UNCHANGED <<live, pins, roots>>

\* The runtime starts or stops keeping objects that the program can reach.
Reroot ==
  /\ \E S \in SUBSET Accessible : roots' = S
  /\ UNCHANGED <<live, refs, pins>>

\* The one step of the collector that a program could notice.
Free(o) ==
  /\ o \in live \ Accessible
  /\ live' = live \ {o}
  /\ refs' = [refs EXCEPT ![o] = {}]
  /\ UNCHANGED <<pins, roots>>

Next ==
  \/ Relink
  \/ Revive
  \/ Reroot
  \/ \E o \in Object : Alloc(o) \/ Pin(o) \/ Unpin(o) \/ Free(o)

Spec == Init /\ [][Next]_vars

=============================================================================
