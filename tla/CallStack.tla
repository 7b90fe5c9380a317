----------------------------- MODULE CallStack ------------------------------
(***************************************************************************)
(* What a slake context promises to the functions that run in it: a stack  *)
(* of activations, each with registers, received arguments, arguments that *)
(* it is about to pass and open scopes of its own.  An instruction affects *)
(* the newest activation only; a call hands over the pending arguments; a  *)
(* return delivers at most one value to the caller.                        *)
(***************************************************************************)
EXTENDS Naturals, Sequences

CONSTANTS
  Value,    \* the values
  Nil,      \* an invalid value
  MaxRegs,  \* bound on the registers of a function
  MaxArgs   \* bound on the arguments that the host passes

VARIABLE frames    \* the activations, the oldest first

Activation(n, args, out) ==
  [regs |-> [i \in 1 .. n |-> Nil], args |-> args, pending |-> <<>>, scopes |-> 1, out |-> out]

Init == frames = <<>>

Newest  == frames[Len(frames)]
Callers == SubSeq(frames, 1, Len(frames) - 1)

Becomes(f) == frames' = Append(Callers, f)

Write(i, v) == Becomes([Newest EXCEPT !.regs[i] = v])

\* A reference may come to refer to nothing when a scope ends.
Leave ==
  /\ Newest.scopes > 1
  /\ \E gone \in SUBSET (DOMAIN Newest.regs) :
       Becomes([Newest EXCEPT !.scopes = @ - 1,
                              !.regs = [i \in DOMAIN @ |-> IF i \in gone THEN Nil ELSE @[i]]])

Enter == Becomes([Newest EXCEPT !.scopes = @ + 1])

Push(v) == Becomes([Newest EXCEPT !.pending = <<v>> \o @])

Call(n, out) ==
  frames' = Append(Append(Callers, [Newest EXCEPT !.pending = <<>>]),
                   Activation(n, Newest.pending, out))

Return ==
  LET caller == frames[Len(frames) - 1]
      older  == SubSeq(frames, 1, Len(frames) - 2)
  IN  /\ Len(frames) > 1
      /\ \/ Newest.out = 0 /\ frames' = Append(older, caller)
         \/ Newest.out \in DOMAIN caller.regs
            /\ \E i \in DOMAIN Newest.regs :
                 frames' = Append(older, [caller EXCEPT !.regs[Newest.out] = Newest.regs[i]])
         \/ frames' = Append(older, caller)      \* a native function

\* The host calls a function: an activation that will receive its result,
\* and, unless that fails, the function's own.
Start ==
  LET bottom == Activation(1, <<>>, 0)
  IN  \/ frames' = Append(frames, bottom)
      \/ \E n, out \in 0 .. MaxRegs, a \in 0 .. MaxArgs :
           frames' = frames \o <<bottom, Activation(n, [i \in 1 .. a |-> Nil], out)>>

Next ==
  \/ Start
  \/ /\ frames # <<>>
     /\ \/ Leave \/ Enter \/ Return
        \/ \E v \in Value : Push(v) \/ \E i \in DOMAIN Newest.regs : Write(i, v)
        \/ \E n, out \in 0 .. MaxRegs : Call(n, out)

Spec == Init /\ [][Next]_frames

=============================================================================
