------------------------------ MODULE Dispatch ------------------------------
(***************************************************************************)
(* The dispatch loop of the interpreter, Runtime::exec_context(), and      *)
(* exec_fn() that starts it (src/slake/rt/exec.cc), for one thread: which  *)
(* function's instructions are executed, at which index, and what of that  *)
(* is saved in which frame when the function changes.  Native functions    *)
(* may call exec_fn() again, so that activations of exec_context() nest.   *)
(*                                                                         *)
(* What instructions compute is left out; any instruction may be a call, a *)
(* return, a jump or one that throws.  The stack is a sequence of frames:  *)
(* that the memory holds one is the subject of ContextStack.               *)
(***************************************************************************)
EXTENDS Naturals, Sequences

CONSTANTS
  Contexts,     \* the ContextObjects
  Regular,      \* the RegularFnOverloadingObjects
  Native,       \* the NativeFnOverloadingObjects
  NoFn,         \* the null pointer: cur_fn of a top frame
  Length,       \* Length[f]: the number of instructions of f
  MaxDepth,     \* bound on the frames of a context
  MaxNesting,   \* bound on the nesting of exec_context()
  OwnContexts   \* TRUE: a native function never calls back into a context in use

Fns == Regular \cup Native

ASSUME DispatchAssumption ==
  /\ Regular \cap Native = {} /\ NoFn \notin Fns
  /\ Length \in [Regular -> Nat \ {0}]
  /\ MaxDepth \in Nat /\ MaxNesting \in Nat
  /\ OwnContexts \in BOOLEAN

VARIABLES
  frames,      \* frames[c]: the major frames of c, from the oldest to the current one
  runs,        \* the activations of exec_context(), from the outermost to the innermost
  registered,  \* the activation whose runnable managed_thread_runnables holds, or 0
  result       \* how the activation that ended last did

vars == <<frames, runs, registered, result>>

\* A frame: cur_fn, resumable_context_data.cur_ins, and (history) the index of
\* the instruction that its function has to execute next.
Frame == [fn : Fns \cup {NoFn}, ins : Nat, due : Nat]
New(f) == [fn |-> f, ins |-> 0, due |-> 0]

\* An activation: where it is, initial_major_frame_depth, and the locals ol,
\* cur_ins and cur_major_frame.
Run == [context : Contexts, at : {"loop", "ins", "native", "lost"}, initial : Nat,
        ol : Regular \cup {NoFn}, ins : Nat, frame : Nat]

Init ==
  /\ frames = [c \in Contexts |-> <<>>]
  /\ runs = <<>>
  /\ registered = 0
  /\ result = "none"

-----------------------------------------------------------------------------

Last(s)  == s[Len(s)]
Front(s) == SubSeq(s, 1, Len(s) - 1)

Active    == runs # <<>>
Run1      == Last(runs)
Stack     == frames[Run1.context]
Current   == Last(Stack)
Set(r)    == runs' = [runs EXCEPT ![Len(runs)] = r]
Put(s)    == frames' = [frames EXCEPT ![Run1.context] = s]

\* The saved index of the current frame of the stack s.
Saved(s, i) == [s EXCEPT ![Len(s)].ins = i]
Due(s, i)   == [s EXCEPT ![Len(s)].due = i]

\* exec_fn(), by the host or a native function.  The top frame stays when the
\* second frame does not fit, both stay when the runnable cannot be
\* registered.  The thread's entry, if there is one, is replaced or kept.
ExecFn(c, f) ==
  LET top  == Append(frames[c], New(NoFn))
      both == Append(top, New(f))
  IN  /\ Active => Run1.at = "native"
      /\ OwnContexts => \A i \in DOMAIN runs : runs[i].context # c
      /\ Len(frames[c]) + 2 <= MaxDepth
      /\ \/ /\ frames' = [frames EXCEPT ![c] = top]
            /\ UNCHANGED <<runs, registered, result>>
         \/ /\ frames' = [frames EXCEPT ![c] = both]
            /\ UNCHANGED <<runs, registered, result>>
         \/ /\ Len(runs) < MaxNesting
            /\ frames' = [frames EXCEPT ![c] = both]
            /\ runs' = Append(runs, [context |-> c, at |-> "loop", initial |-> Len(both),
                                     ol |-> NoFn, ins |-> 0, frame |-> 0])
            /\ registered' \in {Len(runs) + 1} \cup ({registered} \ {0})
            /\ UNCHANGED result

\* Mutant: only a call that is done removes the entry.
EndUnguarded(how) ==
  /\ runs' = Front(runs)
  /\ registered' = IF how = "done" THEN 0 ELSE registered
  /\ result' = how

\* exec_context() ends, and exec_fn() after it, which removes the thread's
\* entry whatever it is.
End(how) ==
  /\ runs' = Front(runs)
  /\ registered' = 0
  /\ result' = how

\* Mutant: the depth is compared off by one.
LoopEarly ==
  LET n == Len(Stack)
  IN  /\ Active /\ Run1.at = "loop"
      /\ UNCHANGED frames
      /\ \/ /\ n <= Run1.initial \/ Current.fn = NoFn
            /\ End("done")
         \/ /\ n > Run1.initial /\ Current.fn \in Regular
            /\ Set([Run1 EXCEPT !.at = "ins", !.frame = n, !.ol = Current.fn, !.ins = Current.ins])
            /\ UNCHANGED <<registered, result>>
         \/ /\ n > Run1.initial /\ Current.fn \in Native
            /\ Set([Run1 EXCEPT !.at = "native", !.frame = n])
            /\ UNCHANGED <<registered, result>>

\* The head of the outer loop.
Loop ==
  LET n == Len(Stack)
  IN  /\ Active /\ Run1.at = "loop"
      /\ UNCHANGED frames
      /\ \/ /\ n < Run1.initial \/ Current.fn = NoFn
            /\ End("done")
         \/ /\ n >= Run1.initial /\ Current.fn \in Regular
            /\ Set([Run1 EXCEPT !.at = "ins", !.frame = n, !.ol = Current.fn, !.ins = Current.ins])
            /\ UNCHANGED <<registered, result>>
         \/ /\ n >= Run1.initial /\ Current.fn \in Native
            /\ Set([Run1 EXCEPT !.at = "native", !.frame = n])
            /\ UNCHANGED <<registered, result>>

\* An instruction is fetched; nothing keeps the index inside the function.
Executing == Active /\ Run1.at = "ins" /\ Run1.ins < Length[Run1.ol]
RunOff ==
  /\ Active /\ Run1.at = "ins" /\ Run1.ins >= Length[Run1.ol]
  /\ Set([Run1 EXCEPT !.at = "lost"])
  /\ UNCHANGED <<frames, registered, result>>

\* Any instruction that stays in the function; a jump is checked.
Proceed ==
  /\ Executing
  /\ \E i \in {Run1.ins + 1} \cup 0 .. Length[Run1.ol] - 1 :
        Set([Run1 EXCEPT !.ins = i]) /\ Put(Due(Stack, i))
  /\ UNCHANGED <<registered, result>>

\* Mutant: every call is taken for one of the function itself.
CallSame(f) ==
  LET next == Run1.ins + 1
  IN  /\ Executing
      /\ Len(Stack) < MaxDepth
      /\ Put(Append(Due(Stack, next), New(f)))
      /\ Set([Run1 EXCEPT !.frame = Len(Stack) + 1, !.ins = next])
      /\ UNCHANGED <<registered, result>>

\* Mutant: the kind of the function is not compared.
CallAnyKind(f) ==
  LET next == Run1.ins + 1
  IN  /\ Executing
      /\ Len(Stack) < MaxDepth
      /\ Put(Saved(Append(Due(Stack, next), New(f)), next))
      /\ Set([Run1 EXCEPT !.frame = Len(Stack) + 1, !.ol = f, !.ins = next])
      /\ UNCHANGED <<registered, result>>

\* CALL, MCALL and CTORCALL, up to the next instruction.  The index is saved
\* in the frame that is current after the call, unless a function calls
\* itself: then nothing is saved and the index is kept.
Call(f) ==
  LET next  == Run1.ins + 1
      after == Append(Due(Stack, next), New(f))
      n     == Len(Stack) + 1
  IN  /\ Executing
      /\ Len(Stack) < MaxDepth
      /\ \/ /\ f = Current.fn                            \* MajorFrameChanged
            /\ Put(after)
            /\ Set([Run1 EXCEPT !.frame = n, !.ins = next])
         \/ /\ f # Current.fn /\ f \in Regular           \* FnChanged
            /\ Put(Saved(after, next))
            /\ Set([Run1 EXCEPT !.frame = n, !.ol = f, !.ins = next])
         \/ /\ f # Current.fn /\ f \in Native            \* FnKindChanged
            /\ Put(Saved(after, next))
            /\ Set([Run1 EXCEPT !.at = "loop"])
      /\ UNCHANGED <<registered, result>>

\* RET and RETVOID: the index is saved in the frame that is left to.
Return ==
  /\ Executing
  /\ Put(Saved(Front(Stack), Run1.ins + 1))
  /\ Set([Run1 EXCEPT !.at = "loop"])
  /\ UNCHANGED <<registered, result>>

\* An instruction throws: the frames stay.
Throw ==
  /\ Executing
  /\ End("exception")
  /\ UNCHANGED frames

\* The status of the runnable has been set to Dead.
Killed ==
  /\ Active /\ Run1.at = "ins"
  /\ End("killed")
  /\ UNCHANGED frames

\* The callback of a native function returns: _leave_major_frame() leaves the
\* current frame of the context.
NativeReturn ==
  /\ Active /\ Run1.at = "native"
  /\ Put(Front(Stack))
  /\ Set([Run1 EXCEPT !.at = "loop"])
  /\ UNCHANGED <<registered, result>>

-----------------------------------------------------------------------------

Next ==
  \/ \E c \in Contexts, f \in Fns : ExecFn(c, f)
  \/ \E f \in Fns : Call(f)
  \/ Loop \/ Proceed \/ RunOff \/ Return \/ Throw \/ Killed \/ NativeReturn

Spec == Init /\ [][Next]_vars

-----------------------------------------------------------------------------
(* Correctness.                                                            *)

TypeOK ==
  /\ frames \in [Contexts -> Seq(Frame)]
  /\ runs \in Seq(Run)
  /\ registered \in Nat
  /\ result \in {"none", "done", "exception", "killed"}

(***************************************************************************)
(* The loop keeps the function, its instructions and the frame in locals   *)
(* over any number of instructions and refreshes only those that a         *)
(* ContextChangeType asks for.  Whenever an instruction is executed, the   *)
(* locals belong to the current frame.                                     *)
(***************************************************************************)
RightFunction ==
  Active /\ Run1.at = "ins" => Run1.frame = Len(Stack) /\ Run1.ol = Current.fn

(***************************************************************************)
(* The runnable lives on the native stack, in exec_fn().  The thread's     *)
(* entry, which the collector reads, never outlives it, however calls are  *)
(* nested and end.                                                         *)
(***************************************************************************)
RunnableInScope == registered # 0 => registered \in DOMAIN runs

(***************************************************************************)
(* A call that is done has returned: the frames of the context are those   *)
(* it had, and the top frame with the result.                              *)
(***************************************************************************)
DoneMeansReturned ==
  [][\A i \in DOMAIN runs :
        i \notin DOMAIN runs' /\ result' = "done"
          => /\ Len(frames'[runs[i].context]) = runs[i].initial - 1
             /\ Last(frames'[runs[i].context]).fn = NoFn]_vars

(***************************************************************************)
(* "MajorFrameChanged, // Recurse with the same function": a function that *)
(* is called starts at its first instruction, and the caller goes on after *)
(* the call.                                                               *)
(***************************************************************************)
Resumes == Active /\ Run1.at = "ins" => Run1.ins = Current.due

=============================================================================
