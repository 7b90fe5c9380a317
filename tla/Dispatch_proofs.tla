-------------------------- MODULE Dispatch_proofs ---------------------------
(***************************************************************************)
(* Proofs about the dispatch loop, for any functions, any depth and any    *)
(* nesting.                                                                *)
(***************************************************************************)
EXTENDS Dispatch, SequenceTheorems, TLAPS

\* An activation that is executing instructions has the current frame and its
\* function at hand; one that has started another is in a native function.
RunOK(fs, rs, i) ==
  /\ i < Len(rs) => rs[i].at = "native"
  /\ rs[i].initial >= 2
  /\ rs[i].at = "ins" =>
       LET s == fs[rs[i].context]
       IN  /\ s # <<>> /\ rs[i].frame = Len(s)
           /\ rs[i].ol = s[Len(s)].fn /\ rs[i].ol \in Regular

Books ==
  /\ TypeOK
  /\ registered \in 0 .. Len(runs)
  /\ \A i \in 1 .. Len(runs) : RunOK(frames, runs, i)

\* If native functions keep away from contexts in use: no two activations
\* share one, and that of an activation holds its top frame, and above it
\* frames of functions, at least one unless the activation is about to end.
Floor(s, r) ==
  /\ Len(s) >= r.initial - 1
  /\ s[r.initial - 1].fn = NoFn
  /\ \A j \in r.initial .. Len(s) : s[j].fn \in Fns
  /\ r.at \in {"ins", "native"} => Len(s) >= r.initial

Apart ==
  /\ \A i, j \in 1 .. Len(runs) : runs[i].context = runs[j].context => i = j
  /\ \A i \in 1 .. Len(runs) : Floor(frames[runs[i].context], runs[i])

-----------------------------------------------------------------------------
(* Sequences of frames and of activations.                                 *)

LEMMA FrontProps ==
  ASSUME NEW S, NEW s \in Seq(S), s # <<>>
  PROVE  /\ Len(s) \in Nat \ {0} /\ Last(s) = s[Len(s)] /\ Last(s) \in S
         /\ Front(s) \in Seq(S) /\ Len(Front(s)) = Len(s) - 1
         /\ \A i \in 1 .. Len(s) - 1 : Front(s)[i] = s[i]
<1>1. Len(s) \in Nat \ {0} /\ \A i \in 1 .. Len(s) : s[i] \in S
  OBVIOUS
<1>2. \A i \in 1 .. Len(s) - 1 : s[i] \in S
  BY <1>1
<1> DEFINE n == Len(s) - 1
           t == SubSeq(s, 1, n)
<1>3. 1 \in Int /\ n \in Int /\ n \in Nat /\ n - 1 + 1 = n
  BY <1>1
<1>4. \A i \in 1 .. n : s[i] \in S
  BY <1>2
<1> HIDE DEF n
<1>5. /\ t \in Seq(S) /\ Len(t) = IF 1 <= n THEN n - 1 + 1 ELSE 0
      /\ \A i \in 1 .. n - 1 + 1 : t[i] = s[1 + i - 1]
  BY <1>3, <1>4, SubSeqProperties
<1> HIDE DEF t
<1>6. Len(t) = n /\ \A i \in 1 .. n : t[i] = s[i]
  BY <1>3, <1>5
<1> QED BY <1>1, <1>5, <1>6 DEF Last, Front, n, t

LEMMA SetLast ==
  ASSUME NEW S, NEW s \in Seq(S), s # <<>>, NEW r \in S,
         NEW t, t = [s EXCEPT ![Len(s)] = r]
  PROVE  /\ t \in Seq(S) /\ Len(t) = Len(s) /\ t[Len(s)] = r
         /\ \A i \in 1 .. Len(s) - 1 : t[i] = s[i]
OBVIOUS

LEMMA NewTyped ==
  ASSUME NEW f \in Fns \cup {NoFn}
  PROVE  New(f) \in Frame /\ New(f).fn = f
BY DEF New, Frame

\* Noting an index in the current frame changes nothing else.
LEMMA NoteIndex ==
  ASSUME NEW s \in Seq(Frame), s # <<>>, NEW i \in Nat,
         NEW t, t = Saved(s, i) \/ t = Due(s, i)
  PROVE  /\ t \in Seq(Frame) /\ Len(t) = Len(s) /\ t # <<>>
         /\ \A j \in 1 .. Len(s) : t[j].fn = s[j].fn
<1>1. s[Len(s)] \in Frame
  OBVIOUS
<1>2. PICK r \in Frame : r.fn = s[Len(s)].fn /\ t = [s EXCEPT ![Len(s)] = r]
  <2>1. CASE t = Saved(s, i)
    <3>1. [s[Len(s)] EXCEPT !.ins = i] \in Frame /\ [s[Len(s)] EXCEPT !.ins = i].fn = s[Len(s)].fn
      BY <1>1 DEF Frame
    <3>2. t = [s EXCEPT ![Len(s)] = [s[Len(s)] EXCEPT !.ins = i]]
      BY <2>1 DEF Saved
    <3> QED BY <3>1, <3>2
  <2>2. CASE t = Due(s, i)
    <3>1. [s[Len(s)] EXCEPT !.due = i] \in Frame /\ [s[Len(s)] EXCEPT !.due = i].fn = s[Len(s)].fn
      BY <1>1 DEF Frame
    <3>2. t = [s EXCEPT ![Len(s)] = [s[Len(s)] EXCEPT !.due = i]]
      BY <2>2 DEF Due
    <3> QED BY <3>1, <3>2
  <2> QED BY <2>1, <2>2
<1>3. /\ t \in Seq(Frame) /\ Len(t) = Len(s) /\ t[Len(s)] = r
      /\ \A j \in 1 .. Len(s) - 1 : t[j] = s[j]
  BY <1>2, SetLast
<1>4. \A j \in 1 .. Len(s) : t[j].fn = s[j].fn
  <2> TAKE j \in 1 .. Len(s)
  <2>1. CASE j = Len(s)
    BY <2>1, <1>2, <1>3
  <2>2. CASE j # Len(s)
    <3>1. j \in 1 .. Len(s) - 1
      BY <2>2
    <3> QED BY <3>1, <1>3
  <2> QED BY <2>1, <2>2
<1> QED BY <1>3, <1>4

LEMMA Innermost ==
  ASSUME Books, Active
  PROVE  /\ Len(runs) \in Nat \ {0} /\ Run1 = runs[Len(runs)] /\ Run1 \in Run
         /\ runs \in Seq(Run) /\ runs # <<>> /\ frames \in [Contexts -> Seq(Frame)]
         /\ Run1.context \in Contexts /\ Run1.initial \in Nat /\ Run1.ins \in Nat
         /\ Run1.initial >= 2 /\ Stack \in Seq(Frame) /\ Len(Stack) \in Nat
         /\ RunOK(frames, runs, Len(runs))
         /\ Run1.at = "ins" => /\ Stack # <<>> /\ Run1.frame = Len(Stack)
                               /\ Run1.ol = Stack[Len(Stack)].fn /\ Run1.ol \in Regular
<1>1. runs \in Seq(Run) /\ runs # <<>> /\ frames \in [Contexts -> Seq(Frame)]
  BY DEF Books, TypeOK, Active
<1>2. Len(runs) \in Nat \ {0} /\ Run1 = runs[Len(runs)] /\ Run1 \in Run
  BY <1>1 DEF Run1, Last
<1>3. Run1.context \in Contexts /\ Run1.initial \in Nat /\ Run1.ins \in Nat
  BY <1>2 DEF Run
<1>4. Stack \in Seq(Frame) /\ Len(Stack) \in Nat
  BY <1>1, <1>3 DEF Stack
<1>5. RunOK(frames, runs, Len(runs))
  BY <1>2 DEF Books
<1>6. Run1.initial >= 2
  BY <1>2, <1>5 DEF RunOK
<1> QED BY <1>1, <1>2, <1>3, <1>4, <1>5, <1>6 DEF RunOK, Stack

-----------------------------------------------------------------------------
(* The steps of the innermost activation.                                  *)

\* It goes on with the locals r and the stack s.
Goes(r, s) ==
  /\ r \in Run /\ s \in Seq(Frame)
  /\ r.context = Run1.context /\ r.initial = Run1.initial
  /\ r.at = "ins" => /\ s # <<>> /\ r.frame = Len(s)
                     /\ r.ol = s[Len(s)].fn /\ r.ol \in Regular
  /\ Set(r) /\ Put(s)
  /\ registered' = registered /\ result' = result

LEMMA GoesBooks ==
  ASSUME Books, Active, NEW r, NEW s, Goes(r, s)
  PROVE  Books'
<1> USE DEF Goes
<1>1. /\ runs \in Seq(Run) /\ runs # <<>> /\ Len(runs) \in Nat
      /\ Run1.context \in Contexts /\ frames \in [Contexts -> Seq(Frame)]
  BY Innermost
<1>2. /\ runs' \in Seq(Run) /\ Len(runs') = Len(runs) /\ runs'[Len(runs)] = r
      /\ \A i \in 1 .. Len(runs) - 1 : runs'[i] = runs[i]
  BY <1>1, SetLast DEF Set
<1>3. frames' \in [Contexts -> Seq(Frame)] /\ frames'[Run1.context] = s
  BY <1>1 DEF Put
<1>4. TypeOK' /\ registered' \in 0 .. Len(runs')
  BY <1>2, <1>3 DEF Books, TypeOK
<1>5. ASSUME NEW i \in 1 .. Len(runs')
      PROVE  RunOK(frames', runs', i)
  <2>1. CASE i = Len(runs)
    <3>1. runs'[i] = r /\ r.initial >= 2 /\ ~(i < Len(runs'))
      BY <2>1, <1>1, <1>2, Innermost
    <3> QED BY <3>1, <2>1, <1>3 DEF RunOK
  <2>2. CASE i # Len(runs)
    <3>1. i \in 1 .. Len(runs) - 1
      BY <2>2, <1>1, <1>2
    <3>2. RunOK(frames, runs, i) /\ i < Len(runs)
      BY <3>1, <1>1 DEF Books
    <3> QED BY <3>1, <3>2, <1>2 DEF RunOK
  <2> QED BY <2>1, <2>2
<1> QED BY <1>4, <1>5 DEF Books

LEMMA EndBooks ==
  ASSUME Books, Active, NEW how \in {"done", "exception", "killed"}, End(how), frames' = frames
  PROVE  Books'
<1>1. runs \in Seq(Run) /\ runs # <<>> /\ Len(runs) \in Nat \ {0}
  BY Innermost
<1>2. /\ runs' \in Seq(Run) /\ Len(runs') = Len(runs) - 1
      /\ \A i \in 1 .. Len(runs) - 1 : runs'[i] = runs[i]
  BY <1>1, FrontProps DEF End
<1>3. TypeOK' /\ registered' \in 0 .. Len(runs')
  BY <1>1, <1>2 DEF Books, TypeOK, End
<1>4. ASSUME NEW i \in 1 .. Len(runs')
      PROVE  RunOK(frames', runs', i)
  <2>1. i \in 1 .. Len(runs) /\ i < Len(runs) /\ runs'[i] = runs[i]
    BY <1>1, <1>2
  <2>2. RunOK(frames, runs, i)
    BY <2>1 DEF Books
  <2> QED BY <2>1, <2>2 DEF RunOK
<1> QED BY <1>3, <1>4 DEF Books

LEMMA EndApart ==
  ASSUME Books, Active, Apart, NEW how, End(how), frames' = frames
  PROVE  Apart'
<1>1. runs \in Seq(Run) /\ runs # <<>> /\ Len(runs) \in Nat \ {0}
  BY Innermost
<1>2. /\ Len(runs') = Len(runs) - 1 /\ \A i \in 1 .. Len(runs) - 1 : runs'[i] = runs[i]
  BY <1>1, FrontProps DEF End
<1>3. 1 .. Len(runs') \subseteq 1 .. Len(runs) /\ \A i \in 1 .. Len(runs') : runs'[i] = runs[i]
  BY <1>1, <1>2
<1> QED BY <1>3 DEF Apart

LEMMA GoesApart ==
  ASSUME Books, Active, Apart, NEW r, NEW s, Goes(r, s), Floor(s, r)
  PROVE  Apart'
<1> USE DEF Goes
<1>1. /\ runs \in Seq(Run) /\ runs # <<>> /\ Len(runs) \in Nat \ {0} /\ Run1 = runs[Len(runs)]
      /\ Run1.context \in Contexts /\ frames \in [Contexts -> Seq(Frame)]
  BY Innermost
<1>2. /\ Len(runs') = Len(runs) /\ runs'[Len(runs)] = r
      /\ \A i \in 1 .. Len(runs) - 1 : runs'[i] = runs[i]
  BY <1>1, SetLast DEF Set
<1>3. \A i \in 1 .. Len(runs) : runs'[i].context = runs[i].context
  <2> TAKE i \in 1 .. Len(runs)
  <2>1. CASE i = Len(runs)
    BY <2>1, <1>1, <1>2
  <2>2. CASE i # Len(runs)
    <3>1. i \in 1 .. Len(runs) - 1
      BY <2>2, <1>1
    <3> QED BY <3>1, <1>2
  <2> QED BY <2>1, <2>2
<1>4. \A i, j \in 1 .. Len(runs') : runs'[i].context = runs'[j].context => i = j
  BY <1>2, <1>3 DEF Apart
<1>5. ASSUME NEW i \in 1 .. Len(runs')
      PROVE  Floor(frames'[runs'[i].context], runs'[i])
  <2>1. CASE i = Len(runs)
    <3>1. frames'[Run1.context] = s
      BY <1>1 DEF Put
    <3> QED BY <2>1, <3>1, <1>2
  <2>2. CASE i # Len(runs)
    <3>1. i \in 1 .. Len(runs) - 1 /\ i \in 1 .. Len(runs) /\ Len(runs) \in 1 .. Len(runs)
      BY <2>2, <1>1, <1>2
    <3>2. Floor(frames[runs[i].context], runs[i]) /\ runs[i].context # Run1.context
      BY <3>1, <2>2, <1>1 DEF Apart
    <3>3. runs[i].context \in Contexts
      <4>1. runs[i] \in Run
        BY <3>1, <1>1
      <4> QED BY <4>1 DEF Run
    <3>4. frames'[runs[i].context] = frames[runs[i].context]
      BY <3>2, <3>3, <1>1 DEF Put
    <3> QED BY <3>1, <3>2, <3>4, <1>2 DEF Floor
  <2> QED BY <2>1, <2>2
<1> QED BY <1>4, <1>5 DEF Apart

LEMMA InnermostFloor ==
  ASSUME Books, Active, Apart
  PROVE  Floor(Stack, Run1)
<1>1. Len(runs) \in 1 .. Len(runs) /\ Run1 = runs[Len(runs)]
  BY Innermost
<1> QED BY <1>1 DEF Apart, Stack

-----------------------------------------------------------------------------
(* Every action.                                                           *)

LEMMA AppendProps ==
  ASSUME NEW S, NEW s \in Seq(S), NEW e \in S, NEW t, t = Append(s, e)
  PROVE  /\ t \in Seq(S) /\ Len(t) = Len(s) + 1 /\ t[Len(s) + 1] = e /\ t # <<>>
         /\ \A i \in 1 .. Len(s) : t[i] = s[i]
OBVIOUS

\* The stack stays as it is.
LEMMA StackStays ==
  ASSUME Books, Active, frames' = frames
  PROVE  Put(Stack)
BY Innermost DEF Put, Stack

LEMMA StepLoop ==
  ASSUME Books, Loop
  PROVE  Books' /\ (Apart => Apart')
<1> USE DispatchAssumption
<1> DEFINE n == Len(Stack)
<1>1. Active /\ frames' = frames /\ Put(Stack)
  BY StackStays DEF Loop
<1>2. /\ Run1 \in Run /\ Stack \in Seq(Frame) /\ n \in Nat
      /\ Run1.initial \in Nat /\ Run1.initial >= 2
  BY <1>1, Innermost
<1>3. CASE End("done")
  BY <1>1, <1>3, EndBooks, EndApart
<1>4. ASSUME n >= Run1.initial
      PROVE  /\ Stack # <<>> /\ Current = Stack[n] /\ Current \in Frame
             /\ Current.ins \in Nat /\ n \in Nat
  <2>1. Stack # <<>>
    BY <1>2, <1>4
  <2>2. Current = Stack[n] /\ Current \in Frame
    BY <1>2, <2>1, FrontProps DEF Current
  <2> QED BY <2>1, <2>2, <1>2 DEF Frame
<1>5. CASE /\ n >= Run1.initial /\ Current.fn \in Regular
           /\ Set([Run1 EXCEPT !.at = "ins", !.frame = n, !.ol = Current.fn, !.ins = Current.ins])
           /\ UNCHANGED <<registered, result>>
  <2> DEFINE r == [Run1 EXCEPT !.at = "ins", !.frame = n, !.ol = Current.fn, !.ins = Current.ins]
  <2>1. /\ r \in Run /\ r.context = Run1.context /\ r.initial = Run1.initial /\ r.at = "ins"
        /\ r.frame = n /\ r.ol = Current.fn
    BY <1>2, <1>4, <1>5 DEF Run
  <2>2. Set(r) /\ registered' = registered /\ result' = result
    BY <1>5
  <2> HIDE DEF r
  <2>3. Goes(r, Stack)
    BY <1>1, <1>2, <1>4, <1>5, <2>1, <2>2 DEF Goes
  <2>4. Floor(Stack, Run1) => Floor(Stack, r)
    BY <1>5, <2>1 DEF Floor
  <2> QED BY <1>1, <2>3, <2>4, GoesBooks, GoesApart, InnermostFloor
<1>6. CASE /\ n >= Run1.initial /\ Current.fn \in Native
           /\ Set([Run1 EXCEPT !.at = "native", !.frame = n])
           /\ UNCHANGED <<registered, result>>
  <2> DEFINE r == [Run1 EXCEPT !.at = "native", !.frame = n]
  <2>1. /\ r \in Run /\ r.context = Run1.context /\ r.initial = Run1.initial /\ r.at = "native"
    BY <1>2 DEF Run
  <2>2. Set(r) /\ registered' = registered /\ result' = result
    BY <1>6
  <2> HIDE DEF r
  <2>3. Goes(r, Stack)
    BY <1>1, <1>2, <2>1, <2>2 DEF Goes
  <2>4. Floor(Stack, Run1) => Floor(Stack, r)
    BY <1>6, <2>1 DEF Floor
  <2> QED BY <1>1, <2>3, <2>4, GoesBooks, GoesApart, InnermostFloor
<1> QED BY <1>3, <1>5, <1>6 DEF Loop

LEMMA StepProceed ==
  ASSUME Books, Proceed
  PROVE  Books' /\ (Apart => Apart')
<1> USE DispatchAssumption
<1>1. Active /\ Run1.at = "ins"
  BY DEF Proceed, Executing
<1>2. /\ Run1 \in Run /\ Stack \in Seq(Frame) /\ Stack # <<>> /\ Len(Stack) \in Nat \ {0}
      /\ Run1.ol \in Regular /\ Run1.ol = Stack[Len(Stack)].fn /\ Run1.frame = Len(Stack)
      /\ Run1.ins \in Nat
  BY <1>1, Innermost
<1>3. PICK i \in Nat : Set([Run1 EXCEPT !.ins = i]) /\ Put(Due(Stack, i))
  <2>1. PICK i \in {Run1.ins + 1} \cup 0 .. Length[Run1.ol] - 1 :
          Set([Run1 EXCEPT !.ins = i]) /\ Put(Due(Stack, i))
    BY DEF Proceed
  <2>2. i \in Nat
    BY <1>2, <2>1
  <2> QED BY <2>1, <2>2
<1> DEFINE r == [Run1 EXCEPT !.ins = i]
           s == Due(Stack, i)
<1>4. /\ s \in Seq(Frame) /\ Len(s) = Len(Stack) /\ s # <<>>
      /\ \A j \in 1 .. Len(Stack) : s[j].fn = Stack[j].fn
  BY <1>2, NoteIndex
<1>5. /\ r \in Run /\ r.context = Run1.context /\ r.initial = Run1.initial /\ r.at = Run1.at
      /\ r.frame = Run1.frame /\ r.ol = Run1.ol
  BY <1>2 DEF Run
<1>6. Set(r) /\ Put(s) /\ registered' = registered /\ result' = result
  BY <1>3 DEF Proceed
<1> HIDE DEF r, s
<1>7. s[Len(s)].fn = Stack[Len(Stack)].fn
  BY <1>2, <1>4
<1>8. Goes(r, s)
  BY <1>2, <1>4, <1>5, <1>6, <1>7 DEF Goes
<1>9. Floor(Stack, Run1) => Floor(s, r)
  <2>1. Run1.initial >= 2 /\ Run1.initial \in Nat
    BY <1>1, Innermost
  <2> QED BY <2>1, <1>2, <1>4, <1>5 DEF Floor
<1> QED BY <1>1, <1>8, <1>9, GoesBooks, GoesApart, InnermostFloor

LEMMA StepRunOff ==
  ASSUME Books, RunOff
  PROVE  Books' /\ (Apart => Apart')
<1>1. Active /\ Put(Stack) /\ Run1 \in Run /\ Stack \in Seq(Frame)
  BY StackStays, Innermost DEF RunOff
<1> DEFINE r == [Run1 EXCEPT !.at = "lost"]
<1>2. r \in Run /\ r.context = Run1.context /\ r.initial = Run1.initial /\ r.at = "lost"
  BY <1>1 DEF Run
<1>3. Set(r) /\ registered' = registered /\ result' = result
  BY DEF RunOff
<1> HIDE DEF r
<1>4. Goes(r, Stack)
  BY <1>1, <1>2, <1>3 DEF Goes
<1>5. Floor(Stack, Run1) => Floor(Stack, r)
  BY <1>2 DEF Floor
<1> QED BY <1>1, <1>4, <1>5, GoesBooks, GoesApart, InnermostFloor

LEMMA StepReturn ==
  ASSUME Books, Return
  PROVE  Books' /\ (Apart => Apart')
<1>1. Active /\ Run1.at = "ins"
  BY DEF Return, Executing
<1>2. /\ Run1 \in Run /\ Stack \in Seq(Frame) /\ Stack # <<>> /\ Len(Stack) \in Nat \ {0}
      /\ Run1.ins \in Nat /\ Run1.initial \in Nat /\ Run1.initial >= 2
  BY <1>1, Innermost
<1> DEFINE r == [Run1 EXCEPT !.at = "loop"]
           s == Saved(Front(Stack), Run1.ins + 1)
<1>3. /\ Front(Stack) \in Seq(Frame) /\ Len(Front(Stack)) = Len(Stack) - 1
      /\ \A i \in 1 .. Len(Stack) - 1 : Front(Stack)[i] = Stack[i]
  BY <1>2, FrontProps
<1>4. /\ s \in Seq(Frame) /\ Len(s) = Len(Stack) - 1
      /\ \A j \in 1 .. Len(Stack) - 1 : s[j].fn = Stack[j].fn
  <2>1. CASE Front(Stack) = <<>>
    <3>1. s = <<>> /\ Len(Stack) - 1 = 0
      BY <2>1, <1>2, <1>3 DEF Saved
    <3>2. <<>> \in Seq(Frame) /\ Len(<<>>) = 0 /\ 1 .. 0 = {}
      OBVIOUS
    <3> HIDE DEF s
    <3> QED BY <3>1, <3>2
  <2>2. CASE Front(Stack) # <<>>
    <3>1. /\ s \in Seq(Frame) /\ Len(s) = Len(Front(Stack))
          /\ \A j \in 1 .. Len(Front(Stack)) : s[j].fn = Front(Stack)[j].fn
      BY <2>2, <1>2, <1>3, NoteIndex
    <3> QED BY <3>1, <1>3
  <2> QED BY <2>1, <2>2
<1>5. r \in Run /\ r.context = Run1.context /\ r.initial = Run1.initial /\ r.at = "loop"
  BY <1>2 DEF Run
<1>6. Set(r) /\ Put(s) /\ registered' = registered /\ result' = result
  BY DEF Return
<1> HIDE DEF r, s
<1>7. Goes(r, s)
  BY <1>4, <1>5, <1>6 DEF Goes
<1>8. ASSUME Floor(Stack, Run1)
      PROVE  Floor(s, r)
  <2>1. /\ Len(Stack) >= Run1.initial /\ Stack[Run1.initial - 1].fn = NoFn
        /\ \A j \in Run1.initial .. Len(Stack) : Stack[j].fn \in Fns
    BY <1>8, <1>1 DEF Floor
  <2>2. Run1.initial - 1 \in 1 .. Len(Stack) - 1
    BY <2>1, <1>2
  <2>3. s[Run1.initial - 1].fn = NoFn
    BY <2>1, <2>2, <1>4
  <2>4. \A j \in Run1.initial .. Len(s) : s[j].fn \in Fns
    BY <2>1, <1>2, <1>4
  <2> QED BY <2>1, <2>3, <2>4, <1>2, <1>4, <1>5 DEF Floor
<1> QED BY <1>1, <1>7, <1>8, GoesBooks, GoesApart, InnermostFloor

LEMMA StepNativeReturn ==
  ASSUME Books, NativeReturn
  PROVE  Books' /\ (Apart => Apart')
<1>1. Active /\ Run1.at = "native"
  BY DEF NativeReturn
<1>2. /\ Run1 \in Run /\ Stack \in Seq(Frame) /\ Len(Stack) \in Nat
      /\ Run1.initial \in Nat /\ Run1.initial >= 2
  BY <1>1, Innermost
<1> DEFINE r == [Run1 EXCEPT !.at = "loop"]
           s == Front(Stack)
<1>3. s \in Seq(Frame)
  <2>1. CASE Stack = <<>>
    <3>1. s = <<>>
      BY <2>1, SubSeqEmpty DEF Front
    <3> QED BY <3>1
  <2>2. CASE Stack # <<>>
    BY <2>2, <1>2, FrontProps
  <2> QED BY <2>1, <2>2
<1>4. r \in Run /\ r.context = Run1.context /\ r.initial = Run1.initial /\ r.at = "loop"
  BY <1>2 DEF Run
<1>5. Set(r) /\ Put(s) /\ registered' = registered /\ result' = result
  BY DEF NativeReturn
<1>6. ASSUME Floor(Stack, Run1)
      PROVE  Floor(s, r)
  <2>1. /\ Len(Stack) >= Run1.initial /\ Stack[Run1.initial - 1].fn = NoFn
        /\ \A j \in Run1.initial .. Len(Stack) : Stack[j].fn \in Fns
    BY <1>6, <1>1 DEF Floor
  <2>2. Run1.initial - 1 \in 1 .. Len(Stack) - 1 /\ Stack # <<>>
    BY <2>1, <1>2
  <2>3. Len(s) = Len(Stack) - 1 /\ \A i \in 1 .. Len(Stack) - 1 : s[i] = Stack[i]
    BY <2>2, <1>2, FrontProps
  <2> HIDE DEF r, s
  <2>4. s[Run1.initial - 1].fn = NoFn
    BY <2>1, <2>2, <2>3
  <2>5. \A j \in Run1.initial .. Len(s) : s[j].fn \in Fns
    BY <2>1, <2>3, <1>2
  <2> QED BY <2>1, <2>3, <2>4, <2>5, <1>2, <1>4 DEF Floor
<1> HIDE DEF r, s
<1>7. Goes(r, s)
  BY <1>3, <1>4, <1>5 DEF Goes
<1> QED BY <1>1, <1>6, <1>7, GoesBooks, GoesApart, InnermostFloor

LEMMA StepEnd ==
  ASSUME Books, Throw \/ Killed
  PROVE  Books' /\ (Apart => Apart')
BY EndBooks, EndApart DEF Throw, Killed, Executing

\* s is the stack with a frame of the function f on top.
Pushed(s, f) ==
  /\ s \in Seq(Frame) /\ s # <<>> /\ Len(s) = Len(Stack) + 1 /\ s[Len(Stack) + 1].fn = f
  /\ \A j \in 1 .. Len(Stack) : s[j].fn = Stack[j].fn

LEMMA Pushes ==
  ASSUME Books, Active, Run1.at = "ins", NEW f \in Fns, NEW i \in Nat
  PROVE  /\ Pushed(Append(Due(Stack, i), New(f)), f)
         /\ Pushed(Saved(Append(Due(Stack, i), New(f)), i), f)
<1> DEFINE t == Append(Due(Stack, i), New(f))
<1>1. Stack \in Seq(Frame) /\ Stack # <<>> /\ Len(Stack) \in Nat
  BY Innermost
<1>2. /\ Due(Stack, i) \in Seq(Frame) /\ Len(Due(Stack, i)) = Len(Stack)
      /\ \A j \in 1 .. Len(Stack) : Due(Stack, i)[j].fn = Stack[j].fn
  BY <1>1, NoteIndex
<1>3. New(f) \in Frame /\ New(f).fn = f
  BY NewTyped
<1>4. /\ t \in Seq(Frame) /\ Len(t) = Len(Stack) + 1 /\ t[Len(Stack) + 1] = New(f) /\ t # <<>>
      /\ \A j \in 1 .. Len(Stack) : t[j] = Due(Stack, i)[j]
  <2>1. t = Append(Due(Stack, i), New(f))
    OBVIOUS
  <2> HIDE DEF t
  <2> QED BY <2>1, <1>2, <1>3, AppendProps
<1> HIDE DEF t
<1>5. Pushed(t, f)
  BY <1>1, <1>2, <1>3, <1>4 DEF Pushed
<1>6. Pushed(Saved(t, i), f)
  <2> DEFINE s == Saved(t, i)
  <2>1. /\ s \in Seq(Frame) /\ Len(s) = Len(t) /\ s # <<>>
        /\ \A j \in 1 .. Len(t) : s[j].fn = t[j].fn
    BY <1>4, NoteIndex
  <2> HIDE DEF s
  <2>2. Pushed(s, f)
    BY <2>1, <1>1, <1>4, <1>5 DEF Pushed
  <2> QED BY <2>2 DEF s
<1> QED BY <1>5, <1>6 DEF t

LEMMA StepCall ==
  ASSUME Books, NEW f \in Fns, Call(f)
  PROVE  Books' /\ (Apart => Apart')
<1> USE DispatchAssumption
<1> DEFINE next  == Run1.ins + 1
           after == Append(Due(Stack, next), New(f))
           n     == Len(Stack) + 1
<1>1. Active /\ Run1.at = "ins" /\ registered' = registered /\ result' = result
  BY DEF Call, Executing
<1>2. /\ Run1 \in Run /\ Stack \in Seq(Frame) /\ Stack # <<>> /\ Len(Stack) \in Nat
      /\ Run1.ol \in Regular /\ Run1.ol = Stack[Len(Stack)].fn
      /\ next \in Nat /\ n \in Nat /\ Run1.initial \in Nat /\ Run1.initial >= 2
  BY <1>1, Innermost
<1>3. Current.fn = Run1.ol
  BY <1>2 DEF Current, Last
<1>4. PICK s \in {after, Saved(after, next)}, r \in Run :
        /\ Set(r) /\ Put(s) /\ r.context = Run1.context /\ r.initial = Run1.initial
        /\ \/ r.at = "ins" /\ r.frame = n /\ r.ol = f /\ f \in Regular
           \/ r.at = "loop"
  <2>1. CASE f = Current.fn /\ Put(after) /\ Set([Run1 EXCEPT !.frame = n, !.ins = next])
    <3> DEFINE r == [Run1 EXCEPT !.frame = n, !.ins = next]
    <3>1. /\ r \in Run /\ r.context = Run1.context /\ r.initial = Run1.initial /\ r.at = Run1.at
          /\ r.frame = n /\ r.ol = Run1.ol
      BY <1>2 DEF Run
    <3> HIDE DEF r
    <3>2. Set(r)
      BY <2>1 DEF r
    <3> QED BY <3>1, <3>2, <2>1, <1>1, <1>2, <1>3
  <2>2. CASE /\ f \in Regular /\ Put(Saved(after, next))
             /\ Set([Run1 EXCEPT !.frame = n, !.ol = f, !.ins = next])
    <3> DEFINE r == [Run1 EXCEPT !.frame = n, !.ol = f, !.ins = next]
    <3>1. /\ r \in Run /\ r.context = Run1.context /\ r.initial = Run1.initial /\ r.at = Run1.at
          /\ r.frame = n /\ r.ol = f
      BY <1>2, <2>2 DEF Run
    <3> HIDE DEF r
    <3>2. Set(r)
      BY <2>2 DEF r
    <3> QED BY <3>1, <3>2, <2>2, <1>1
  <2>3. CASE Put(Saved(after, next)) /\ Set([Run1 EXCEPT !.at = "loop"])
    <3> DEFINE r == [Run1 EXCEPT !.at = "loop"]
    <3>1. /\ r \in Run /\ r.context = Run1.context /\ r.initial = Run1.initial /\ r.at = "loop"
      BY <1>2 DEF Run
    <3> HIDE DEF r
    <3>2. Set(r)
      BY <2>3 DEF r
    <3> QED BY <3>1, <3>2, <2>3
  <2> QED BY <2>1, <2>2, <2>3 DEF Call
<1> HIDE DEF next, after, n
<1>5. /\ s \in Seq(Frame) /\ s # <<>> /\ Len(s) = n /\ s[n].fn = f
      /\ \A j \in 1 .. Len(Stack) : s[j].fn = Stack[j].fn
      /\ n = Len(Stack) + 1
  <2>1. Pushed(after, f) /\ Pushed(Saved(after, next), f)
    BY <1>1, <1>2, Pushes DEF after
  <2>2. Pushed(s, f)
    BY <2>1, <1>4
  <2> QED BY <2>2 DEF Pushed, n
<1>6. Goes(r, s)
  BY <1>1, <1>4, <1>5 DEF Goes
<1>7. ASSUME Floor(Stack, Run1)
      PROVE  Floor(s, r)
  <2>1. /\ Len(Stack) >= Run1.initial /\ Stack[Run1.initial - 1].fn = NoFn
        /\ \A j \in Run1.initial .. Len(Stack) : Stack[j].fn \in Fns
    BY <1>7, <1>1 DEF Floor
  <2>2. Run1.initial - 1 \in 1 .. Len(Stack)
    BY <2>1, <1>2
  <2>3. s[Run1.initial - 1].fn = NoFn
    BY <2>1, <2>2, <1>5
  <2>4. ASSUME NEW j \in Run1.initial .. Len(s)
        PROVE  s[j].fn \in Fns
    <3>1. CASE j = n
      BY <3>1, <1>5
    <3>2. CASE j # n
      <4>1. j \in Run1.initial .. Len(Stack) /\ j \in 1 .. Len(Stack)
        BY <3>2, <2>4, <1>2, <1>5
      <4> QED BY <4>1, <2>1, <1>5
    <3> QED BY <3>1, <3>2
  <2> QED BY <2>1, <2>3, <2>4, <1>2, <1>4, <1>5 DEF Floor
<1> QED BY <1>1, <1>6, <1>7, GoesBooks, GoesApart, InnermostFloor

\* The top frame, and a frame of f on it.
LEMMA Entry ==
  ASSUME Books, NEW c \in Contexts, NEW f \in Fns
  PROVE  LET top  == Append(frames[c], New(NoFn))
             both == Append(top, New(f))
             n    == Len(frames[c])
         IN  /\ frames[c] \in Seq(Frame) /\ n \in Nat
             /\ top \in Seq(Frame) /\ both \in Seq(Frame) /\ Len(both) = n + 2
             /\ both[n + 1].fn = NoFn /\ both[n + 2].fn = f
<1> DEFINE top  == Append(frames[c], New(NoFn))
           both == Append(top, New(f))
           n    == Len(frames[c])
<1>1. frames[c] \in Seq(Frame) /\ n \in Nat
  BY DEF Books, TypeOK
<1>2. /\ New(NoFn) \in Frame /\ New(NoFn).fn = NoFn
      /\ New(f) \in Frame /\ New(f).fn = f
  BY NewTyped
<1>3. top \in Seq(Frame) /\ Len(top) = n + 1 /\ top[n + 1] = New(NoFn)
  BY <1>1, <1>2, AppendProps
<1>4. both = Append(top, New(f))
  OBVIOUS
<1> HIDE DEF top, both, n
<1>5. /\ both \in Seq(Frame) /\ Len(both) = n + 2 /\ both[n + 2] = New(f)
      /\ both[n + 1] = top[n + 1]
  <2>1. /\ both \in Seq(Frame) /\ Len(both) = Len(top) + 1 /\ both[Len(top) + 1] = New(f)
        /\ \A i \in 1 .. Len(top) : both[i] = top[i]
    BY <1>2, <1>3, <1>4, AppendProps
  <2>2. n + 1 \in 1 .. Len(top) /\ Len(top) + 1 = n + 2
    BY <1>1, <1>3
  <2> QED BY <2>1, <2>2
<1> QED BY <1>1, <1>2, <1>3, <1>5 DEF top, both, n

\* No activation executes instructions while a function is entered.
LEMMA AllNative ==
  ASSUME Books, Active => Run1.at = "native", NEW i \in 1 .. Len(runs)
  PROVE  runs[i] \in Run /\ runs[i].at = "native" /\ runs[i].initial >= 2
<1>1. runs \in Seq(Run) /\ Len(runs) \in Nat /\ RunOK(frames, runs, i)
  BY DEF Books, TypeOK
<1>2. CASE i = Len(runs)
  BY <1>1, <1>2 DEF RunOK, Active, Run1, Last
<1>3. CASE i # Len(runs)
  BY <1>1, <1>3 DEF RunOK
<1> QED BY <1>1, <1>2, <1>3 DEF RunOK

\* The frames of another context, or of one whose activation is suspended.
LEMMA EntryFails ==
  ASSUME Books, Active => Run1.at = "native", NEW c \in Contexts, NEW s \in Seq(Frame),
         frames' = [frames EXCEPT ![c] = s], UNCHANGED <<runs, registered, result>>
  PROVE  /\ Books'
         /\ Apart /\ (\A i \in DOMAIN runs : runs[i].context # c) => Apart'
<1>1. runs \in Seq(Run) /\ Len(runs) \in Nat /\ DOMAIN runs = 1 .. Len(runs)
  BY DEF Books, TypeOK
<1>2. TypeOK' /\ registered' \in 0 .. Len(runs')
  BY DEF Books, TypeOK
<1>3. \A i \in 1 .. Len(runs') : RunOK(frames', runs', i)
  BY AllNative DEF RunOK
<1>4. ASSUME Apart, \A i \in DOMAIN runs : runs[i].context # c
      PROVE  Apart'
  <2>1. ASSUME NEW i \in 1 .. Len(runs)
        PROVE  frames'[runs[i].context] = frames[runs[i].context]
    <3>1. runs[i].context \in Contexts
      BY AllNative DEF Run
    <3> QED BY <3>1, <1>1, <1>4 DEF Books, TypeOK
  <2> QED BY <2>1, <1>4 DEF Apart
<1> QED BY <1>2, <1>3, <1>4 DEF Books

LEMMA StepExecFn ==
  ASSUME Books, NEW c \in Contexts, NEW f \in Fns, ExecFn(c, f)
  PROVE  Books' /\ (Apart /\ OwnContexts => Apart')
<1> USE DispatchAssumption
<1> DEFINE top  == Append(frames[c], New(NoFn))
           both == Append(top, New(f))
           n    == Len(frames[c])
           m    == Len(runs)
           e    == [context |-> c, at |-> "loop", initial |-> Len(both),
                    ol |-> NoFn, ins |-> 0, frame |-> 0]
<1>1. /\ Active => Run1.at = "native"
      /\ OwnContexts => \A i \in DOMAIN runs : runs[i].context # c
  BY DEF ExecFn
<1>2. /\ frames[c] \in Seq(Frame) /\ n \in Nat
      /\ top \in Seq(Frame) /\ both \in Seq(Frame) /\ Len(both) = n + 2
      /\ both[n + 1].fn = NoFn /\ both[n + 2].fn = f
  BY Entry
<1>3. CASE /\ frames' = [frames EXCEPT ![c] = top]
           /\ UNCHANGED <<runs, registered, result>>
  <2> HIDE DEF top
  <2> QED BY <1>1, <1>2, <1>3, EntryFails
<1>4. CASE /\ frames' = [frames EXCEPT ![c] = both]
           /\ UNCHANGED <<runs, registered, result>>
  <2> HIDE DEF both
  <2> QED BY <1>1, <1>2, <1>4, EntryFails
<1>5. CASE /\ frames' = [frames EXCEPT ![c] = both]
           /\ runs' = Append(runs, e)
           /\ registered' \in {m + 1} \cup ({registered} \ {0})
           /\ UNCHANGED result
  <2>1. /\ e \in Run /\ e.context = c /\ e.at = "loop" /\ e.initial = n + 2
    BY <1>2 DEF Run
  <2>2. runs \in Seq(Run) /\ m \in Nat /\ DOMAIN runs = 1 .. m
    BY DEF Books, TypeOK
  <2> HIDE DEF both, e
  <2>3. /\ runs' \in Seq(Run) /\ Len(runs') = m + 1 /\ runs'[m + 1] = e
        /\ \A i \in 1 .. m : runs'[i] = runs[i]
    BY <1>5, <2>1, <2>2, AppendProps
  <2>4. frames' \in [Contexts -> Seq(Frame)] /\ frames'[c] = both
    BY <1>2, <1>5 DEF Books, TypeOK
  <2>5. registered' \in 0 .. m + 1 /\ result' = result
    BY <1>5, <2>2 DEF Books
  <2>6. ASSUME NEW i \in 1 .. m + 1
        PROVE  i = m + 1 \/ i \in 1 .. m
    BY <2>2
  <2>7. ASSUME NEW i \in 1 .. m + 1
        PROVE  RunOK(frames', runs', i)
    <3>1. CASE i = m + 1
      BY <3>1, <2>1, <2>2, <2>3, <1>2 DEF RunOK
    <3>2. CASE i \in 1 .. m
      <4>1. runs'[i].at = "native" /\ runs'[i].initial >= 2
        BY <3>2, <1>1, <2>3, AllNative
      <4> QED BY <4>1 DEF RunOK
    <3> QED BY <3>1, <3>2, <2>6
  <2>8. Books'
    BY <2>3, <2>4, <2>5, <2>7 DEF Books, TypeOK
  <2>9. ASSUME Apart, OwnContexts
        PROVE  Apart'
    <3>1. ASSUME NEW i \in 1 .. m
          PROVE  /\ runs[i].context # c
                 /\ frames'[runs[i].context] = frames[runs[i].context]
      <4>1. runs[i].context \in Contexts
        BY <1>1, AllNative DEF Run
      <4> QED BY <4>1, <1>1, <1>5, <2>2, <2>9 DEF Books, TypeOK
    <3>2. ASSUME NEW i \in 1 .. m + 1, NEW j \in 1 .. m + 1,
                 runs'[i].context = runs'[j].context
          PROVE  i = j
      <4>1. CASE i \in 1 .. m /\ j \in 1 .. m
        BY <4>1, <3>2, <2>3, <2>9 DEF Apart
      <4>2. CASE i = m + 1 \/ j = m + 1
        BY <4>2, <3>1, <3>2, <2>1, <2>3, <2>6
      <4> QED BY <4>1, <4>2, <2>6
    <3>3. ASSUME NEW i \in 1 .. m + 1
          PROVE  Floor(frames'[runs'[i].context], runs'[i])
      <4>1. CASE i = m + 1
        BY <4>1, <1>2, <2>1, <2>3, <2>4 DEF Floor
      <4>2. CASE i \in 1 .. m
        BY <4>2, <3>1, <2>3, <2>9 DEF Apart
      <4> QED BY <4>1, <4>2, <2>6
    <3> QED BY <2>3, <3>2, <3>3 DEF Apart
  <2> QED BY <2>8, <2>9
<1> QED BY <1>3, <1>4, <1>5 DEF ExecFn

-----------------------------------------------------------------------------
(* The theorems.                                                           *)

LEMMA BooksInit ==
  ASSUME Init
  PROVE  Books /\ Apart
<1>1. Len(runs) = 0 /\ 1 .. 0 = {} /\ runs \in Seq(Run) /\ Len(<<>>) = 0
  BY DEF Init
<1>2. frames \in [Contexts -> Seq(Frame)]
  BY DEF Init
<1> QED BY <1>1, <1>2 DEF Init, Books, Apart, TypeOK

LEMMA BooksStep ==
  ASSUME Books, [Next]_vars
  PROVE  Books' /\ (Apart /\ OwnContexts => Apart')
<1>1. ASSUME NEW c \in Contexts, NEW f \in Fns, ExecFn(c, f)
      PROVE  Books' /\ (Apart /\ OwnContexts => Apart')
  BY <1>1, StepExecFn
<1>2. ASSUME NEW f \in Fns, Call(f)
      PROVE  Books' /\ (Apart /\ OwnContexts => Apart')
  BY <1>2, StepCall
<1>3. CASE Loop
  BY <1>3, StepLoop
<1>4. CASE Proceed
  BY <1>4, StepProceed
<1>5. CASE RunOff
  BY <1>5, StepRunOff
<1>6. CASE Return
  BY <1>6, StepReturn
<1>7. CASE Throw \/ Killed
  BY <1>7, StepEnd
<1>8. CASE NativeReturn
  BY <1>8, StepNativeReturn
<1>9. CASE UNCHANGED vars
  BY <1>9 DEF vars, Books, TypeOK, RunOK, Apart, Floor
<1> QED BY <1>1, <1>2, <1>3, <1>4, <1>5, <1>6, <1>7, <1>8, <1>9 DEF Next

(***************************************************************************)
(* The invariant of the loop: exec_context() and exec_fn() keep their      *)
(* books whatever the functions do and whatever contexts they use.         *)
(***************************************************************************)
THEOREM BooksKept == Spec => []Books
<1>1. Init => Books
  BY BooksInit
<1>2. Books /\ [Next]_vars => Books'
  BY BooksStep
<1> QED BY <1>1, <1>2, PTL DEF Spec

(***************************************************************************)
(* Every variable has its type.                                            *)
(***************************************************************************)
THEOREM DispatchTyped == Spec => []TypeOK
<1>1. Books => TypeOK
  BY DEF Books
<1> QED BY <1>1, BooksKept, PTL

(***************************************************************************)
(* The locals that exec_context() keeps over its instructions belong to    *)
(* the current frame whenever an instruction is executed.                  *)
(***************************************************************************)
THEOREM LocalsAreCurrent == Spec => []RightFunction
<1>1. Books => RightFunction
  BY Innermost DEF RightFunction, Current, Last
<1> QED BY <1>1, BooksKept, PTL

(***************************************************************************)
(* managed_thread_runnables never points to a runnable whose exec_fn() has *)
(* returned.                                                               *)
(***************************************************************************)
THEOREM NoStaleRunnable == Spec => []RunnableInScope
<1>1. Books => RunnableInScope
  <2> SUFFICES ASSUME Books, registered # 0
               PROVE  registered \in DOMAIN runs
    BY DEF RunnableInScope
  <2> QED BY DEF Books, TypeOK
<1> QED BY <1>1, BooksKept, PTL

\* What a step that ends an activation as done leaves behind.
LEMMA DoneStep ==
  ASSUME Books, Apart, [Next]_vars, NEW i \in DOMAIN runs, i \notin DOMAIN runs', result' = "done"
  PROVE  /\ Len(frames'[runs[i].context]) = runs[i].initial - 1
         /\ Last(frames'[runs[i].context]).fn = NoFn
<1> USE DispatchAssumption
<1>1. runs \in Seq(Run) /\ Len(runs) \in Nat \ {0} /\ DOMAIN runs = 1 .. Len(runs) /\ Active
  BY DEF Books, TypeOK, Active
<1>2. ASSUME NEW r, Set(r)
      PROVE  FALSE
  BY <1>1, <1>2 DEF Set
<1>3. ASSUME NEW c \in Contexts, NEW f \in Fns, ExecFn(c, f)
      PROVE  FALSE
  <2>1. runs' # runs
    OBVIOUS
  <2>2. PICK e \in Run : runs' = Append(runs, e)
    <3>1. Len(Append(Append(frames[c], New(NoFn)), New(f))) \in Nat
      BY Entry
    <3> QED BY <1>3, <2>1, <3>1 DEF ExecFn, Run
  <2> QED BY <2>2, <1>1, AppendProps
<1>4. Loop /\ End("done")
  <2>1. Loop
    BY <1>2, <1>3 DEF Next, Call, Proceed, RunOff, Return, NativeReturn, Throw, Killed, End, vars
  <2> QED BY <2>1, <1>2 DEF Loop
<1> DEFINE n == Len(Stack)
<1>5. /\ Run1 = runs[Len(runs)] /\ Run1.initial \in Nat /\ Run1.initial >= 2 /\ n \in Nat
      /\ Stack \in Seq(Frame) /\ Floor(Stack, Run1) /\ runs # <<>>
  BY <1>1, Innermost, InnermostFloor
<1>6. i = Len(runs)
  <2>1. Len(runs') = Len(runs) - 1 /\ DOMAIN runs' = 1 .. Len(runs) - 1
    <3>1. Front(runs) \in Seq(Run) /\ Len(Front(runs)) = Len(runs) - 1
      BY <1>1, <1>5, FrontProps
    <3>2. runs' = Front(runs)
      BY <1>4 DEF End
    <3>3. DOMAIN runs' = 1 .. Len(runs')
      BY <3>1, <3>2
    <3> QED BY <3>1, <3>2, <3>3
  <2> QED BY <2>1, <1>1
<1>7. n = Run1.initial - 1
  <2>1. n < Run1.initial \/ (n >= Run1.initial /\ Current.fn = NoFn)
    BY <1>2, <1>4, <1>5 DEF Loop
  <2>2. ASSUME n >= Run1.initial, Current.fn = NoFn
        PROVE  FALSE
    <3>1. Stack[n].fn \in Fns
      BY <2>2, <1>5 DEF Floor
    <3> QED BY <3>1, <2>2 DEF Current, Last
  <2> QED BY <2>1, <2>2, <1>5 DEF Floor
<1>8. Stack[n].fn = NoFn
  BY <1>5, <1>7 DEF Floor
<1>9. frames'[runs[i].context] = Stack /\ runs[i] = Run1
  BY <1>4, <1>5, <1>6 DEF Loop, Stack
<1> QED BY <1>7, <1>8, <1>9 DEF Last

(***************************************************************************)
(* If native functions keep away from contexts in use, a call that is done *)
(* has left the context as it found it, with the top frame on it.          *)
(***************************************************************************)
THEOREM CallsReturn ==
  ASSUME OwnContexts
  PROVE  Spec => DoneMeansReturned
<1>1. Init => Books /\ Apart
  BY BooksInit
<1>2. Books /\ Apart /\ [Next]_vars => Books' /\ Apart'
  BY BooksStep
<1>3. Books /\ Apart /\ [Next]_vars
        => [\A i \in DOMAIN runs :
              i \notin DOMAIN runs' /\ result' = "done"
                => /\ Len(frames'[runs[i].context]) = runs[i].initial - 1
                   /\ Last(frames'[runs[i].context]).fn = NoFn]_vars
  BY DoneStep
<1> QED BY <1>1, <1>2, <1>3, PTL DEF Spec, DoneMeansReturned
=============================================================================
