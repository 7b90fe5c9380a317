--------------------------- MODULE Optimizer_proofs ---------------------------
(***************************************************************************)
(* Proofs about the optimizer: the pass that analyses a function           *)
(* (ProgAnal) marks the boundaries that the division into blocks uses,     *)
(* hands each argument to its call and describes each register as the      *)
(* program uses it; the division (Cfg) keeps what the function means.      *)
(***************************************************************************)
EXTENDS ProgAnal, Induction, FiniteSetTheorems, SequenceTheorems, TLAPS

-----------------------------------------------------------------------------
(* The program, the switch and the boundaries it marks.                    *)

\* The operands and the instructions that the menus allow.
Operands == (UNION {m.operands : m \in Menus}) \cup {Register(r) : r \in Nat}
Ins      == {ins \in [op : UNION {m.ops : m \in Menus}, out : Nat, args : Seq(Operands)] :
               ins.args = <<>> \/ Len(ins.args) = Arity(ins.op)}

\* Every instruction a program may be given is one of Ins.
LEMMA InstructionsAre ==
  ASSUME menu \in Menus, Index \in Nat, NEW ins \in Instructions
  PROVE  ins \in Ins
<1>1. PICK op \in menu.ops :
        ins \in [op: {op}, out: {NoReg, 1, Index + 1},
                 args: [1..Arity(op) -> menu.operands \cup {Register(r) : r \in 1..(Index + 1)}] \cup {<<>>}]
  BY DEF Instructions
<1>2. ins.op = op /\ ins.out \in Nat
  BY <1>1 DEF NoReg
<1>3. menu.operands \cup {Register(r) : r \in 1..(Index + 1)} \subseteq Operands
  BY DEF Operands
<1>4. Arity(op) \in Nat
  BY DEF Arity
<1>5. ins.args \in Seq(Operands) /\ (ins.args = <<>> \/ Len(ins.args) = Arity(op))
  <2>1. CASE ins.args = <<>>
    BY <2>1
  <2>2. CASE ins.args \in [1 .. Arity(op) -> menu.operands \cup {Register(r) : r \in 1..(Index + 1)}]
    <3>1. ins.args \in [1 .. Arity(op) -> Operands]
      BY <1>3, <2>2
    <3>2. ins.args \in Seq(Operands) /\ DOMAIN ins.args = 1 .. Arity(op)
      BY <1>4, <3>1, SeqDef
    <3> QED BY <1>4, <3>2
  <2> QED BY <1>1, <2>1, <2>2
<1>6. ins = [op |-> ins.op, out |-> ins.out, args |-> ins.args]
  BY <1>1
<1> QED BY <1>1, <1>2, <1>5, <1>6 DEF Ins

MarkOps == {"JMP", "RET", "YIELD"}
CallOps == {"CALL", "MCALL", "CTORCALL"}
Ends == {"malformed", "unresolved", "terminated", "asserted", "error"}

\* The analysis of an instruction goes on or ends in one of the ways Ends names.
LEMMA AnalysisEnds ==
  ASSUME NEW ins, outcome = "running", Analyze(ins) \/ Refuse("malformed")
  PROVE  outcome' \in Ends \cup {"running"}
<1> USE DEF Refuse, Continue, Checked, Ends
<1>1. LOAD(ins) => outcome' \in Ends \cup {"running"}
  BY DEF LOAD
<1>2. RLOAD(ins) => outcome' \in Ends \cup {"running"}
  BY DEF RLOAD
<1>3. COPY(ins) => outcome' \in Ends \cup {"running"}
  BY DEF COPY
<1>4. LARG(ins) \/ LVAR(ins) \/ LVALUE(ins) => outcome' \in Ends \cup {"running"}
  BY DEF LARG, LVAR, LVALUE
<1>5. BinaryIns(ins) \/ UnaryIns(ins) \/ AT(ins) => outcome' \in Ends \cup {"running"}
  BY DEF BinaryIns, UnaryIns, AT
<1>6. JMP(ins) \/ PUSHARG(ins) \/ CallIns(ins) \/ RET(ins) \/ YIELD(ins) => outcome' \in Ends \cup {"running"}
  BY DEF JMP, PUSHARG, CallIns, RET, YIELD
<1>7. LTHIS(ins) \/ NEWINS(ins) \/ ARRNEW(ins) \/ CAST(ins) \/ Ignored(ins) \/ WithoutResult(ins) => outcome' \in Ends \cup {"running"}
  BY DEF LTHIS, NEWINS, ARRNEW, CAST, Ignored, WithoutResult
<1> QED BY <1>1, <1>2, <1>3, <1>4, <1>5, <1>6, <1>7, Zenon DEF Analyze

\* Only jumps, returns and yields mark boundaries, and a branch is never analysed to
\* the end: the switch refuses it.
LEMMA OthersMarkNothing ==
  ASSUME NEW ins, Analyze(ins), ins.op \notin MarkOps
  PROVE  UNCHANGED marks /\ (outcome = "running" /\ outcome' = "running" => ins.op # "BR")
<1> USE DEF Refuse, Continue, Checked
<1>1. LOAD(ins) \/ RLOAD(ins) \/ COPY(ins) => UNCHANGED marks
  BY DEF LOAD, RLOAD, COPY
<1>2. LARG(ins) \/ LVAR(ins) \/ LVALUE(ins) => UNCHANGED marks
  BY DEF LARG, LVAR, LVALUE
<1>3. BinaryIns(ins) \/ UnaryIns(ins) \/ AT(ins) => UNCHANGED marks
  BY DEF BinaryIns, UnaryIns, AT
<1>4. PUSHARG(ins) \/ CallIns(ins) => UNCHANGED marks
  BY DEF PUSHARG, CallIns
<1>5. LTHIS(ins) \/ NEWINS(ins) \/ ARRNEW(ins) \/ CAST(ins) \/ Ignored(ins) \/ WithoutResult(ins)
      => UNCHANGED marks
  BY DEF LTHIS, NEWINS, ARRNEW, CAST, Ignored, WithoutResult
<1>6. UNCHANGED marks
  BY <1>1, <1>2, <1>3, <1>4, <1>5, Zenon DEF Analyze, MarkOps
<1>7. ins.op = "BR" => Refuse("malformed")
  BY DEF Analyze, BinaryOps, UnaryOps
<1> QED BY <1>6, <1>7

\* What a jump, a return or a yield marks.
LEMMA MarkersMark ==
  ASSUME NEW ins, Analyze(ins), ins.op \in MarkOps, outcome' = "running", outcome = "running"
  PROVE  /\ ins.op = "JMP" => /\ marks' = marks \cup {Index + 1, ins.args[1].n}
                              /\ info' = Extended(ins)
         /\ ins.op \in {"RET", "YIELD"} => marks' = marks \cup {Index + 1}
<1>1. ins.op = "JMP" => JMP(ins)
  BY DEF Analyze, BinaryOps, UnaryOps
<1>2. ins.op = "RET" => RET(ins)
  BY DEF Analyze, BinaryOps, UnaryOps
<1>3. ins.op = "YIELD" => YIELD(ins)
  BY DEF Analyze, BinaryOps, UnaryOps
<1> QED BY <1>1, <1>2, <1>3 DEF JMP, RET, YIELD, Refuse, MarkOps

\* Only pushes and calls change the pending arguments and the calls.
LEMMA OthersPushNothing ==
  ASSUME NEW ins, Analyze(ins), ins.op \notin CallOps \cup {"PUSHARG"}
  PROVE  UNCHANGED <<pushed, calls, fn_calls>>
<1> USE DEF Refuse, Continue, Checked
<1>1. LOAD(ins) \/ RLOAD(ins) \/ COPY(ins) => UNCHANGED <<pushed, calls, fn_calls>>
  BY DEF LOAD, RLOAD, COPY
<1>2. LARG(ins) \/ LVAR(ins) \/ LVALUE(ins) => UNCHANGED <<pushed, calls, fn_calls>>
  BY DEF LARG, LVAR, LVALUE
<1>3. BinaryIns(ins) \/ UnaryIns(ins) \/ AT(ins) => UNCHANGED <<pushed, calls, fn_calls>>
  BY DEF BinaryIns, UnaryIns, AT
<1>4. JMP(ins) \/ RET(ins) \/ YIELD(ins) => UNCHANGED <<pushed, calls, fn_calls>>
  BY DEF JMP, RET, YIELD
<1>5. LTHIS(ins) \/ NEWINS(ins) \/ ARRNEW(ins) \/ CAST(ins) \/ Ignored(ins) \/ WithoutResult(ins)
      => UNCHANGED <<pushed, calls, fn_calls>>
  BY DEF LTHIS, NEWINS, ARRNEW, CAST, Ignored, WithoutResult
<1> QED BY <1>1, <1>2, <1>3, <1>4, <1>5, Zenon DEF Analyze, CallOps

ProgTyped ==
  /\ menu \in Menus
  /\ program \in Seq(Ins)
  /\ outcome \in Ends \cup {"running", "done", "oom"}

\* A step of the analysis that does not refuse: its instruction is the next of the program.
Step(ins) ==
  /\ outcome = "running" /\ outcome' = "running" /\ ins \in Ins
  /\ Admitted(ins) /\ Analyze(ins)
  /\ program' = Append(program, ins) /\ menu' = menu

\* Any other step leaves what has been found or ends the analysis.
Pause ==
  /\ UNCHANGED <<menu, program>>
  /\ \/ outcome' \notin {"running", "done"}
     \/ /\ UNCHANGED <<info, pushed, calls, fn_calls, marks>>
        /\ outcome' = outcome \/ (outcome' = "done" /\ pushed = <<>>)
  /\ outcome' = "running" => outcome = "running"
  /\ outcome' \in {"running", "done"} => outcome \in {"running", "done"}
  /\ outcome' \in Ends \cup {"running", "done", "oom"}

\* A step of the analyser accepts the next instruction or is a Pause.
LEMMA ProgCases ==
  ASSUME ProgTyped, [ProgNext]_anal
  PROVE  (\E ins \in Ins : Step(ins)) \/ Pause
<1>1. Index \in Nat
  BY DEF ProgTyped, Index
<1>2. ASSUME NEW ins \in Instructions, AnalyzeNext(ins) PROVE Step(ins) \/ Pause
  <2>1. ins \in Ins
    BY <1>1, InstructionsAre DEF ProgTyped
  <2>2. outcome' \in Ends \cup {"running"} /\ outcome = "running" /\ menu' = menu
    BY <1>2, AnalysisEnds DEF AnalyzeNext
  <2>3. CASE outcome' = "running"
    <3>1. Admitted(ins)
      BY <1>2, <2>3 DEF AnalyzeNext, Refuse
    <3> QED BY <1>2, <2>1, <2>2, <2>3, <3>1 DEF AnalyzeNext, Step
  <2>4. CASE outcome' # "running"
    <3>1. program' = program
      BY <1>2, <2>4 DEF AnalyzeNext
    <3> QED BY <2>2, <2>4, <3>1 DEF Pause, Ends
  <2> QED BY <2>3, <2>4
<1>3. OutOfMemory => Pause
  BY DEF OutOfMemory, Pause
<1>4. EndOfProgram => Pause
  BY DEF EndOfProgram, Pause, Ends
<1>5. UNCHANGED anal => Pause
  <2> SUFFICES ASSUME UNCHANGED anal PROVE Pause
    OBVIOUS
  <2>1. UNCHANGED <<menu, program, info, pushed, calls, fn_calls, marks, outcome>>
    BY DEF anal
  <2>2. outcome \in Ends \cup {"running", "done", "oom"}
    BY DEF ProgTyped
  <2> QED BY <2>1, <2>2 DEF Pause
<1>6. ASSUME NEW ins \in Instructions, AnalyzeNext(ins) PROVE (\E x \in Ins : Step(x)) \/ Pause
  <2>1. Step(ins) => ins \in Ins
    BY DEF Step
  <2> QED BY <1>2, <1>6, <2>1, Zenon
<1> QED BY <1>3, <1>4, <1>5, <1>6, Zenon DEF ProgNext

\* Steps keep the types of the menu, the program and the outcome.
LEMMA TypedNext ==
  ASSUME ProgTyped, [ProgNext]_anal
  PROVE  ProgTyped'
<1>1. ASSUME NEW ins \in Ins, Step(ins) PROVE ProgTyped'
  BY <1>1 DEF Step, ProgTyped
<1>2. Pause => ProgTyped'
  BY DEF Pause, ProgTyped
<1> QED BY <1>1, <1>2, ProgCases, Zenon

\* What has been marked: behind jumps, returns and yields, and the targets of jumps.
MarksAre ==
  Accepted =>
    /\ \A i \in 1 .. Len(program) :
         /\ program[i].op # "BR"
         /\ program[i].op \in MarkOps => i \in marks
         /\ program[i].op = "JMP" => program[i].args[1].n \in marks
    /\ \A b \in marks : \E i \in 1 .. Len(program) :
         \/ b = i /\ program[i].op \in MarkOps
         \/ b = program[i].args[1].n /\ program[i].op = "JMP"

\* Steps keep MarksAre.
LEMMA MarksNext ==
  ASSUME ProgTyped, MarksAre, [ProgNext]_anal
  PROVE  MarksAre'
<1>1. ASSUME NEW ins \in Ins, Step(ins) PROVE MarksAre'
  <2> DEFINE n == Len(program)
             p == program'
  <2>1. /\ program \in Seq(Ins) /\ n \in Nat /\ Len(p) = n + 1 /\ p[n + 1] = ins
        /\ \A i \in 1 .. n : p[i] = program[i]
    BY <1>1 DEF Step, ProgTyped
  <2>2. Accepted /\ Accepted' /\ Analyze(ins) /\ outcome = "running" /\ outcome' = "running" /\ Index = n
    BY <1>1 DEF Step, Accepted, Index
  <2>3. ins.op # "BR"
    <3>1. ins.op \in MarkOps => ins.op # "BR"
      BY DEF MarkOps
    <3> QED BY <2>2, <3>1, OthersMarkNothing
  <2>4. marks' = marks \cup (IF ins.op = "JMP" THEN {n + 1, ins.args[1].n}
                             ELSE IF ins.op \in MarkOps THEN {n + 1} ELSE {})
    <3>1. CASE ins.op \in MarkOps
      BY <2>2, <3>1, MarkersMark DEF MarkOps
    <3>2. CASE ins.op \notin MarkOps
      BY <2>2, <3>2, OthersMarkNothing DEF MarkOps
    <3> QED BY <3>1, <3>2
  <2> HIDE DEF p
  <2>5. ASSUME NEW i \in 1 .. (n + 1)
        PROVE  /\ p[i].op # "BR"
               /\ p[i].op \in MarkOps => i \in marks'
               /\ p[i].op = "JMP" => p[i].args[1].n \in marks'
    <3>1. CASE i = n + 1
      BY <2>1, <2>3, <2>4, <3>1 DEF MarkOps
    <3>2. CASE i # n + 1
      <4>1. i \in 1 .. n /\ p[i] = program[i]
        BY <2>1, <3>2
      <4> QED BY <2>2, <2>4, <4>1 DEF MarksAre
    <3> QED BY <3>1, <3>2
  <2>6. ASSUME NEW b \in marks'
        PROVE  \E i \in 1 .. (n + 1) :
                 \/ b = i /\ p[i].op \in MarkOps
                 \/ b = p[i].args[1].n /\ p[i].op = "JMP"
    <3>1. CASE b \in marks
      <4>1. PICK i \in 1 .. n : \/ b = i /\ program[i].op \in MarkOps
                                \/ b = program[i].args[1].n /\ program[i].op = "JMP"
        BY <2>2, <3>1 DEF MarksAre
      <4>2. i \in 1 .. (n + 1) /\ p[i] = program[i]
        BY <2>1
      <4> QED BY <4>1, <4>2
    <3>2. CASE b \notin marks
      <4>1. n + 1 \in 1 .. (n + 1)
        BY <2>1
      <4>2. \/ b = n + 1 /\ ins.op \in MarkOps
            \/ b = ins.args[1].n /\ ins.op = "JMP"
        BY <2>4, <3>2 DEF MarkOps
      <4> QED BY <2>1, <4>1, <4>2
    <3> QED BY <3>1, <3>2
  <2> QED BY <2>1, <2>5, <2>6 DEF MarksAre, p
<1>2. CASE Pause
  BY <1>2 DEF Pause, MarksAre, Accepted
<1> QED BY <1>1, <1>2, ProgCases, Zenon

\* The boundaries that the analysis pass marks are those at which it finds a jump, a
\* return, a yield or a target, for every program and every table of entities
\* (analyze_program_info in opti/proganal.cc).
THEOREM SameBoundaries == ProgSpec => []BoundariesAgree
<1>1. ProgInit => ProgTyped /\ MarksAre
  BY DEF ProgInit, ProgTyped, MarksAre
<1>2. ProgTyped /\ MarksAre => BoundariesAgree
  <2> SUFFICES ASSUME ProgTyped, MarksAre, outcome = "done" PROVE BoundariesAgree
    BY DEF BoundariesAgree
  <2> DEFINE n == Len(program)
             B(i) == CASE program[i].op \in {"JMP", "BR"} -> {i} \cup ToSet(Targets(program[i]))
                       [] program[i].op = "RET"           -> IF i < n THEN {i} ELSE {}
                       [] OTHER                     -> {}
  <2>1. n \in Nat /\ DOMAIN program = 1 .. n
    BY DEF ProgTyped
  <2>2. Accepted
    BY DEF Accepted
  <2>3. Boundaries(program) = UNION {B(i) : i \in 1 .. n}
    BY <2>1 DEF Boundaries
  <2>4. ASSUME NEW i \in 1 .. n
        PROVE  /\ program[i].op = "JMP" => B(i) = {i, program[i].args[1].n}
               /\ program[i].op = "RET" => B(i) = IF i < n THEN {i} ELSE {}
               /\ program[i].op \notin {"JMP", "RET"} => B(i) = {}
    <3>1. program[i].op # "BR"
      BY <2>2 DEF MarksAre
    <3>2. program[i].op = "JMP" => Targets(program[i]) = <<program[i].args[1].n>>
      BY DEF Targets
    <3>3. \A x : ToSet(<<x>>) = {x}
      BY DEF ToSet
    <3>4. program[i].op = "JMP" => B(i) = {i} \cup ToSet(Targets(program[i]))
      BY Zenon
    <3>5. program[i].op = "JMP" => B(i) = {i, program[i].args[1].n}
      <4> HIDE DEF B
      <4> QED BY <3>2, <3>3, <3>4
    <3> QED BY <3>1, <3>5
  <2> HIDE DEF B
  <2>5. Boundaries(program) \subseteq marks
    BY <2>2, <2>3, <2>4 DEF MarksAre, MarkOps
  <2>6. ASSUME NEW b \in marks \ Boundaries(program)
        PROVE  b > 0 /\ (At(b - 1).op = "YIELD" \/ (b = n /\ At(b - 1).op = "RET"))
    <3>1. PICK i \in 1 .. n : \/ b = i /\ program[i].op \in MarkOps
                              \/ b = program[i].args[1].n /\ program[i].op = "JMP"
      BY <2>2 DEF MarksAre
    <3>2. ~ (b \in B(i))
      BY <2>3
    <3>3. b = i /\ program[i].op \in {"RET", "YIELD"} /\ (program[i].op = "RET" => i = n)
      BY <2>1, <2>4, <3>1, <3>2 DEF MarkOps
    <3>4. b - 1 + 1 = b /\ b > 0
      BY <3>3, <2>1
    <3> QED BY <3>3, <3>4 DEF At
  <2> QED BY <2>5, <2>6 DEF BoundariesAgree
<1> QED BY <1>1, <1>2, TypedNext, MarksNext, PTL DEF ProgSpec

-----------------------------------------------------------------------------
(* Arguments and calls.                                                    *)

\* The places of pushes and of calls in a program, and the first call after a push.
PushesOf(p) == {i \in 0 .. Len(p) - 1 : p[i + 1].op = "PUSHARG"}
CallsOf(p) == {c \in 0 .. Len(p) - 1 : p[c + 1].op \in CallOps}
TakenBy(p, i, c) == i < c /\ \A d \in i .. (c - 1) : p[d + 1].op \notin CallOps
Ascending(s) == \A j, k \in DOMAIN s : j < k => s[j] < s[k]

\* A call takes all the pending pushes and leaves none.
LEMMA CallTakes ==
  ASSUME NEW ins, Analyze(ins), ins.op \in CallOps, outcome = "running", outcome' = "running"
  PROVE  /\ calls' = With(calls, Index, pushed) /\ pushed' = <<>>
         /\ \/ fn_calls' = fn_calls
            \/ \E f : fn_calls' = With(fn_calls, f, Append(IF f \in DOMAIN fn_calls THEN fn_calls[f] ELSE <<>>, Index))
<1>1. CallIns(ins)
  BY DEF Analyze, BinaryOps, UnaryOps, CallOps
<1>2. PICK t : /\ calls' = With(calls, Index, pushed) /\ pushed' = <<>>
               /\ fn_calls' = IF Extended(ins)[ins.args[1].reg].expected.kind = "undefined" THEN fn_calls
                              ELSE LET f == Extended(ins)[ins.args[1].reg].expected.entity
                                       before == IF f \in DOMAIN fn_calls THEN fn_calls[f] ELSE <<>>
                                   IN With(fn_calls, f, Append(before, Index))
  BY <1>1 DEF CallIns, Refuse
<1>3. CASE Extended(ins)[ins.args[1].reg].expected.kind = "undefined"
  BY <1>2, <1>3
<1>4. CASE Extended(ins)[ins.args[1].reg].expected.kind # "undefined"
  BY <1>2, <1>4, Zenon
<1> QED BY <1>3, <1>4

\* A push becomes the last of the pending ones.
LEMMA PushPushes ==
  ASSUME NEW ins, Analyze(ins), ins.op = "PUSHARG", outcome = "running", outcome' = "running"
  PROVE  pushed' = Append(pushed, Index) /\ UNCHANGED <<calls, fn_calls>>
<1>1. PUSHARG(ins)
  BY DEF Analyze, BinaryOps, UnaryOps
<1> QED BY <1>1 DEF PUSHARG, Refuse

\* What appending an instruction does to the places of pushes and calls.
LEMMA PlacesOf ==
  ASSUME NEW p \in Seq(Ins), NEW ins \in Ins, NEW q, q = Append(p, ins), NEW n, n = Len(p)
  PROVE  /\ n \in Nat /\ Len(q) = n + 1 /\ q[n + 1] = ins /\ n \notin CallsOf(p) /\ n \notin PushesOf(p)
         /\ PushesOf(p) \subseteq 0 .. (n - 1) /\ CallsOf(p) \subseteq 0 .. (n - 1)
         /\ PushesOf(q) = PushesOf(p) \cup (IF ins.op = "PUSHARG" THEN {n} ELSE {})
         /\ CallsOf(q) = CallsOf(p) \cup (IF ins.op \in CallOps THEN {n} ELSE {})
         /\ \A i, c \in 0 .. n : TakenBy(q, i, c) <=> TakenBy(p, i, c)
<1>1. n \in Nat /\ Len(q) = n + 1 /\ q[n + 1] = ins /\ \A i \in 0 .. (n - 1) : i + 1 \in 1 .. n /\ q[i + 1] = p[i + 1]
  OBVIOUS
<1>2. PushesOf(q) = PushesOf(p) \cup (IF ins.op = "PUSHARG" THEN {n} ELSE {})
  <2>1. \A i \in 0 .. n : i = n \/ i \in 0 .. (n - 1)
    BY <1>1
  <2>2. 0 .. Len(q) - 1 = 0 .. n
    BY <1>1
  <2> QED BY <1>1, <2>1, <2>2 DEF PushesOf
<1>3. CallsOf(q) = CallsOf(p) \cup (IF ins.op \in CallOps THEN {n} ELSE {})
  <2>1. \A i \in 0 .. n : i = n \/ i \in 0 .. (n - 1)
    BY <1>1
  <2>2. 0 .. Len(q) - 1 = 0 .. n
    BY <1>1
  <2> QED BY <1>1, <2>1, <2>2 DEF CallsOf
<1>4. \A i, c \in 0 .. n : \A d \in i .. (c - 1) : d \in 0 .. (n - 1)
  BY <1>1
<1>5. ASSUME NEW i \in 0 .. n, NEW c \in 0 .. n PROVE TakenBy(q, i, c) <=> TakenBy(p, i, c)
  BY <1>1, <1>4 DEF TakenBy
<1> QED BY <1>1, <1>2, <1>3, <1>5 DEF PushesOf, CallsOf

\* A number above all of an ascending sequence goes to its end.
LEMMA AscendingAppend ==
  ASSUME NEW s \in Seq(Nat), Ascending(s), NEW n \in Nat, \A x \in ToSet(s) : x < n
  PROVE  /\ Append(s, n) \in Seq(Nat) /\ Ascending(Append(s, n))
         /\ ToSet(Append(s, n)) = ToSet(s) \cup {n}
<1> DEFINE t == Append(s, n)
           m == Len(s)
<1>1. /\ t \in Seq(Nat) /\ m \in Nat /\ Len(t) = m + 1 /\ t[m + 1] = n
      /\ \A k \in 1 .. m : t[k] = s[k] /\ s[k] \in Nat
      /\ DOMAIN s = 1 .. m /\ DOMAIN t = 1 .. (m + 1)
  OBVIOUS
<1> HIDE DEF t, m
<1>2. \A k \in 1 .. (m + 1) : k = m + 1 \/ k \in 1 .. m
  BY <1>1
<1>3. ToSet(t) = ToSet(s) \cup {n}
  <2>1. ToSet(t) = {t[k] : k \in 1 .. (m + 1)} /\ ToSet(s) = {s[k] : k \in 1 .. m}
    BY <1>1 DEF ToSet
  <2>2. m + 1 \in 1 .. (m + 1) /\ \A k \in 1 .. m : k \in 1 .. (m + 1)
    BY <1>1
  <2> QED BY <1>1, <1>2, <2>1, <2>2
<1>4. ASSUME NEW j \in DOMAIN t, NEW k \in DOMAIN t, j < k PROVE t[j] < t[k]
  <2>1. j \in 1 .. m
    BY <1>1, <1>4
  <2>2. CASE k = m + 1
    <3>1. s[j] < n
      BY <2>1, <1>1 DEF ToSet
    <3> QED BY <1>1, <2>1, <2>2, <3>1
  <2>3. CASE k \in 1 .. m
    BY <1>1, <1>4, <2>1, <2>3 DEF Ascending
  <2> QED BY <1>1, <1>2, <2>2, <2>3
<1> QED BY <1>1, <1>3, <1>4 DEF Ascending, t

PushesAre ==
  Accepted =>
    /\ DOMAIN calls = CallsOf(program)
    /\ \A c \in DOMAIN calls :
         calls[c] \in Seq(Nat) /\ Ascending(calls[c]) /\ ToSet(calls[c]) = {i \in PushesOf(program) : TakenBy(program, i, c)}
    /\ pushed \in Seq(Nat) /\ Ascending(pushed)
    /\ ToSet(pushed) = {i \in PushesOf(program) : \A c \in CallsOf(program) : c < i}
    /\ \A f \in DOMAIN fn_calls :
         fn_calls[f] \in Seq(Nat) /\ Ascending(fn_calls[f]) /\ ToSet(fn_calls[f]) \subseteq CallsOf(program)
    /\ \A f, g \in DOMAIN fn_calls : f # g => ToSet(fn_calls[f]) \cap ToSet(fn_calls[g]) = {}
    /\ outcome = "done" => pushed = <<>>

\* Steps keep PushesAre.
LEMMA PushesNext ==
  ASSUME ProgTyped, PushesAre, [ProgNext]_anal
  PROVE  PushesAre'
<1>1. ASSUME NEW ins \in Ins, Step(ins) PROVE PushesAre'
  <2> DEFINE n == Len(program)
             p == program
             q == program'
  <2>0. n = Len(p)
    OBVIOUS
  <2>1. program \in Seq(Ins) /\ q = Append(p, ins) /\ Index = n
    BY <1>1 DEF Step, ProgTyped, Index
  <2>2. /\ n \in Nat /\ Len(q) = n + 1 /\ q[n + 1] = ins /\ n \notin CallsOf(p) /\ n \notin PushesOf(p)
        /\ PushesOf(p) \subseteq 0 .. (n - 1) /\ CallsOf(p) \subseteq 0 .. (n - 1)
        /\ PushesOf(q) = PushesOf(p) \cup (IF ins.op = "PUSHARG" THEN {n} ELSE {})
        /\ CallsOf(q) = CallsOf(p) \cup (IF ins.op \in CallOps THEN {n} ELSE {})
        /\ \A i, c \in 0 .. n : TakenBy(q, i, c) <=> TakenBy(p, i, c)
    <3> HIDE DEF q
    <3> QED BY <2>1, PlacesOf
  <2>3. /\ Accepted /\ Accepted' /\ Analyze(ins) /\ outcome = "running" /\ outcome' = "running"
    BY <1>1 DEF Step, Accepted
  <2>4. /\ DOMAIN calls = CallsOf(p)
        /\ \A c \in DOMAIN calls :
             calls[c] \in Seq(Nat) /\ Ascending(calls[c]) /\ ToSet(calls[c]) = {i \in PushesOf(p) : TakenBy(p, i, c)}
        /\ pushed \in Seq(Nat) /\ Ascending(pushed)
        /\ ToSet(pushed) = {i \in PushesOf(p) : \A c \in CallsOf(p) : c < i}
        /\ \A f \in DOMAIN fn_calls :
             fn_calls[f] \in Seq(Nat) /\ Ascending(fn_calls[f]) /\ ToSet(fn_calls[f]) \subseteq CallsOf(p)
        /\ \A f, g \in DOMAIN fn_calls : f # g => ToSet(fn_calls[f]) \cap ToSet(fn_calls[g]) = {}
    BY <2>3 DEF PushesAre
  <2> HIDE DEF q, p, n
  <2>5. \A x \in PushesOf(p) \cup CallsOf(p) : x \in Nat /\ x < n /\ x \in 0 .. n
    BY <2>2
  <2>6. ASSUME NEW c \in CallsOf(p)
        PROVE  {i \in PushesOf(q) : TakenBy(q, i, c)} = {i \in PushesOf(p) : TakenBy(p, i, c)}
    <3>1. c \in 0 .. n /\ n \in 0 .. n /\ ~ (n < c)
      BY <2>2, <2>5
    <3>2. ~ TakenBy(q, n, c)
      BY <3>1 DEF TakenBy
    <3>3. \A i \in PushesOf(p) : TakenBy(q, i, c) <=> TakenBy(p, i, c)
      BY <2>2, <2>5, <3>1
    <3> QED BY <2>2, <3>2, <3>3
  <2>7. CASE ins.op = "PUSHARG"
    <3>1. pushed' = Append(pushed, n) /\ calls' = calls /\ fn_calls' = fn_calls
      BY <2>1, <2>3, <2>7, PushPushes
    <3>2. ins.op \notin CallOps
      BY <2>7 DEF CallOps
    <3>3. CallsOf(q) = CallsOf(p) /\ PushesOf(q) = PushesOf(p) \cup {n}
      BY <2>2, <2>7, <3>2
    <3>4. \A x \in ToSet(pushed) : x < n
      BY <2>4, <2>5
    <3>5. pushed' \in Seq(Nat) /\ Ascending(pushed') /\ ToSet(pushed') = ToSet(pushed) \cup {n}
      BY <2>2, <2>4, <3>1, <3>4, AscendingAppend
    <3>6. ToSet(pushed') = {i \in PushesOf(q) : \A c \in CallsOf(q) : c < i}
      <4>1. \A c \in CallsOf(p) : c < n
        BY <2>5
      <4> QED BY <2>4, <3>3, <3>5, <4>1
    <3>7. \A c \in DOMAIN calls' :
            /\ calls'[c] \in Seq(Nat) /\ Ascending(calls'[c])
            /\ ToSet(calls'[c]) = {i \in PushesOf(q) : TakenBy(q, i, c)}
      BY <2>4, <2>6, <3>1
    <3> QED BY <2>3, <2>4, <3>1, <3>3, <3>5, <3>6, <3>7 DEF PushesAre, q
  <2>8. CASE ins.op \in CallOps
    <3>1. /\ calls' = With(calls, n, pushed) /\ pushed' = <<>>
          /\ \/ fn_calls' = fn_calls
             \/ \E f : fn_calls' = With(fn_calls, f, Append(IF f \in DOMAIN fn_calls THEN fn_calls[f] ELSE <<>>, n))
      BY <2>1, <2>3, <2>8, CallTakes
    <3>2. ins.op # "PUSHARG"
      BY <2>8 DEF CallOps
    <3>3. CallsOf(q) = CallsOf(p) \cup {n} /\ PushesOf(q) = PushesOf(p)
      BY <2>2, <2>8, <3>2
    <3>4. /\ DOMAIN calls' = CallsOf(q) /\ calls'[n] = pushed
          /\ \A c \in CallsOf(p) : calls'[c] = calls[c]
      <4>1. n \notin CallsOf(p)
        BY <2>2
      <4> QED BY <2>4, <3>1, <3>3, <4>1 DEF With
    <3>5. {i \in PushesOf(q) : TakenBy(q, i, n)} = ToSet(pushed)
      <4>1. ASSUME NEW i \in PushesOf(p)
            PROVE  TakenBy(p, i, n) <=> \A c \in CallsOf(p) : c < i
        <5>1. i \in 0 .. (n - 1) /\ n = Len(p) /\ p[i + 1].op = "PUSHARG" /\ p[i + 1].op \notin CallOps
          <6>1. i \in 0 .. (Len(p) - 1) /\ p[i + 1].op = "PUSHARG"
            BY DEF PushesOf
          <6>2. "PUSHARG" \notin CallOps
            BY DEF CallOps
          <6> QED BY <2>0, <6>1, <6>2
        <5>2. ASSUME TakenBy(p, i, n), NEW c \in CallsOf(p) PROVE c < i
          <6>1. c \in 0 .. (n - 1) /\ p[c + 1].op \in CallOps
            BY <5>1 DEF CallsOf
          <6>2. ~ (c \in i .. (n - 1))
            BY <5>2, <6>1 DEF TakenBy
          <6> QED BY <2>2, <5>1, <6>1, <6>2
        <5>3. ASSUME \A c \in CallsOf(p) : c < i PROVE TakenBy(p, i, n)
          <6>1. ASSUME NEW d \in i .. (n - 1) PROVE p[d + 1].op \notin CallOps
            <7>1. d \in 0 .. (n - 1) /\ ~ (d < i)
              BY <2>2, <5>1
            <7>2. d \notin CallsOf(p)
              BY <5>3, <7>1
            <7> QED BY <5>1, <7>1, <7>2 DEF CallsOf
          <6>2. i < n
            BY <2>2, <5>1
          <6> QED BY <6>1, <6>2 DEF TakenBy
        <5> QED BY <5>2, <5>3
      <4>2. \A i \in PushesOf(p) : TakenBy(q, i, n) <=> TakenBy(p, i, n)
        <5>1. n \in 0 .. n
          BY <2>2
        <5> QED BY <2>2, <2>5, <5>1
      <4> QED BY <2>4, <3>3, <4>1, <4>2
    <3>6. \A c \in DOMAIN calls' :
            /\ calls'[c] \in Seq(Nat) /\ Ascending(calls'[c])
            /\ ToSet(calls'[c]) = {i \in PushesOf(q) : TakenBy(q, i, c)}
      <4>1. ASSUME NEW c \in DOMAIN calls'
            PROVE  /\ calls'[c] \in Seq(Nat) /\ Ascending(calls'[c])
                   /\ ToSet(calls'[c]) = {i \in PushesOf(q) : TakenBy(q, i, c)}
        <5>1. CASE c = n
          BY <2>4, <3>4, <3>5, <5>1
        <5>2. CASE c \in CallsOf(p)
          BY <2>4, <2>6, <3>4, <5>2
        <5> QED BY <3>3, <3>4, <5>1, <5>2
      <4> QED BY <4>1
    <3>7. pushed' \in Seq(Nat) /\ Ascending(pushed') /\ ToSet(pushed') = {}
      BY <3>1 DEF Ascending, ToSet
    <3>8. {i \in PushesOf(q) : \A c \in CallsOf(q) : c < i} = {}
      <4>1. \A i \in PushesOf(p) : ~ (n < i)
        BY <2>2, <2>5
      <4> QED BY <3>3, <4>1
    <3>9. /\ \A f \in DOMAIN fn_calls' :
               fn_calls'[f] \in Seq(Nat) /\ Ascending(fn_calls'[f]) /\ ToSet(fn_calls'[f]) \subseteq CallsOf(q)
          /\ \A f, g \in DOMAIN fn_calls' : f # g => ToSet(fn_calls'[f]) \cap ToSet(fn_calls'[g]) = {}
      <4>1. CASE fn_calls' = fn_calls
        BY <2>4, <3>3, <4>1
      <4>2. ASSUME NEW f, fn_calls' = With(fn_calls, f, Append(IF f \in DOMAIN fn_calls THEN fn_calls[f] ELSE <<>>, n))
            PROVE  <3>9
        <5> DEFINE before == IF f \in DOMAIN fn_calls THEN fn_calls[f] ELSE <<>>
                   now == Append(before, n)
        <5>1. /\ before \in Seq(Nat) /\ Ascending(before) /\ ToSet(before) \subseteq CallsOf(p)
              /\ \A g \in DOMAIN fn_calls : f # g => ToSet(before) \cap ToSet(fn_calls[g]) = {}
          <6>1. CASE f \in DOMAIN fn_calls
            BY <2>4, <6>1
          <6>2. CASE f \notin DOMAIN fn_calls
            BY <6>2 DEF Ascending, ToSet
          <6> QED BY <6>1, <6>2
        <5> HIDE DEF before
        <5>2. now \in Seq(Nat) /\ Ascending(now) /\ ToSet(now) = ToSet(before) \cup {n}
          <6>1. \A x \in ToSet(before) : x < n
            BY <2>5, <5>1
          <6> QED BY <2>2, <5>1, <6>1, AscendingAppend
        <5>4. fn_calls' = With(fn_calls, f, now)
          BY <4>2 DEF before
        <5> HIDE DEF now
        <5>6. /\ DOMAIN fn_calls' = {f} \cup DOMAIN fn_calls /\ fn_calls'[f] = now
              /\ \A g \in DOMAIN fn_calls' : g # f => g \in DOMAIN fn_calls /\ fn_calls'[g] = fn_calls[g]
          BY <5>4 DEF With
        <5>7. \A g \in DOMAIN fn_calls : n \notin ToSet(fn_calls[g])
          BY <2>2, <2>4
        <5>8. ASSUME NEW g \in DOMAIN fn_calls'
              PROVE  fn_calls'[g] \in Seq(Nat) /\ Ascending(fn_calls'[g]) /\ ToSet(fn_calls'[g]) \subseteq CallsOf(q)
          BY <2>4, <3>3, <5>1, <5>2, <5>6
        <5>9. ASSUME NEW g \in DOMAIN fn_calls', g # f PROVE ToSet(now) \cap ToSet(fn_calls'[g]) = {}
          BY <5>1, <5>2, <5>6, <5>7, <5>9
        <5>10. ASSUME NEW g \in DOMAIN fn_calls', NEW k \in DOMAIN fn_calls', g # k
               PROVE  ToSet(fn_calls'[g]) \cap ToSet(fn_calls'[k]) = {}
          <6>1. CASE g = f
            BY <5>6, <5>9, <5>10, <6>1
          <6>2. CASE k = f
            BY <5>6, <5>9, <5>10, <6>2
          <6>3. CASE g # f /\ k # f
            BY <2>4, <5>6, <5>10, <6>3
          <6> QED BY <6>1, <6>2, <6>3
        <5> QED BY <5>8, <5>10
      <4> QED BY <3>1, <4>1, <4>2
    <3> QED BY <2>3, <3>4, <3>6, <3>7, <3>8, <3>9 DEF PushesAre, q
  <2>9. CASE ins.op \notin CallOps \cup {"PUSHARG"}
    <3>1. UNCHANGED <<pushed, calls, fn_calls>>
      BY <2>3, <2>9, OthersPushNothing
    <3>2. CallsOf(q) = CallsOf(p) /\ PushesOf(q) = PushesOf(p)
      BY <2>2, <2>9
    <3>3. \A c \in DOMAIN calls' :
            /\ calls'[c] \in Seq(Nat) /\ Ascending(calls'[c])
            /\ ToSet(calls'[c]) = {i \in PushesOf(q) : TakenBy(q, i, c)}
      BY <2>4, <2>6, <3>1
    <3> QED BY <2>3, <2>4, <3>1, <3>2, <3>3 DEF PushesAre, q
  <2> QED BY <2>7, <2>8, <2>9
<1>2. CASE Pause
  BY <1>2 DEF Pause, PushesAre, Accepted
<1> QED BY <1>1, <1>2, ProgCases, Zenon

\* Every pushed argument is passed to the next call after it and to no other, in the
\* order of the pushes, and no call is listed for two functions, for every program
\* (PUSHARG and the calls in opti/proganal.cc).
THEOREM ArgumentsReachCalls == ProgSpec => []PushesReachOneCall
<1>1. ProgInit => ProgTyped /\ PushesAre
  <2> SUFFICES ASSUME ProgInit PROVE ProgTyped /\ PushesAre
    OBVIOUS
  <2>1. CallsOf(program) = {} /\ PushesOf(program) = {} /\ ProgTyped
    BY DEF ProgInit, ProgTyped, CallsOf, PushesOf
  <2>2. DOMAIN calls = {} /\ DOMAIN fn_calls = {} /\ pushed = <<>> /\ outcome = "running"
    BY DEF ProgInit
  <2> QED BY <2>1, <2>2 DEF PushesAre, Ascending, ToSet
<1>2. ProgTyped /\ PushesAre => PushesReachOneCall
  <2> SUFFICES ASSUME ProgTyped, PushesAre, Accepted PROVE PushesReachOneCall
    BY DEF PushesReachOneCall
  <2>1. Indices = 0 .. (Len(program) - 1)
    BY DEF Indices, Index
  <2>2. PushesOf(program) = {i \in Indices : At(i).op = "PUSHARG"}
    BY <2>1 DEF PushesOf, At
  <2>3. CallsOf(program) = {c \in Indices : At(c).op \in {"CALL", "MCALL", "CTORCALL"}}
    BY <2>1 DEF CallsOf, At, CallOps
  <2>4. \A i, c : TakenBy(program, i, c) <=>
                    (i < c /\ \A d \in i .. (c - 1) : ~ (At(d).op \in {"CALL", "MCALL", "CTORCALL"}))
    BY DEF TakenBy, At, CallOps
  <2>5. /\ DOMAIN calls = CallsOf(program)
        /\ \A c \in DOMAIN calls :
             Ascending(calls[c]) /\ ToSet(calls[c]) = {i \in PushesOf(program) : TakenBy(program, i, c)}
        /\ Ascending(pushed)
        /\ ToSet(pushed) = {i \in PushesOf(program) : \A c \in CallsOf(program) : c < i}
        /\ \A f \in DOMAIN fn_calls : Ascending(fn_calls[f]) /\ ToSet(fn_calls[f]) \subseteq CallsOf(program)
        /\ \A f, g \in DOMAIN fn_calls : f # g => ToSet(fn_calls[f]) \cap ToSet(fn_calls[g]) = {}
        /\ outcome = "done" => pushed = <<>>
    BY DEF PushesAre
  <2> QED BY <2>2, <2>3, <2>4, <2>5 DEF PushesReachOneCall, Ascending
<1> QED BY <1>1, <1>2, TypedNext, PushesNext, PTL DEF ProgSpec

-----------------------------------------------------------------------------
(* Types, and the records kept of registers.                               *)

\* One id is a type,
LEMMA IdIsType ==
  ASSUME NEW id \in TypeIds \cup {"Malformed"}
  PROVE  <<id>> \in Type
BY DEF Type

\* The types the analysis names itself are types, and the one of a register without any
\* is none.
LEMMA TypesAre ==
  /\ Simple(ScalarIds) \subseteq Type /\ Unset \notin Type /\ Malformed \in Type /\ <<"U32">> \in Type
  /\ <<"Void">> \in Type /\ <<"Any">> \in Type /\ <<"String">> \in Type
  /\ Indeterminate \subseteq Type
<1>1. ScalarIds \subseteq TypeIds /\ "Unset" \notin TypeIds
  BY DEF TypeIds, ScalarIds, NumberIds, IntIds, SignedIds, UnsignedIds
<1>2. Unset \notin Type
  <2>1. Unset[1] = "Unset" /\ Len(Unset) = 1
    BY DEF Unset
  <2> QED BY <1>1, <2>1 DEF Type
<1>3. Simple(ScalarIds) \subseteq Type
  BY <1>1, IdIsType DEF Simple
<1>4. <<"Void">> \in Type /\ <<"Any">> \in Type /\ <<"String">> \in Type /\ <<"Malformed">> \in Type
  BY IdIsType DEF TypeIds
<1>5. {"I32", "U32", "Bool"} \subseteq ScalarIds
  BY DEF ScalarIds, NumberIds, IntIds, SignedIds, UnsignedIds
<1>6. Indeterminate \subseteq Simple(ScalarIds) /\ <<"U32">> \in Simple(ScalarIds)
  BY <1>5 DEF Indeterminate, Simple
<1> QED BY <1>2, <1>3, <1>4, <1>6 DEF Malformed

\* References, arrays, return types and what they refer to are types.
LEMMA TypesMade ==
  ASSUME NEW t \in Type
  PROVE  RefTo(t) \in Type /\ ArrayOf(t) \in Type /\ Returning(t) \in Type /\ Tail(t) \in Type
<1>1. <<"Ref">> \in Type /\ <<"Array">> \in Type /\ <<"Fn">> \in Type
  BY IdIsType DEF TypeIds
<1>2. \A s \in Type : s \o t \in Type
  BY DEF Type
<1>3. Tail(t) \in Type
  <2>1. CASE t # <<>>
    BY <2>1, HeadTailProperties DEF Type
  <2>2. CASE t = <<>>
    BY <2>2 DEF Type
  <2> QED BY <2>1, <2>2
<1> QED BY <1>1, <1>2, <1>3 DEF RefTo, ArrayOf, Returning

\* The type of the entity that a reference leads to.
LEMMA ObjectTypes ==
  ASSUME NEW e, Entity(e)
  PROVE  ObjectType(e) \in Type
<1>1. CASE e.kind \in {"StaticFieldRef", "ObjectFieldRef", "ArrayElementRef", "LocalVarRef", "ArgRef"}
  BY <1>1, TypesMade DEF ObjectType, Entity
<1>2. CASE e.kind \in {"Array", "FnOverloading"}
  BY <1>2, TypesMade, TypesAre DEF ObjectType, Entity
<1>3. CASE e.kind \notin {"Array", "FnOverloading", "StaticFieldRef", "ObjectFieldRef", "ArrayElementRef", "LocalVarRef", "ArgRef"}
  BY <1>3, TypesAre DEF ObjectType
<1> QED BY <1>1, <1>2, <1>3

\* A binary operation gives a simple type or is refused.
LEMMA BinaryTypes ==
  ASSUME NEW op \in BinaryOps, NEW l, NEW r
  PROVE  Binary(op, l, r) \in Simple(ScalarIds) \cup {Malformed}
<1>1. \A a \in SUBSET ScalarIds : \A x \in Simple(ScalarIds) : SameOf(a, l, r, x) \in Simple(ScalarIds) \cup {Malformed}
  BY DEF SameOf
<1>2. \A a \in SUBSET ScalarIds : SameOf(a, l, r, l) \in Simple(ScalarIds) \cup {Malformed}
  BY DEF SameOf, Simple
<1>3. /\ NumberIds \in SUBSET ScalarIds /\ IntIds \in SUBSET ScalarIds /\ {"Bool"} \in SUBSET ScalarIds /\ ScalarIds \in SUBSET ScalarIds
      /\ <<"Bool">> \in Simple(ScalarIds) /\ <<"I32">> \in Simple(ScalarIds)
  BY DEF NumberIds, IntIds, ScalarIds, SignedIds, Simple
<1>4. Simple(IntIds) \subseteq Simple(ScalarIds)
  BY <1>3 DEF Simple
<1>5. op \in {"ADD", "SUB", "MUL", "DIV", "AND", "OR", "XOR"} => Binary(op, l, r) \in Simple(ScalarIds) \cup {Malformed}
  BY <1>2, <1>3 DEF Binary, ADD, SUB, MUL, DIV, AND, OR, XOR
<1>6. op \in {"LAND", "LOR", "EQ", "NEQ", "LT", "GT", "LTEQ", "GTEQ", "CMP"}
      => Binary(op, l, r) \in Simple(ScalarIds) \cup {Malformed}
  BY <1>1, <1>3 DEF Binary, LAND, LOR, EQ, NEQ, LT, GT, LTEQ, GTEQ, CMP
<1>7. op \in {"LSH", "RSH"} => Binary(op, l, r) \in Simple(ScalarIds) \cup {Malformed}
  BY <1>4 DEF Binary, LSH, RSH
<1> QED BY <1>5, <1>6, <1>7 DEF BinaryOps

\* The facts that the analysis keeps of a register.
Facts == {"begin", "end", "type", "expected", "storage", "output"}
IsInfo(x) == x = [f \in Facts |-> x[f]]
Infos(m) == m = [r \in DOMAIN m |-> m[r]] /\ \A r \in DOMAIN m : IsInfo(m[r])

\* m and k differ in what k says of register o, and not in its lifetime.
Amends(k, m, o) ==
  /\ Infos(k) /\ DOMAIN k = DOMAIN m
  /\ \A r \in DOMAIN m : r # o => k[r] = m[r]
  /\ k[o].begin = m[o].begin /\ k[o].end = m[o].end

\* Another record for register o.
Put(m, o, d) == [m EXCEPT ![o] = d]

\* Another record for a register with the lifetime it had.
LEMMA PutAmends ==
  ASSUME NEW m, Infos(m), NEW o \in DOMAIN m, NEW d, IsInfo(d), d.begin = m[o].begin, d.end = m[o].end
  PROVE  Amends(Put(m, o, d), m, o) /\ Put(m, o, d)[o] = d
<1> DEFINE k == Put(m, o, d)
<1>1. /\ DOMAIN k = DOMAIN m /\ \A r \in DOMAIN m : r # o => k[r] = m[r]
      /\ k = [r \in DOMAIN k |-> k[r]] /\ k[o] = d
  BY DEF Infos, Put
<1> HIDE DEF k
<1>2. Amends(k, m, o) /\ k[o] = d
  BY <1>1 DEF Amends, Infos
<1> QED BY <1>2 DEF k

-----------------------------------------------------------------------------
(* What an operation makes of its output register.                         *)

Typing(m) == \A r \in DOMAIN m : m[r].type \in Type \cup {Unset}

\* What is known of the result r of an operation op.
Fitting(m, r, op) ==
  LET x == m[r].expected
  IN /\ m[r].type \in Type \cup {Unset}
     /\ x.kind = "literal" => m[r].type = x.type
     /\ x.kind = "reg" => x.reg \in DOMAIN m /\ m[r].type = m[x.reg].type
     /\ (x.kind = "ref" /\ op # "LVAR") => m[r].type = ObjectType(x.entity)
     /\ m[r].type = Unset => op \in UnaryOps \cup {"LEXCEPT", "ENTER", "LEAVE", "COPY"}

\* What the switch starts from.
Ready(ins, regs) ==
  /\ ins \in Ins /\ regs = Extended(ins) /\ Infos(regs) /\ Typing(regs) /\ NoReg \notin DOMAIN regs
  /\ Uses(ins) \subseteq DOMAIN regs
  /\ ins.out # NoReg => ins.out \in DOMAIN regs /\ regs[ins.out].type = Unset /\ regs[ins.out].expected = Unknown

\* What it makes of it.
Result(ins, regs, k) ==
  /\ Infos(k) /\ DOMAIN k = DOMAIN regs
  /\ \A r \in DOMAIN regs :
       /\ k[r].begin = regs[r].begin /\ k[r].end = regs[r].end
       /\ r # ins.out => k[r].type = regs[r].type /\ k[r].expected = regs[r].expected
  /\ ins.out # NoReg => Fitting(k, ins.out, ins.op)

\* Before the switch: operands live until this instruction, the output begins here, and
\* nothing else changes.
LEMMA ExtendedIs ==
  ASSUME Infos(info), NEW ins \in Ins, Admitted(ins), NoReg \notin DOMAIN info, Index \in Nat, NEW regs, regs = Extended(ins)
  PROVE  /\ Infos(regs) /\ DOMAIN regs = DOMAIN info \cup ({ins.out} \ {NoReg}) /\ NoReg \notin DOMAIN regs
         /\ Uses(ins) \subseteq DOMAIN regs
         /\ \A r \in DOMAIN info :
              /\ r # ins.out /\ regs[r].begin = info[r].begin /\ regs[r].type = info[r].type
              /\ regs[r].expected = info[r].expected
              /\ regs[r].end = IF r \in Uses(ins) THEN Index ELSE info[r].end
         /\ ins.out # NoReg => /\ ins.out \notin DOMAIN info /\ regs[ins.out].begin = Index /\ regs[ins.out].end = Index
                               /\ regs[ins.out].type = Unset /\ regs[ins.out].expected = Unknown
<1> DEFINE e == Entered(ins)
           new == [begin |-> Index, end |-> Index, type |-> Unset, expected |-> Unknown, storage |-> "None", output |-> FALSE]
<1>1. /\ Infos(e) /\ DOMAIN e = DOMAIN info \cup ({ins.out} \ {NoReg})
      /\ \A r \in DOMAIN info : r # ins.out /\ e[r] = info[r]
      /\ ins.out # NoReg => ins.out \notin DOMAIN info /\ e[ins.out] = new
  <2>1. IsInfo(new)
    BY DEF IsInfo, Facts
  <2> HIDE DEF new
  <2>2. ins.out \notin DOMAIN info
    BY DEF Admitted
  <2>3. CASE ins.out = NoReg
    BY <2>2, <2>3 DEF Entered
  <2>4. CASE ins.out # NoReg
    <3>1. e = [z \in {ins.out} \cup DOMAIN info |-> IF z = ins.out THEN new ELSE info[z]]
      BY <2>4 DEF Entered, With, new
    <3> HIDE DEF e
    <3>2. DOMAIN e = {ins.out} \cup DOMAIN info /\ \A z \in DOMAIN e : e[z] = IF z = ins.out THEN new ELSE info[z]
      BY <3>1
    <3>3. e = [z \in DOMAIN e |-> e[z]]
      BY <3>1
    <3>4. \A z \in DOMAIN e : IsInfo(e[z])
      BY <2>1, <3>2 DEF Infos
    <3> QED BY <2>2, <2>4, <3>2, <3>3, <3>4 DEF Infos
  <2> QED BY <2>3, <2>4
<1>2. regs = [r \in DOMAIN e |-> IF r \in Uses(ins) THEN [e[r] EXCEPT !.end = Index] ELSE e[r]]
  BY DEF Extended
<1>3. new.begin = Index /\ new.end = Index /\ new.type = Unset /\ new.expected = Unknown
  OBVIOUS
<1>4. Uses(ins) \subseteq DOMAIN e
  BY DEF Admitted
<1> HIDE DEF e, new
<1>5. ASSUME NEW r \in DOMAIN e
      PROVE  /\ IsInfo(regs[r]) /\ regs[r].begin = e[r].begin /\ regs[r].type = e[r].type
             /\ regs[r].expected = e[r].expected
             /\ regs[r].end = IF r \in Uses(ins) THEN Index ELSE e[r].end
  <2>1. IsInfo(e[r])
    BY <1>1 DEF Infos
  <2>2. CASE r \in Uses(ins)
    <3>1. regs[r] = [e[r] EXCEPT !.end = Index]
      BY <1>2, <2>2
    <3> QED BY <2>1, <2>2, <3>1 DEF IsInfo, Facts
  <2>3. CASE r \notin Uses(ins)
    BY <1>2, <2>1, <2>3
  <2> QED BY <2>2, <2>3
<1>6. DOMAIN regs = DOMAIN e /\ regs = [r \in DOMAIN regs |-> regs[r]]
  BY <1>2
<1>7. Infos(regs)
  BY <1>5, <1>6 DEF Infos
<1>8. ins.out # NoReg => ins.out \in DOMAIN e /\ regs[ins.out].end = Index
  BY <1>1, <1>3, <1>5
<1> QED BY <1>1, <1>3, <1>4, <1>5, <1>6, <1>7, <1>8

\* The types in the operands are well formed.
LEMMA OperandsAre ==
  ASSUME NEW x \in Operands
  PROVE  /\ x.kind \in {"literal", "type"} => x.type \in Type
         /\ x.kind = "ref" => Entity(x.entity) /\ (x.entity.kind = "IdRef" => Entity(x.entity.target))
<1>1. CASE \E m \in Menus : x \in m.operands
  BY <1>1, ProgAnalAssumption
<1>2. CASE \E r \in Nat : x = Register(r)
  <2>1. x.kind = "reg"
    BY <1>2 DEF Register
  <2> QED BY <2>1
<1> QED BY <1>1, <1>2 DEF Operands

\* What the analysis takes the type of a register to be.
LEMMA KnownTypes ==
  ASSUME NEW m, Typing(m), NEW r \in DOMAIN m
  PROVE  Known(m, r) \subseteq Type
BY TypesAre DEF Known, Typing

\* What it takes the type of an operand to be.
LEMMA OperandTypes ==
  ASSUME NEW m, Typing(m), NEW x \in Operands, x.kind = "reg" => x.reg \in DOMAIN m
  PROVE  ValueTypes(m, x) \subseteq Type
<1>1. CASE x.kind = "literal"
  BY <1>1, OperandsAre DEF ValueTypes
<1>2. CASE x.kind = "offset"
  BY <1>2, TypesAre DEF ValueTypes
<1>3. CASE x.kind = "ref"
  BY <1>3, OperandsAre, ObjectTypes DEF ValueTypes
<1>4. CASE x.kind = "reg"
  BY <1>4, KnownTypes DEF ValueTypes
<1>5. CASE x.kind \notin {"literal", "offset", "ref", "reg"}
  BY <1>5, TypesAre DEF ValueTypes
<1> QED BY <1>1, <1>2, <1>3, <1>4, <1>5

\* The operands of an instruction that is ready.
LEMMA ArgumentsReady ==
  ASSUME NEW ins, NEW regs, Ready(ins, regs), NEW j \in DOMAIN ins.args
  PROVE  /\ ins.args[j] \in Operands
         /\ ins.args[j].kind = "reg" => ins.args[j].reg \in DOMAIN regs
<1>1. ins.args[j] \in Operands
  BY DEF Ready, Ins
<1> QED BY <1>1 DEF Ready, Uses

\* A new record for the output register that fits gives a result.
LEMMA PutResult ==
  ASSUME NEW ins, NEW regs, Ready(ins, regs), ins.out # NoReg, NEW d, IsInfo(d),
         d.begin = regs[ins.out].begin, d.end = regs[ins.out].end,
         Put(regs, ins.out, d)[ins.out] = d => Fitting(Put(regs, ins.out, d), ins.out, ins.op)
  PROVE  Result(ins, regs, Put(regs, ins.out, d))
<1>1. ins.out \in DOMAIN regs /\ Infos(regs)
  BY DEF Ready
<1>2. Amends(Put(regs, ins.out, d), regs, ins.out) /\ Put(regs, ins.out, d)[ins.out] = d
  BY <1>1, PutAmends
<1> QED BY <1>1, <1>2 DEF Amends, Result

\* Such a record, for a type and a value that need no other register.
LEMMA FitResult ==
  ASSUME NEW ins, NEW regs, Ready(ins, regs), ins.out # NoReg, NEW d, IsInfo(d),
         d.begin = regs[ins.out].begin, d.end = regs[ins.out].end, d.type \in Type,
         d.expected.kind = "literal" => d.type = d.expected.type,
         d.expected.kind # "reg",
         (d.expected.kind = "ref" /\ ins.op # "LVAR") => d.type = ObjectType(d.expected.entity)
  PROVE  Result(ins, regs, Put(regs, ins.out, d))
<1> DEFINE k == Put(regs, ins.out, d)
<1> HIDE DEF k
<1>1. k[ins.out] = d => Fitting(k, ins.out, ins.op)
  BY TypesAre DEF Fitting
<1> QED BY <1>1, PutResult DEF k

\* An operation without output may leave everything as it is.
LEMMA SameResult ==
  ASSUME NEW ins, NEW regs, Ready(ins, regs), ins.out = NoReg
  PROVE  Result(ins, regs, regs)
BY DEF Ready, Result

\* An operation may give its output a type.
LEMMA TypedResult ==
  ASSUME NEW ins, NEW regs, Ready(ins, regs), NEW t \in Type
  PROVE  Result(ins, regs, Typed(ins, regs, t))
<1>1. CASE ins.out = NoReg
  BY <1>1, SameResult DEF Typed
<1>2. CASE ins.out # NoReg
  <2> DEFINE d == [regs[ins.out] EXCEPT !.type = t]
  <2>1. IsInfo(regs[ins.out]) /\ regs[ins.out].expected = Unknown
    BY <1>2 DEF Ready, Infos
  <2>2. [regs EXCEPT ![ins.out].type = t] = Put(regs, ins.out, d)
    BY DEF Put
  <2>3. IsInfo(d) /\ d.begin = regs[ins.out].begin /\ d.end = regs[ins.out].end /\ d.type = t /\ d.expected = Unknown
    BY <2>1 DEF IsInfo, Facts
  <2> HIDE DEF d
  <2>4. Unknown.kind = "undefined"
    BY DEF Unknown
  <2>5. Result(ins, regs, Put(regs, ins.out, d))
    BY <1>2, <2>3, <2>4, FitResult
  <2> QED BY <1>2, <2>2, <2>5 DEF Typed
<1> QED BY <1>1, <1>2

\* An operation without output may mark a register as output.
LEMMA MarkedResult ==
  ASSUME NEW ins, NEW regs, Ready(ins, regs), ins.out = NoReg, NEW x, x.kind = "reg" => x.reg \in DOMAIN regs
  PROVE  Result(ins, regs, MarkedForOutput(regs, x))
<1>1. CASE x.kind = "reg" /\ regs[x.reg].storage \in {"FieldVar", "LocalVar", "ArgRef"}
  <2> DEFINE d == [regs[x.reg] EXCEPT !.output = TRUE]
             k == Put(regs, x.reg, d)
  <2>1. x.reg \in DOMAIN regs /\ Infos(regs) /\ IsInfo(regs[x.reg])
    BY <1>1 DEF Ready, Infos
  <2>2. [regs EXCEPT ![x.reg].output = TRUE] = k
    BY DEF Put
  <2>3. IsInfo(d) /\ \A f \in Facts : f # "output" => d[f] = regs[x.reg][f]
    BY <2>1 DEF IsInfo, Facts
  <2> HIDE DEF d
  <2>4. d.begin = regs[x.reg].begin /\ d.end = regs[x.reg].end /\ d.type = regs[x.reg].type /\ d.expected = regs[x.reg].expected
    BY <2>3 DEF Facts
  <2>5. Amends(k, regs, x.reg) /\ k[x.reg] = d
    BY <2>1, <2>3, <2>4, PutAmends
  <2> HIDE DEF k
  <2>6. Result(ins, regs, k)
    BY <2>1, <2>4, <2>5 DEF Amends, Result
  <2> QED BY <1>1, <2>2, <2>6 DEF MarkedForOutput
<1>2. CASE ~ (x.kind = "reg" /\ regs[x.reg].storage \in {"FieldVar", "LocalVar", "ArgRef"})
  BY <1>2, SameResult DEF MarkedForOutput
<1> QED BY <1>1, <1>2

\* The three facts set for an object loaded, whose storage may be set or not.
LEMMA ObjectResult ==
  ASSUME NEW ins, NEW regs, Ready(ins, regs), ins.out # NoReg, NEW e, Entity(e), NEW s
  PROVE  Result(ins, regs, [regs EXCEPT ![ins.out].type = ObjectType(e), ![ins.out].expected = Refers(e), ![ins.out].storage = s])
<1> DEFINE o == ins.out
           d == [regs[o] EXCEPT !.type = ObjectType(e), !.expected = Refers(e), !.storage = s]
<1>1. IsInfo(regs[o])
  BY DEF Ready, Infos
<1>2. [regs EXCEPT ![ins.out].type = ObjectType(e), ![ins.out].expected = Refers(e), ![ins.out].storage = s]
        = Put(regs, o, d)
  BY DEF Put
<1>3. IsInfo(d) /\ d.begin = regs[o].begin /\ d.end = regs[o].end /\ d.type = ObjectType(e) /\ d.expected = Refers(e)
  BY <1>1 DEF IsInfo, Facts
<1> HIDE DEF d
<1>4. Refers(e).kind = "ref" /\ Refers(e).entity = e
  BY DEF Refers
<1>5. Result(ins, regs, Put(regs, o, d))
  BY <1>3, <1>4, ObjectTypes, FitResult
<1> QED BY <1>2, <1>5

-----------------------------------------------------------------------------
(* Loads, copies and variables.                                            *)

\* LOAD gives a Result.
LEMMA LoadResult ==
  ASSUME NEW ins, NEW regs, Ready(ins, regs), LOAD(ins), outcome = "running", outcome' = "running"
  PROVE  Result(ins, regs, info')
<1>1. regs = Extended(ins) /\ ins.args \in Seq(Operands)
  BY DEF Ready, Ins
<1>2. CASE ins.out = NoReg
  <2>1. info' = regs
    BY <1>1, <1>2 DEF LOAD, Continue
  <2> QED BY <1>2, <2>1, SameResult
<1>3. CASE ins.out # NoReg
  <2> DEFINE e == ins.args[1].entity.target
             s == CASE e.kind = "StaticFieldRef" -> "FieldVar"
                    [] e.kind = "ObjectFieldRef" -> "InstanceFieldVar"
                    [] OTHER                     -> regs[ins.out].storage
  <2>1. /\ Len(ins.args) = 1 /\ ins.args[1].kind = "ref" /\ ins.args[1].entity.kind = "IdRef"
        /\ info' = [regs EXCEPT ![ins.out].type = ObjectType(e), ![ins.out].expected = Refers(e), ![ins.out].storage = s]
    BY <1>1, <1>3 DEF LOAD, Continue, Refuse
  <2>2. 1 \in DOMAIN ins.args
    BY <1>1, <2>1
  <2>3. Entity(e)
    BY <2>1, <2>2, ArgumentsReady, OperandsAre
  <2> HIDE DEF e, s
  <2> QED BY <1>3, <2>1, <2>3, ObjectResult
<1> QED BY <1>2, <1>3

\* RLOAD gives a Result.
LEMMA RloadResult ==
  ASSUME NEW ins, NEW regs, Ready(ins, regs), RLOAD(ins), outcome = "running", outcome' = "running", ins.args # <<>> => Len(ins.args) = 2
  PROVE  Result(ins, regs, info')
<1>1. regs = Extended(ins) /\ ins.args \in Seq(Operands)
  BY DEF Ready, Ins
<1>2. CASE ins.out = NoReg
  <2>1. info' = regs
    BY <1>1, <1>2 DEF RLOAD, Continue
  <2> QED BY <1>2, <2>1, SameResult
<1>3. CASE ins.out # NoReg
  <2>1. outcome' = "malformed"
    BY <1>3 DEF RLOAD, Refuse
  <2> QED BY <2>1
<1> QED BY <1>2, <1>3

\* COPY gives a Result.
LEMMA CopyResult ==
  ASSUME NEW ins, NEW regs, Ready(ins, regs), COPY(ins), ins.op = "COPY", outcome = "running", outcome' = "running"
  PROVE  Result(ins, regs, info')
<1> DEFINE o == ins.out
           x == ins.args[1]
<1>1. regs = Extended(ins) /\ ins.args \in Seq(Operands)
  BY DEF Ready, Ins
<1>2. CASE o = NoReg
  <2>1. info' = regs
    BY <1>1, <1>2 DEF COPY, Continue
  <2> QED BY <1>2, <2>1, SameResult
<1>3. CASE o # NoReg /\ x.kind = "reg"
  <2> DEFINE d == [regs[o] EXCEPT !.expected = x, !.type = regs[x.reg].type, !.storage = regs[x.reg].storage,
                                  !.output = regs[x.reg].output]
             k == Put(regs, o, d)
  <2>1. /\ ins.args # <<>>
        /\ info' = [regs EXCEPT ![o].expected = x, ![o].type = regs[x.reg].type,
                                ![o].storage = regs[x.reg].storage, ![o].output = regs[x.reg].output]
    BY <1>1, <1>3 DEF COPY, Continue, Refuse
  <2>2. x.reg \in DOMAIN regs
    BY <1>1, <1>3, <2>1, ArgumentsReady
  <2>3. info' = k
    BY <2>1 DEF Put
  <2>4. IsInfo(regs[o]) /\ o \in DOMAIN regs
    BY <1>3 DEF Ready, Infos
  <2>5. IsInfo(d) /\ d.begin = regs[o].begin /\ d.end = regs[o].end /\ d.type = regs[x.reg].type /\ d.expected = x
    BY <2>4 DEF IsInfo, Facts
  <2> HIDE DEF d, x
  <2>6. DOMAIN k = DOMAIN regs /\ k[o] = d /\ (x.reg # o => k[x.reg] = regs[x.reg])
    BY <2>2, <2>4 DEF Put
  <2>7. d.type \in Type \cup {Unset}
    BY <2>2, <2>5 DEF Ready, Typing
  <2>8. k[x.reg].type = d.type
    BY <2>5, <2>6
  <2> HIDE DEF k
  <2>9. Fitting(k, o, ins.op)
    BY <1>3, <2>2, <2>5, <2>6, <2>7, <2>8 DEF Fitting
  <2> QED BY <1>3, <2>3, <2>5, <2>9, PutResult DEF k
<1>4. CASE o # NoReg /\ x.kind # "reg"
  <2>1. ins.args # <<>> /\ x.kind # "type" /\ (x.kind = "ref" => ObjectType(x.entity) # Malformed)
    BY <1>3, <1>4 DEF COPY, Refuse
  <2> DEFINE v == IF x.kind = "ref" THEN x ELSE ConstValue(regs, x)
  <2>2. PICK t \in ValueTypes(regs, x) : info' = [regs EXCEPT ![o].expected = v, ![o].type = t]
    BY <1>1, <1>4, <2>1 DEF COPY, Continue
  <2> DEFINE d == [regs[o] EXCEPT !.expected = v, !.type = t]
  <2>3. info' = Put(regs, o, d)
    BY <2>2 DEF Put
  <2>4. 1 \in DOMAIN ins.args /\ x \in Operands
    BY <1>1, <2>1
  <2>5. t \in Type
    BY <1>4, <2>2, <2>4, OperandTypes DEF Ready
  <2>6. /\ v.kind = "literal" => t = v.type
        /\ v.kind # "reg"
        /\ v.kind = "ref" => t = ObjectType(v.entity)
    <3>1. CASE x.kind = "literal"
      BY <2>2, <3>1 DEF ConstValue, ValueTypes
    <3>2. CASE x.kind = "offset"
      BY <2>2, <3>2 DEF ConstValue, ValueTypes, Literal
    <3>3. CASE x.kind = "ref"
      BY <2>2, <3>3 DEF ValueTypes
    <3>4. CASE x.kind \notin {"literal", "offset", "ref"}
      BY <1>4, <3>4 DEF ConstValue, Unknown
    <3> QED BY <3>1, <3>2, <3>3, <3>4
  <2> HIDE DEF v, x
  <2>7. IsInfo(regs[o])
    BY <1>4 DEF Ready, Infos
  <2>8. IsInfo(d) /\ d.begin = regs[o].begin /\ d.end = regs[o].end /\ d.type = t /\ d.expected = v
    BY <2>7 DEF IsInfo, Facts
  <2> HIDE DEF d
  <2> QED BY <1>4, <2>3, <2>5, <2>6, <2>8, FitResult
<1> QED BY <1>2, <1>3, <1>4

\* The records of arguments, local variables and elements of arrays.
LEMMA VariableResult ==
  ASSUME NEW ins, NEW regs, Ready(ins, regs), LARG(ins) \/ (LVAR(ins) /\ ins.op = "LVAR") \/ AT(ins),
         outcome = "running", outcome' = "running"
  PROVE  Result(ins, regs, info')
<1> DEFINE o == ins.out
<1>1. regs = Extended(ins) /\ ins.args \in Seq(Operands)
  BY DEF Ready, Ins
<1>2. CASE info' = regs /\ o = NoReg
  BY <1>2, SameResult
<1>3. ASSUME o # NoReg, NEW t \in Type, NEW s, NEW b,
             info' = [regs EXCEPT ![o].type = RefTo(t), ![o].storage = s, ![o].output = b]
      PROVE  Result(ins, regs, info')
  <2> DEFINE d == [regs[o] EXCEPT !.type = RefTo(t), !.storage = s, !.output = b]
  <2>1. info' = Put(regs, o, d)
    BY <1>3 DEF Put
  <2>2. IsInfo(regs[o]) /\ regs[o].expected = Unknown
    BY <1>3 DEF Ready, Infos
  <2>3. IsInfo(d) /\ d.begin = regs[o].begin /\ d.end = regs[o].end /\ d.type = RefTo(t) /\ d.expected = Unknown
    BY <2>2 DEF IsInfo, Facts
  <2> HIDE DEF d
  <2>4. Unknown.kind = "undefined"
    BY DEF Unknown
  <2>5. RefTo(t) \in Type
    BY <1>3, TypesMade
  <2>6. Result(ins, regs, Put(regs, o, d))
    BY <1>3, <2>3, <2>4, <2>5, FitResult
  <2> QED BY <2>1, <2>6
<1>4. LARG(ins) => Result(ins, regs, info')
  <2> SUFFICES ASSUME LARG(ins), o # NoReg PROVE Result(ins, regs, info')
    BY <1>1, <1>2 DEF LARG, Continue
  <2> DEFINE i == ins.args[1].n + 1
             t == IF i \in DOMAIN Params THEN Params[i] ELSE ArrayOf(<<"Any">>)
  <2>1. info' = [regs EXCEPT ![o].type = IF i \in DOMAIN Params THEN RefTo(Params[i]) ELSE RefTo(ArrayOf(<<"Any">>)),
                             ![o].storage = "ArgRef", ![o].output = FALSE]
    BY <1>1 DEF LARG, Checked, Continue, Refuse
  <2>2. (IF i \in DOMAIN Params THEN RefTo(Params[i]) ELSE RefTo(ArrayOf(<<"Any">>))) = RefTo(t)
    OBVIOUS
  <2>3. t \in Type
    <3>1. \A j \in DOMAIN Params : Params[j] \in Simple(ScalarIds)
      BY ProgAnalAssumption
    <3> QED BY <3>1, TypesAre, TypesMade
  <2> HIDE DEF t
  <2>4. info' = [regs EXCEPT ![o].type = RefTo(t), ![o].storage = "ArgRef", ![o].output = FALSE]
    BY <2>1, <2>2
  <2> QED BY <1>3, <2>3, <2>4
<1>5. (LVAR(ins) /\ ins.op = "LVAR") => Result(ins, regs, info')
  <2> SUFFICES ASSUME LVAR(ins), ins.op = "LVAR" PROVE Result(ins, regs, info')
    OBVIOUS
  <2> DEFINE t == ins.args[1].type
             x == Refers([kind |-> "Indeterminate"])
             d == [regs[o] EXCEPT !.type = RefTo(t), !.storage = "LocalVar", !.expected = x]
  <2>1. /\ o # NoReg /\ IsType(ins, 1)
        /\ info' = [regs EXCEPT ![o].type = RefTo(t), ![o].storage = "LocalVar", ![o].expected = x]
    BY <1>1 DEF LVAR, Continue, Refuse
  <2>2. t \in Type
    BY <1>1, <2>1, OperandsAre DEF IsType
  <2>3. info' = Put(regs, o, d)
    BY <2>1 DEF Put
  <2>4. x.kind = "ref"
    BY DEF Refers
  <2> HIDE DEF x
  <2>5. IsInfo(regs[o])
    BY <2>1 DEF Ready, Infos
  <2>6. IsInfo(d) /\ d.begin = regs[o].begin /\ d.end = regs[o].end /\ d.type = RefTo(t) /\ d.expected = x
    BY <2>5 DEF IsInfo, Facts
  <2>7. ins.op = "LVAR"
    OBVIOUS
  <2> HIDE DEF d, t
  <2>8. RefTo(t) \in Type
    BY <2>2, TypesMade
  <2>9. Result(ins, regs, Put(regs, o, d))
    BY <2>1, <2>4, <2>6, <2>7, <2>8, FitResult
  <2> QED BY <2>3, <2>9
<1>6. AT(ins) => Result(ins, regs, info')
  <2> SUFFICES ASSUME AT(ins), o # NoReg PROVE Result(ins, regs, info')
    BY <1>1, <1>2 DEF AT, Continue
  <2>1. PICK t \in Known(regs, ins.args[1].reg) :
           /\ IsReg(ins, 1)
           /\ info' = [Typed(ins, regs, RefTo(Tail(t))) EXCEPT ![o].storage = "ArrayElement"]
    BY <1>1 DEF AT, Checked, Continue, Refuse
  <2>2. t \in Type
    BY <1>1, <2>1, ArgumentsReady, KnownTypes DEF IsReg, Ready
  <2> DEFINE d == [regs[o] EXCEPT !.type = RefTo(Tail(t)), !.storage = "ArrayElement"]
  <2>3. info' = Put(regs, o, d)
    <3>1. o \in DOMAIN regs
      BY DEF Ready
    <3> QED BY <2>1, <3>1 DEF Put, Typed
  <2>4. IsInfo(regs[o]) /\ regs[o].expected = Unknown
    BY DEF Ready, Infos
  <2>5. IsInfo(d) /\ d.begin = regs[o].begin /\ d.end = regs[o].end /\ d.type = RefTo(Tail(t)) /\ d.expected = Unknown
    BY <2>4 DEF IsInfo, Facts
  <2> HIDE DEF d
  <2>6. Unknown.kind = "undefined"
    BY DEF Unknown
  <2> QED BY <2>2, <2>3, <2>5, <2>6, TypesMade, FitResult
<1> QED BY <1>4, <1>5, <1>6

-----------------------------------------------------------------------------
(* Casts, and all operations together.                                     *)

\* CAST gives a Result.
LEMMA CastResult ==
  ASSUME NEW ins, NEW regs, Ready(ins, regs), CAST(ins), outcome = "running", outcome' = "running"
  PROVE  Result(ins, regs, info')
<1> DEFINE o == ins.out
           to == ins.args[1].type
           x == ins.args[2]
<1>1. regs = Extended(ins) /\ ins.args \in Seq(Operands)
  BY DEF Ready, Ins
<1>2. Len(ins.args) = 2 /\ IsType(ins, 1)
  BY DEF CAST, Refuse
<1>3. PICK from \in ValueTypes(regs, x) :
        IF Head(from) = "Instance" THEN Continue(Typed(ins, regs, to))
        ELSE IF from \notin Simple(ScalarIds) \/ to \notin Cast(Head(from)).to THEN Refuse("malformed")
        ELSE IF ConstValue(regs, x) = Unknown THEN Continue(Typed(ins, regs, to))
        ELSE IF ConstValue(regs, x) # Literal(Cast(Head(from)).getter) \/ ins.out = NoReg THEN Refuse("asserted")
        ELSE Continue([Typed(ins, regs, to) EXCEPT ![o].expected = Literal(Head(to))])
  BY <1>1, <1>2 DEF CAST
<1>4. to \in Type
  BY <1>1, <1>2, OperandsAre DEF IsType
<1>5. \/ info' = Typed(ins, regs, to)
      \/ /\ from \in Simple(ScalarIds) /\ to \in Cast(Head(from)).to /\ o # NoReg
         /\ info' = [Typed(ins, regs, to) EXCEPT ![o].expected = Literal(Head(to))]
  BY <1>3, Zenon DEF Continue, Refuse
<1> HIDE DEF x
<1>6. CASE info' = Typed(ins, regs, to)
  BY <1>4, <1>6, TypedResult
<1>7. CASE /\ from \in Simple(ScalarIds) /\ to \in Cast(Head(from)).to /\ o # NoReg
           /\ info' = [Typed(ins, regs, to) EXCEPT ![o].expected = Literal(Head(to))]
  <2> DEFINE d == [regs[o] EXCEPT !.type = to, !.expected = Literal(Head(to))]
  <2>1. to \in Simple(ScalarIds)
    <3>1. PICK id \in ScalarIds : from = <<id>>
      BY <1>7 DEF Simple
    <3>2. Head(from) \in ScalarIds
      BY <3>1
    <3>3. \A i \in ScalarIds : Cast(i).to = Simple(ScalarIds)
      BY DEF Cast, CastI8, CastI16, CastI32, CastI64, CastU8, CastU16, CastU32, CastU64, CastBool, CastF32, CastF64,
             From, ScalarIds, NumberIds, IntIds, SignedIds, UnsignedIds
    <3> QED BY <1>7, <3>2, <3>3
  <2>2. Literal(Head(to)).type = to /\ Literal(Head(to)).kind = "literal"
    BY <2>1 DEF Simple, Literal
  <2>3. IsInfo(regs[o]) /\ o \in DOMAIN regs
    BY <1>7 DEF Ready, Infos
  <2>4. info' = Put(regs, o, d)
    BY <1>7, <2>3 DEF Put, Typed
  <2>5. IsInfo(d) /\ d.begin = regs[o].begin /\ d.end = regs[o].end /\ d.type = to /\ d.expected = Literal(Head(to))
    BY <2>3 DEF IsInfo, Facts
  <2> HIDE DEF d, to
  <2>6. Result(ins, regs, Put(regs, o, d))
    BY <1>4, <1>7, <2>2, <2>5, FitResult
  <2> QED BY <2>4, <2>6
<1> QED BY <1>5, <1>6, <1>7

\* The operations that only find a type.
LEMMA TypingResult ==
  ASSUME NEW ins, NEW regs, Ready(ins, regs), outcome = "running", outcome' = "running",
         \/ LVALUE(ins)
         \/ ins.op \in BinaryOps /\ BinaryIns(ins)
         \/ CallIns(ins) \/ LTHIS(ins) \/ NEWINS(ins) \/ ARRNEW(ins)
  PROVE  Result(ins, regs, info')
<1>1. regs = Extended(ins) /\ ins.args \in Seq(Operands)
  BY DEF Ready, Ins
<1>2. SUFFICES ASSUME ~ (info' = regs /\ ins.out = NoReg)
               PROVE  \E t \in Type : info' = Typed(ins, regs, t)
  BY SameResult, TypedResult
<1>3. \A j \in DOMAIN ins.args : ValueTypes(regs, ins.args[j]) \subseteq Type
  BY ArgumentsReady, OperandTypes DEF Ready
<1>4. \A j : IsReg(ins, j) => Known(regs, ins.args[j].reg) \subseteq Type
  BY ArgumentsReady, KnownTypes DEF IsReg, Ready
<1>5. \A j : IsType(ins, j) => ins.args[j].type \in Type
  BY <1>1, OperandsAre DEF IsType
<1>6. LVALUE(ins) => \E t \in Type : info' = Typed(ins, regs, t)
  BY <1>1, <1>2, <1>4, TypesMade DEF LVALUE, Checked, Continue, Refuse
<1>7. ins.op \in BinaryOps /\ BinaryIns(ins) => \E t \in Type : info' = Typed(ins, regs, t)
  <2> SUFFICES ASSUME ins.op \in BinaryOps, BinaryIns(ins) PROVE \E t \in Type : info' = Typed(ins, regs, t)
    OBVIOUS
  <2>1. PICK l, r : info' = Typed(ins, regs, Binary(ins.op, l, r))
    BY <1>1 DEF BinaryIns, Checked, Continue, Refuse
  <2>2. Binary(ins.op, l, r) \in Type
    BY BinaryTypes, TypesAre
  <2> QED BY <2>1, <2>2
<1>8. CallIns(ins) => \E t \in Type : info' = Typed(ins, regs, t)
  <2> SUFFICES ASSUME CallIns(ins) PROVE \E t \in Type : info' = Typed(ins, regs, t)
    OBVIOUS
  <2>1. PICK t \in Known(regs, ins.args[1].reg) : IsReg(ins, 1) /\ info' = Typed(ins, regs, Tail(t))
    BY <1>1 DEF CallIns, Refuse
  <2> QED BY <1>4, <2>1, TypesMade
<1>9. LTHIS(ins) => \E t \in Type : info' = Typed(ins, regs, t)
  BY <1>1, ProgAnalAssumption DEF LTHIS, Checked, Continue, Refuse
<1>10. NEWINS(ins) => \E t \in Type : info' = Typed(ins, regs, t)
  BY <1>1, <1>5 DEF NEWINS, Continue, Refuse
<1>11. ARRNEW(ins) => \E t \in Type : info' = Typed(ins, regs, t)
  BY <1>1, <1>5, TypesMade DEF ARRNEW, Checked, Continue, Refuse
<1> QED BY <1>6, <1>7, <1>8, <1>9, <1>10, <1>11

\* The operations that find nothing.
LEMMA SilentResult ==
  ASSUME NEW ins, NEW regs, Ready(ins, regs), outcome = "running", outcome' = "running",
         \/ WithoutResult(ins) \/ JMP(ins) \/ PUSHARG(ins) \/ RET(ins) \/ YIELD(ins)
         \/ ins.op \in UnaryOps /\ UnaryIns(ins)
         \/ ins.op \in {"ENTER", "LEAVE", "LEXCEPT"} /\ Ignored(ins)
  PROVE  Result(ins, regs, info')
<1>1. regs = Extended(ins) /\ ins.args \in Seq(Operands)
  BY DEF Ready, Ins
<1>2. WithoutResult(ins) => Result(ins, regs, info')
  BY <1>1, SameResult DEF WithoutResult, Checked, Continue, Refuse
<1>3. JMP(ins) \/ YIELD(ins) => Result(ins, regs, info')
  BY <1>1, SameResult DEF JMP, YIELD, Refuse
<1>4. PUSHARG(ins) \/ RET(ins) => Result(ins, regs, info')
  <2> SUFFICES ASSUME PUSHARG(ins) \/ RET(ins) PROVE Result(ins, regs, info')
    OBVIOUS
  <2>1. Passable(ins) /\ info' = MarkedForOutput(regs, ins.args[1])
    BY <1>1 DEF PUSHARG, RET, Refuse
  <2>2. ins.out = NoReg /\ 1 \in DOMAIN ins.args
    BY <1>1, <2>1 DEF Passable
  <2>3. ins.args[1].kind = "reg" => ins.args[1].reg \in DOMAIN regs
    BY <2>2, ArgumentsReady
  <2> QED BY <2>1, <2>2, <2>3, MarkedResult
<1>5. ASSUME info' = regs, ins.op \in UnaryOps \cup {"ENTER", "LEAVE", "LEXCEPT"} PROVE Result(ins, regs, info')
  <2>1. Unknown.kind = "undefined"
    BY DEF Unknown
  <2> QED BY <1>5, <2>1 DEF Result, Ready, Fitting
<1>6. UnaryIns(ins) \/ Ignored(ins) => info' = regs
  BY <1>1 DEF UnaryIns, Ignored, Checked, Continue, Refuse
<1> QED BY <1>2, <1>3, <1>4, <1>5, <1>6

\* Every operation gives a Result.
LEMMA AnalysisResult ==
  ASSUME NEW ins, NEW regs, Ready(ins, regs), Analyze(ins), outcome = "running", outcome' = "running"
  PROVE  Result(ins, regs, info')
<1>1. ins.op = "RLOAD" => (ins.args # <<>> => Len(ins.args) = 2)
  BY DEF Ready, Ins, Arity
<1>2. \/ LOAD(ins) \/ (RLOAD(ins) /\ ins.op = "RLOAD")
      \/ (COPY(ins) /\ ins.op = "COPY")
      \/ LARG(ins) \/ (LVAR(ins) /\ ins.op = "LVAR") \/ AT(ins) \/ CAST(ins)
      \/ LVALUE(ins) \/ (ins.op \in BinaryOps /\ BinaryIns(ins)) \/ CallIns(ins) \/ LTHIS(ins) \/ NEWINS(ins)
      \/ ARRNEW(ins)
      \/ WithoutResult(ins) \/ JMP(ins) \/ PUSHARG(ins) \/ RET(ins) \/ YIELD(ins)
      \/ (ins.op \in UnaryOps /\ UnaryIns(ins))
      \/ (ins.op \in {"ENTER", "LEAVE", "LEXCEPT"} /\ Ignored(ins))
      \/ Refuse("malformed")
  BY Zenon DEF Analyze
<1>3. ~ Refuse("malformed")
  BY DEF Refuse
<1>4. LOAD(ins) \/ (RLOAD(ins) /\ ins.op = "RLOAD") \/ (COPY(ins) /\ ins.op = "COPY") \/ CAST(ins)
      => Result(ins, regs, info')
  BY <1>1, LoadResult, RloadResult, CopyResult, CastResult
<1>5. LARG(ins) \/ (LVAR(ins) /\ ins.op = "LVAR") \/ AT(ins) => Result(ins, regs, info')
  BY VariableResult
<1>6. \/ LVALUE(ins) \/ (ins.op \in BinaryOps /\ BinaryIns(ins)) \/ CallIns(ins) \/ LTHIS(ins) \/ NEWINS(ins)
      \/ ARRNEW(ins)
      => Result(ins, regs, info')
  BY TypingResult
<1>7. \/ WithoutResult(ins) \/ JMP(ins) \/ PUSHARG(ins) \/ RET(ins) \/ YIELD(ins)
      \/ (ins.op \in UnaryOps /\ UnaryIns(ins))
      \/ (ins.op \in {"ENTER", "LEAVE", "LEXCEPT"} /\ Ignored(ins))
      => Result(ins, regs, info')
  BY SilentResult
<1> QED BY <1>2, <1>3, <1>4, <1>5, <1>6, <1>7, Zenon

-----------------------------------------------------------------------------
(* Registers in terms of the program.                                      *)

\* What is known of each register in terms of the program.
RegistersAre ==
  Accepted =>
    /\ Infos(info) /\ NoReg \notin DOMAIN info
    /\ \A i \in 0 .. (Len(program) - 1) : Uses(program[i + 1]) \cup ({program[i + 1].out} \ {NoReg}) \subseteq DOMAIN info
    /\ \A r \in DOMAIN info :
         /\ info[r].begin \in 0 .. (Len(program) - 1) /\ program[info[r].begin + 1].out = r
         /\ \A i \in 0 .. (Len(program) - 1) : program[i + 1].out = r => i = info[r].begin
         /\ info[r].end \in info[r].begin .. (Len(program) - 1)
         /\ info[r].end = info[r].begin \/ r \in Uses(program[info[r].end + 1])
         /\ \A i \in 0 .. (Len(program) - 1) : r \in Uses(program[i + 1]) => info[r].begin <= i /\ i <= info[r].end
         /\ Fitting(info, r, program[info[r].begin + 1].op)

\* Steps keep RegistersAre.
LEMMA RegistersNext ==
  ASSUME ProgTyped, RegistersAre, [ProgNext]_anal
  PROVE  RegistersAre'
<1>1. ASSUME NEW ins \in Ins, Step(ins) PROVE RegistersAre'
  <2> DEFINE n == Len(program)
             p == program
             q == program'
             m == info
             k == info'
             regs == Extended(ins)
  <2>1. /\ n \in Nat /\ Len(q) = n + 1 /\ q[n + 1] = ins
        /\ \A i \in 0 .. (n - 1) : q[i + 1] = p[i + 1]
    BY <1>1 DEF Step, ProgTyped
  <2>2. Accepted /\ Analyze(ins) /\ Admitted(ins) /\ outcome = "running" /\ outcome' = "running" /\ Index = n
    BY <1>1 DEF Step, Accepted, Index
  <2>3. /\ Infos(m) /\ NoReg \notin DOMAIN m
        /\ \A i \in 0 .. (n - 1) : Uses(p[i + 1]) \cup ({p[i + 1].out} \ {NoReg}) \subseteq DOMAIN m
    BY <2>2 DEF RegistersAre
  <2>4. ASSUME NEW r \in DOMAIN m
        PROVE  /\ m[r].begin \in 0 .. (n - 1) /\ p[m[r].begin + 1].out = r
               /\ \A i \in 0 .. (n - 1) : p[i + 1].out = r => i = m[r].begin
               /\ m[r].end \in m[r].begin .. (n - 1)
               /\ m[r].end = m[r].begin \/ r \in Uses(p[m[r].end + 1])
               /\ \A i \in 0 .. (n - 1) : r \in Uses(p[i + 1]) => m[r].begin <= i /\ i <= m[r].end
               /\ Fitting(m, r, p[m[r].begin + 1].op)
    BY <2>2 DEF RegistersAre
  <2> HIDE DEF n, p, q, k, regs, m
  <2>5. /\ Infos(regs) /\ DOMAIN regs = DOMAIN m \cup ({ins.out} \ {NoReg}) /\ NoReg \notin DOMAIN regs
        /\ Uses(ins) \subseteq DOMAIN regs
        /\ \A r \in DOMAIN m :
             /\ r # ins.out /\ regs[r].begin = m[r].begin /\ regs[r].type = m[r].type
             /\ regs[r].expected = m[r].expected
             /\ regs[r].end = IF r \in Uses(ins) THEN n ELSE m[r].end
        /\ ins.out # NoReg => /\ ins.out \notin DOMAIN m /\ regs[ins.out].begin = n /\ regs[ins.out].end = n
                              /\ regs[ins.out].type = Unset /\ regs[ins.out].expected = Unknown
    <3>1. Infos(info) /\ NoReg \notin DOMAIN info /\ Index \in Nat /\ regs = Extended(ins)
      BY <2>1, <2>2, <2>3 DEF regs, m
    <3>2. /\ Infos(regs) /\ DOMAIN regs = DOMAIN info \cup ({ins.out} \ {NoReg}) /\ NoReg \notin DOMAIN regs
          /\ Uses(ins) \subseteq DOMAIN regs
          /\ \A r \in DOMAIN info :
               /\ r # ins.out /\ regs[r].begin = info[r].begin /\ regs[r].type = info[r].type
               /\ regs[r].expected = info[r].expected
               /\ regs[r].end = IF r \in Uses(ins) THEN Index ELSE info[r].end
          /\ ins.out # NoReg => /\ ins.out \notin DOMAIN info /\ regs[ins.out].begin = Index /\ regs[ins.out].end = Index
                                /\ regs[ins.out].type = Unset /\ regs[ins.out].expected = Unknown
      BY <2>2, <3>1, ExtendedIs
    <3> QED BY <2>2, <3>2 DEF m
  <2>6. Ready(ins, regs)
    <3>1. Typing(regs)
      <4>1. \A r \in DOMAIN m : m[r].type \in Type \cup {Unset}
        BY <2>4 DEF Fitting
      <4>2. \A r \in DOMAIN regs : r \in DOMAIN m \/ (r = ins.out /\ ins.out # NoReg)
        BY <2>5
      <4> QED BY <2>5, <4>1, <4>2 DEF Typing
    <3> QED BY <2>5, <3>1 DEF Ready, regs
  <2>7. Result(ins, regs, k)
    BY <2>2, <2>6, AnalysisResult DEF k
  <2>8. /\ Infos(k) /\ DOMAIN k = DOMAIN m \cup ({ins.out} \ {NoReg}) /\ NoReg \notin DOMAIN k
        /\ \A r \in DOMAIN m :
             /\ k[r].begin = m[r].begin /\ k[r].type = m[r].type /\ k[r].expected = m[r].expected
             /\ k[r].end = IF r \in Uses(ins) THEN n ELSE m[r].end
        /\ ins.out # NoReg => k[ins.out].begin = n /\ k[ins.out].end = n /\ Fitting(k, ins.out, ins.op)
    <3>1. /\ Infos(k) /\ DOMAIN k = DOMAIN regs
          /\ \A r \in DOMAIN regs :
               /\ k[r].begin = regs[r].begin /\ k[r].end = regs[r].end
               /\ r # ins.out => k[r].type = regs[r].type /\ k[r].expected = regs[r].expected
          /\ ins.out # NoReg => Fitting(k, ins.out, ins.op)
      BY <2>7 DEF Result
    <3>2. ASSUME NEW r \in DOMAIN m
          PROVE  /\ k[r].begin = m[r].begin /\ k[r].type = m[r].type /\ k[r].expected = m[r].expected
                 /\ k[r].end = IF r \in Uses(ins) THEN n ELSE m[r].end
      BY <2>5, <3>1
    <3>3. ins.out # NoReg => k[ins.out].begin = n /\ k[ins.out].end = n
      BY <2>5, <3>1
    <3> QED BY <2>5, <3>1, <3>2, <3>3
  <2>9. \A i \in 0 .. n : i = n \/ i \in 0 .. (n - 1)
    BY <2>1
  <2>10. \A i \in 0 .. n : Uses(q[i + 1]) \cup ({q[i + 1].out} \ {NoReg}) \subseteq DOMAIN k
    BY <2>1, <2>3, <2>5, <2>8, <2>9
  <2>11. ASSUME NEW r \in DOMAIN m
         PROVE  /\ k[r].begin \in 0 .. n /\ q[k[r].begin + 1].out = r
                /\ \A i \in 0 .. n : q[i + 1].out = r => i = k[r].begin
                /\ k[r].end \in k[r].begin .. n
                /\ k[r].end = k[r].begin \/ r \in Uses(q[k[r].end + 1])
                /\ \A i \in 0 .. n : r \in Uses(q[i + 1]) => k[r].begin <= i /\ i <= k[r].end
                /\ Fitting(k, r, q[k[r].begin + 1].op)
    <3> DEFINE b == m[r].begin
               e == m[r].end
    <3>1. k[r].begin = b /\ k[r].type = m[r].type /\ k[r].expected = m[r].expected
      BY <2>8
    <3>2. b \in 0 .. (n - 1) /\ e \in b .. (n - 1) /\ p[b + 1].out = r
      BY <2>4
    <3>3. q[b + 1] = p[b + 1]
      BY <2>1, <3>2
    <3>4. \A i \in 0 .. n : q[i + 1].out = r => i = b
      <4>1. ASSUME NEW i \in 0 .. n, q[i + 1].out = r PROVE i = b
        <5>1. i # n
          BY <2>1, <2>5, <4>1
        <5>2. i \in 0 .. (n - 1) /\ q[i + 1] = p[i + 1]
          BY <2>1, <2>9, <5>1
        <5> QED BY <2>4, <4>1, <5>2
      <4> QED BY <4>1
    <3>5. Fitting(k, r, q[b + 1].op)
      <4>1. Fitting(m, r, p[b + 1].op)
        BY <2>4
      <4>2. \A s \in DOMAIN m : s \in DOMAIN k /\ k[s].type = m[s].type
        BY <2>8
      <4> QED BY <3>1, <3>3, <4>1, <4>2 DEF Fitting
    <3>6. CASE r \in Uses(ins)
      <4>1. k[r].end = n
        BY <2>8, <3>6
      <4>2. ASSUME NEW i \in 0 .. n, r \in Uses(q[i + 1]) PROVE b <= i /\ i <= n
        <5>1. CASE i = n
          BY <2>1, <3>2, <5>1
        <5>2. CASE i \in 0 .. (n - 1)
          BY <2>1, <2>4, <4>2, <5>2
        <5> QED BY <2>9, <5>1, <5>2
      <4>3. n \in b .. n /\ b \in 0 .. n
        BY <2>1, <3>2
      <4>4. r \in Uses(q[n + 1])
        BY <2>1, <3>6
      <4> HIDE DEF b, e
      <4>5. k[r].begin \in 0 .. n /\ q[k[r].begin + 1].out = r /\ k[r].end \in k[r].begin .. n
        BY <3>1, <3>2, <3>3, <4>1, <4>3
      <4> QED BY <3>1, <3>4, <3>5, <4>1, <4>2, <4>4, <4>5
    <3>7. CASE r \notin Uses(ins)
      <4>1. k[r].end = e
        BY <2>8, <3>7
      <4>2. \A i \in 0 .. n : r \in Uses(q[i + 1]) => b <= i /\ i <= e
        BY <2>1, <2>4, <2>9, <3>7
      <4>3. e = b \/ r \in Uses(q[e + 1])
        <5>1. e \in 0 .. (n - 1)
          BY <2>1, <3>2
        <5> QED BY <2>1, <2>4, <5>1
      <4> HIDE DEF b, e
      <4> QED BY <2>1, <3>1, <3>2, <3>3, <3>4, <3>5, <4>1, <4>2, <4>3
    <3> QED BY <3>6, <3>7
  <2>12. ASSUME NEW r, r = ins.out, ins.out # NoReg
         PROVE  /\ k[r].begin \in 0 .. n /\ q[k[r].begin + 1].out = r
                /\ \A i \in 0 .. n : q[i + 1].out = r => i = k[r].begin
                /\ k[r].end \in k[r].begin .. n
                /\ k[r].end = k[r].begin \/ r \in Uses(q[k[r].end + 1])
                /\ \A i \in 0 .. n : r \in Uses(q[i + 1]) => k[r].begin <= i /\ i <= k[r].end
                /\ Fitting(k, r, q[k[r].begin + 1].op)
    <3>1. k[r].begin = n /\ k[r].end = n /\ Fitting(k, r, ins.op) /\ r \notin DOMAIN m
      BY <2>5, <2>8, <2>12
    <3>2. \A i \in 0 .. (n - 1) : r \notin Uses(q[i + 1]) /\ q[i + 1].out # r
      BY <2>1, <2>3, <2>12, <3>1
    <3> QED BY <2>1, <2>9, <2>12, <3>1, <3>2
  <2>13. \A r \in DOMAIN k : r \in DOMAIN m \/ (r = ins.out /\ ins.out # NoReg)
    BY <2>8
  <2>14. Len(q) - 1 = n
    BY <2>1
  <2> QED BY <2>8, <2>10, <2>11, <2>12, <2>13, <2>14 DEF RegistersAre, q, k
<1>2. CASE Pause
  BY <1>2 DEF Pause, RegistersAre, Accepted
<1> QED BY <1>1, <1>2, ProgCases, Zenon

\* What is stored about a register is true of the program: it is written once, at the
\* beginning of its lifetime, read only within it, and its type is the one of the
\* expected value it was given, for every program and every table of entities
\* (analyze_program_info in opti/proganal.cc).
THEOREM RegistersWellDescribed == ProgSpec => []RegistersDescribed
<1>1. ProgInit => ProgTyped /\ RegistersAre
  <2> SUFFICES ASSUME ProgInit PROVE ProgTyped /\ RegistersAre
    OBVIOUS
  <2>1. DOMAIN info = {} /\ Infos(info) /\ Len(program) = 0
    BY DEF ProgInit, Infos
  <2>2. ProgTyped
    BY DEF ProgInit, ProgTyped
  <2> QED BY <2>1, <2>2 DEF RegistersAre
<1>2. ProgTyped /\ RegistersAre => RegistersDescribed
  <2> SUFFICES ASSUME ProgTyped, RegistersAre, Accepted PROVE LifetimesExact /\ ExpectedFitsType
    BY DEF RegistersDescribed, LifetimesExact, ExpectedFitsType
  <2> DEFINE n == Len(program)
             p == program
             m == info
  <2>1. n \in Nat /\ Indices = 0 .. (n - 1)
    BY DEF ProgTyped, Indices, Index
  <2>2. /\ Infos(m) /\ NoReg \notin DOMAIN m
        /\ \A i \in 0 .. (n - 1) : Uses(p[i + 1]) \cup ({p[i + 1].out} \ {NoReg}) \subseteq DOMAIN m
    BY DEF RegistersAre
  <2>3. ASSUME NEW r \in DOMAIN m
        PROVE  /\ m[r].begin \in 0 .. (n - 1) /\ p[m[r].begin + 1].out = r
               /\ \A i \in 0 .. (n - 1) : p[i + 1].out = r => i = m[r].begin
               /\ m[r].end \in m[r].begin .. (n - 1)
               /\ m[r].end = m[r].begin \/ r \in Uses(p[m[r].end + 1])
               /\ \A i \in 0 .. (n - 1) : r \in Uses(p[i + 1]) => m[r].begin <= i /\ i <= m[r].end
               /\ Fitting(m, r, p[m[r].begin + 1].op)
    BY DEF RegistersAre
  <2>4. LifetimesExact
    <3>1. ASSUME NEW r \in DOMAIN m
          PROVE  LET readers == {i \in Indices : r \in Uses(At(i))}
                 IN /\ {i \in Indices : At(i).out = r} = {m[r].begin}
                    /\ \A i \in readers : m[r].begin <= i
                    /\ m[r].end = Max(readers \cup {m[r].begin})
      <4> DEFINE readers == {i \in Indices : r \in Uses(At(i))}
                 b == m[r].begin
                 e == m[r].end
                 S == readers \cup {b}
      <4>1. {i \in Indices : At(i).out = r} = {b}
        BY <2>1, <2>3 DEF At
      <4>2. \A i \in readers : b <= i /\ i <= e /\ i \in Nat
        BY <2>1, <2>3 DEF At
      <4>3. b \in Nat /\ e \in Nat /\ b <= e
        BY <2>1, <2>3
      <4>4. e \in S
        <5>1. e \in Indices
          BY <2>1, <2>3
        <5> QED BY <2>3, <5>1 DEF At
      <4> HIDE DEF b, e, readers
      <4>5. \A y \in S : y \in Nat /\ e >= y
        BY <4>2, <4>3
      <4> HIDE DEF S
      <4>6. \A x \in S : (\A y \in S : x >= y) => x = e
        BY <4>3, <4>4, <4>5
      <4>7. Max(S) = e
        BY <4>4, <4>5, <4>6, Zenon DEF Max
      <4> QED BY <4>1, <4>2, <4>7 DEF b, e, readers, S
    <3>2. \A i \in Indices : Uses(At(i)) \cup ({At(i).out} \ {NoReg}) \subseteq DOMAIN m
      BY <2>1, <2>2 DEF At
    <3> QED BY <3>1, <3>2 DEF LifetimesExact
  <2>5. ExpectedFitsType
    BY <2>3 DEF ExpectedFitsType, Fitting, At
  <2> QED BY <2>4, <2>5
<1> QED BY <1>1, <1>2, TypedNext, RegistersNext, PTL DEF ProgSpec

-----------------------------------------------------------------------------
(* The boundaries in their order.                                          *)

Rank(B, b) == Cardinality({a \in B : a < b})

\* A rank is a number.
LEMMA RankIsNumber ==
  ASSUME NEW B \in SUBSET Nat, IsFiniteSet(B), NEW b
  PROVE  IsFiniteSet({a \in B : a < b}) /\ Rank(B, b) \in Nat
<1>1. {a \in B : a < b} \in SUBSET B
  OBVIOUS
<1> QED BY <1>1, FS_Subset, FS_CardinalityType DEF Rank

\* Greater elements have greater ranks.
LEMMA RankGrows ==
  ASSUME NEW B \in SUBSET Nat, IsFiniteSet(B), NEW b \in B, NEW d \in Nat, b < d
  PROVE  Rank(B, b) < Rank(B, d)
<1> DEFINE S == {a \in B : a < b}
           T == {a \in B : a < d}
<1>1. IsFiniteSet(S) /\ IsFiniteSet(T) /\ Rank(B, b) \in Nat /\ Rank(B, d) \in Nat
  BY RankIsNumber
<1>2. S \in SUBSET T /\ S # T
  <2>1. \A a \in B : a < b => a < d
    OBVIOUS
  <2>2. b \in T /\ b \notin S
    OBVIOUS
  <2> QED BY <2>1, <2>2
<1>3. Rank(B, b) = Cardinality(S) /\ Rank(B, d) = Cardinality(T)
  BY DEF Rank
<1> HIDE DEF S, T
<1> QED BY <1>1, <1>2, <1>3, FS_Subset

\* There is an element of each rank.
LEMMA RankReached ==
  ASSUME NEW B \in SUBSET Nat, IsFiniteSet(B), NEW k \in 1 .. Cardinality(B)
  PROVE  \E b \in B : Rank(B, b) = k - 1
<1> DEFINE n == Cardinality(B)
           T == 0 .. (n - 1)
           f == [b \in B |-> Rank(B, b)]
<1>1. n \in Nat
  BY FS_CardinalityType
<1>2. IsFiniteSet(T) /\ Cardinality(T) = n
  <2>1. 0 \in Int /\ n - 1 \in Int
    BY <1>1
  <2>2. IsFiniteSet(T) /\ Cardinality(T) = IF 0 > n - 1 THEN 0 ELSE n - 1 - 0 + 1
    BY <2>1, FS_Interval
  <2> QED BY <1>1, <2>2
<1>3. ASSUME NEW b \in B PROVE Rank(B, b) \in T
  <2> DEFINE S == {a \in B : a < b}
  <2>1. S \in SUBSET B /\ S # B
    BY DEF S
  <2>2. Rank(B, b) = Cardinality(S) /\ Rank(B, b) \in Nat
    BY RankIsNumber DEF Rank
  <2> HIDE DEF S
  <2>3. Cardinality(S) <= n /\ (n = Cardinality(S) => B = S)
    BY <2>1, FS_Subset
  <2> QED BY <1>1, <2>1, <2>2, <2>3
<1>4. ASSUME NEW b \in B, NEW d \in B, Rank(B, b) = Rank(B, d) PROVE b = d
  <2>1. ~ (b < d) /\ ~ (d < b)
    <3>1. b \in Nat /\ d \in Nat /\ Rank(B, b) \in Nat
      BY RankIsNumber
    <3> QED BY <1>4, <3>1, RankGrows
  <2> QED BY <2>1
<1> HIDE DEF n, T
<1>5. f \in Injection(B, T)
  BY <1>3, <1>4 DEF Injection, IsInjective
<1>6. f \in Surjection(B, T)
  <2> HIDE DEF f
  <2> QED BY <1>2, <1>5, FS_Injection DEF n
<1>7. k - 1 \in T
  BY <1>1 DEF n, T
<1>8. \E b \in B : f[b] = k - 1
  <2> HIDE DEF f
  <2> QED BY <1>6, <1>7 DEF Surjection
<1> QED BY <1>8

\* The boundaries in their order.
LEMMA CutsAre ==
  ASSUME NEW c, Boundaries(c) \in SUBSET Nat, IsFiniteSet(Boundaries(c)), NEW B, B = Boundaries(c),
         NEW m, m = Cardinality(B)
  PROVE  /\ m \in Nat /\ Len(Cuts(c)) = m
         /\ \A k \in 1 .. m : Cuts(c)[k] \in B /\ Rank(B, Cuts(c)[k]) = k - 1
         /\ \A b \in B : Rank(B, b) + 1 \in 1 .. m /\ Cuts(c)[Rank(B, b) + 1] = b
<1>1. m \in Nat
  BY FS_CardinalityType
<1>2. Cuts(c) = [k \in 1 .. m |-> CHOOSE b \in B : Rank(B, b) = k - 1]
  BY DEF Cuts, Rank
<1>3. ASSUME NEW k \in 1 .. m PROVE Cuts(c)[k] \in B /\ Rank(B, Cuts(c)[k]) = k - 1
  <2>1. \E b \in B : Rank(B, b) = k - 1
    BY <1>3, RankReached
  <2>2. Cuts(c)[k] = CHOOSE b \in B : Rank(B, b) = k - 1
    BY <1>2
  <2> QED BY <2>1, <2>2, Zenon
<1>4. Len(Cuts(c)) = m
  BY <1>1, <1>2
<1>5. ASSUME NEW b \in B PROVE Rank(B, b) + 1 \in 1 .. m /\ Cuts(c)[Rank(B, b) + 1] = b
  <2>1. Rank(B, b) \in Nat /\ b \in Nat
    BY RankIsNumber
  <2>2. Rank(B, b) < m
    <3> DEFINE S == {a \in B : a < b}
    <3>1. S \in SUBSET B /\ S # B
      <4>1. S \in SUBSET B
        OBVIOUS
      <4>2. b \in B /\ b \notin S
        BY <2>1
      <4> HIDE DEF S
      <4> QED BY <4>1, <4>2
    <3>2. Rank(B, b) = Cardinality(S)
      BY DEF Rank
    <3> HIDE DEF S
    <3>3. Cardinality(S) <= m /\ (m = Cardinality(S) => B = S)
      BY <3>1, FS_Subset
    <3> QED BY <1>1, <2>1, <3>1, <3>2, <3>3
  <2>3. Rank(B, b) + 1 \in 1 .. m
    BY <1>1, <2>1, <2>2
  <2> DEFINE k == Rank(B, b) + 1
  <2>4. k \in 1 .. m /\ k - 1 = Rank(B, b)
    BY <2>1, <2>3
  <2> HIDE DEF k
  <2> DEFINE d == Cuts(c)[k]
  <2>5. d \in B /\ Rank(B, d) = k - 1
    BY <1>3, <2>4
  <2> HIDE DEF d
  <2>6. d \in Nat /\ Rank(B, d) = Rank(B, b)
    BY <2>4, <2>5
  <2>7. ~ (b < d) /\ ~ (d < b)
    BY <2>1, <2>5, <2>6, RankGrows
  <2>8. d = b
    BY <2>1, <2>6, <2>7
  <2> QED BY <2>3, <2>8 DEF d, k
<1> QED BY <1>1, <1>3, <1>4, <1>5

\* Between two boundaries that follow each other there is none.
LEMMA CutsFollow ==
  ASSUME NEW c, Boundaries(c) \in SUBSET Nat, IsFiniteSet(Boundaries(c)), NEW b \in Boundaries(c),
         NEW m, m = Len(Cuts(c)), NEW k \in 1 .. (m + 1)
  PROVE  ~ ((k = 1 \/ Cuts(c)[k - 1] < b) /\ (k <= m => b < Cuts(c)[k]))
<1> DEFINE B == Boundaries(c)
           r == Rank(B, b)
<1>1. /\ m \in Nat
      /\ \A j \in 1 .. m : Cuts(c)[j] \in B /\ Rank(B, Cuts(c)[j]) = j - 1
      /\ r + 1 \in 1 .. m /\ Cuts(c)[r + 1] = b
  BY CutsAre
<1>2. r \in Nat
  BY RankIsNumber
<1> HIDE DEF r, B
<1>3. r = Rank(B, b) /\ b \in B /\ B \in SUBSET Nat /\ IsFiniteSet(B)
  BY DEF r, B
<1>4. k # 1 /\ Cuts(c)[k - 1] < b => k - 1 < r + 1
  <2> SUFFICES ASSUME k # 1, Cuts(c)[k - 1] < b PROVE k - 1 < r + 1
    OBVIOUS
  <2>1. k - 1 \in 1 .. m
    BY <1>1
  <2>2. Cuts(c)[k - 1] \in B /\ Rank(B, Cuts(c)[k - 1]) = k - 1 - 1
    BY <1>1, <2>1
  <2>3. Rank(B, Cuts(c)[k - 1]) < r
    BY <1>3, <2>2, RankGrows
  <2> QED BY <1>1, <1>2, <2>2, <2>3
<1>5. k <= m /\ b < Cuts(c)[k] => r + 1 < k
  <2> SUFFICES ASSUME k <= m, b < Cuts(c)[k] PROVE r + 1 < k
    OBVIOUS
  <2>1. k \in 1 .. m
    BY <1>1
  <2>2. Cuts(c)[k] \in B /\ Rank(B, Cuts(c)[k]) = k - 1
    BY <1>1, <2>1
  <2>3. r < Rank(B, Cuts(c)[k])
    BY <1>3, <2>2, RankGrows
  <2> QED BY <1>2, <2>2, <2>3
<1> QED BY <1>1, <1>2, <1>4, <1>5

Programs == UNION {[1..n -> Control] : n \in 1..CodeMax}

\* The functions to be divided are non-empty sequences of control instructions.
LEMMA ProgramsAre ==
  ASSUME NEW c \in Programs
  PROVE  /\ c \in Seq(Control) /\ Len(c) \in Nat /\ DOMAIN c = 1 .. Len(c)
         /\ Len(c) \in 1 .. CodeMax
<1>1. PICK n \in 1 .. CodeMax : c \in [1 .. n -> Control]
  BY DEF Programs
<1>2. n \in Nat
  BY <1>1, CfgAssumption
<1> QED BY <1>1, <1>2, SeqDef

\* A jump that passed goes to offsets.
LEMMA TargetsAre ==
  ASSUME NEW ins \in Control, WellFormed(ins)
  PROVE  /\ Targets(ins) \in Seq(0 .. TargetMax)
         /\ ins.op \notin {"JMP", "BR"} => Targets(ins) = <<>>
<1>1. \A n \in 0 .. TargetMax : Offset(n).n = n
  BY DEF Offset
<1>2. /\ Offset(0) = [kind |-> "offset", n |-> 0] /\ 0 \in 0 .. TargetMax
  BY CfgAssumption DEF Offset
<1>3. CASE ins.op = "JMP"
  <2>1. PICK n \in 0 .. TargetMax : ins.args = <<Offset(n)>>
    <3>1. ins = Instr("JMP", <<>>) \/ \E n \in 0 .. TargetMax : ins = Instr("JMP", <<Offset(n)>>)
      BY <1>3 DEF Control, Instr
    <3> QED BY <1>3, <3>1 DEF WellFormed, Instr
  <2>2. Targets(ins) = <<n>>
    BY <1>1, <1>3, <2>1 DEF Targets
  <2> QED BY <1>3, <2>2
<1>4. CASE ins.op = "BR"
  <2>1. PICK n, l \in 0 .. TargetMax : ins.args = <<Other("reg"), Offset(n), Offset(l)>>
    <3>1. \/ ins = Instr("BR", <<Other("reg"), Other("reg"), Offset(0)>>)
          \/ \E n, l \in 0 .. TargetMax : ins = Instr("BR", <<Other("reg"), Offset(n), Offset(l)>>)
      BY <1>4 DEF Control, Instr
    <3>2. ins # Instr("BR", <<Other("reg"), Other("reg"), Offset(0)>>)
      BY <1>4 DEF WellFormed, Instr, IsOffset, Other
    <3> QED BY <3>1, <3>2 DEF Instr
  <2>2. Targets(ins) = <<n, l>>
    BY <1>1, <1>4, <2>1 DEF Targets
  <2> QED BY <1>4, <2>2
<1>5. CASE ins.op \notin {"JMP", "BR"}
  <2>1. Targets(ins) = <<>>
    BY <1>5 DEF Targets
  <2> QED BY <1>5, <2>1
<1> QED BY <1>3, <1>4, <1>5

-----------------------------------------------------------------------------
(* The blocks.                                                             *)

AllWellFormed(c) == \A i \in DOMAIN c : WellFormed(c[i])

\* The boundaries of a well-formed function are finitely many; among them are all the
\* targets and the places of the jumps.
LEMMA BoundariesAre ==
  ASSUME NEW c \in Programs, AllWellFormed(c), NEW B, B = Boundaries(c)
  PROVE  /\ B \in SUBSET Nat /\ IsFiniteSet(B)
         /\ \A i \in DOMAIN c : /\ Targets(c[i]) \in Seq(B)
                                /\ c[i].op \in {"JMP", "BR"} => i \in B
                                /\ c[i].op = "RET" /\ i < Len(c) => i \in B
<1> DEFINE n == Len(c)
           b(i) == CASE c[i].op \in {"JMP", "BR"} -> {i} \cup ToSet(Targets(c[i]))
                     [] c[i].op = "RET"           -> IF i < n THEN {i} ELSE {}
                     [] OTHER                     -> {}
<1>1. n \in Nat /\ DOMAIN c = 1 .. n /\ \A i \in 1 .. n : c[i] \in Control
  BY ProgramsAre
<1>2. B = UNION {b(i) : i \in 1 .. n}
  BY <1>1 DEF Boundaries
<1>3. ASSUME NEW i \in 1 .. n
      PROVE  /\ c[i].op \in {"JMP", "BR"} => b(i) = {i} \cup ToSet(Targets(c[i]))
             /\ c[i].op = "RET" => b(i) = IF i < n THEN {i} ELSE {}
             /\ c[i].op \notin {"JMP", "BR", "RET"} => b(i) = {}
  OBVIOUS
<1> HIDE DEF b, n
<1>4. ASSUME NEW i \in 1 .. n
      PROVE  /\ Targets(c[i]) \in Seq(0 .. TargetMax)
             /\ c[i].op \notin {"JMP", "BR"} => Targets(c[i]) = <<>>
  BY <1>1, TargetsAre DEF AllWellFormed
<1>5. ASSUME NEW i \in 1 .. n, NEW x \in ToSet(Targets(c[i])) PROVE x \in 0 .. TargetMax
  <2> DEFINE t == Targets(c[i])
             V == 0 .. TargetMax
  <2>1. t \in Seq(V) /\ x \in ToSet(t)
    BY <1>4, <1>5
  <2> HIDE DEF t, V
  <2>2. PICK j \in DOMAIN t : x = t[j]
    BY <2>1 DEF ToSet
  <2>3. x \in V
    BY <2>1, <2>2
  <2> QED BY <2>3 DEF V
<1>6. ASSUME NEW x \in B PROVE x \in Nat /\ x <= n + TargetMax
  <2>1. PICK i \in 1 .. n : x \in b(i)
    BY <1>2
  <2>2. x = i \/ x \in ToSet(Targets(c[i]))
    BY <1>3, <2>1
  <2> QED BY <1>1, <1>5, <2>2, CfgAssumption
<1>7. B \in SUBSET Nat /\ IsFiniteSet(B)
  <2>1. B \in SUBSET Nat /\ n + TargetMax \in Nat
    BY <1>1, <1>6, CfgAssumption
  <2> QED BY <1>6, <2>1, FS_BoundedSetOfNaturals
<1>8. ASSUME NEW i \in 1 .. n
      PROVE  /\ Targets(c[i]) \in Seq(B)
             /\ c[i].op \in {"JMP", "BR"} => i \in B
             /\ c[i].op = "RET" /\ i < n => i \in B
  <2>1. b(i) \subseteq B
    BY <1>2
  <2>2. c[i].op \in {"JMP", "BR"} => ToSet(Targets(c[i])) \subseteq B /\ i \in B
    BY <1>3, <2>1
  <2>3. Targets(c[i]) \in Seq(B)
    <3>1. CASE c[i].op \in {"JMP", "BR"}
      <4>1. \A j \in 1 .. Len(Targets(c[i])) : Targets(c[i])[j] \in B
        BY <1>4, <2>2, <3>1 DEF ToSet
      <4> QED BY <1>4, <4>1
    <3>2. CASE c[i].op \notin {"JMP", "BR"}
      BY <1>4, <3>2
    <3> QED BY <3>1, <3>2
  <2>4. c[i].op = "RET" /\ i < n => i \in B
    BY <1>3, <2>1
  <2> QED BY <2>2, <2>3, <2>4
<1> QED BY <1>1, <1>7, <1>8 DEF n

\* Lists of elements of V make up lists of elements of V.
LEMMA TargetsBetweenAre ==
  ASSUME NEW V, NEW c, NEW b \in Nat, NEW e \in Nat, b <= e,
         \A i \in (b + 1) .. e : Targets(c[i]) \in Seq(V)
  PROVE  TargetsBetween(c, b, e) \in Seq(V)
<1> DEFINE N == e - b
           S == Seq(V)
           G == [q \in (1 .. N) \X S |-> q[2] \o Targets(c[b + q[1]])]
           Walk(f) == [i \in 0 .. N |-> IF i = 0 THEN <<>> ELSE f[i - 1] \o Targets(c[b + i])]
<1>1. N \in Nat /\ <<>> \in S
  OBVIOUS
<1>2. ASSUME NEW i \in 1 .. N, NEW m \in S PROVE m \o Targets(c[b + i]) \in S
  <2>1. b + i \in (b + 1) .. e
    OBVIOUS
  <2>2. Targets(c[b + i]) \in Seq(V)
    BY <2>1
  <2> QED BY <2>2
<1>3. G \in [(1 .. N) \X S -> S]
  <2>1. \A q \in (1 .. N) \X S : q[2] \o Targets(c[b + q[1]]) \in S
    <3> HIDE DEF N, S
    <3> QED BY <1>2
  <2> HIDE DEF N, S
  <2> QED BY <2>1
<1>4. PICK f \in [0 .. N -> S] : Steps(f, G, <<>>, N)
  <2> HIDE DEF N, S, G
  <2> QED BY <1>1, <1>3, StepsExist
<1>5. ASSUME NEW i \in 1 .. N PROVE f[i] = f[i - 1] \o Targets(c[b + i])
  <2> HIDE DEF N, S
  <2>1. i - 1 \in 0 .. N
    BY <1>1
  <2>2. <<i, f[i - 1]>> \in (1 .. N) \X S
    BY <1>4, <2>1
  <2> QED BY <1>4, <2>2 DEF Steps
<1>6. f = Walk(f)
  <2> HIDE DEF N, S
  <2>1. f[0] = <<>>
    BY <1>4 DEF Steps
  <2>2. ASSUME NEW i \in 0 .. N PROVE f[i] = IF i = 0 THEN <<>> ELSE f[i - 1] \o Targets(c[b + i])
    <3>1. CASE i = 0
      BY <2>1, <3>1
    <3>2. CASE i # 0
      <4>1. i \in 1 .. N
        BY <1>1, <3>2
      <4> QED BY <1>5, <3>2, <4>1
    <3> QED BY <3>1, <3>2
  <2> QED BY <2>2
<1> DEFINE upto[i \in 0 .. N] == IF i = 0 THEN <<>> ELSE upto[i - 1] \o Targets(c[b + i])
<1>7. upto = Walk(upto)
  <2> HIDE DEF N, S
  <2> QED BY <1>6
<1>8. TargetsBetween(c, b, e) = upto[N]
  BY DEF TargetsBetween
<1>9. /\ upto[0] = <<>>
      /\ \A i \in 1 .. N : upto[i] = upto[i - 1] \o Targets(c[b + i])
  <2> HIDE DEF N, S, upto
  <2>1. \A i \in 0 .. N : upto[i] = IF i = 0 THEN <<>> ELSE upto[i - 1] \o Targets(c[b + i])
    BY <1>7
  <2>2. 0 \in 0 .. N /\ \A i \in 1 .. N : i \in 0 .. N /\ i # 0
    BY <1>1
  <2>3. ASSUME NEW i \in 1 .. N PROVE upto[i] = upto[i - 1] \o Targets(c[b + i])
    BY <2>1, <2>2
  <2> QED BY <2>1, <2>2, <2>3
<1>10. \A i \in 0 .. N : upto[i] \in S
  <2> HIDE DEF N, S, upto
  <2> DEFINE T == {i \in 0 .. N : upto[i] \notin S}
  <2>1. SUFFICES ASSUME T # {} PROVE FALSE
    BY Zenon
  <2>2. PICK k \in T : \A y \in T : k <= y
    <3>1. T \in SUBSET Nat
      BY <1>1
    <3> QED BY <2>1, <3>1, NatMin
  <2>3. k # 0
    BY <2>2, <1>1, <1>9
  <2>4. k \in 1 .. N /\ k - 1 \in 0 .. N /\ k - 1 \notin T
    BY <2>2, <2>3, <1>1
  <2>5. upto[k - 1] \in S
    BY <2>4
  <2>6. upto[k] \in S
    BY <2>4, <2>5, <1>2, <1>9
  <2> QED BY <2>2, <2>6
<1> QED
  <2> HIDE DEF N, S, upto
  <2>1. N \in 0 .. N
    BY <1>1
  <2>2. TargetsBetween(c, b, e) \in S
    BY <1>8, <1>10, <2>1
  <2> QED BY <2>2 DEF S

\* Block k of a function c whose boundaries are the m elements of B, in the
\* order q, and where it lies.
LEMMA BlockIs ==
  ASSUME NEW c, NEW B, NEW m, NEW n, NEW q, B = Boundaries(c), q = Cuts(c), n = Len(c), m = Len(q),
         NEW k \in 1 .. (m + 1), NEW b, b = Block(c, k)
  PROVE  /\ b.begin = IF k = 1 THEN 0 ELSE q[k - 1]
         /\ b.end = IF k <= m THEN q[k] ELSE n
         /\ b.targets = TargetsBetween(c, b.begin, b.end)
         /\ DOMAIN b.labels = DOMAIN b.targets
         /\ \A i \in DOMAIN b.labels : b.labels[i] = Label(c, b.targets[i])
<1>1. BlockBegin(c, k) = IF k = 1 THEN 0 ELSE q[k - 1]
  BY DEF BlockBegin
<1>2. BlockEnd(c, k) = IF k <= m THEN q[k] ELSE n
  BY DEF BlockEnd
<1> DEFINE s == TargetsBetween(c, BlockBegin(c, k), BlockEnd(c, k))
<1>3. b = [begin |-> BlockBegin(c, k), end |-> BlockEnd(c, k), targets |-> s,
           labels |-> [i \in DOMAIN s |-> Label(c, s[i])]]
  BY DEF Block
<1> HIDE DEF s
<1>4. /\ b.begin = BlockBegin(c, k) /\ b.end = BlockEnd(c, k) /\ b.targets = s
      /\ DOMAIN b.labels = DOMAIN s /\ \A i \in DOMAIN b.labels : b.labels[i] = Label(c, s[i])
  BY <1>3
<1> QED BY <1>1, <1>2, <1>4 DEF s

\* What BlockIs says of the whole list of blocks bs, and what is known of
\* their boundaries.
DividedInto(c, B, m, n, q, bs) ==
  /\ n \in Nat /\ n > 0 /\ DOMAIN c = 1 .. n /\ n = Len(c)
  /\ B \in SUBSET Nat /\ IsFiniteSet(B) /\ B = Boundaries(c) /\ \A a \in B : a <= n
  /\ \A i \in 1 .. n : /\ Targets(c[i]) \in Seq(B)
                       /\ c[i].op \in {"JMP", "BR"} => i \in B
                       /\ c[i].op = "RET" /\ i < n => i \in B
  /\ m \in Nat /\ m = Len(q) /\ q = Cuts(c)
  /\ \A k \in 1 .. m : q[k] \in B /\ q[k] \in Nat /\ q[k] <= n /\ Rank(B, q[k]) = k - 1
  /\ \A a \in B : Rank(B, a) + 1 \in 1 .. m /\ q[Rank(B, a) + 1] = a
  /\ Len(bs) = m + 1 /\ DOMAIN bs = 1 .. (m + 1)
  /\ \A k \in 1 .. (m + 1) :
       /\ bs[k].begin = IF k = 1 THEN 0 ELSE q[k - 1]
       /\ bs[k].end = IF k <= m THEN q[k] ELSE n
       /\ bs[k].targets = TargetsBetween(c, bs[k].begin, bs[k].end)
       /\ DOMAIN bs[k].labels = DOMAIN bs[k].targets
       /\ \A i \in DOMAIN bs[k].labels : bs[k].labels[i] = Label(c, bs[k].targets[i])

\* Filling the blocks of a well-formed function without a target behind its end
\* divides it at its boundaries.
LEMMA FilledIsDivided ==
  ASSUME NEW c \in Programs, AllWellFormed(c), \A a \in Boundaries(c) : a <= Len(c),
         NEW bs, bs = [k \in 1 .. (Len(Cuts(c)) + 1) |-> Block(c, k)]
  PROVE  DividedInto(c, Boundaries(c), Len(Cuts(c)), Len(c), Cuts(c), bs)
<1> DEFINE B == Boundaries(c)
           m == Len(Cuts(c))
           n == Len(c)
           q == Cuts(c)
<1>1. n \in Nat /\ n > 0 /\ DOMAIN c = 1 .. n
  BY ProgramsAre, CfgAssumption
<1>2. /\ B \in SUBSET Nat /\ IsFiniteSet(B)
      /\ \A i \in DOMAIN c : /\ Targets(c[i]) \in Seq(B)
                             /\ c[i].op \in {"JMP", "BR"} => i \in B
                             /\ c[i].op = "RET" /\ i < n => i \in B
  BY BoundariesAre
<1>3. /\ m \in Nat
      /\ \A k \in 1 .. m : q[k] \in B /\ Rank(B, q[k]) = k - 1
      /\ \A a \in B : Rank(B, a) + 1 \in 1 .. m /\ q[Rank(B, a) + 1] = a
  BY <1>2, CutsAre
<1>4. B = Boundaries(c) /\ n = Len(c) /\ q = Cuts(c) /\ m = Len(q) /\ \A a \in B : a <= n
  OBVIOUS
<1>5. bs = [k \in 1 .. (m + 1) |-> Block(c, k)]
  OBVIOUS
<1> HIDE DEF B, m, n, q
<1>6. \A k \in 1 .. m : q[k] \in B /\ q[k] \in Nat /\ q[k] <= n /\ Rank(B, q[k]) = k - 1
  <2>1. \A a \in B : a \in Nat
    BY <1>2
  <2> QED BY <1>3, <1>4, <2>1
<1>7. Len(bs) = m + 1 /\ DOMAIN bs = 1 .. (m + 1)
  BY <1>3, <1>5
<1>8. ASSUME NEW k \in 1 .. (m + 1)
      PROVE  /\ bs[k].begin = IF k = 1 THEN 0 ELSE q[k - 1]
             /\ bs[k].end = IF k <= m THEN q[k] ELSE n
             /\ bs[k].targets = TargetsBetween(c, bs[k].begin, bs[k].end)
             /\ DOMAIN bs[k].labels = DOMAIN bs[k].targets
             /\ \A i \in DOMAIN bs[k].labels : bs[k].labels[i] = Label(c, bs[k].targets[i])
  <2> DEFINE b == bs[k]
  <2>1. b = Block(c, k)
    BY <1>5, <1>8
  <2> HIDE DEF b
  <2>2. /\ b.begin = IF k = 1 THEN 0 ELSE q[k - 1]
        /\ b.end = IF k <= m THEN q[k] ELSE n
        /\ b.targets = TargetsBetween(c, b.begin, b.end)
        /\ DOMAIN b.labels = DOMAIN b.targets
        /\ \A i \in DOMAIN b.labels : b.labels[i] = Label(c, b.targets[i])
    BY <1>4, <2>1, BlockIs
  <2> QED BY <2>2 DEF b
<1>9. DividedInto(c, B, m, n, q, bs)
  BY <1>1, <1>2, <1>3, <1>4, <1>6, <1>7, <1>8 DEF DividedInto
<1> QED BY <1>9 DEF B, m, n, q

\* Inside a block lies no boundary, so nothing jumps there or from there.
LEMMA BlocksAreBasic ==
  ASSUME NEW c, NEW B, NEW m, NEW n, NEW q, NEW bs, DividedInto(c, B, m, n, q, bs),
         NEW k \in 1 .. (m + 1), NEW i \in 1 .. n, bs[k].begin < i, i < bs[k].end
  PROVE  /\ c[i].op \notin {"JMP", "BR", "RET"}
         /\ \A j \in 1 .. n : \A t \in ToSet(Targets(c[j])) : t # i
<1>1. /\ n \in Nat /\ m \in Nat /\ B \in SUBSET Nat /\ IsFiniteSet(B) /\ B = Boundaries(c)
      /\ m = Len(q) /\ q = Cuts(c)
      /\ \A j \in 1 .. n : /\ Targets(c[j]) \in Seq(B)
                           /\ c[j].op \in {"JMP", "BR"} => j \in B
                           /\ c[j].op = "RET" /\ j < n => j \in B
  BY DEF DividedInto
<1>2. /\ bs[k].begin = IF k = 1 THEN 0 ELSE q[k - 1]
      /\ bs[k].end = IF k <= m THEN q[k] ELSE n
  BY DEF DividedInto
<1>3. k <= m => q[k] \in Nat /\ q[k] <= n
  <2>1. k <= m => k \in 1 .. m
    BY <1>1
  <2> QED BY <2>1 DEF DividedInto
<1>4. i < n
  BY <1>1, <1>2, <1>3
<1>5. i \notin B
  <2> SUFFICES ASSUME i \in B PROVE FALSE
    OBVIOUS
  <2>1. ~ ((k = 1 \/ q[k - 1] < i) /\ (k <= m => i < q[k]))
    BY <1>1, CutsFollow
  <2> QED BY <1>2, <2>1
<1>6. ASSUME NEW j \in 1 .. n, NEW t \in ToSet(Targets(c[j])) PROVE t # i
  <2> DEFINE s == Targets(c[j])
  <2>1. s \in Seq(B) /\ t \in ToSet(s)
    BY <1>1, <1>6
  <2> HIDE DEF s
  <2>2. PICK l \in DOMAIN s : t = s[l]
    BY <2>1 DEF ToSet
  <2> QED BY <1>5, <2>1, <2>2
<1> QED BY <1>1, <1>4, <1>5, <1>6

\* A block lies between two places of the function, the first not after the
\* second.
LEMMA BlocksLie ==
  ASSUME NEW c, NEW B, NEW m, NEW n, NEW q, NEW bs, DividedInto(c, B, m, n, q, bs),
         NEW k \in 1 .. (m + 1)
  PROVE  /\ bs[k].begin \in Nat /\ bs[k].end \in Nat
         /\ bs[k].begin <= bs[k].end /\ bs[k].end <= n
<1>1. n \in Nat /\ m \in Nat /\ B \in SUBSET Nat /\ IsFiniteSet(B)
  BY DEF DividedInto
<1>2. \A j \in 1 .. m : q[j] \in B /\ q[j] \in Nat /\ q[j] <= n /\ Rank(B, q[j]) = j - 1
  BY DEF DividedInto
<1>3. /\ bs[k].begin = IF k = 1 THEN 0 ELSE q[k - 1]
      /\ bs[k].end = IF k <= m THEN q[k] ELSE n
  BY DEF DividedInto
<1>4. (k # 1 => k - 1 \in 1 .. m) /\ (k <= m => k \in 1 .. m)
  BY <1>1
<1>5. (k # 1 => q[k - 1] \in Nat /\ q[k - 1] <= n) /\ (k <= m => q[k] \in Nat /\ q[k] <= n)
  BY <1>2, <1>4
<1>6. k # 1 /\ k <= m => q[k - 1] <= q[k]
  <2> SUFFICES ASSUME k # 1, k <= m, q[k] < q[k - 1] PROVE FALSE
    BY <1>5
  <2>1. q[k] \in B /\ q[k - 1] \in B /\ Rank(B, q[k]) = k - 1 /\ Rank(B, q[k - 1]) = k - 1 - 1
    BY <1>2, <1>4
  <2>2. Rank(B, q[k]) < Rank(B, q[k - 1])
    BY <1>1, <1>5, <2>1, RankGrows
  <2> QED BY <1>1, <2>1, <2>2
<1> QED BY <1>1, <1>3, <1>5, <1>6

\* If offset 0 is no boundary, a label is the number of the block that begins
\* at its target.
LEMMA LabelsLead ==
  ASSUME NEW c, NEW B, NEW m, NEW n, NEW q, NEW bs, DividedInto(c, B, m, n, q, bs),
         0 \notin B, NEW k \in 1 .. (m + 1), NEW i \in DOMAIN bs[k].labels
  PROVE  bs[bs[k].labels[i] + 1].begin = bs[k].targets[i]
<1> DEFINE s == bs[k].targets
           t == s[i]
           r == Rank(B, t) + 1
<1>1. n \in Nat /\ m \in Nat /\ B \in SUBSET Nat /\ IsFiniteSet(B) /\ B = Boundaries(c)
  BY DEF DividedInto
<1>2. s = TargetsBetween(c, bs[k].begin, bs[k].end) /\ i \in DOMAIN s /\ bs[k].labels[i] = Label(c, t)
  BY DEF DividedInto
<1>3. s \in Seq(B)
  <2>1. /\ bs[k].begin \in Nat /\ bs[k].end \in Nat
        /\ bs[k].begin <= bs[k].end /\ bs[k].end <= n
    BY BlocksLie
  <2>2. \A j \in 1 .. n : Targets(c[j]) \in Seq(B)
    BY DEF DividedInto
  <2>3. \A j \in (bs[k].begin + 1) .. bs[k].end : Targets(c[j]) \in Seq(B)
    BY <1>1, <2>1, <2>2
  <2> HIDE DEF s
  <2> QED BY <1>2, <2>1, <2>3, TargetsBetweenAre
<1> HIDE DEF s
<1>4. t \in B /\ t # 0 /\ t \in Nat
  BY <1>1, <1>2, <1>3
<1> HIDE DEF t
<1>5. Label(c, t) = r
  <2> DEFINE S == {a \in B : a < t}
  <2>1. Label(c, t) = Cardinality({0} \cup S)
    BY <1>1, <1>4 DEF Label
  <2>2. 0 \notin S /\ IsFiniteSet(S) /\ Cardinality(S) = Rank(B, t)
    BY <1>1, RankIsNumber DEF Rank
  <2> HIDE DEF S
  <2>3. {0} \cup S = S \cup {0}
    OBVIOUS
  <2> QED BY <2>1, <2>2, <2>3, FS_AddElement
<1>6. r \in 1 .. m /\ q[r] = t
  BY <1>4 DEF DividedInto
<1> HIDE DEF r
<1> DEFINE d == r + 1
<1>7. d \in 1 .. (m + 1) /\ d # 1 /\ d - 1 = r
  BY <1>1, <1>6
<1> HIDE DEF d
<1>8. bs[d].begin = IF d = 1 THEN 0 ELSE q[d - 1]
  BY <1>7 DEF DividedInto
<1>9. bs[d].begin = t
  BY <1>6, <1>7, <1>8
<1> QED BY <1>2, <1>5, <1>9 DEF d, t, s

\* The function is one of those given; past the first loop its jumps are
\* well-formed; the blocks, once there are any, are those of its instructions.
BlocksAre ==
  /\ code \in Programs
  /\ cfg_state \notin {"given", "malformed"} => AllWellFormed(code)
  /\ Divided => /\ \A b \in Boundaries(code) : b <= Len(code)
                /\ blocks = [k \in 1 .. (Len(Cuts(code)) + 1) |-> Block(code, k)]

\* Steps keep BlocksAre.
LEMMA BlocksNext ==
  ASSUME BlocksAre, [CfgNext]_cfg
  PROVE  BlocksAre'
<1>1. CASE CollectBoundaries
  BY <1>1 DEF CollectBoundaries, BlocksAre, AllWellFormed, Divided
<1>2. CASE FillBlocks
  <2>1. code' = code /\ AllWellFormed(code)
    BY <1>2 DEF FillBlocks, BlocksAre
  <2>2. cfg_state' = "divided" => /\ \A b \in Boundaries(code) : b <= Len(code)
                                  /\ blocks' = [k \in 1 .. (Len(Cuts(code)) + 1) |-> Block(code, k)]
    BY <1>2 DEF FillBlocks
  <2>3. cfg_state' \in {"divided", "outofrange"}
    BY <1>2 DEF FillBlocks
  <2> QED BY <2>1, <2>2, <2>3 DEF BlocksAre, Divided
<1>3. CASE CheckTerminals
  BY <1>3 DEF CheckTerminals, BlocksAre, Divided
<1>4. CASE UNCHANGED cfg
  BY <1>4 DEF cfg, BlocksAre, Divided
<1> QED BY <1>1, <1>2, <1>3, <1>4 DEF CfgNext

\* The division keeps the meaning of the function, for every function and
\* every bound: the blocks make up its instructions, control enters and leaves
\* them at their ends only, and a jump by label goes where the jump by offset
\* went (divide_instructions_into_basic_blocks).
THEOREM DivisionKeepsMeaning == CfgSpec => []DivisionSound
<1>1. CfgInit => BlocksAre
  BY DEF CfgInit, BlocksAre, Programs, Divided
<1>2. BlocksAre => DivisionSound
  <2> SUFFICES ASSUME BlocksAre, Divided PROVE BlocksPartition /\ LabelsNameTargets
    BY DEF DivisionSound, BlocksPartition, LabelsNameTargets
  <2>1. \E B, m, n, q : DividedInto(code, B, m, n, q, blocks)
    <3>1. /\ code \in Programs /\ AllWellFormed(code) /\ \A a \in Boundaries(code) : a <= Len(code)
          /\ blocks = [k \in 1 .. (Len(Cuts(code)) + 1) |-> Block(code, k)]
      BY DEF BlocksAre, Divided
    <3> QED BY <3>1, FilledIsDivided
  <2>2. PICK B, m, n, q : DividedInto(code, B, m, n, q, blocks)
    BY <2>1
  <2>3. /\ n \in Nat /\ m \in Nat /\ DOMAIN code = 1 .. n /\ n = Len(code) /\ B = Boundaries(code)
        /\ Len(blocks) = m + 1 /\ DOMAIN blocks = 1 .. (m + 1)
    BY <2>2 DEF DividedInto
  <2>4. \A k \in 1 .. (m + 1) : /\ blocks[k].begin = IF k = 1 THEN 0 ELSE q[k - 1]
                                /\ blocks[k].end = IF k <= m THEN q[k] ELSE n
    BY <2>2 DEF DividedInto
  <2>5. BlocksPartition
    <3>1. 1 \in 1 .. (m + 1) /\ m + 1 \in 1 .. (m + 1) /\ ~ (m + 1 <= m) /\ m + 1 - 1 = m
      BY <2>3
    <3>2. blocks[1].begin = 0 /\ blocks[m + 1].end = n
      BY <2>4, <3>1
    <3>3. ASSUME NEW k \in 1 .. m PROVE blocks[k].end = blocks[k + 1].begin
      <4>1. k \in 1 .. (m + 1) /\ k + 1 \in 1 .. (m + 1) /\ k <= m /\ k + 1 # 1 /\ k + 1 - 1 = k
        BY <2>3
      <4>2. blocks[k].end = q[k] /\ blocks[k + 1].begin = q[k + 1 - 1]
        BY <2>4, <4>1
      <4> QED BY <4>1, <4>2
    <3>4. ASSUME NEW k \in 1 .. (m + 1), NEW i \in 1 .. n, blocks[k].begin < i, i < blocks[k].end
          PROVE  /\ code[i].op \notin {"JMP", "BR", "RET"}
                 /\ \A j \in 1 .. n : \A t \in ToSet(Targets(code[j])) : t # i
      BY <2>2, <3>4, BlocksAreBasic
    <3> QED BY <2>3, <3>1, <3>2, <3>3, <3>4 DEF BlocksPartition
  <2>6. LabelsNameTargets
    <3> SUFFICES ASSUME 0 \notin B, NEW k \in 1 .. (m + 1), NEW i \in DOMAIN blocks[k].labels
                 PROVE  blocks[blocks[k].labels[i] + 1].begin = blocks[k].targets[i]
      BY <2>3 DEF LabelsNameTargets
    <3> QED BY <2>2, LabelsLead
  <2> QED BY <2>5, <2>6
<1> QED BY <1>1, <1>2, BlocksNext, PTL DEF CfgSpec
=============================================================================
