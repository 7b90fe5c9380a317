------------------------------- MODULE ProgAnal -------------------------------
(***************************************************************************)
(* The analysis pass of the optimizer (src/slake/opti/proganal.cc 321-1255,*)
(* analyze_program_info_pass): one walk over the instructions of a         *)
(* function that finds for each virtual register its lifetime, its type,   *)
(* the variable behind it and the value it is known to hold, for each call *)
(* the instructions that push its arguments, and the boundaries of the     *)
(* code blocks; or that refuses the program.                               *)
(*                                                                         *)
(* The program is unknown: a step chooses the next instruction from a menu *)
(* and analyses it, so that an execution is the analysis of one program,   *)
(* cut where it was refused.  The loop around the walk ("do ... while")    *)
(* never walks again, for the index it counts with is not reset.           *)
(***************************************************************************)
EXTENDS OpTyping, Cfg

CONSTANTS
  Menus,      \* sets of instructions to build programs from: [ops, operands, length]
  Params,     \* the function's parameter types
  Variadic,   \* whether it takes further arguments (OL_VARG)
  ThisType    \* its this_type, <<"Void">> for a plain function

\* TypeId, without Invalid; and the types made of them.
TypeIds == ScalarIds \cup
  {"Void", "ISize", "USize", "Object", "String", "Instance", "StructInstance", "ScopedEnum", "TypelessScopedEnum",
   "UnionEnum", "UnionEnumItem", "GenericArg", "Array", "Ref", "TempRef", "Tuple", "SIMD", "Fn", "ParamTypeList",
   "Unpacking", "Any", "Unknown"}
Type == Seq(TypeIds \cup {"Malformed"})

\* The entities of the program that have a type of their own.
Entity(e) ==
  e.kind \in {"StaticFieldRef", "ObjectFieldRef", "ArrayElementRef", "LocalVarRef", "ArgRef", "Array", "FnOverloading"}
    => e.type \in Type

ASSUME ProgAnalAssumption ==
  /\ Variadic \in BOOLEAN /\ Params \in Seq(Simple(ScalarIds)) /\ ThisType \in Type
  /\ \A m \in Menus : \A x \in m.operands :
       /\ x.kind \in {"literal", "type"} => x.type \in Type
       /\ x.kind = "ref" => Entity(x.entity) /\ (x.entity.kind = "IdRef" => Entity(x.entity.target))

VARIABLES
  menu,       \* the menu the program is built from
  program,    \* the instructions analysed so far; idx_cur_ins is its length
  info,       \* analyzed_reg_info
  pushed,     \* arg_push_ins_offs: the arguments pushed for the next call
  calls,      \* analyzed_fn_call_info: for each call the arguments pushed for it
  fn_calls,   \* fn_call_map: for each function known to be called, the calls of it
  marks,      \* code_block_boundaries
  outcome     \* "running", "done", or why the analysis ended before

anal == <<menu, program, info, pushed, calls, fn_calls, marks, outcome>>

NoReg == 0    \* INVALID_REG

-----------------------------------------------------------------------------
(* Operands, types and known values.                                       *)

Literal(id)  == [kind |-> "literal", type |-> <<id>>]
Register(r)  == [kind |-> "reg", reg |-> r]
TypeName(t)  == [kind |-> "type", type |-> t]
Refers(e)    == [kind |-> "ref", entity |-> e]
Unknown      == [kind |-> "undefined"]

RefTo(t)     == <<"Ref">> \o t
ArrayOf(t)   == <<"Array">> \o t
Returning(t) == <<"Fn">> \o t

\* TypeRef has no initial value: a register that was given no type has any.
Unset == <<"Unset">>
Indeterminate == Simple({"I32", "U32", "Bool"})

\* eval_object_type(): the reference is to a variable, a string, an array, a
\* function or another object.  For a function with parameters the return type
\* is overwritten by void, once for each of them.
ObjectType(e) ==
  CASE e.kind \in {"StaticFieldRef", "ObjectFieldRef", "ArrayElementRef", "LocalVarRef", "ArgRef"} -> RefTo(e.type)
    [] e.kind = "String"        -> <<"String">>
    [] e.kind = "Array"         -> ArrayOf(e.type)
    [] e.kind = "FnOverloading" -> Returning(IF e.params = 0 THEN e.type ELSE <<"Void">>)
    [] OTHER                    -> Malformed

Known(regs, r) == IF regs[r].type = Unset THEN Indeterminate ELSE {regs[r].type}

\* eval_value_type(): the types it may find for an operand.
ValueTypes(regs, x) ==
  CASE x.kind = "literal" -> {x.type}
    [] x.kind = "offset"  -> {<<"U32">>}
    [] x.kind = "ref"     -> {ObjectType(x.entity)}
    [] x.kind = "reg"     -> Known(regs, x.reg)
    [] OTHER              -> {Malformed}

\* eval_const_value(): a register stands for the value it is known to hold.
ConstValue(regs, x) ==
  CASE x.kind = "literal" -> x
    [] x.kind = "offset"  -> Literal("U32")
    [] x.kind = "reg"     -> regs[x.reg].expected
    [] OTHER              -> Unknown

-----------------------------------------------------------------------------
(* The program.                                                            *)

Uses(ins) == {ins.args[j].reg : j \in {k \in DOMAIN ins.args : ins.args[k].kind = "reg"}}
Index     == Len(program)      \* the index of the instruction being analysed

Arity(op) ==
  CASE op \in BinaryOps \cup {"MOD", "RLOAD", "STORE", "MCALL", "CTORCALL", "AT", "ARRNEW", "CAST"} -> 2
    [] op \in {"ENTER", "LEAVE", "YIELD", "LTHIS", "LEXCEPT", "NOP"} -> 0
    [] op = "BR" -> 3
    [] OTHER     -> 1

\* Every list of operands of the right length and the empty list; an output
\* register that is new, one that has a value already, or none.
Instructions ==
  UNION {[op: {op}, out: {NoReg, 1, Index + 1},
          args: [1..Arity(op) -> menu.operands \cup {Register(r) : r \in 1..(Index + 1)}] \cup {<<>>}]
           : op \in menu.ops}

\* The registers an operand that is a register may name.
IsReg(ins, j)  == j \in DOMAIN ins.args /\ ins.args[j].kind = "reg"
IsType(ins, j) == j \in DOMAIN ins.args /\ ins.args[j].kind = "type"

\* A map with one entry set.
With(f, x, y) == [z \in {x} \cup DOMAIN f |-> IF z = x THEN y ELSE f[z]]

\* What precedes the switch: the output register is entered, the lifetime of
\* every register read is extended.  The output is entered first, so that an
\* instruction may read the register it defines.
Entered(ins) ==
  IF ins.out = NoReg THEN info
  ELSE With(info, ins.out, [begin |-> Index, end |-> Index, type |-> Unset, expected |-> Unknown,
                            storage |-> "None", output |-> FALSE])

\* Mutant: the lifetime of the first operand only is extended.
ExtendedFirst(ins) ==
  [r \in DOMAIN Entered(ins) |-> IF IsReg(ins, 1) /\ ins.args[1].reg = r
                                 THEN [Entered(ins)[r] EXCEPT !.end = Index] ELSE Entered(ins)[r]]

Extended(ins) ==
  [r \in DOMAIN Entered(ins) |-> IF r \in Uses(ins) THEN [Entered(ins)[r] EXCEPT !.end = Index]
                                                    ELSE Entered(ins)[r]]

Admitted(ins) == ins.out \notin DOMAIN info /\ Uses(ins) \subseteq DOMAIN Entered(ins)

\* The ends of an instruction's analysis.  What a refused instruction and the
\* attempt to analyse it leave behind is not used by anybody.
Refuse(why)     == outcome' = why /\ UNCHANGED <<info, pushed, calls, fn_calls, marks>>
Continue(regs)  == info' = regs /\ UNCHANGED <<pushed, calls, fn_calls, marks, outcome>>
Typed(ins, regs, t) == IF ins.out = NoReg THEN regs ELSE [regs EXCEPT ![ins.out].type = t]
Checked(ok, regs) == IF ok THEN Continue(regs) ELSE Refuse("malformed")

ProgInit ==
  /\ menu \in Menus
  /\ program = <<>> /\ info = <<>>
  /\ pushed = <<>> /\ calls = <<>> /\ fn_calls = <<>> /\ marks = {}
  /\ outcome = "running"

-----------------------------------------------------------------------------
(* One operator for each case of the switch.                               *)

\* LOAD: the identifier must name something (resolve_id_ref), a variable or an
\* object; any other kind of reference stops the process.
LOAD(ins) ==
  IF ins.out = NoReg THEN Continue(Extended(ins))
  ELSE IF ~(Len(ins.args) = 1 /\ ins.args[1].kind = "ref" /\ ins.args[1].entity.kind = "IdRef")
       THEN Refuse("malformed")
       ELSE LET e == ins.args[1].entity.target
            IN IF e.kind = "Nothing" THEN Refuse("unresolved")
               ELSE IF ObjectType(e) = Malformed THEN Refuse("malformed")
               ELSE IF e.kind \in {"ArrayElementRef", "LocalVarRef", "ArgRef"} THEN Refuse("terminated")
               ELSE Continue([Extended(ins) EXCEPT
                      ![ins.out].type = ObjectType(e), ![ins.out].expected = Refers(e),
                      ![ins.out].storage = CASE e.kind = "StaticFieldRef" -> "FieldVar"
                                             [] e.kind = "ObjectFieldRef" -> "InstanceFieldVar"
                                             [] OTHER                     -> @])

\* RLOAD: a member of an instance.  It is looked up in the definition of the type, not
\* in the class that this refers to; type definitions have no members, so that nothing
\* is ever found, and whichever operands it has, an RLOAD with an output is refused.
RLOAD(ins) == IF ins.out = NoReg THEN Continue(Extended(ins)) ELSE Refuse("malformed")

\* STORE, THROW and PUSHEH have no result.
WithoutResult(ins) == Checked(ins.out = NoReg, Extended(ins))

\* COPY: a constant is known, a register hands on all but its value, for which
\* the copy remembers the register.
COPY(ins) ==
  LET x == ins.args[1] regs == Extended(ins)
  IN IF ins.out = NoReg THEN Continue(regs)
     ELSE IF ins.args = <<>> \/ x.kind = "type" THEN Refuse("malformed")
     ELSE IF x.kind = "ref" /\ ObjectType(x.entity) = Malformed THEN Refuse("error")
     ELSE IF x.kind = "reg"
          THEN Continue([regs EXCEPT ![ins.out].expected = x, ![ins.out].type = regs[x.reg].type,
                                     ![ins.out].storage = regs[x.reg].storage,
                                     ![ins.out].output = regs[x.reg].output])
          ELSE \E t \in ValueTypes(regs, x) :
                 Continue([regs EXCEPT ![ins.out].expected = IF x.kind = "ref" THEN x ELSE ConstValue(regs, x),
                                       ![ins.out].type = t])

\* LARG: the parameter, or for a variadic function the array of the rest.
LARG(ins) ==
  IF ins.out = NoReg THEN Continue(Extended(ins))
  ELSE IF ~(Len(ins.args) = 1 /\ IsOffset(ins.args[1])) THEN Refuse("malformed")
       ELSE LET i == ins.args[1].n + 1
                t == IF i \in DOMAIN Params THEN RefTo(Params[i]) ELSE RefTo(ArrayOf(<<"Any">>))
            IN Checked(i <= Len(Params) + (IF Variadic THEN 1 ELSE 0),
                       [Extended(ins) EXCEPT ![ins.out].type = t, ![ins.out].storage = "ArgRef",
                                             ![ins.out].output = FALSE])

\* LVAR: the value remembered is a Reference that no statement has set; if its
\* kind happens to be Invalid the process stops.
LVAR(ins) ==
  IF ~(ins.out # NoReg /\ Len(ins.args) = 1 /\ IsType(ins, 1)) THEN Refuse("malformed")
  ELSE \/ Refuse("terminated")
       \/ Continue([Extended(ins) EXCEPT ![ins.out].type = RefTo(ins.args[1].type),
                      ![ins.out].storage = "LocalVar",
                      ![ins.out].expected = Refers([kind |-> "Indeterminate"])])

\* LVALUE: what a reference refers to.
LVALUE(ins) ==
  IF ins.out = NoReg THEN Continue(Extended(ins))
  ELSE IF ~(Len(ins.args) = 1 /\ IsReg(ins, 1)) THEN Refuse("malformed")
       ELSE \E t \in Known(Extended(ins), ins.args[1].reg) :
              Checked(Head(t) = "Ref", Typed(ins, Extended(ins), Tail(t)))

\* analyze_arithmetic_ins().
BinaryIns(ins) ==
  IF Len(ins.args) # 2 THEN Refuse("malformed")
  ELSE \E l \in ValueTypes(Extended(ins), ins.args[1]), r \in ValueTypes(Extended(ins), ins.args[2]) :
         Checked(Malformed \notin {l, r, Binary(ins.op, l, r)}, Typed(ins, Extended(ins), Binary(ins.op, l, r)))

UnaryIns(ins) ==
  IF Len(ins.args) # 1 THEN Refuse("malformed")
  ELSE \E l \in ValueTypes(Extended(ins), ins.args[1]) :
         Checked(Malformed \notin {l, Unary(ins.op, l)}, Extended(ins))

\* AT: a reference to an element.
AT(ins) ==
  IF ins.out = NoReg THEN Continue(Extended(ins))
  ELSE IF ~(Len(ins.args) = 2 /\ IsReg(ins, 1)) THEN Refuse("malformed")
       ELSE \E t \in Known(Extended(ins), ins.args[1].reg) :
              Checked(Head(t) = "Array",
                      [Typed(ins, Extended(ins), RefTo(Tail(t))) EXCEPT ![ins.out].storage = "ArrayElement"])

\* Mutant: the instruction after the jump is not marked.
JMPTargetOnly(ins) ==
  IF ins.out # NoReg \/ ins.args = <<>> \/ ~IsOffset(ins.args[1]) THEN Refuse("malformed")
  ELSE /\ marks' = marks \cup {ins.args[1].n}
       /\ info' = Extended(ins)
       /\ UNCHANGED <<pushed, calls, fn_calls, outcome>>

\* JMP: the kind of the target is not looked at before it is read.
JMP(ins) ==
  IF ins.out # NoReg THEN Refuse("malformed")
  ELSE IF ins.args = <<>> \/ ~IsOffset(ins.args[1]) THEN Refuse("asserted")
       ELSE /\ marks' = marks \cup {Index + 1, ins.args[1].n}
            /\ info' = Extended(ins)
            /\ UNCHANGED <<pushed, calls, fn_calls, outcome>>

\* mark_reg_as_for_output(): only variables of three kinds can be marked.
MarkedForOutput(regs, x) ==
  IF x.kind = "reg" /\ regs[x.reg].storage \in {"FieldVar", "LocalVar", "ArgRef"}
  THEN [regs EXCEPT ![x.reg].output = TRUE]
  ELSE regs

Passable(ins) == ins.out = NoReg /\ Len(ins.args) = 1 /\ ins.args[1].kind # "type"

PUSHARG(ins) ==
  IF ~Passable(ins) THEN Refuse("malformed")
  ELSE /\ info' = MarkedForOutput(Extended(ins), ins.args[1])
       /\ pushed' = Append(pushed, Index)
       /\ UNCHANGED <<calls, fn_calls, marks, outcome>>

RET(ins) ==
  IF ~Passable(ins) THEN Refuse("malformed")
  ELSE /\ info' = MarkedForOutput(Extended(ins), ins.args[1])
       /\ marks' = marks \cup {Index + 1}
       /\ UNCHANGED <<pushed, calls, fn_calls, outcome>>

\* Mutant: the list of pushed arguments is copied, not moved.
CallInsCopying(ins) ==
  LET regs == Extended(ins) target == ins.args[1].reg
  IN IF ~(Len(ins.args) = Arity(ins.op) /\ IsReg(ins, 1)) THEN Refuse("malformed")
     ELSE \E t \in Known(regs, target) :
            IF Head(t) # "Fn" THEN Refuse("malformed")
            ELSE /\ info' = Typed(ins, regs, Tail(t))
                 /\ calls' = With(calls, Index, pushed)
                 /\ UNCHANGED <<pushed, fn_calls, marks, outcome>>

\* CALL, MCALL and CTORCALL: the target must be a function; the arguments
\* pushed so far are this call's.  A known target is taken for a reference.
CallIns(ins) ==
  LET regs == Extended(ins) target == ins.args[1].reg
  IN IF ~(Len(ins.args) = Arity(ins.op) /\ IsReg(ins, 1)) THEN Refuse("malformed")
     ELSE \E t \in Known(regs, target) :
            IF Head(t) # "Fn" THEN Refuse("malformed")
            ELSE IF regs[target].expected.kind \notin {"undefined", "ref"} THEN Refuse("asserted")
            ELSE /\ info' = Typed(ins, regs, Tail(t))
                 /\ calls' = With(calls, Index, pushed)
                 /\ pushed' = <<>>
                 /\ fn_calls' = IF regs[target].expected.kind = "undefined" THEN fn_calls
                                ELSE LET f == regs[target].expected.entity
                                         before == IF f \in DOMAIN fn_calls THEN fn_calls[f] ELSE <<>>
                                     IN With(fn_calls, f, Append(before, Index))
                 /\ UNCHANGED <<marks, outcome>>

YIELD(ins) ==
  IF ins.out # NoReg THEN Refuse("malformed")
  ELSE marks' = marks \cup {Index + 1} /\ info' = Extended(ins) /\ UNCHANGED <<pushed, calls, fn_calls, outcome>>

LTHIS(ins) == Checked(ins.out # NoReg /\ ThisType # <<"Void">>, Typed(ins, Extended(ins), ThisType))

NEWINS(ins) ==
  IF ins.out # NoReg /\ Len(ins.args) = 1 /\ IsType(ins, 1)
  THEN Continue(Typed(ins, Extended(ins), ins.args[1].type))
  ELSE Refuse("malformed")

ARRNEW(ins) ==
  IF ~(ins.out # NoReg /\ Len(ins.args) = 2 /\ IsType(ins, 1)) THEN Refuse("malformed")
  ELSE \E t \in ValueTypes(Extended(ins), ins.args[2]) :
         Checked(t = <<"U32">>, Typed(ins, Extended(ins), ArrayOf(ins.args[1].type)))

\* analyze_cast_ins(): a known value is converted, read by the getter of the
\* type cast from; an instance may be cast to anything.
CAST(ins) ==
  LET regs == Extended(ins) c == ConstValue(regs, ins.args[2]) to == ins.args[1].type
  IN IF ~(Len(ins.args) = 2 /\ IsType(ins, 1)) THEN Refuse("malformed")
     ELSE \E from \in ValueTypes(regs, ins.args[2]) :
            IF Head(from) = "Instance" THEN Continue(Typed(ins, regs, to))
            ELSE IF from \notin Simple(ScalarIds) \/ to \notin Cast(Head(from)).to THEN Refuse("malformed")
            ELSE IF c = Unknown THEN Continue(Typed(ins, regs, to))
            ELSE IF c # Literal(Cast(Head(from)).getter) \/ ins.out = NoReg THEN Refuse("asserted")
            ELSE Continue([Typed(ins, regs, to) EXCEPT ![ins.out].expected = Literal(Head(to))])

\* ENTER, LEAVE and LEXCEPT do nothing; the opcodes without a case (MOD, BR and
\* others) are refused.
Ignored(ins) == Continue(Extended(ins))

Analyze(ins) ==
  CASE ins.op = "LOAD"                        -> LOAD(ins)
    [] ins.op = "RLOAD"                       -> RLOAD(ins)
    [] ins.op \in {"STORE", "THROW", "PUSHEH"} -> WithoutResult(ins)
    [] ins.op = "COPY"                        -> COPY(ins)
    [] ins.op = "LARG"                        -> LARG(ins)
    [] ins.op = "LVAR"                        -> LVAR(ins)
    [] ins.op = "LVALUE"                      -> LVALUE(ins)
    [] ins.op \in BinaryOps                   -> BinaryIns(ins)
    [] ins.op \in UnaryOps                    -> UnaryIns(ins)
    [] ins.op = "AT"                          -> AT(ins)
    [] ins.op = "JMP"                         -> JMP(ins)
    [] ins.op = "PUSHARG"                     -> PUSHARG(ins)
    [] ins.op \in {"CALL", "MCALL", "CTORCALL"} -> CallIns(ins)
    [] ins.op = "RET"                         -> RET(ins)
    [] ins.op = "YIELD"                       -> YIELD(ins)
    [] ins.op = "LTHIS"                       -> LTHIS(ins)
    [] ins.op = "NEW"                         -> NEWINS(ins)
    [] ins.op = "ARRNEW"                      -> ARRNEW(ins)
    [] ins.op = "CAST"                        -> CAST(ins)
    [] ins.op \in {"ENTER", "LEAVE", "LEXCEPT"} -> Ignored(ins)
    [] OTHER                                  -> Refuse("malformed")

AnalyzeNext(ins) ==
  /\ outcome = "running" /\ Len(program) < menu.length
  /\ IF Admitted(ins) THEN Analyze(ins) ELSE Refuse("malformed")
  /\ program' = IF outcome' = "running" THEN Append(program, ins) ELSE program
  /\ UNCHANGED menu

\* An insertion fails for lack of memory.
OutOfMemory ==
  /\ outcome = "running" /\ Len(program) < menu.length
  /\ outcome' = "oom"
  /\ UNCHANGED <<menu, program, info, pushed, calls, fn_calls, marks>>

\* Behind the last instruction: arguments that no call took are an error.
EndOfProgram ==
  /\ outcome = "running" /\ program # <<>>
  /\ outcome' = IF pushed = <<>> THEN "done" ELSE "malformed"
  /\ UNCHANGED <<menu, program, info, pushed, calls, fn_calls, marks>>

ProgNext == (\E ins \in Instructions : AnalyzeNext(ins)) \/ OutOfMemory \/ EndOfProgram

ProgSpec == ProgInit /\ [][ProgNext]_anal

-----------------------------------------------------------------------------
Accepted == outcome \in {"running", "done"}
At(i)    == program[i + 1]
Indices  == 0..(Index - 1)

\* A register's lifetime begins where it gets its value, at no second place,
\* and reaches exactly to the last instruction that reads it; nothing is read
\* before it has begun (analyze_program_info_pass, lifetime).
LifetimesExact ==
  Accepted =>
    /\ \A i \in Indices : Uses(At(i)) \cup ({At(i).out} \ {NoReg}) \subseteq DOMAIN info
    /\ \A r \in DOMAIN info :
         LET readers == {i \in Indices : r \in Uses(At(i))}
         IN /\ {i \in Indices : At(i).out = r} = {info[r].begin}
            /\ \A i \in readers : info[r].begin <= i
            /\ info[r].end = Max(readers \cup {info[r].begin})

\* What a register is known to hold fits its type: the getters that read it
\* assert as much.  Types are recorded for every result but those of NOT, LNOT
\* and NEG, of LEXCEPT, and of copies of such (expected_value, type).
ExpectedFitsType ==
  Accepted =>
    \A r \in DOMAIN info :
      LET x == info[r].expected def == At(info[r].begin)
      IN /\ x.kind = "literal" => info[r].type = x.type
         /\ x.kind = "reg" => info[r].type = info[x.reg].type
         /\ (x.kind = "ref" /\ def.op # "LVAR") => info[r].type = ObjectType(x.entity)
         /\ info[r].type = Unset => def.op \in UnaryOps \cup {"LEXCEPT", "ENTER", "LEAVE", "COPY"}

\* What the analysis says of a register is what the program does with it, from the
\* instruction that defines it to the last that reads it.
RegistersDescribed == LifetimesExact /\ ExpectedFitsType

\* Every argument pushed belongs to the first call after it and to no other,
\* in the order of the pushes; calls of a known function are entered once
\* (arg_push_ins_offs, analyzed_fn_call_info, fn_call_map).
PushesReachOneCall ==
  Accepted =>
    LET pushes == {i \in Indices : At(i).op = "PUSHARG"}
        isCall(i) == At(i).op \in {"CALL", "MCALL", "CTORCALL"}
        Taken(i, c) == i < c /\ \A d \in i..(c - 1) : ~isCall(d)
        InOrder(s) == \A j, k \in DOMAIN s : j < k => s[j] < s[k]
    IN /\ DOMAIN calls = {c \in Indices : isCall(c)}
       /\ \A c \in DOMAIN calls : InOrder(calls[c]) /\ ToSet(calls[c]) = {i \in pushes : Taken(i, c)}
       /\ InOrder(pushed) /\ ToSet(pushed) = {i \in pushes : \A c \in DOMAIN calls : c < i}
       /\ outcome = "done" => pushed = <<>>
       /\ \A f \in DOMAIN fn_calls : InOrder(fn_calls[f]) /\ ToSet(fn_calls[f]) \subseteq DOMAIN calls
       /\ \A f, g \in DOMAIN fn_calls : f # g => ToSet(fn_calls[f]) \cap ToSet(fn_calls[g]) = {}

\* The two passes that look for block boundaries find the same ones, but for
\* those behind a YIELD and behind a return at the very end
\* (code_block_boundaries, basic_block_boundaries of divide.cc).
BoundariesAgree ==
  outcome = "done" =>
    /\ Boundaries(program) \subseteq marks
    /\ \A b \in marks \ Boundaries(program) :
         b > 0 /\ (At(b - 1).op = "YIELD" \/ (b = Len(program) /\ At(b - 1).op = "RET"))
=============================================================================
