----------------------------- MODULE MCOptimizer -----------------------------
(***************************************************************************)
(* The optimizer on small programs: an execution is either the analysis of *)
(* a program built from one of the menus, or the division of a function   *)
(* into basic blocks.                                                      *)
(***************************************************************************)
EXTENDS ProgAnal

Lit(ids) == {Literal(id) : id \in ids}
Method(ps, st) == [kind |-> "FnOverloading", type |-> <<"I32">>, params |-> ps, static |-> st]
IdRef(e) == Refers([kind |-> "IdRef", target |-> e])
Field == [kind |-> "StaticFieldRef", type |-> <<"U32">>]
Member == [kind |-> "ObjectFieldRef", type |-> <<"Bool">>]
MCParams == <<<<"I32">>>>
MCThisType == <<"Instance">>

MCMenus == {
  [ops |-> BinaryOps \cup UnaryOps \cup {"MOD", "COPY"},
   operands |-> Lit({"I32", "U32", "Bool"}), length |-> 2],
  [ops |-> {"LOAD", "PUSHARG", "CALL"}, operands |-> {IdRef(Method(1, TRUE))}, length |-> 5],
  [ops |-> {"LOAD", "COPY", "PUSHARG", "CALL", "MCALL", "NEW"},
   operands |-> {IdRef(Method(0, FALSE)), TypeName(<<"Fn", "Bool">>)}, length |-> 3],
  [ops |-> {"LTHIS", "RLOAD", "LOAD", "LVALUE"},
   operands |-> {IdRef(Field), IdRef(Member), IdRef(Method(0, TRUE)), IdRef([kind |-> "Nothing"]),
                 IdRef([kind |-> "LocalVarRef", type |-> <<"I32">>])}, length |-> 3],
  [ops |-> {"LVAR", "LARG", "AT", "ARRNEW", "LVALUE", "COPY", "STORE", "BR"},
   operands |-> {TypeName(<<"Bool">>), Offset(0), Offset(2), Refers([kind |-> "Array", type |-> <<"I32">>]),
                 Refers([kind |-> "Object"])}, length |-> 2],
  [ops |-> {"LVAR", "LARG", "AT", "ARRNEW", "LVALUE"}, operands |-> {TypeName(<<"Bool">>), Offset(1)}, length |-> 3],
  [ops |-> {"CAST", "COPY", "NOT", "LTHIS", "ENTER", "LEAVE", "LEXCEPT"},
   operands |-> {TypeName(<<"Bool">>), TypeName(<<"U32">>), Offset(0)} \cup Lit({"F32"}), length |-> 3],
  [ops |-> {"JMP", "RET", "YIELD", "THROW", "PUSHARG", "NOP"},
   operands |-> {Offset(0), Offset(2), Offset(5)}, length |-> 4]}

MCInit == \/ ProgInit /\ code = <<>> /\ blocks = <<>> /\ cfg_state = "idle"
          \/ CfgInit /\ menu = [ops |-> {}, operands |-> {}, length |-> 0] /\ program = <<>> /\ info = <<>> /\ pushed = <<>> /\ calls = <<>>
                     /\ fn_calls = <<>> /\ marks = {} /\ outcome = "idle"
MCNext == \/ ProgNext /\ UNCHANGED cfg
          \/ CfgNext /\ UNCHANGED anal
MCSpec == MCInit /\ [][MCNext]_<<anal, cfg>>
=============================================================================
