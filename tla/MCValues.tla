------------------------------ MODULE MCValues ------------------------------
(***************************************************************************)
(* Variables and arithmetic: an execution creates, reads and writes one    *)
(* variable, or evaluates one instruction, with the state of the other at  *)
(* rest.                                                                   *)
(***************************************************************************)
EXTENDS VarAccess, Arith

MCWritten ==
  [type : {"I8", "ISize"}, data : {"0", "1"}, local : {FALSE}]
  \cup [type : {"I16", "F32"}, data : {"1"}, local : {FALSE}]
  \cup [type : {"Object"}, data : {"null", "string", "array"}, local : {FALSE}]
  \cup [type : {"Reference"}, data : References, local : BOOLEAN]
MCTypes == [id : TypeIds, nullable : BOOLEAN, local : BOOLEAN]
MCBits == [t \in Ints |-> CASE t \in {"I8", "U8"} -> 2 [] t \in {"I16", "U16"} -> 3
                            [] t \in {"I32", "U32"} -> 4 [] OTHER -> 5]
MCDigits == [t \in Floats |-> IF t = "F32" THEN 2 ELSE 3]
MCTop == [t \in Floats |-> 3]

VarRests == /\ build = "release" /\ place = "ArgRef" /\ memory = <<>> /\ status = "rests" /\ verdict = "none"
            /\ vtype = CHOOSE t \in Types : t.id = "I8"
            /\ register = Value(Junk, Junk, FALSE) /\ settled = register /\ passed = register
ArithRests == /\ instr = CHOOSE i \in FModOps : TRUE
              /\ operands = <<0, 0>> /\ output = Throws /\ remainder = 0

MCInit == (VarInit /\ ArithRests) \/ (ArithInit /\ VarRests)
MCNext == (VarNext /\ UNCHANGED arith) \/ (ArithNext /\ UNCHANGED var)
MCSpec == MCInit /\ [][MCNext]_<<var, arith>> /\ WF_<<var, arith>>(FModStep /\ UNCHANGED var)
=============================================================================
