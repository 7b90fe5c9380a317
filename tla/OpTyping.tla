------------------------------- MODULE OpTyping -------------------------------
(***************************************************************************)
(* The types the optimizer gives to the results of arithmetic, comparison, *)
(* logical, shift and cast instructions                                    *)
(* (src/slake/opti/proganal/arithm.cc and proganal/cast.cc): one operator  *)
(* for each opcode, named after it.  Every case of the code also computes  *)
(* the result of two constant operands, from evaluated_lhs and             *)
(* evaluated_rhs, which no statement ever assigns: the constants are       *)
(* stored over lhs and rhs, which nothing reads.  The folding is therefore *)
(* absent here.  The width of a constant and its value play no part.       *)
(*                                                                         *)
(* A type is a sequence of type ids, the outermost first: <<"Ref", "I32">> *)
(* refers to a variable of type I32.                                       *)
(***************************************************************************)
EXTENDS Sequences

SignedIds   == {"I8", "I16", "I32", "I64"}
UnsignedIds == {"U8", "U16", "U32", "U64"}
IntIds      == SignedIds \cup UnsignedIds
NumberIds   == IntIds \cup {"F32", "F64"}
ScalarIds   == NumberIds \cup {"Bool"}

Malformed == <<"Malformed">>
Simple(T) == {<<id>> : id \in T}

\* The result of operands of one common type among those accepted.
SameOf(accepted, l, r, result) == IF l = r /\ l \in Simple(accepted) THEN result ELSE Malformed

ADD(l, r)  == SameOf(NumberIds, l, r, l)
SUB(l, r)  == SameOf(NumberIds, l, r, l)
MUL(l, r)  == SameOf(NumberIds, l, r, l)
DIV(l, r)  == SameOf(NumberIds, l, r, l)
MOD(l, r)  == SameOf(NumberIds, l, r, l)
AND(l, r)  == SameOf(IntIds, l, r, l)
OR(l, r)   == SameOf(IntIds, l, r, l)
XOR(l, r)  == SameOf(IntIds, l, r, l)
LAND(l, r) == SameOf({"Bool"}, l, r, <<"Bool">>)
LOR(l, r)  == SameOf({"Bool"}, l, r, <<"Bool">>)
EQ(l, r)   == SameOf(ScalarIds, l, r, <<"Bool">>)
NEQ(l, r)  == SameOf(ScalarIds, l, r, <<"Bool">>)
LT(l, r)   == SameOf(NumberIds, l, r, <<"Bool">>)
GT(l, r)   == SameOf(NumberIds, l, r, <<"Bool">>)
LTEQ(l, r) == SameOf(NumberIds, l, r, <<"Bool">>)
GTEQ(l, r) == SameOf(NumberIds, l, r, <<"Bool">>)
CMP(l, r)  == SameOf(NumberIds, l, r, <<"I32">>)

\* The distance of a shift is always a U32; the two types need not agree.
LSH(l, r) == IF r = <<"U32">> /\ l \in Simple(IntIds) THEN l ELSE Malformed
RSH(l, r) == IF r = <<"U32">> /\ l \in Simple(IntIds) THEN l ELSE Malformed

\* The cases of one operand check it and record nothing: the type of the output
\* register stays what it was.
NOT(l)  == IF l \in Simple(IntIds) THEN l ELSE Malformed
LNOT(l) == IF l = <<"Bool">> THEN l ELSE Malformed
NEG(l)  == IF l \in Simple(NumberIds) THEN l ELSE Malformed

BinaryOps == {"ADD", "SUB", "MUL", "DIV", "AND", "OR", "XOR", "LAND", "LOR", "EQ", "NEQ",
              "LT", "GT", "LTEQ", "GTEQ", "CMP", "LSH", "RSH"}
UnaryOps  == {"NOT", "LNOT", "NEG"}

\* analyze_arithmetic_ins() for two operands and for one.
Binary(op, l, r) ==
  CASE op = "ADD"  -> ADD(l, r)  [] op = "SUB"  -> SUB(l, r)  [] op = "MUL" -> MUL(l, r)
    [] op = "DIV"  -> DIV(l, r)  [] op = "AND"  -> AND(l, r)  [] op = "OR"  -> OR(l, r)
    [] op = "XOR"  -> XOR(l, r)  [] op = "LAND" -> LAND(l, r) [] op = "LOR" -> LOR(l, r)
    [] op = "EQ"   -> EQ(l, r)   [] op = "NEQ"  -> NEQ(l, r)  [] op = "LT"  -> LT(l, r)
    [] op = "GT"   -> GT(l, r)   [] op = "LTEQ" -> LTEQ(l, r) [] op = "GTEQ" -> GTEQ(l, r)
    [] op = "CMP"  -> CMP(l, r)  [] op = "LSH"  -> LSH(l, r)  [] op = "RSH" -> RSH(l, r)
    [] op = "MOD"  -> MOD(l, r)

Unary(op, l) == CASE op = "NOT" -> NOT(l) [] op = "LNOT" -> LNOT(l) [] op = "NEG" -> NEG(l)

-----------------------------------------------------------------------------
\* The cases of analyze_cast_ins(), by the type cast from: the types a value of
\* it may be cast to, and the getter by which a known value is read, which
\* asserts that the value is of that type.
From(id, targets) == [to |-> Simple(targets), getter |-> id]

CastI8   == From("I8", ScalarIds)
CastI16  == From("I16", ScalarIds)
CastI32  == From("I32", ScalarIds)
CastI64  == From("I64", ScalarIds)
CastU8   == From("U8", ScalarIds)
CastU16  == From("U16", ScalarIds)
CastU32  == From("U32", ScalarIds)
CastU64  == From("U64", ScalarIds)
CastBool == From("Bool", ScalarIds)
CastF32  == From("F32", ScalarIds)
CastF64  == From("F64", ScalarIds)

Cast(id) ==
  CASE id = "I8"  -> CastI8  [] id = "I16" -> CastI16 [] id = "I32" -> CastI32 [] id = "I64" -> CastI64
    [] id = "U8"  -> CastU8  [] id = "U16" -> CastU16 [] id = "U32" -> CastU32 [] id = "U64" -> CastU64
    [] id = "F32" -> CastF32 [] id = "F64" -> CastF64 [] id = "Bool" -> CastBool
=============================================================================
