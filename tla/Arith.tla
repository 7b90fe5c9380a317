------------------------------- MODULE Arith -------------------------------
(***************************************************************************)
(* What the arithmetic, shift, comparison and cast instructions of the     *)
(* interpreter compute (src/slake/rt/exec.cc 704-1337 and 1863-1972, with  *)
(* flib/bitop.h, flib/cmp.h and flib/math/fmod.cc): for each type its      *)
(* width, the promotion to int that C++ applies before it computes, the    *)
(* conversion back when the output register is written, and the operations *)
(* that stop the process instead.                                          *)
(*                                                                         *)
(* An execution evaluates one instruction on two operands; the register    *)
(* files they come from are left out.                                      *)
(***************************************************************************)
EXTENDS Integers, Sequences

CONSTANTS
  Bits,    \* Bits[t]: the width of integer type t
  Digits,  \* Digits[t]: the binary digits of the significands of floating-point type t
  Top,     \* Top[t]: the exponent of the greatest finite values of t (127 and 1023)
  Word     \* the width of unsigned long long, in which flib::fmodf() shifts (64)

Signed   == {"I8", "I16", "I32", "I64", "ISize"}
Unsigned == {"U8", "U16", "U32", "U64", "USize"}
Ints     == Signed \cup Unsigned
Floats   == {"F32", "F64"}

ASSUME ArithAssumption ==
  /\ Bits \in [Ints -> Nat \ {0}]
  /\ \A t \in {"I8", "I16", "U8", "U16"} : Bits[t] < Bits["I32"]
  /\ Bits["I32"] <= Bits["I64"] /\ Bits["I32"] <= Bits["ISize"]
  /\ Digits \in [Floats -> Nat \ {0}] /\ Digits["F32"] <= Digits["F64"]
  /\ Top \in [Floats -> Nat \ {0}] /\ Top["F32"] <= Top["F64"]
  /\ Word \in Nat \ {0}

VARIABLES
  instr,     \* the instruction: [op, type] and, for a cast, the type it reads
  operands,  \* the values of its two operands
  output,    \* what has become of it
  remainder  \* the variable n of flib::fmodf() and flib::fmod()

arith == <<instr, operands, output, remainder>>

-----------------------------------------------------------------------------
(* Representation.  A floating-point value is stored as the number of      *)
(* times it holds the least positive value of F64; 1 is One of them.       *)

\* The powers of two.
TwoTo[n \in Nat] == IF n = 0 THEN 1 ELSE 2 * TwoTo[n - 1]

Lowest(t)  == IF t \in Signed THEN -TwoTo[Bits[t] - 1] ELSE 0
Highest(t) == IF t \in Signed THEN TwoTo[Bits[t] - 1] - 1 ELSE TwoTo[Bits[t]] - 1

\* The binary formats: a significand below 2^Digits[t] times a power of two between
\* that of the subnormal values and that of the greatest finite ones.
Unit     == Top["F64"] + Digits["F64"] - 2
One      == TwoTo[Unit]
Least(t) == Unit + 2 - Top[t] - Digits[t]
Most(t)  == Unit + 1 + Top[t] - Digits[t]
Infinity(t) == TwoTo[Unit + 1 + Top[t]]
FloatsOf(t) == {sign * m * TwoTo[k] : sign \in {-1, 1}, m \in 0..(TwoTo[Digits[t]] - 1), k \in Least(t)..Most(t)}

ValuesOf(t) ==
  CASE t \in Ints   -> Lowest(t)..Highest(t)
    [] t \in Floats -> FloatsOf(t)
    [] t = "Bool"   -> {0, 1}

\* Conversion of an integer to type t: its low bits, read as t reads them.
Wrap(t, x) == Lowest(t) + ((x - Lowest(t)) % TwoTo[Bits[t]])

\* The integral promotions: types narrower than int are computed as int.
Promoted(t) == IF Bits[t] < Bits["I32"] THEN "I32" ELSE t

\* Integer division of C++ truncates towards zero; the remainder follows.
Sign(x)       == IF x < 0 THEN -1 ELSE IF x > 0 THEN 1 ELSE 0
Magnitude(x)  == IF x < 0 THEN -x ELSE x
Quotient(a, b) == Sign(a) * Sign(b) * (Magnitude(a) \div Magnitude(b))
Residue(a, b)  == a - b * Quotient(a, b)

\* The exponent of the greatest power of two that is at most n.
Log[n \in Nat] == IF n < 2 THEN 0 ELSE 1 + Log[n \div 2]

\* The value of floating-point type t nearest to x; of two, the one with an even significand.
Round(t, x) ==
  LET a    == Magnitude(x)
      fine == Log[a] - Digits[t] + 1
      gap  == TwoTo[IF fine < Least(t) THEN Least(t) ELSE fine]
      down == a \div gap
      twice == 2 * (a % gap)
      m    == IF twice > gap \/ (twice = gap /\ down % 2 = 1) THEN down + 1 ELSE down
  IN Sign(x) * (IF m * gap > Infinity(t) THEN Infinity(t) ELSE m * gap)

-----------------------------------------------------------------------------
(* The outcomes: a value in the output register, a trap (the process dies, *)
(* no exception is thrown), the loop of fmodf(), or InvalidOpcodeError.    *)

Computed(v)  == [kind |-> "value", value |-> v]
Trap      == [kind |-> "trap", value |-> 0]
Looping   == [kind |-> "looping", value |-> 0]
Throws    == [kind |-> "throws", value |-> 0]
NoOutcome == [kind |-> "none", value |-> 0]

\* The x86 division raises a fault for a zero divisor and for a quotient that
\* does not fit.
Faults(t, a, b) == b = 0 \/ (Promoted(t) \in Signed /\ a = Lowest(Promoted(t)) /\ b = -1)

\* _basic_arithm_opcode: op0 op op1 in the promoted type, stored as data_type.
\* An overflow of a signed type wraps in the builds of this code.
Narrowed(t, exact) == Computed(Wrap(t, Wrap(Promoted(t), exact)))

ArithmInt(op, t, a, b) ==
  CASE op = "ADD" -> Narrowed(t, a + b)
    [] op = "SUB" -> Narrowed(t, a - b)
    [] op = "MUL" -> Narrowed(t, a * b)
    [] op = "DIV" -> IF Faults(t, a, b) THEN Trap ELSE Narrowed(t, Quotient(a, b))
    [] op = "MOD" -> IF Faults(t, a, b) THEN Trap ELSE Narrowed(t, Residue(a, b))

\* The bit of x at position i, in two's complement.
Bit(x, i) == (x \div TwoTo[i]) % 2

Combined(op, x, y) ==
  CASE op = "AND" -> x * y
    [] op = "OR"  -> IF x + y = 0 THEN 0 ELSE 1
    [] op = "XOR" -> (x + y) % 2

\* The first n bits of the operands combined, as a number.
Merged(op, a, b) ==
  LET low[n \in Nat] ==
        IF n = 0 THEN 0 ELSE low[n - 1] + TwoTo[n - 1] * Combined(op, Bit(a, n - 1), Bit(b, n - 1))
  IN low

\* &, | and ^ of the promoted operands.
ArithmBits(op, t, a, b) == Narrowed(t, Merged(op, a, b)[Bits[Promoted(t)]])

ArithmBool(op, a, b) == Computed(Combined(op, a, b))

\* _basic_comparison_opcode.
Holds(op, a, b) ==
  CASE op = "EQ"  -> a = b
    [] op = "NEQ" -> a # b
    [] op = "LT"  -> a < b
    [] op = "GT"  -> a > b
    [] op = "LTEQ" -> a <= b
    [] op = "GTEQ" -> a >= b

Compare(op, a, b) == Computed(IF Holds(op, a, b) THEN 1 ELSE 0)

\* flib::compare_*.
ThreeWay(a, b) == Computed(IF a < b THEN -1 ELSE IF a > b THEN 1 ELSE 0)

\* flib::shl_signed*, shl_unsigned*: nothing is left of a value that is shifted
\* by its width or more.
Shl(t, a, n) == IF n >= Bits[t] THEN 0 ELSE Wrap(t, a * TwoTo[n])

\* flib::shr_signed*: arithmetic, but zero from the width on.  (The mutant shifts in
\* zeroes, as for an unsigned value.)
ShrSignedLogically(t, a, n) == IF n >= Bits[t] THEN 0 ELSE (a % TwoTo[Bits[t]]) \div TwoTo[n]
ShrSigned(t, a, n) == IF n >= Bits[t] THEN 0 ELSE a \div TwoTo[n]

\* The SHRU8 to SHRU64 opcodes are defined with the macro of the SHLU opcodes,
\* and flib::shr_unsigned(), which SHRUSIZE calls, with shl_unsigned64().
ShrUnsigned(t, a, n) == Shl(t, a, n)

Shift(op, t, a, n) ==
  Computed(IF op = "SHL" THEN Shl(t, a, n)
        ELSE IF t \in Signed THEN ShrSigned(t, a, n) ELSE ShrUnsigned(t, a, n))

\* _arithm_cast_opcode: static_cast from type s to type t.  A floating-point
\* value is truncated; one that the integer type cannot hold is undefined.
Casts(s, t, a) ==
  CASE t = "Bool" -> {Computed(IF a = 0 THEN 0 ELSE 1)}
    [] t \in Ints /\ s \in Floats ->
         LET whole == Quotient(a, One)
         IN IF whole \in ValuesOf(t) THEN {Computed(whole)} ELSE {Computed(v) : v \in ValuesOf(t)}
    [] t \in Ints /\ s \notin Floats -> {Computed(Wrap(t, a))}
    [] t \in Floats /\ s \in Floats  -> {Computed(Round(t, a))}
    [] OTHER -> {Computed(Round(t, a * One))}

-----------------------------------------------------------------------------
(* flib::fmodf(), which is for type F32, and flib::fmod(), for F64.        *)

\* The exponent of the quotient n / d once it is rounded to type t; an infinite
\* quotient, and 0 / 0, have the one above the greatest.  Any below zero will do
\* for quotients under one.
QuotientExponent(t, n, d) ==
  LET a == Magnitude(n)
      b == Magnitude(d)
      e == Log[a \div b]
      carried == a * TwoTo[Digits[t]] >= b * TwoTo[e] * (TwoTo[Digits[t] + 1] - 1)
  IN IF d = 0 THEN Top[t] + 1
     ELSE IF a < b THEN -1
     ELSE IF e > Top[t] THEN Top[t] + 1
     ELSE IF carried THEN e + 1 ELSE e

\* What the functions take it for: the int8_t of fmodf() cannot hold the 128 of an
\* infinite quotient, and the bias of fmod() is one too large.
Exponent(t, n, d) ==
  LET e == QuotientExponent(t, n, d)
  IN IF t = "F64" THEN e - 1 ELSE IF e > Top[t] THEN -e ELSE e

\* The power of two they make of it.  fmodf() multiplies two powers from Word on, and
\* the second shift is by Word at the greatest exponent, which x86 takes for 0; fmod()
\* loses a factor of two in each round that takes Word off the exponent.
PowerOf(t, e) ==
  IF t = "F64" THEN TwoTo[e - (e \div Word)]
  ELSE IF e < Word THEN TwoTo[e]
  ELSE TwoTo[Word - 1] * TwoTo[(e - (Word - 1)) % Word]

\* What is taken off n in one round.  The product is exact: it has the significand of
\* d, and is at most n.
TakenNothingBelowTwo(t, n, d) ==   \* mutant: without the case of the exponents below one
  IF Exponent(t, n, d) > 0 THEN d * PowerOf(t, Exponent(t, n, d)) ELSE 0
Taken(t, n, d) ==
  IF Exponent(t, n, d) > 0 THEN d * PowerOf(t, Exponent(t, n, d)) ELSE d

\* The loop returns when n < d, at its top or after the last subtraction.
FModStep ==
  LET n == remainder
      d == operands[2]
      t == instr.type
  IN /\ output = Looping
     /\ IF n < d
          THEN output' = Computed(n) /\ UNCHANGED remainder
          ELSE /\ remainder' = IF n = Infinity(t) THEN n ELSE Round(t, n - Taken(t, n, d))
               /\ UNCHANGED output
     /\ UNCHANGED <<instr, operands>>

-----------------------------------------------------------------------------
(* The instructions that exist, by the opcode families of exec.cc.         *)

IntOps     == [op : {"ADD", "SUB", "MUL", "DIV", "MOD"}, type : Ints, from : {"I8"}]
BitOps     == [op : {"AND", "OR", "XOR"}, type : Ints, from : {"I8"}]
BoolOps    == [op : {"AND", "OR"}, type : {"Bool"}, from : {"I8"}]
CompareOps == [op : {"EQ", "NEQ", "LT", "GT", "LTEQ", "GTEQ"}, type : Ints \cup Floats, from : {"I8"}]
ShiftOps   == [op : {"SHL", "SHR"}, type : Ints, from : {"I8"}]
CmpOps     == [op : {"CMP"}, type : Ints, from : {"I8"}]
CastOps    == [op : {"CAST"}, type : Ints \cup Floats \cup {"Bool"},
               from : Ints \cup Floats \cup {"Bool"}]
FModOps    == [op : {"FMOD"}, type : Floats, from : {"I8"}]

Instrs == IntOps \cup BitOps \cup BoolOps \cup CompareOps \cup ShiftOps \cup CmpOps \cup CastOps \cup FModOps

OperandsOf(i) ==
  CASE i.op = "CAST" -> ValuesOf(i.from) \X {0}
    [] i.op \in {"SHL", "SHR"} -> ValuesOf(i.type) \X (0..(Bits[i.type] + 1))
    [] OTHER -> ValuesOf(i.type) \X ValuesOf(i.type)

ArithInit ==
  /\ instr \in Instrs
  /\ operands \in OperandsOf(instr)
  /\ output = NoOutcome
  /\ remainder = 0

Fetched(ops) == output = NoOutcome /\ instr \in ops
Done(o) == output' = o /\ UNCHANGED <<instr, operands, remainder>>

ArithmInts == Fetched(IntOps) /\ Done(ArithmInt(instr.op, instr.type, operands[1], operands[2]))
ArithmOnBits == Fetched(BitOps) /\ Done(ArithmBits(instr.op, instr.type, operands[1], operands[2]))
ArithmOnBool == Fetched(BoolOps) /\ Done(ArithmBool(instr.op, operands[1], operands[2]))
\* The switch has no case for EQF32, EQF64, NEQF32 and NEQF64.
Comparison ==
  /\ Fetched(CompareOps)
  /\ Done(IF instr.op \in {"EQ", "NEQ"} /\ instr.type \in Floats THEN Throws
          ELSE Compare(instr.op, operands[1], operands[2]))
Shifting   == Fetched(ShiftOps) /\ Done(Shift(instr.op, instr.type, operands[1], operands[2]))
Cmp        == Fetched(CmpOps) /\ Done(ThreeWay(operands[1], operands[2]))
Cast       == Fetched(CastOps) /\ \E o \in Casts(instr.from, instr.type, operands[1]) : Done(o)

\* fmodf() is what MODF32 and MODF64 call, here for type F32; fmod(), for F64, is
\* called by the optimizer and from compiled code.
FMod ==
  /\ Fetched(FModOps)
  /\ output' = Looping
  /\ remainder' = operands[1]
  /\ UNCHANGED <<instr, operands>>

ArithNext == ArithmInts \/ ArithmOnBits \/ ArithmOnBool \/ Comparison \/ Shifting \/ Cmp \/ Cast \/ FMod \/ FModStep

\* The loop of fmodf() is never interrupted.
ArithSpec == ArithInit /\ [][ArithNext]_arith /\ WF_arith(FModStep)

-----------------------------------------------------------------------------
(* Properties.                                                             *)

\* DIV and MOD are each computed after promotion to int and stored narrowed, and
\* neither tests its divisor.  Together they satisfy the division identity in
\* every type, also for the lowest value divided by -1 where the type is narrower
\* than int; and a division that kills the process is one whose quotient does not
\* exist: by zero, or by -1 in a type at least as wide as int.
DivModAgree ==
  (output.kind \in {"value", "trap"} /\ instr.op \in {"DIV", "MOD"}) =>
    LET t == instr.type
        a == operands[1]
        b == operands[2]
        quot == ArithmInt("DIV", t, a, b)
        rest == ArithmInt("MOD", t, a, b)
    IN IF output = Trap
         THEN b = 0 \/ (Bits[t] >= Bits["I32"] /\ a \notin {b * v : v \in ValuesOf(t)})
         ELSE /\ output.value \in ValuesOf(t)
              /\ Wrap(t, quot.value * b + rest.value) = a
              /\ Magnitude(rest.value) < Magnitude(b)
              /\ Sign(rest.value) \in {0, Sign(a)}

\* For signed types a right shift undoes a left shift by the same amount that has
\* lost no bit, for every shift amount and not only those the hardware takes.
\* (For unsigned types it does not: SHRU8 to SHRUSIZE shift to the left.)
ShiftUndone ==
  (output.kind = "value" /\ instr.op = "SHL" /\ instr.type \in Signed) =>
    LET t == instr.type
        n == operands[2]
    IN /\ output.value \in ValuesOf(t)
       /\ operands[1] * TwoTo[n] \in ValuesOf(t) =>
            Shift("SHR", t, output.value, n) = Computed(operands[1])

\* The operations of the integer types are inverse to each other where they should
\* be, in every width and at the ends of every range: division with the remainder,
\* and the left shift with the right shift.
IntegersSound == DivModAgree /\ ShiftUndone

\* Where the loops of fmodf() and fmod() end, and with what.  The dividend is not
\* negative, the divisor positive, and their quotient below the greatest power of two
\* in fmodf(), finite in fmod(): then the loop ends below the divisor, and in fmodf()
\* with the remainder, as no rounding of the quotient or of a difference loses
\* anything; fmod() takes less in a round and may round a difference.  (Elsewhere it
\* need not end: a greater quotient makes fmodf() shift by 64 or read the exponent
\* -128, and what it then takes off disappears in the rounding; with a zero or a
\* negative divisor the dividend never falls below the divisor.)
FModEnds ==
  LET t == instr.type
      n == operands[1]
      d == operands[2]
      small == n < d * TwoTo[IF t = "F32" THEN Top[t] ELSE Top[t] + 1]
  IN (output = Looping /\ 0 <= n /\ 0 < d /\ small) ~>
       (/\ output.kind = "value" /\ output.value \in 0..(d - 1)
        /\ t = "F32" => output.value = n % d)

=============================================================================
