--------------------------- MODULE Values_proofs ----------------------------
(***************************************************************************)
(* Proofs about reading and writing variables, for any types, objects and  *)
(* references and both builds: a reference to a local variable is stored   *)
(* only where the type says so, and a read gives what was written.  And    *)
(* about arithmetic, for integer types of any width: division agrees with  *)
(* the remainder and shifts with each other, and bits are combined one by  *)
(* one through promotion and conversion back.                              *)
(***************************************************************************)
EXTENDS VarAccess, Arith, Induction, TLAPS

\* What may lie in a variable or in a register.
Cells == [type : Numbers \cup {"Object", "Reference", Junk},
          data : {"0", "1", "null", "set", "clear", Junk} \cup Objects \cup References,
          local : BOOLEAN]

\* The numeric types, one by one.
LEMMA NumbersAre ==
  Numbers = {"I8", "I16", "I32", "I64", "ISize", "U8", "U16", "U32", "U64", "USize", "F32", "F64", "Bool"}
BY DEF Numbers, Width

\* A value that is_compatible() finds to fit a type is local only if the type is, has
\* the type itself if that is a number, and is null if it is a structure.
LEMMA Verdicts ==
  ASSUME NEW t, NEW v, "yes" \in IsCompatible(t, v)
  PROVE  /\ IsLocal(v) => t.local
         /\ t.id \in Numbers /\ ~t.nullable => v.type = t.id
         /\ t.id \in Structs => IsNull(v)
<1> DEFINE n == t.nullable /\ IsNull(v)
<1>1. CASE n
  <2>1. v.type = "Object"
    BY <1>1 DEF IsNull
  <2> QED BY <1>1, <2>1 DEF IsNull, IsLocal
<1>2. CASE ~n /\ t.id \in Numbers
  <2>1. IsCompatible(t, v) = Verdict(v.type = t.id)
    BY <1>2, NumbersAre DEF IsCompatible, Handles
  <2>2. v.type = t.id
    BY <2>1 DEF Verdict
  <2> QED BY <1>2, <2>2, NumbersAre DEF IsLocal, Structs
<1>3. CASE ~n /\ t.id = "String"
  <2>1. v.type = "Object"
    BY <1>3, NumbersAre DEF IsCompatible
  <2> QED BY <1>3, <2>1, NumbersAre DEF IsLocal, Structs
<1>4. CASE ~n /\ t.id \in Handles \ {"String"}
  <2>1. "yes" \in CompatibleHandle(t, v)
    BY <1>4, NumbersAre DEF IsCompatible, Handles
  <2>2. LocalFits(t, v)
    BY <2>1 DEF CompatibleHandle
  <2> QED BY <1>4, <2>2, NumbersAre DEF LocalFits, Handles, Structs
<1>5. CASE ~n /\ t.id = "StructInstance"
  BY <1>5, NumbersAre DEF IsCompatible, Handles
<1>6. CASE ~n /\ t.id = "Ref"
  <2>1. LocalFits(t, v)
    BY <1>6, NumbersAre DEF IsCompatible, Handles
  <2> QED BY <1>6, <2>1, NumbersAre DEF LocalFits, Structs
<1>7. CASE ~n /\ t.id = "Any"
  <2>2. LocalFits(t, v)
    BY <1>7, NumbersAre DEF IsCompatible, Handles, Verdict
  <2> QED BY <1>7, <2>2, NumbersAre DEF LocalFits, Structs
<1>8. CASE ~n /\ t.id \notin Numbers \cup Handles \cup {"StructInstance", "Ref", "Any"}
  BY <1>8 DEF IsCompatible, Handles
<1> QED BY <1>1, <1>2, <1>3, <1>4, <1>5, <1>6, <1>7, <1>8 DEF Handles

\* What a check of compatibility leaves of the results P: one of them if the value
\* fits, else a refusal or the end of the process.
LEMMA Chosen ==
  ASSUME NEW A, NEW P, NEW r \in ByCompatibility(A, P)
  PROVE  ("yes" \in A /\ r \in P) \/ r = Result("refused", memory) \/ r = Result("stop", memory)
BY DEF ByCompatibility, Refuses, Stops

\* The groups of types that the cascades tell apart are disjoint.
LEMMA HandlesAreNot ==
  /\ Handles \cap Numbers = {} /\ Handles \cap Structs = {} /\ Structs \cap Numbers = {}
  /\ "Ref" \notin Numbers \cup Handles \cup Structs
  /\ "ISize" \in Numbers /\ Sized \subseteq Numbers /\ "ISize" \notin Sized /\ "I8" \in Sized
BY NumbersAre DEF Handles, Structs, Sized, PlatformSized

\* The places of variables that are told apart are different.
LEMMA PlacesApart ==
  Locals \cap Fields = {} /\ "ArrayElementRef" \notin Locals \cup Fields /\ "ArgRef" \notin Locals \cup Fields
BY DEF Locals, Fields

\* What write_var() may do to a local variable.
LEMMA LocalWrites ==
  ASSUME NEW t, NEW v, NEW r \in WriteLocal(t, v)
  PROVE  \/ r \in Stops \cup Refuses
         \/ t.id = "ISize" /\ r \in WriteNumber(t, v, Value("ISize", "0", FALSE))
         \/ t.id \in Numbers /\ r \in WriteNumber(t, v, v)
         \/ t.id \in Handles /\ r \in PutObject(t, v)
         \/ /\ t.id \in Structs \cup {"Ref"} /\ "yes" \in IsCompatible(t, v)
            /\ r \in {Result("accepted", Store(WriteAt(t), v)), Result("accepted", memory)}
<1>1. CASE t.id = "ISize"
  BY <1>1, HandlesAreNot, Zenon DEF WriteLocal
<1>2. CASE t.id \in Numbers \ {"ISize"}
  <2>1. r \in WriteNumber(t, v, v)
    BY <1>2, HandlesAreNot DEF WriteLocal
  <2> QED BY <1>2, <2>1
<1>3. CASE t.id \in Handles
  <2>1. r \in ByCompatibility(IsCompatible(t, v), PutObject(t, v))
    BY <1>3, HandlesAreNot DEF WriteLocal
  <2> QED BY <1>3, <2>1, Chosen DEF Stops, Refuses
<1>4. CASE t.id \in Structs
  <2>1. r \in ByCompatibility(IsCompatible(t, v), {Result("accepted", Store(WriteAt(t), v))})
    BY <1>4, HandlesAreNot DEF WriteLocal
  <2> QED BY <1>4, <2>1, Chosen DEF Stops, Refuses
<1>5. CASE t.id = "Ref"
  <2>1. r \in ByCompatibility(IsCompatible(t, v), {Result("accepted", memory)})
    BY <1>5, HandlesAreNot DEF WriteLocal
  <2> QED BY <1>5, <2>1, Chosen DEF Stops, Refuses
<1>6. CASE t.id \notin Numbers \cup Handles \cup Structs \cup {"Ref"}
  BY <1>6, HandlesAreNot DEF WriteLocal
<1> QED BY <1>1, <1>2, <1>3, <1>4, <1>5, <1>6

\* ... to a field,
LEMMA FieldWrites ==
  ASSUME NEW t, NEW v, NEW r \in WriteField(t, v), t.nullable \in BOOLEAN
  PROVE  \/ r \in Stops \cup Refuses
         \/ t.id \in Numbers /\ r \in WriteNumber(t, v, v)
         \/ t.nullable /\ t.id \in Numbers /\ \E o \in {"accepted", "refused"} : r = Result(o, Flagged(t, v))
         \/ t.id \in Handles /\ ~ t.local /\ r \in PutObject(t, v)
<1>1. CASE t.nullable /\ t.id \in Sized
  <2>1. r \in WriteNullableField(t, v)
    BY <1>1, HandlesAreNot DEF WriteField
  <2>2. CASE t.id = "I8"
    BY <1>1, <2>1, <2>2, HandlesAreNot DEF WriteNullableField
  <2>3. CASE t.id # "I8"
    <3>1. r = Result(IF IsNull(v) THEN "refused" ELSE "accepted", Flagged(t, v))
      BY <1>1, <2>1, <2>3, HandlesAreNot DEF WriteNullableField
    <3> QED BY <1>1, <3>1, HandlesAreNot
  <2> QED BY <2>2, <2>3
<1>2. CASE ~ t.nullable /\ t.id \in Sized
  BY <1>2, HandlesAreNot DEF WriteField
<1>3. CASE t.id \in Handles \ {"Fn"} /\ ~ (t.local \/ IsLocal(v))
  <2> DEFINE A == IsCompatible(t, Value(v.type, Junk, FALSE))
                    \cup (IF t.nullable /\ v.type = "Object" THEN {"yes"} ELSE {})
  <2>1. r \in ByCompatibility(A, PutObject(t, v))
    BY <1>3, HandlesAreNot DEF WriteField
  <2> HIDE DEF A
  <2> QED BY <1>3, <2>1, Chosen DEF Stops, Refuses
<1>4. CASE t.id \in Handles \ {"Fn"} /\ (t.local \/ IsLocal(v))
  BY <1>4, HandlesAreNot DEF WriteField
<1>5. CASE t.id \notin Sized \cup (Handles \ {"Fn"})
  BY <1>5, HandlesAreNot DEF WriteField
<1> QED BY <1>1, <1>2, <1>3, <1>4, <1>5

\* ... to an array element,
LEMMA ElementWrites ==
  ASSUME NEW t, NEW v, NEW r \in WriteElement(t, v), t.nullable \in BOOLEAN
  PROVE  \/ r \in Stops \cup Refuses
         \/ t.id \in Sized /\ v.type = t.id /\ r = Result("accepted", Store(0, v))
         \/ t.id \in Handles /\ ~ t.local /\ r \in PutObject(t, v)
<1> DEFINE bad == t.nullable /\ ~ IsNull(v)
<1>1. CASE bad
  BY <1>1 DEF WriteElement
<1>2. CASE ~ bad /\ t.id \in Sized
  <2>1. r \in IF v.type = t.id THEN {Result("accepted", Store(0, v))} ELSE Refuses
    BY <1>2, HandlesAreNot DEF WriteElement
  <2> QED BY <1>2, <2>1
<1>3. CASE ~ bad /\ t.id \in Handles \ {"Fn"}
  <2>1. r \in IF t.local \/ IsLocal(v) THEN Stops ELSE PutObject(t, v)
    BY <1>3, HandlesAreNot DEF WriteElement
  <2> QED BY <1>3, <2>1
<1>4. CASE ~ bad /\ t.id \notin Sized \cup (Handles \ {"Fn"})
  BY <1>4 DEF WriteElement
<1> QED BY <1>1, <1>2, <1>3, <1>4

\* Of what a write puts into the memory only values that are not local, or whose
\* variable's type is: and, if the value is a proper one, proper values.
New(t, v, w) == (IsLocal(w) => t.local) /\ (v \in Cells => w \in Cells)
Changes(t, v, m) == \A o \in DOMAIN m : (o \in DOMAIN memory /\ m[o] = memory[o]) \/ New(t, v, m[o])

\* Storing a value that the type allows is a change that the type allows.
LEMMA StoreChanges ==
  ASSUME NEW t, NEW v, NEW o, NEW w, New(t, v, w)
  PROVE  Changes(t, v, Store(o, w))
BY DEF Changes, Store

\* So is no change,
LEMMA NoChange == ASSUME NEW t, NEW v PROVE Changes(t, v, memory)
BY DEF Changes

\* and the flag of a nullable field.
LEMMA FlagIsNew ==
  ASSUME NEW t, NEW v
  PROVE  Changes(t, v, Flagged(t, v))
<1> DEFINE w == Value("Bool", IF IsNull(v) THEN "set" ELSE "clear", FALSE)
<1>1. w \in Cells /\ w.type = "Bool"
  BY NumbersAre DEF Value, Cells
<1>2. New(t, v, w)
  BY <1>1 DEF New, IsLocal
<1> QED BY <1>2, StoreChanges DEF Flagged

\* What is written for a number: nothing, the flag, the number, or both.
LEMMA NumberWrites ==
  ASSUME NEW t, NEW v, NEW w, NEW r \in WriteNumber(t, v, w), t.nullable \in BOOLEAN
  PROVE  \/ r = Result("refused", memory)
         \/ t.nullable /\ \E o \in {"accepted", "refused"} : r = Result(o, Flagged(t, v))
         \/ ~ t.nullable /\ v.type = t.id /\ r = Result("accepted", Store(WriteAt(t), w))
         \/ /\ t.nullable /\ v.type = t.id
            /\ r = Result("accepted", [x \in DOMAIN Flagged(t, v) \cup {WriteAt(t)} |->
                                         IF x = WriteAt(t) THEN w ELSE Flagged(t, v)[x]])
<1> DEFINE f == Flagged(t, v)
           two == [x \in DOMAIN f \cup {WriteAt(t)} |-> IF x = WriteAt(t) THEN w ELSE f[x]]
<1> HIDE DEF f
<1>1. CASE t.nullable
  <2>1. r \in IF IsNull(v) THEN {Result("accepted", f)}
              ELSE IF v.type # t.id THEN {Result("refused", f)} ELSE {Result("accepted", two)}
    BY <1>1 DEF WriteNumber, f
  <2> HIDE DEF two
  <2>2. \/ \E o \in {"accepted", "refused"} : r = Result(o, f)
        \/ v.type = t.id /\ r = Result("accepted", two)
    BY <2>1
  <2> QED BY <1>1, <2>2, Zenon DEF f, two
<1>2. CASE ~ t.nullable
  BY <1>2 DEF WriteNumber, Store
<1> QED BY <1>1, <1>2

\* Writing a number stores it, or a zero, or nothing, and never ends the process.
LEMMA NumberChanges ==
  ASSUME NEW t, NEW v, NEW w, NEW r \in WriteNumber(t, v, w), t.nullable \in BOOLEAN,
         t.id \in Numbers, w = v \/ (t.id = "ISize" /\ w = Value("ISize", "0", FALSE))
  PROVE  Changes(t, v, r.memory) /\ r.outcome \in {"refused", "accepted"}
<1>1. ASSUME v.type = t.id PROVE New(t, v, w)
  <2>1. CASE w = v
    BY <1>1, <2>1, NumbersAre DEF New, IsLocal
  <2>2. CASE w = Value("ISize", "0", FALSE)
    BY <2>2, NumbersAre DEF New, IsLocal, Value, Cells
  <2> QED BY <2>1, <2>2
<1>2. CASE r = Result("refused", memory)
  BY <1>2, NoChange DEF Result
<1>3. CASE \E o \in {"accepted", "refused"} : r = Result(o, Flagged(t, v))
  BY <1>3, FlagIsNew DEF Result
<1>4. CASE v.type = t.id /\ r = Result("accepted", Store(WriteAt(t), w))
  BY <1>1, <1>4, StoreChanges DEF Result
<1>5. CASE /\ v.type = t.id
           /\ r = Result("accepted", [x \in DOMAIN Flagged(t, v) \cup {WriteAt(t)} |->
                                         IF x = WriteAt(t) THEN w ELSE Flagged(t, v)[x]])
  <2> DEFINE f == Flagged(t, v)
             two == [x \in DOMAIN f \cup {WriteAt(t)} |-> IF x = WriteAt(t) THEN w ELSE f[x]]
  <2>1. Changes(t, v, f)
    BY FlagIsNew
  <2>2. New(t, v, w)
    BY <1>1, <1>5
  <2> HIDE DEF f
  <2>3. Changes(t, v, two)
    BY <2>1, <2>2 DEF Changes
  <2> QED BY <1>5, <2>3 DEF Result, f
<1> QED BY <1>2, <1>3, <1>4, <1>5, NumberWrites

\* Writing an object ends the process or stores the object.
LEMMA ObjectWrites ==
  ASSUME NEW t, NEW v, NEW r \in PutObject(t, v)
  PROVE  r \in Stops \/ r = Result("accepted", Store(WriteAt(t), ObjectIn(v)))
BY DEF PutObject

\* It is a change that the type allows.
LEMMA ObjectChanges ==
  ASSUME NEW t, NEW v, NEW r \in PutObject(t, v)
  PROVE  Changes(t, v, r.memory) /\ r.outcome \in {"stop", "accepted"}
<1>1. New(t, v, ObjectIn(v))
  <2>1. CASE v.type = "Object"
    BY <2>1 DEF New, ObjectIn, IsLocal
  <2>2. CASE v.type # "Object"
    <3>1. Pointee(v) \in {"null", "instance", Junk}
      BY DEF Pointee
    <3> QED BY <2>2, <3>1 DEF New, ObjectIn, IsLocal, Value, Cells, Objects
  <2> QED BY <2>1, <2>2
<1>2. CASE r \in Stops
  BY <1>2, NoChange DEF Stops, Result
<1>3. CASE r = Result("accepted", Store(WriteAt(t), ObjectIn(v)))
  BY <1>1, <1>3, StoreChanges DEF Result
<1> QED BY <1>2, <1>3, ObjectWrites

Outcomes == {"stop", "refused", "accepted"}

\* What write_var() does to the memory, in general.
LEMMA WriteChanges ==
  ASSUME NEW t, NEW v, NEW r \in WriteResults(t, v), t.nullable \in BOOLEAN, place \in Places
  PROVE  Changes(t, v, r.memory) /\ r.outcome \in Outcomes
<1>0. ASSUME r \in Stops \cup Refuses PROVE Changes(t, v, r.memory) /\ r.outcome \in Outcomes
  BY <1>0, NoChange DEF Stops, Refuses, Result, Outcomes
<1>1. ASSUME r \in PutObject(t, v) PROVE Changes(t, v, r.memory) /\ r.outcome \in Outcomes
  BY <1>1, ObjectChanges DEF Outcomes
<1>2. CASE place \in Locals
  <2>1. r \in WriteLocal(t, v)
    BY <1>2, PlacesApart DEF WriteResults
  <2>2. CASE t.id = "ISize" /\ r \in WriteNumber(t, v, Value("ISize", "0", FALSE))
    BY <2>2, HandlesAreNot, NumberChanges DEF Outcomes
  <2>3. CASE t.id \in Numbers /\ r \in WriteNumber(t, v, v)
    BY <2>3, NumberChanges DEF Outcomes
  <2>4. CASE /\ t.id \in Structs \cup {"Ref"} /\ "yes" \in IsCompatible(t, v)
             /\ r \in {Result("accepted", Store(WriteAt(t), v)), Result("accepted", memory)}
    <3>1. New(t, v, v)
      BY <2>4, Verdicts DEF New
    <3> QED BY <2>4, <3>1, StoreChanges, NoChange DEF Result, Outcomes
  <2> QED BY <1>0, <1>1, <2>1, <2>2, <2>3, <2>4, LocalWrites
<1>3. CASE place \in Fields
  <2>1. r \in WriteField(t, v)
    BY <1>3, PlacesApart DEF WriteResults
  <2>2. CASE t.id \in Numbers /\ r \in WriteNumber(t, v, v)
    BY <2>2, NumberChanges DEF Outcomes
  <2>3. CASE \E o \in {"accepted", "refused"} : r = Result(o, Flagged(t, v))
    BY <2>3, FlagIsNew DEF Result, Outcomes
  <2> QED BY <1>0, <1>1, <2>1, <2>2, <2>3, FieldWrites
<1>4. CASE place = "ArrayElementRef"
  <2>1. r \in WriteElement(t, v)
    BY <1>4, PlacesApart DEF WriteResults
  <2>2. CASE t.id \in Sized /\ v.type = t.id /\ r = Result("accepted", Store(0, v))
    <3>1. New(t, v, v)
      BY <2>2, NumbersAre, HandlesAreNot DEF New, IsLocal
    <3> QED BY <2>2, <3>1, StoreChanges DEF Result, Outcomes
  <2> QED BY <1>0, <1>1, <2>1, <2>2, ElementWrites
<1>5. CASE place = "ArgRef"
  <2>1. r \in IF ~ LocalFits(t, v) THEN Stops ELSE {Result("accepted", Store(0, v))}
    BY <1>5, PlacesApart DEF WriteResults, WriteArg
  <2>2. CASE LocalFits(t, v) /\ r = Result("accepted", Store(0, v))
    <3>1. New(t, v, v)
      BY <2>2 DEF New, LocalFits
    <3> QED BY <2>2, <3>1, StoreChanges DEF Result, Outcomes
  <2> QED BY <1>0, <2>1, <2>2
<1> QED BY <1>2, <1>3, <1>4, <1>5 DEF Places

-----------------------------------------------------------------------------
(* Type correctness and the first invariant.                               *)

Statuses == {"absent", "live", "stopped"}

TypeOK ==
  /\ build \in Builds /\ place \in Places /\ vtype \in Types
  /\ \A o \in DOMAIN memory : memory[o] \in Cells
  /\ register \in Cells /\ settled \in Cells
  /\ status \in Statuses

\* The parts of a type.
LEMMA TypesAre ==
  ASSUME NEW t \in Types
  PROVE  t.id \in TypeIds /\ t.nullable \in BOOLEAN /\ t.local \in BOOLEAN
BY VarAccessAssumption

\* A cell is the value of its parts,
LEMMA CellsAre ==
  ASSUME NEW v \in Cells
  PROVE  v = Value(v.type, v.data, v.local) /\ v.local \in BOOLEAN
BY DEF Cells, Value

\* and such parts make a cell.
LEMMA MakesCells ==
  ASSUME NEW a \in Numbers \cup {"Object", "Reference", Junk},
         NEW d \in {"0", "1", "null", "set", "clear", Junk} \cup Objects \cup References,
         NEW l \in BOOLEAN
  PROVE  Value(a, d, l) \in Cells
BY DEF Value, Cells

\* What is written is a cell,
LEMMA WrittenCells == Written \subseteq Cells
<1>1. Values \subseteq Cells
  BY DEF Values, Cells
<1> QED BY <1>1, VarAccessAssumption

\* so are default values,
LEMMA DefaultCells ==
  ASSUME NEW t, NEW v \in DefaultOf(t), t.nullable \in BOOLEAN
  PROVE  v \in Cells
<1>1. v = Nullptr \/ (t.id \in Sized /\ v = Value(t.id, "0", FALSE)) \/ v = Value("Reference", "field", FALSE)
  BY NumbersAre, HandlesAreNot DEF DefaultOf
<1> QED BY <1>1, MakesCells, HandlesAreNot DEF Nullptr, References

\* what is read back from the memory
LEMMA StoredCells ==
  ASSUME TypeOK, NEW o
  PROVE  Stored(o) \in Cells
BY MakesCells DEF Stored, TypeOK

\* and what read_var() gives.
LEMMA ReadCells ==
  ASSUME TypeOK, NEW v \in ReadResults(vtype)
  PROVE  v \in Cells
<1> DEFINE t == vtype
<1>0. t.nullable \in BOOLEAN /\ t.local \in BOOLEAN /\ register \in Cells /\ register.local \in BOOLEAN
      /\ place \in Places /\ (register.local \/ t.local) \in BOOLEAN
  BY TypesAre, CellsAre DEF TypeOK
<1>1. \A o, a : a \in Numbers \cup {"Object", "Reference"} =>
        \A l \in BOOLEAN : Value(a, Stored(o).data, l) \in Cells
  <2> SUFFICES ASSUME NEW o, NEW a \in Numbers \cup {"Object", "Reference"}, NEW l \in BOOLEAN
               PROVE  Value(a, Stored(o).data, l) \in Cells
    OBVIOUS
  <2>1. Stored(o).data \in {"0", "1", "null", "set", "clear", Junk} \cup Objects \cup References
    BY StoredCells DEF Cells
  <2> QED BY <2>1, MakesCells
<1>2. \A d \in References, l \in BOOLEAN : Value("Reference", d, l) \in Cells
  BY MakesCells
<1>3. ASSUME t.id \in Numbers, v \in NullableRead(t, t.id) PROVE v \in Cells
  <2>1. v = Nullptr \/ v = Value(t.id, Stored(ReadAt(t)).data, register.local)
    BY <1>3 DEF NullableRead, Got
  <2> QED BY <1>0, <1>1, <1>2, <1>3, <2>1 DEF Nullptr, References
<1>4. CASE place \in Locals
  <2>1. v \in ReadLocal(t)
    BY <1>4, PlacesApart DEF ReadResults
  <2>2. CASE t.id \in Numbers
    BY <1>3, <2>1, <2>2, NumbersAre DEF ReadLocal, Handles
  <2>3. CASE t.id \in Handles
    <3>1. v \in ReadAsObject(t)
      BY <2>1, <2>3, NumbersAre DEF ReadLocal, Handles
    <3>2. v = Value("Object", Stored(ReadAt(t)).data, register.local \/ t.local)
      BY <3>1 DEF ReadAsObject
    <3> QED BY <1>0, <1>1, <3>2
  <2>4. CASE t.id = "StructInstance"
    <3>1. v = Value("Reference", "variable", register.local \/ t.local)
      BY <2>1, <2>4, NumbersAre DEF ReadLocal, Handles
    <3> QED BY <1>0, <1>2, <3>1 DEF References
  <2>5. CASE t.id = "Ref"
    <3>1. v = Value("Reference", Stored(ReadAt(t)).data, register.local \/ t.local)
      BY <2>1, <2>5, NumbersAre DEF ReadLocal, Handles
    <3> QED BY <1>0, <1>1, <3>1
  <2>6. CASE t.id = "Any"
    <3>1. v = Stored(ReadAt(t))
      BY <2>1, <2>6, NumbersAre DEF ReadLocal, Handles
    <3> QED BY <3>1, StoredCells
  <2>7. CASE t.id \notin Numbers \cup Handles \cup {"StructInstance", "Ref", "Any"}
    BY <2>1, <2>7 DEF ReadLocal
  <2> QED BY <2>2, <2>3, <2>4, <2>5, <2>6, <2>7
<1>5. CASE place \in Fields
  <2>1. v \in ReadField(t)
    BY <1>5, PlacesApart DEF ReadResults
  <2>2. CASE t.id \in Numbers
    BY <1>3, <2>1, <2>2, NumbersAre DEF ReadField, Handles, Enums
  <2>3. CASE t.id \in Handles
    <3>1. v = Value("Object", Stored(0).data, register.local)
      BY <2>1, <2>3, NumbersAre DEF ReadField, Handles, Enums
    <3> QED BY <1>0, <1>1, <3>1
  <2>4. CASE t.id = "StructInstance"
    <3>1. v = Value("Reference", "field", register.local)
      BY <2>1, <2>4, NumbersAre DEF ReadField, Handles, Enums
    <3> QED BY <1>0, <1>2, <3>1 DEF References
  <2>5. CASE t.id \in Enums
    <3>1. v = Value("I32", Stored(0).data, register.local)
      BY <2>1, <2>5, NumbersAre DEF ReadField, Handles, Enums
    <3> QED BY <1>0, <1>1, <3>1, NumbersAre
  <2>6. CASE t.id = "Ref"
    <3>1. v = Value("Reference", Stored(0).data, register.local)
      BY <2>1, <2>6, NumbersAre DEF ReadField, Handles, Enums
    <3> QED BY <1>0, <1>1, <3>1
  <2>7. CASE t.id = "Any"
    <3>1. v = Stored(0)
      BY <2>1, <2>7, NumbersAre DEF ReadField, Handles, Enums
    <3> QED BY <3>1, StoredCells
  <2>8. CASE t.id \notin Numbers \cup Handles \cup Enums \cup {"StructInstance", "Ref", "Any"}
    BY <2>1, <2>8 DEF ReadField
  <2> QED BY <2>2, <2>3, <2>4, <2>5, <2>6, <2>7, <2>8
<1>6. CASE place = "ArrayElementRef"
  <2>1. v \in ReadElement(t)
    BY <1>6, PlacesApart DEF ReadResults
  <2>2. CASE t.nullable
    BY <2>1, <2>2 DEF ReadElement
  <2>3. CASE ~ t.nullable /\ t.id \in Sized
    <3>1. v = Value(t.id, Stored(0).data, register.local)
      BY <2>1, <2>3, NumbersAre, HandlesAreNot DEF ReadElement, Got, Handles
    <3> QED BY <1>0, <1>1, <2>3, <3>1, HandlesAreNot
  <2>4. CASE ~ t.nullable /\ t.id \notin Sized
    <3>1. \/ v = Value("Object", Stored(0).data, FALSE)
          \/ v = Value("Reference", "field", FALSE)
          \/ v = Stored(0)
      BY <2>1, <2>4, NumbersAre DEF ReadElement, Handles
    <3> QED BY <1>1, <1>2, <3>1, StoredCells DEF References
  <2> QED BY <1>0, <2>2, <2>3, <2>4
<1>7. CASE place = "ArgRef"
  <2>1. v = [Stored(0) EXCEPT !.local = @ \/ t.local]
    BY <1>7, PlacesApart DEF ReadResults, ReadArg
  <2>2. Stored(0) \in Cells
    BY StoredCells
  <2> QED BY <1>0, <2>1, <2>2 DEF Cells
<1> QED BY <1>0, <1>4, <1>5, <1>6, <1>7 DEF Places

\* Where a variable can be created; and nothing is settled before.
CreationOK ==
  /\ status = "absent" => settled.type = Junk /\ DOMAIN memory = {}
  /\ status = "live" =>
       /\ place \in Locals \cup Fields => HasAlignment(vtype)
       /\ place = "ArrayElementRef" => vtype.id \in Sized \cup {"String", "Instance", "Array", "Any"}

\* What the actions that write have in common: an outcome r of writing v.
LEMMA WroteTyped ==
  ASSUME TypeOK, NEW v \in Cells, NEW r, Wrote(v, r), Changes(vtype, v, r.memory), r.outcome \in Outcomes
  PROVE  TypeOK' /\ status' \in {"stopped", "live"}
<1>1. \A o \in DOMAIN memory' : memory'[o] \in Cells
  BY DEF Wrote, Changes, New, TypeOK
<1>2. settled' \in Cells /\ status' \in {"stopped", "live"}
  BY DEF Wrote, TypeOK
<1>3. UNCHANGED <<build, place, vtype, register>>
  BY DEF Wrote
<1> QED BY <1>1, <1>2, <1>3 DEF TypeOK, Statuses

\* A change that the type allows stores no local reference where none may be.
LEMMA WroteLocal ==
  ASSUME LocalStaysLocal, NEW v, NEW r, Wrote(v, r), Changes(vtype, v, r.memory), UNCHANGED passed
  PROVE  LocalStaysLocal'
BY DEF Wrote, Changes, New, LocalStaysLocal, IsLocal

\* A step that changes only the status keeps the types.
LEMMA OnlyStatus ==
  ASSUME TypeOK, UNCHANGED <<build, place, vtype, memory, register, settled>>, status' \in {"live", "stopped"}
  PROVE  TypeOK'
BY DEF TypeOK, Statuses

\* Every step: it stops, makes the variable live as it is, writes to it, or leaves it.
Aligned == place \in Locals \cup Fields => HasAlignment(vtype)
Writes(v, r) ==
  /\ Wrote(v, r) /\ v \in Cells /\ r.outcome \in Outcomes /\ Changes(vtype, v, r.memory) /\ UNCHANGED passed
  /\ \/ r \in WriteResults(vtype, v)
     \/ place = "ArgRef" /\ r = Result("accepted", Store(0, v))
  /\ status = "live" \/ (status = "absent" /\ Aligned /\ place # "ArrayElementRef")

Leaves == UNCHANGED <<build, place, vtype, memory, settled, passed>>
Stopping == Leaves /\ register' = register /\ status' = "stopped"
Creating ==
  /\ Leaves /\ register' = register /\ status = "absent" /\ status' = "live" /\ Aligned
  /\ place = "ArrayElementRef" => vtype.id \in Sized \cup {"String", "Instance", "Array", "Any"}
Reading == Leaves /\ register' \in Cells /\ status = "live" /\ status' = "live"

\* Every step but the passing of an argument ends the process, creates the variable,
\* reads it or writes it.
LEMMA StepCases ==
  ASSUME TypeOK, VarNext
  PROVE  Stopping \/ Creating \/ Reading \/ PassArg \/ \E v, r : Writes(v, r)
<1> SUFFICES ASSUME ~ PassArg PROVE Stopping \/ Creating \/ Reading \/ \E v, r : Writes(v, r)
  OBVIOUS
<1> UNCHANGED passed
  BY DEF VarNext
<1>0. vtype.nullable \in BOOLEAN /\ place \in Places
  BY TypesAre DEF TypeOK
<1>1. ASSUME Stop PROVE Stopping
  BY <1>1 DEF Stop, Stopping, Leaves
<1>2. ASSUME NEW v \in Cells, NEW r \in WriteResults(vtype, v), Wrote(v, r),
             status = "live" \/ (status = "absent" /\ Aligned /\ place # "ArrayElementRef")
      PROVE  Writes(v, r)
  BY <1>0, <1>2, WriteChanges DEF Writes
<1>3. CASE CreateLocal
  <2>0. status = "absent" /\ place \in Locals
    BY <1>3 DEF CreateLocal
  <2>1. CASE /\ HasAlignment(vtype) /\ vtype.id \in Enums \cup (Structs \ {"StructInstance"})
             /\ status' = "live"
             /\ UNCHANGED <<build, place, vtype, memory, register, verdict, settled>>
    BY <2>0, <2>1, PlacesApart DEF Creating, Leaves, Aligned
  <2>2. CASE HasAlignment(vtype) /\ \E v \in DefaultOf(vtype) : \E r \in WriteResults(vtype, v) :
               IF r.outcome = "accepted" THEN Wrote(v, r) ELSE Stop
    <3>1. PICK v \in DefaultOf(vtype) : \E r \in WriteResults(vtype, v) : Wrote(v, r) \/ Stop
      BY <2>2
    <3>2. PICK r \in WriteResults(vtype, v) : Wrote(v, r) \/ Stop
      BY <3>1
    <3>3. v \in Cells
      BY <1>0, DefaultCells
    <3>4. Aligned /\ place # "ArrayElementRef"
      BY <2>0, <2>2, PlacesApart DEF Aligned
    <3> QED BY <1>1, <1>2, <2>0, <3>2, <3>3, <3>4
  <2>3. CASE ~ HasAlignment(vtype) /\ Stop
    BY <1>1, <2>3
  <2> QED BY <1>3, <2>1, <2>2, <2>3 DEF CreateLocal
<1>4. CASE CreateLoadedField
  BY <1>4, PlacesApart DEF CreateLoadedField, Creating, Leaves, Aligned, Fields
<1>5. CASE CreateField
  <2>0. status = "absent" /\ place \in Fields
    BY <1>5 DEF CreateField
  <2>1. CASE Stop
    BY <1>1, <2>1
  <2>2. CASE HasAlignment(vtype) /\ \E v \in DefaultOf(vtype) : \E r \in WriteResults(vtype, v) :
               Wrote(v, r) \/ Stop
    <3>1. PICK v \in DefaultOf(vtype) : \E r \in WriteResults(vtype, v) : Wrote(v, r) \/ Stop
      BY <2>2
    <3>2. PICK r \in WriteResults(vtype, v) : Wrote(v, r) \/ Stop
      BY <3>1
    <3>3. v \in Cells
      BY <1>0, DefaultCells
    <3>4. Aligned /\ place # "ArrayElementRef"
      BY <2>0, <2>2, PlacesApart DEF Aligned
    <3> QED BY <1>1, <1>2, <2>0, <3>2, <3>3, <3>4
  <2> QED BY <1>5, <2>1, <2>2 DEF CreateField
<1>6. CASE CreateElement
  BY <1>1, <1>6, PlacesApart DEF CreateElement, Creating, Leaves, Aligned
<1>7. CASE CreateArg
  <2>0. status = "absent" /\ place = "ArgRef"
    BY <1>7 DEF CreateArg
  <2>1. PICK v \in Written : \E fits \in IsCompatible(vtype, v) :
          CASE fits = "yes" -> Wrote(v, Result("accepted", Store(0, v)))
            [] fits = "stop" -> Stop
            [] OTHER -> FALSE
    BY <1>7 DEF CreateArg
  <2>2. PICK fits \in IsCompatible(vtype, v) :
          \/ fits = "yes" /\ Wrote(v, Result("accepted", Store(0, v)))
          \/ Stop
    BY <2>1
  <2>3. CASE fits = "yes" /\ Wrote(v, Result("accepted", Store(0, v)))
    <3> DEFINE r == Result("accepted", Store(0, v))
    <3>1. New(vtype, v, v)
      BY <2>3, Verdicts DEF New
    <3>2. Changes(vtype, v, Store(0, v))
      BY <3>1, StoreChanges
    <3>3. v \in Cells /\ Aligned /\ place # "ArrayElementRef"
      BY <2>0, WrittenCells, PlacesApart DEF Aligned
    <3>4. r.outcome \in Outcomes /\ r.memory = Store(0, v)
      BY DEF Result, Outcomes
    <3>5. Writes(v, r)
      BY <2>0, <2>3, <3>2, <3>3, <3>4 DEF Writes
    <3> QED BY <3>5
  <2> QED BY <1>1, <2>2, <2>3
<1>8. CASE WriteVar
  <2>1. PICK v \in Written \cup {register} : \E r \in WriteResults(vtype, v) : Wrote(v, r)
    BY <1>8 DEF WriteVar
  <2>2. v \in Cells /\ status = "live"
    BY <1>8, WrittenCells DEF WriteVar, TypeOK
  <2> QED BY <1>2, <2>1, <2>2
<1>9. CASE ReadVar
  <2>1. CASE Stop
    BY <1>1, <2>1
  <2>2. CASE \E v \in ReadResults(vtype) :
               /\ register' = v /\ verdict' = "none"
               /\ UNCHANGED <<build, place, vtype, memory, status, settled>>
    BY <1>9, <2>2, ReadCells DEF ReadVar, Reading, Leaves
  <2> QED BY <1>9, <2>1, <2>2 DEF ReadVar
<1>10. CASE ReadTyped
  <2>1. CASE Stop
    BY <1>1, <2>1
  <2>2. CASE UNCHANGED <<build, place, vtype, memory, register, status, settled>>
    BY <1>10, <2>2 DEF ReadTyped, Reading, Leaves, TypeOK
  <2> QED BY <1>10, <2>1, <2>2 DEF ReadTyped
<1> QED BY <1>3, <1>4, <1>5, <1>6, <1>7, <1>8, <1>9, <1>10 DEF VarNext

\* Nothing has been written at first.
LEMMA InitTyped ==
  ASSUME VarInit
  PROVE  TypeOK /\ CreationOK /\ LocalStaysLocal /\ settled.type = Junk
<1>0. DOMAIN memory = {}
  BY DEF VarInit
<1>1. register \in Cells /\ settled \in Cells
  BY MakesCells DEF VarInit, References
<1>2. settled.type = Junk
  BY DEF VarInit, Value
<1> QED BY <1>0, <1>1, <1>2 DEF VarInit, TypeOK, CreationOK, LocalStaysLocal, Statuses

\* An argument that is passed is all that its variable holds.
LEMMA PassArgIs ==
  ASSUME TypeOK, CreationOK, PassArg
  PROVE  \E v \in Written : /\ DOMAIN memory' = {0} /\ memory'[0] = v /\ passed' = v /\ settled' = v
                            /\ v \in Cells /\ status' = "live" /\ place = "ArgRef"
                            /\ UNCHANGED <<build, place, vtype, register>>
<1>1. PICK v \in Written : Wrote(v, Result("accepted", Store(0, v))) /\ passed' = v
  BY DEF PassArg
<1>2. DOMAIN memory = {} /\ place = "ArgRef"
  BY DEF PassArg, CreationOK
<1>3. memory' = Store(0, v) /\ status' = "live" /\ settled' = v /\ UNCHANGED <<build, place, vtype, register>>
  BY <1>1 DEF Wrote, Result
<1>4. DOMAIN memory' = {0} /\ memory'[0] = v
  BY <1>2, <1>3 DEF Store
<1>5. v \in Cells
  BY WrittenCells
<1> QED BY <1>1, <1>2, <1>3, <1>4, <1>5

\* Every step keeps the types and what creation has established.
LEMMA StepTyped ==
  ASSUME TypeOK, CreationOK, VarNext
  PROVE  TypeOK' /\ CreationOK'
<1>1. CASE Stopping
  BY <1>1 DEF Stopping, Leaves, TypeOK, Statuses, CreationOK
<1>2. CASE Creating
  <2>1. TypeOK'
    BY <1>2 DEF Creating, Leaves, TypeOK, Statuses
  <2> QED BY <1>2, <2>1 DEF Creating, Leaves, CreationOK, Aligned, HasAlignment, HasSize
<1>3. CASE Reading
  <2>1. TypeOK'
    BY <1>3 DEF Reading, Leaves, TypeOK, Statuses
  <2> QED BY <1>3, <2>1 DEF Reading, Leaves, CreationOK, HasAlignment, HasSize
<1>4. CASE \E v, r : Writes(v, r)
  <2>1. PICK v, r : Writes(v, r)
    BY <1>4
  <2>2. TypeOK' /\ status' \in {"stopped", "live"}
    BY <2>1, WroteTyped DEF Writes
  <2>3. place' = place /\ vtype' = vtype
    BY <2>1 DEF Writes, Wrote
  <2>4. CreationOK'
    BY <2>1, <2>2, <2>3 DEF Writes, CreationOK, Aligned, HasAlignment, HasSize
  <2> QED BY <2>2, <2>4
<1>5. CASE PassArg
  <2>1. PICK v \in Written : /\ DOMAIN memory' = {0} /\ memory'[0] = v /\ settled' = v /\ v \in Cells
                             /\ status' = "live" /\ place = "ArgRef"
                             /\ UNCHANGED <<build, place, vtype, register>>
    BY <1>5, PassArgIs
  <2>2. TypeOK'
    BY <2>1 DEF TypeOK, Statuses
  <2> QED BY <2>1, <2>2, PlacesApart DEF CreationOK
<1> QED BY <1>1, <1>2, <1>3, <1>4, <1>5, StepCases

\* Every step keeps local references where they belong.
LEMMA StepLocal ==
  ASSUME TypeOK, CreationOK, LocalStaysLocal, VarNext
  PROVE  LocalStaysLocal'
<1>1. CASE Leaves
  BY <1>1 DEF Leaves, LocalStaysLocal
<1>2. CASE \E v, r : Writes(v, r)
  BY <1>2, WroteLocal DEF Writes
<1>3. CASE PassArg
  BY <1>3, PassArgIs DEF LocalStaysLocal
<1> QED BY <1>1, <1>2, <1>3, StepCases DEF Stopping, Creating, Reading

\* For any types, objects and references: whichever of the cascades of write_var(), or
\* _fill_args(), gets it, a reference marked as local does not reach a variable whose
\* type is not local; only the argument of a call of the program does.
THEOREM LocalReferencesStay == VarSpec => []LocalStaysLocal
<1> DEFINE I == TypeOK /\ CreationOK /\ LocalStaysLocal
<1>1. VarInit => I
  BY InitTyped
<1>2. I /\ [VarNext]_var => I'
  <2>1. I /\ VarNext => I'
    BY StepTyped, StepLocal
  <2>2. I /\ UNCHANGED var => I'
    BY DEF TypeOK, CreationOK, LocalStaysLocal, var, HasAlignment, HasSize
  <2> QED BY <2>1, <2>2
<1> QED BY <1>1, <1>2, PTL DEF VarSpec

-----------------------------------------------------------------------------
(* A read gives what was written.                                          *)

\* Where a number that cannot be null lies.
NumberAt == IF place \in Locals THEN Header ELSE 0

\* A number that cannot be null is written where it is read.
LEMMA NumberPlace ==
  ASSUME NEW t, t.id \in Numbers, ~ t.nullable
  PROVE  WriteAt(t) = NumberAt /\ ReadAt(t) = NumberAt
BY HandlesAreNot, NumbersAre DEF WriteAt, ReadAt, NumberAt, InLocal, WritesPastTypeDef, ReadsPastTypeDef,
     Header, Handles, Structs

\* The memory m holds the value v as a read of the variable expects it.
Kept(t, m, v) ==
  /\ place = "ArgRef" => 0 \in DOMAIN m /\ m[0] = v
  /\ t.id \in Numbers /\ place # "ArgRef" =>
       v.type = t.id /\ NumberAt \in DOMAIN m /\ m[NumberAt].data = v.data
  /\ place = "ArrayElementRef" /\ v.type = "Object" =>
       t.id \in Handles /\ ~ t.local /\ 0 \in DOMAIN m /\ m[0].data = v.data

KeptOK == (status = "live" /\ settled.type # Junk /\ ~ vtype.nullable) => Kept(vtype, memory, settled)

\* What has been stored at an offset lies there.
LEMMA Stores ==
  ASSUME NEW o, NEW w
  PROVE  o \in DOMAIN Store(o, w) /\ Store(o, w)[o] = w
BY DEF Store

\* What is accepted for a variable that cannot be null is kept; what is refused
\* leaves the memory as it was.
LEMMA WriteKeeps ==
  ASSUME NEW t, NEW v, NEW r \in WriteResults(t, v), t.nullable \in BOOLEAN, ~ t.nullable, place \in Places,
         place \in Locals \cup Fields => HasAlignment(t)
  PROVE  \/ r.outcome = "stop"
         \/ r.outcome = "refused" /\ r.memory = memory
         \/ r.outcome = "accepted" /\ Kept(t, r.memory, v)
<1> DEFINE Goal == \/ r.outcome = "stop"
                   \/ r.outcome = "refused" /\ r.memory = memory
                   \/ r.outcome = "accepted" /\ Kept(t, r.memory, v)
<1>0. ASSUME r \in Stops \cup Refuses PROVE Goal
  BY <1>0 DEF Stops, Refuses, Result
<1>1. ASSUME t.id \in Numbers, r \in WriteNumber(t, v, v), place \in Locals \cup Fields PROVE Goal
  <2>1. CASE v.type = t.id /\ r = Result("accepted", Store(NumberAt, v))
    <3>1. t.id # "Object"
      BY <1>1, NumbersAre
    <3>2. r.outcome = "accepted" /\ r.memory = Store(NumberAt, v)
      BY <2>1 DEF Result
    <3> QED BY <1>1, <2>1, <3>2, Stores, PlacesApart DEF Kept
  <2> QED BY <1>0, <1>1, <2>1, NumberWrites, NumberPlace DEF Refuses
<1>2. CASE place \in Locals
  <2>1. r \in WriteLocal(t, v)
    BY <1>2, PlacesApart DEF WriteResults
  <2>2. t.id # "ISize"
    BY <1>2 DEF HasAlignment, HasSize, PlatformSized
  <2>3. ASSUME t.id \notin Numbers PROVE Kept(t, r.memory, v)
    BY <1>2, <2>3, PlacesApart DEF Kept
  <2>4. CASE t.id \in Handles /\ r \in PutObject(t, v)
    BY <1>0, <2>3, <2>4, ObjectWrites, HandlesAreNot DEF Result
  <2>5. CASE /\ t.id \in Structs \cup {"Ref"}
             /\ r \in {Result("accepted", Store(WriteAt(t), v)), Result("accepted", memory)}
    <3>1. t.id \notin Numbers
      BY <2>5, HandlesAreNot
    <3> QED BY <2>3, <2>5, <3>1 DEF Result
  <2> QED BY <1>0, <1>1, <1>2, <2>1, <2>2, <2>4, <2>5, LocalWrites
<1>3. CASE place \in Fields
  <2>1. r \in WriteField(t, v)
    BY <1>3, PlacesApart DEF WriteResults
  <2>2. CASE t.id \in Handles /\ r \in PutObject(t, v)
    <3>1. t.id \notin Numbers
      BY <2>2, HandlesAreNot
    <3>2. Kept(t, r.memory, v)
      BY <1>3, <3>1, PlacesApart DEF Kept
    <3> QED BY <1>0, <2>2, <3>2, ObjectWrites DEF Result
  <2> QED BY <1>0, <1>1, <1>3, <2>1, <2>2, FieldWrites
<1>4. CASE place = "ArrayElementRef"
  <2>1. r \in WriteElement(t, v)
    BY <1>4, PlacesApart DEF WriteResults
  <2>2. NumberAt = 0 /\ WriteAt(t) = 0
    BY <1>4, PlacesApart DEF NumberAt, WriteAt
  <2>3. CASE t.id \in Sized /\ v.type = t.id /\ r = Result("accepted", Store(0, v))
    <3>1. t.id # "Object"
      BY <2>3, NumbersAre, HandlesAreNot
    <3>2. r.outcome = "accepted" /\ r.memory = Store(0, v)
      BY <2>3 DEF Result
    <3> QED BY <1>4, <2>2, <2>3, <3>1, <3>2, Stores DEF Kept
  <2>4. CASE t.id \in Handles /\ ~ t.local /\ r = Result("accepted", Store(0, ObjectIn(v)))
    <3>1. t.id \notin Numbers
      BY <2>4, HandlesAreNot
    <3>2. r.outcome = "accepted" /\ r.memory = Store(0, ObjectIn(v))
      BY <2>4 DEF Result
    <3>3. v.type = "Object" => ObjectIn(v) = v
      BY DEF ObjectIn
    <3> QED BY <1>4, <2>4, <3>1, <3>2, <3>3, Stores DEF Kept
  <2> QED BY <1>0, <2>1, <2>2, <2>3, <2>4, ElementWrites, ObjectWrites
<1>5. CASE place = "ArgRef"
  <2>1. r \in IF ~ LocalFits(t, v) THEN Stops ELSE {Result("accepted", Store(0, v))}
    BY <1>5, PlacesApart DEF WriteResults, WriteArg
  <2>2. CASE r = Result("accepted", Store(0, v))
    BY <1>5, <2>2, Stores DEF Kept, Result
  <2> QED BY <1>0, <2>1, <2>2
<1> QED BY <1>2, <1>3, <1>4, <1>5 DEF Places

\* Every step leaves in the memory what was written last, where a read looks for it.
LEMMA StepKept ==
  ASSUME TypeOK, CreationOK, KeptOK, VarNext
  PROVE  KeptOK'
<1>0. vtype.nullable \in BOOLEAN /\ place \in Places
  BY TypesAre DEF TypeOK
<1>1. CASE Stopping
  BY <1>1 DEF Stopping, KeptOK
<1>2. CASE Creating
  BY <1>2 DEF Creating, Leaves, CreationOK, KeptOK
<1>3. CASE Reading
  BY <1>3 DEF Reading, Leaves, KeptOK, Kept, NumberAt
<1>4. CASE \E v, r : Writes(v, r)
  <2>1. PICK v, r : Writes(v, r)
    BY <1>4
  <2>2. memory' = r.memory /\ place' = place /\ vtype' = vtype
    BY <2>1 DEF Writes, Wrote
  <2>3. ASSUME ~ vtype.nullable, r.outcome = "accepted" PROVE Kept(vtype, r.memory, v)
    <3>1. CASE r \in WriteResults(vtype, v)
      <4>1. Aligned
        BY <2>1 DEF Writes, CreationOK, Aligned
      <4> QED BY <1>0, <2>3, <3>1, <4>1, WriteKeeps DEF Aligned
    <3>2. CASE place = "ArgRef" /\ r = Result("accepted", Store(0, v))
      BY <3>2, Stores DEF Kept, Result
    <3> QED BY <2>1, <3>1, <3>2 DEF Writes
  <2>4. CASE r.outcome = "stop"
    BY <2>1, <2>4 DEF Writes, Wrote, KeptOK
  <2>5. CASE r.outcome = "accepted"
    <3>1. settled' = v
      BY <2>1, <2>5 DEF Writes, Wrote
    <3> QED BY <2>2, <2>3, <2>5, <3>1 DEF KeptOK, Kept, NumberAt
  <2>6. CASE r.outcome = "refused"
    <3>1. settled' = settled
      BY <2>1, <2>6 DEF Writes, Wrote
    <3>2. CASE status = "absent"
      BY <3>1, <3>2 DEF CreationOK, KeptOK
    <3>3. CASE status = "live" /\ ~ vtype.nullable
      <4>1. r.memory = memory
        <5>1. r \in WriteResults(vtype, v)
          BY <2>1, <2>6 DEF Writes, Result
        <5>2. Aligned
          BY <3>3 DEF CreationOK, Aligned
        <5> QED BY <1>0, <2>6, <3>3, <5>1, <5>2, WriteKeeps DEF Aligned
      <4> QED BY <2>2, <3>1, <3>3, <4>1 DEF KeptOK, Kept, NumberAt
    <3>4. CASE vtype.nullable
      BY <2>2, <3>4 DEF KeptOK
    <3> QED BY <1>0, <2>1, <3>2, <3>3, <3>4 DEF Writes
  <2> QED BY <2>1, <2>4, <2>5, <2>6 DEF Writes, Outcomes
<1>5. CASE PassArg
  <2>1. PICK v \in Written : /\ DOMAIN memory' = {0} /\ memory'[0] = v /\ settled' = v /\ place = "ArgRef"
                             /\ UNCHANGED <<build, place, vtype, register>>
    BY <1>5, PassArgIs
  <2>2. Kept(vtype, memory', v)
    BY <2>1 DEF Kept
  <2> QED BY <2>1, <2>2 DEF KeptOK, Kept, NumberAt
<1> QED BY <1>1, <1>2, <1>3, <1>4, <1>5, StepCases

\* A read gives what lies there.
LEMMA KeptIsRead ==
  ASSUME TypeOK, CreationOK, KeptOK
  PROVE  ReadGivesWritten
<1> DEFINE t == vtype
<1> SUFFICES ASSUME status = "live", settled.type # Junk, ~ t.nullable,
                    t.id \in Numbers \/ (place = "ArrayElementRef" /\ settled.type = "Object")
             PROVE  /\ place # "ArgRef" => ReadResults(t) # {}
                    /\ \A v \in ReadResults(t) : v.type = settled.type /\ v.data = settled.data
  BY Zenon DEF ReadGivesWritten
<1>0. place \in Places /\ t.nullable \in BOOLEAN /\ t.local \in BOOLEAN /\ settled \in Cells
  BY TypesAre DEF TypeOK
<1>1. Kept(t, memory, settled)
  BY DEF KeptOK
<1>2. CASE place \in Locals \cup Fields
  <2>1. t.id \in Numbers /\ place # "ArgRef"
    BY <1>2, PlacesApart
  <2>2. settled.type = t.id /\ Stored(ReadAt(t)).data = settled.data
    BY <1>1, <2>1, NumberPlace DEF Kept, Stored
  <2>3. ReadResults(t) = NullableRead(t, t.id)
    <3>1. CASE place \in Locals
      BY <2>1, <3>1, PlacesApart, NumbersAre DEF ReadResults, ReadLocal, Handles
    <3>2. CASE place \in Fields
      BY <2>1, <3>2, PlacesApart, NumbersAre DEF ReadResults, ReadField, Handles, Enums
    <3> QED BY <1>2, <3>1, <3>2
  <2>4. NullableRead(t, t.id) = {Value(t.id, Stored(ReadAt(t)).data, register.local)}
    BY DEF NullableRead, Got
  <2> QED BY <2>2, <2>3, <2>4 DEF Value
<1>3. CASE place = "ArrayElementRef"
  <2>1. ReadResults(t) = ReadElement(t)
    BY <1>3, PlacesApart DEF ReadResults
  <2>2. CASE t.id \in Numbers
    <3>1. t.id \in Sized
      BY <1>3, <2>2, NumbersAre DEF CreationOK
    <3>2. settled.type = t.id /\ Stored(0).data = settled.data
      BY <1>1, <1>3, <2>2, PlacesApart DEF Kept, Stored, NumberAt
    <3>3. ReadElement(t) = {Value(t.id, Stored(0).data, register.local)}
      BY <3>1, NumbersAre, HandlesAreNot DEF ReadElement, Got, Handles
    <3> QED BY <2>1, <3>2, <3>3 DEF Value
  <2>3. CASE settled.type = "Object"
    <3>1. t.id \in Handles /\ ~ t.local /\ Stored(0).data = settled.data
      BY <1>1, <1>3, <2>3 DEF Kept, Stored
    <3>2. ReadElement(t) = {Value("Object", Stored(0).data, FALSE)}
      BY <3>1, NumbersAre, HandlesAreNot DEF ReadElement, Handles
    <3> QED BY <2>1, <2>3, <3>1, <3>2 DEF Value
  <2> QED BY <1>3, <2>2, <2>3
<1>4. CASE place = "ArgRef"
  <2>1. Stored(0) = settled
    BY <1>1, <1>4 DEF Kept, Stored
  <2>2. ASSUME NEW v \in ReadResults(t) PROVE v = [settled EXCEPT !.local = @ \/ t.local]
    BY <1>4, <2>1, <2>2, PlacesApart DEF ReadResults, ReadArg
  <2>3. ASSUME NEW v \in ReadResults(t) PROVE v.type = settled.type /\ v.data = settled.data
    BY <1>0, <2>2 DEF Cells
  <2> QED BY <1>4, <2>3
<1> QED BY <1>0, <1>2, <1>3, <1>4 DEF Places

\* For any types, objects and references: a read gives what was written last or by the
\* creation, for the types and places that ReadGivesWritten names, although read_var()
\* and write_var() compute the offset each for itself.
THEOREM ReadsGiveWritten == VarSpec => []ReadGivesWritten
<1> DEFINE I == TypeOK /\ CreationOK /\ KeptOK
<1>1. VarInit => I
  BY InitTyped DEF KeptOK
<1>2. I /\ [VarNext]_var => I'
  <2>1. I /\ VarNext => I'
    BY StepTyped, StepKept
  <2>2. I /\ UNCHANGED var => I'
    BY DEF TypeOK, CreationOK, KeptOK, Kept, NumberAt, var, HasAlignment, HasSize
  <2> QED BY <2>1, <2>2
<1>3. I => ReadGivesWritten
  BY KeptIsRead
<1> QED BY <1>1, <1>2, <1>3, PTL DEF VarSpec

-----------------------------------------------------------------------------
(***************************************************************************)
(* Arithmetic.  Everything about an integer type follows from two facts    *)
(* about a conversion to it: the result is a value of the type, and it     *)
(* differs from what is converted by a multiple of the size of the type    *)
(* (WrapIs), which determines it (WrapUnique).  Powers of two are defined  *)
(* by recursion; TwoToIs has the equation, and what holds of all of them   *)
(* is shown by Counting.                                                   *)
(***************************************************************************)

\* The equation that defines the powers of two.
LEMMA TwoToIs ==
  /\ TwoTo \in [Nat -> Nat]
  /\ TwoTo[0] = 1 /\ \A n \in Nat : TwoTo[n + 1] = 2 * TwoTo[n]
<1> DEFINE G == [x \in Nat |-> 2 * x]
           Walk(f) == [n \in Nat |-> IF n = 0 THEN 1 ELSE 2 * f[n - 1]]
<1>1. PICK f \in [Nat -> Nat] : f[0] = 1 /\ \A n \in Nat : f[n + 1] = 2 * f[n]
  <2>1. G \in [Nat -> Nat] /\ 1 \in Nat
    OBVIOUS
  <2> HIDE DEF G
  <2>2. PICK f \in [Nat -> Nat] : IteratesAll(f, G, 1)
    BY <2>1, IteratesForever, Zenon
  <2>3. \A n \in Nat : f[n + 1] = G[f[n]] /\ f[n] \in Nat
    BY <2>2 DEF IteratesAll
  <2>4. \A x \in Nat : G[x] = 2 * x
    BY DEF G
  <2> QED BY <2>2, <2>3, <2>4 DEF IteratesAll
<1>2. f = Walk(f)
  <2>1. ASSUME NEW n \in Nat PROVE f[n] = IF n = 0 THEN 1 ELSE 2 * f[n - 1]
    <3>1. CASE n = 0
      BY <1>1, <3>1
    <3>2. CASE n # 0
      <4>1. n - 1 \in Nat /\ (n - 1) + 1 = n
        BY <3>2
      <4> QED BY <1>1, <3>2, <4>1
    <3> QED BY <3>1, <3>2
  <2> QED BY <2>1
<1>3. TwoTo = Walk(TwoTo)
  BY <1>2 DEF TwoTo
<1>4. \A n \in Nat : TwoTo[n] = IF n = 0 THEN 1 ELSE 2 * TwoTo[n - 1]
  BY <1>3
<1>5. \A n \in Nat : TwoTo[n] = f[n]
  <2> DEFINE T == {n \in Nat : TwoTo[n] # f[n]}
  <2>1. SUFFICES ASSUME T # {} PROVE FALSE
    OBVIOUS
  <2>2. PICK k \in T : \A y \in T : k <= y
    <3>1. T \in SUBSET Nat
      OBVIOUS
    <3> HIDE DEF T
    <3> QED BY <2>1, <3>1, NatMin
  <2>3. k # 0
    BY <2>2, <1>1, <1>4
  <2>4. k - 1 \in Nat /\ (k - 1) + 1 = k /\ k - 1 \notin T
    BY <2>2, <2>3
  <2> QED BY <2>2, <2>3, <2>4, <1>1, <1>4
<1>6. TwoTo = f
  <2>1. TwoTo = [n \in Nat |-> TwoTo[n]]
    BY <1>3
  <2> QED BY <2>1, <1>1, <1>5
<1> QED BY <1>1, <1>6

\* A property of all numbers that T holds of.
LEMMA Counting ==
  ASSUME NEW T \in SUBSET Nat, 0 \in T, \A n \in T : n + 1 \in T
  PROVE  T = Nat
<1>1. SUFFICES ASSUME Nat \ T # {} PROVE FALSE
  OBVIOUS
<1>2. PICK k \in Nat \ T : \A y \in Nat \ T : k <= y
  BY <1>1, NatMin
<1>3. k - 1 \in Nat /\ (k - 1) + 1 = k /\ k - 1 \notin Nat \ T
  BY <1>2
<1> QED BY <1>2, <1>3

\* A power of two is greater than its exponent.
LEMMA TwoToGrows ==
  ASSUME NEW n \in Nat
  PROVE  TwoTo[n] \in Nat /\ TwoTo[n] > n
<1> DEFINE T == {k \in Nat : TwoTo[k] > k}
<1>1. 0 \in T /\ \A k \in T : k + 1 \in T
  BY TwoToIs
<1>2. T = Nat
  <2> HIDE DEF T
  <2>1. T \in SUBSET Nat
    BY DEF T
  <2> QED BY <1>1, <2>1, Counting
<1> QED BY <1>2, TwoToIs

\* Exponents are added.
LEMMA TwoToAdds ==
  ASSUME NEW m \in Nat, NEW n \in Nat
  PROVE  TwoTo[m + n] = TwoTo[m] * TwoTo[n]
<1> DEFINE T == {k \in Nat : TwoTo[m + k] = TwoTo[m] * TwoTo[k]}
<1>1. 0 \in T
  BY TwoToIs
<1>2. ASSUME NEW k \in T PROVE k + 1 \in T
  <2>1. m + (k + 1) = (m + k) + 1 /\ m + k \in Nat /\ k + 1 \in Nat
    OBVIOUS
  <2>2. TwoTo[m + (k + 1)] = 2 * TwoTo[m + k] /\ TwoTo[k + 1] = 2 * TwoTo[k]
    BY <2>1, TwoToIs
  <2>3. TwoTo[m] \in Nat /\ TwoTo[k] \in Nat
    BY TwoToIs
  <2> QED BY <2>1, <2>2, <2>3
<1>3. T = Nat
  <2> HIDE DEF T
  <2>1. T \in SUBSET Nat
    BY DEF T
  <2> QED BY <1>1, <1>2, <2>1, Counting
<1> QED BY <1>3

\* Greater exponents give greater powers.
LEMMA TwoToMonotone ==
  ASSUME NEW m \in Nat, NEW n \in Nat, m <= n
  PROVE  TwoTo[m] <= TwoTo[n]
<1>1. n - m \in Nat /\ m + (n - m) = n
  OBVIOUS
<1>2. TwoTo[n] = TwoTo[m] * TwoTo[n - m]
  BY <1>1, TwoToAdds
<1>3. TwoTo[n - m] \in Nat /\ TwoTo[n - m] > n - m /\ TwoTo[m] \in Nat
  BY <1>1, TwoToGrows
<1>4. \A x, y \in Nat : y >= 1 => x <= x * y
  OBVIOUS
<1> QED BY <1>2, <1>3, <1>4

\* A multiple is at least as large as what it is a multiple of.
LEMMA Multiples ==
  ASSUME NEW k \in Int, NEW M \in Nat
  PROVE  /\ k * M \in Int
         /\ k >= 1 => k * M >= M
         /\ k <= -1 => k * M <= -M
<1>1. k >= 1 => (k - 1) * M >= 0
  OBVIOUS
<1>2. k <= -1 => ((-1) - k) * M >= 0
  OBVIOUS
<1> QED BY <1>1, <1>2

\* What a division by M leaves.
LEMMA DivisionBy ==
  ASSUME NEW x \in Int, NEW M \in Nat, M > 0
  PROVE  /\ x \div M \in Int /\ x % M \in 0 .. M - 1
         /\ x = (x \div M) * M + (x % M)
OBVIOUS

\* There is just one quotient and one remainder.
LEMMA DivisionUnique ==
  ASSUME NEW M \in Nat, M > 0, NEW k \in Int, NEW r \in 0 .. M - 1,
         NEW x, x = k * M + r
  PROVE  x % M = r /\ x \div M = k
<1>1. k * M \in Int /\ r \in Int /\ x \in Int
  BY Multiples
<1> DEFINE q == x \div M
           s == x % M
<1>2. q \in Int /\ s \in 0 .. M - 1 /\ x = q * M + s
  BY <1>1, DivisionBy
<1> HIDE DEF q, s
<1>3. (k - q) * M = s - r
  BY <1>2
<1>4. k - q = 0
  <2>1. k - q \in Int
    BY <1>2
  <2>2. ~(k - q >= 1) /\ ~(k - q <= -1)
    BY <1>2, <1>3, <2>1, Multiples
  <2> QED BY <2>1, <2>2
<1> QED BY <1>2, <1>3, <1>4 DEF q, s

\* The values of an integer type are as many as it has bit patterns, one after another.
LEMMA ValuesAre ==
  ASSUME NEW t \in Ints
  PROVE  /\ Bits[t] \in Nat /\ Bits[t] >= 1
         /\ TwoTo[Bits[t]] \in Nat /\ TwoTo[Bits[t]] > 0 /\ TwoTo[Bits[t] - 1] \in Nat
         /\ TwoTo[Bits[t]] = 2 * TwoTo[Bits[t] - 1]
         /\ Lowest(t) \in Int /\ Highest(t) \in Int /\ Lowest(t) <= 0 /\ 0 <= Highest(t)
         /\ Highest(t) = Lowest(t) + TwoTo[Bits[t]] - 1
         /\ ValuesOf(t) = Lowest(t) .. Highest(t) /\ ValuesOf(t) \subseteq Int
         /\ t \in Signed => Lowest(t) = -TwoTo[Bits[t] - 1] /\ Highest(t) = TwoTo[Bits[t] - 1] - 1
         /\ t \notin Signed => Lowest(t) = 0 /\ Highest(t) = TwoTo[Bits[t]] - 1
<1>1. Bits[t] \in Nat /\ Bits[t] >= 1
  BY ArithAssumption
<1>2. Bits[t] - 1 \in Nat /\ (Bits[t] - 1) + 1 = Bits[t]
  BY <1>1
<1>3. TwoTo[Bits[t]] = 2 * TwoTo[Bits[t] - 1]
  BY <1>2, TwoToIs
<1>4. TwoTo[Bits[t] - 1] \in Nat /\ TwoTo[Bits[t] - 1] > 0 /\ TwoTo[Bits[t]] \in Nat
  BY <1>1, <1>2, TwoToGrows
<1>5. /\ t \in Signed => Lowest(t) = -TwoTo[Bits[t] - 1] /\ Highest(t) = TwoTo[Bits[t] - 1] - 1
      /\ t \notin Signed => Lowest(t) = 0 /\ Highest(t) = TwoTo[Bits[t]] - 1
  BY DEF Lowest, Highest
<1>6. ValuesOf(t) = Lowest(t) .. Highest(t)
  BY DEF ValuesOf, Ints, Signed, Unsigned, Floats
<1> QED BY <1>1, <1>3, <1>4, <1>5, <1>6

\* A conversion gives a value of the type that differs by a multiple of its size.
LEMMA WrapIs ==
  ASSUME NEW t \in Ints, NEW x \in Int
  PROVE  /\ Wrap(t, x) \in ValuesOf(t)
         /\ \E k \in Int : x = Wrap(t, x) + k * TwoTo[Bits[t]]
<1> DEFINE M == TwoTo[Bits[t]]
           l == Lowest(t)
           q == (x - l) \div M
           r == (x - l) % M
<1>1. /\ M \in Nat /\ M > 0 /\ l \in Int /\ Highest(t) = l + M - 1
      /\ ValuesOf(t) = l .. Highest(t) /\ Wrap(t, x) = l + r
  BY ValuesAre DEF Wrap
<1>2. x - l \in Int
  BY <1>1
<1>3. q \in Int /\ r \in 0 .. M - 1 /\ x - l = q * M + r
  <2> HIDE DEF M, l
  <2> QED BY <1>1, <1>2, DivisionBy
<1>4. q * M \in Int
  BY <1>1, <1>3, Multiples
<1> HIDE DEF M, l, q, r
<1>5. Wrap(t, x) \in ValuesOf(t) /\ x = Wrap(t, x) + q * M
  BY <1>1, <1>3, <1>4
<1> QED BY <1>3, <1>5 DEF M

\* There is just one such value.
LEMMA WrapUnique ==
  ASSUME NEW t \in Ints, NEW v \in ValuesOf(t), NEW k \in Int, NEW x, x = v + k * TwoTo[Bits[t]]
  PROVE  Wrap(t, x) = v
<1> DEFINE M == TwoTo[Bits[t]]
           l == Lowest(t)
<1>1. /\ M \in Nat /\ M > 0 /\ l \in Int /\ Highest(t) = l + M - 1
      /\ v \in l .. Highest(t) /\ v \in Int /\ k * M \in Int
  BY ValuesAre, Multiples
<1>2. v - l \in 0 .. M - 1 /\ x - l = k * M + (v - l)
  <2> HIDE DEF M, l
  <2>1. x = v + k * M
    BY DEF M
  <2> QED BY <1>1, <2>1
<1>3. (x - l) % M = v - l
  <2> DEFINE y == x - l
             r == v - l
  <2>1. M \in Nat /\ M > 0 /\ r \in 0 .. M - 1 /\ y = k * M + r
    BY <1>1, <1>2
  <2> HIDE DEF M, y, r
  <2>2. y % M = r
    BY <2>1, DivisionUnique
  <2> QED BY <2>2 DEF y, r
<1>4. Wrap(t, x) = l + (v - l)
  BY <1>3 DEF Wrap
<1> HIDE DEF l
<1> QED BY <1>1, <1>4

\* A value of the type is left alone.
LEMMA WrapKeeps ==
  ASSUME NEW t \in Ints, NEW v \in ValuesOf(t)
  PROVE  Wrap(t, v) = v
<1>1. v = v + 0 * TwoTo[Bits[t]]
  BY ValuesAre
<1> QED BY <1>1, WrapUnique

\* The promoted type has the values of the type, and the type its low bits.
LEMMA PromotedIs ==
  ASSUME NEW t \in Ints
  PROVE  /\ Promoted(t) \in Ints /\ ValuesOf(t) \subseteq ValuesOf(Promoted(t))
         /\ Promoted(t) \notin Signed => Promoted(t) = t
         /\ Promoted(t) # t => Bits[t] < Bits["I32"] /\ Promoted(t) = "I32" /\ Lowest("I32") < Lowest(t)
         /\ Promoted(t) = t => Bits[t] >= Bits["I32"]
<1>0. "I32" \in Ints /\ "I32" \in Signed
  BY DEF Ints, Signed
<1>1. CASE Bits[t] < Bits["I32"]
  <2> DEFINE s == "I32"
             w == Bits[t]
             W == Bits[s]
  <2>1. Promoted(t) = s
    BY <1>1 DEF Promoted
  <2>2. /\ w \in Nat /\ W \in Nat /\ w >= 1 /\ W >= 1 /\ w - 1 \in Nat /\ W - 1 \in Nat
        /\ w <= W - 1 /\ w - 1 <= w /\ w - 1 <= W - 1
    BY <1>0, <1>1, ValuesAre
  <2>3. TwoTo[w] <= TwoTo[W - 1] /\ TwoTo[w] = 2 * TwoTo[w - 1] /\ TwoTo[w] > 0
    <3> HIDE DEF W
    <3> QED BY <2>2, TwoToMonotone, ValuesAre
  <2>4. /\ Lowest(s) = -TwoTo[W - 1] /\ Highest(s) = TwoTo[W - 1] - 1
        /\ ValuesOf(s) = Lowest(s) .. Highest(s) /\ ValuesOf(t) = Lowest(t) .. Highest(t)
        /\ TwoTo[W - 1] \in Nat /\ TwoTo[w] \in Nat /\ TwoTo[w - 1] \in Nat
        /\ \/ Lowest(t) = -TwoTo[w - 1] /\ Highest(t) = TwoTo[w - 1] - 1
           \/ Lowest(t) = 0 /\ Highest(t) = TwoTo[w] - 1
    <3>1. /\ Lowest(s) = -TwoTo[W - 1] /\ Highest(s) = TwoTo[W - 1] - 1
          /\ ValuesOf(s) = Lowest(s) .. Highest(s) /\ TwoTo[W - 1] \in Nat
      BY <1>0, ValuesAre
    <3>2. ValuesOf(t) = Lowest(t) .. Highest(t) /\ TwoTo[w] \in Nat /\ TwoTo[w - 1] \in Nat
      BY ValuesAre
    <3>3. \/ Lowest(t) = -TwoTo[w - 1] /\ Highest(t) = TwoTo[w - 1] - 1
          \/ Lowest(t) = 0 /\ Highest(t) = TwoTo[w] - 1
      BY ValuesAre
    <3> QED BY <3>1, <3>2, <3>3
  <2>5. Lowest(s) < Lowest(t) /\ Highest(t) <= Highest(s)
    <3> HIDE DEF w, W, s
    <3> QED BY <2>3, <2>4
  <2>6. ValuesOf(t) \subseteq ValuesOf(s)
    <3>1. Lowest(s) \in Int /\ Lowest(t) \in Int /\ Highest(s) \in Int /\ Highest(t) \in Int
      BY <1>0, ValuesAre
    <3> HIDE DEF s
    <3> QED BY <2>4, <2>5, <3>1
  <2>7. s \in Signed
    BY <1>0
  <2>8. t # s
    BY <1>1, <1>0, ValuesAre
  <2> QED BY <2>1, <2>5, <2>6, <2>7, <2>8, <1>0, <1>1
<1>2. CASE ~(Bits[t] < Bits["I32"])
  <2>1. Promoted(t) = t
    BY <1>2 DEF Promoted
  <2>2. Bits[t] >= Bits["I32"]
    BY <1>0, <1>2, ValuesAre
  <2> QED BY <2>1, <2>2
<1> QED BY <1>1, <1>2

\* A result that the promoted type can hold is converted only once.
LEMMA NarrowedIs ==
  ASSUME NEW t \in Ints, NEW x \in ValuesOf(Promoted(t))
  PROVE  Narrowed(t, x) = Computed(Wrap(t, x))
BY PromotedIs, WrapKeeps DEF Narrowed

\* Division truncates: the quotient and the rest give the dividend back, the rest is
\* smaller than the divisor and has the sign of the dividend.
DivisionOf(a, b, q, r) ==
  /\ q \in Int /\ r \in Int /\ a = q * b + r
  /\ Magnitude(r) < Magnitude(b) /\ Magnitude(r) <= Magnitude(a)
  /\ Sign(r) \in {0, Sign(a)}
  /\ Magnitude(q) <= Magnitude(a)
  /\ q > 0 => (a > 0 /\ b > 0) \/ (a < 0 /\ b < 0)
  /\ q < 0 => (a > 0 /\ b < 0) \/ (a < 0 /\ b > 0)
  /\ Magnitude(q) = Magnitude(a) /\ a # 0 => b \in {1, -1}

\* Truncating division is that.
LEMMA DivisionIs ==
  ASSUME NEW a \in Int, NEW b \in Int, b # 0
  PROVE  DivisionOf(a, b, Quotient(a, b), Residue(a, b))
<1> DEFINE x == Magnitude(a)
           y == Magnitude(b)
           m == x \div y
           r == x % y
           q == Quotient(a, b)
           s == Residue(a, b)
<1>1. x \in Nat /\ y \in Nat /\ y > 0
  BY DEF Magnitude
<1>2. m \in Int /\ r \in Int /\ 0 <= r /\ r < y /\ x = m * y + r
  <2> HIDE DEF x, y
  <2> QED BY <1>1, DivisionBy
<1>3. m >= 0 /\ m * y \in Int /\ (m = 0 => m * y = 0) /\ r <= x
  <2> HIDE DEF x, y, m, r
  <2>1. m * y \in Int /\ ~(m <= -1)
    BY <1>1, <1>2, Multiples
  <2>2. m >= 0 /\ (m = 0 => m * y = 0)
    BY <1>1, <1>2, <2>1
  <2>3. m * y >= 0
    BY <1>1, <1>2, <2>1, <2>2, Multiples
  <2> QED BY <1>1, <1>2, <2>1, <2>2, <2>3
<1>4. m <= x /\ (m = x /\ x # 0 => y = 1)
  <2> HIDE DEF x, y, m, r
  <2>1. m * (y - 1) >= 0
    BY <1>1, <1>2, <1>3
  <2>2. m * (y - 1) = m * y - m
    BY <1>1, <1>2
  <2>3. y >= 2 /\ m >= 1 => m * (y - 1) >= 1
    BY <1>1, <1>2
  <2> QED BY <1>1, <1>2, <1>3, <2>1, <2>2, <2>3
<1>5. q = Sign(a) * Sign(b) * m /\ s = a - (b * q)
  BY DEF Quotient, Residue
<1> HIDE DEF m, r, q, s
<1>6. CASE a = 0
  <2>1. x = 0 /\ Sign(a) = 0
    BY <1>6 DEF Magnitude, Sign
  <2>2. m = 0 /\ Sign(b) \in Int
    BY <2>1, <1>2, <1>3, <1>4 DEF Sign
  <2>3. q = 0 /\ s = 0
    BY <1>5, <1>6, <2>1, <2>2
  <2>4. DivisionOf(a, b, q, s)
    BY <1>1, <1>6, <2>3 DEF DivisionOf, Magnitude, Sign
  <2> QED BY <2>4 DEF q, s
<1>7. CASE a > 0 /\ b > 0
  <2>1. x = a /\ y = b /\ q = m /\ Sign(a) = 1
    BY <1>2, <1>5, <1>7 DEF Magnitude, Sign
  <2>2. b * q = m * y /\ s = r
    BY <1>1, <1>2, <1>5, <2>1
  <2>3. a = q * b + s
    BY <1>2, <2>1, <2>2
  <2>4. DivisionOf(a, b, q, s)
    BY <1>2, <1>3, <1>4, <1>7, <2>1, <2>2, <2>3 DEF DivisionOf, Magnitude, Sign
  <2> QED BY <2>4 DEF q, s
<1>8. CASE a < 0 /\ b > 0
  <2>1. x = -a /\ y = b /\ q = -m /\ Sign(a) = -1
    BY <1>2, <1>5, <1>8 DEF Magnitude, Sign
  <2>2. b * q = -(m * y) /\ s = -r /\ q * b = -(m * y)
    BY <1>1, <1>2, <1>5, <2>1
  <2>3. a = q * b + s
    BY <1>2, <2>1, <2>2
  <2>4. DivisionOf(a, b, q, s)
    BY <1>2, <1>3, <1>4, <1>8, <2>1, <2>2, <2>3 DEF DivisionOf, Magnitude, Sign
  <2> QED BY <2>4 DEF q, s
<1>9. CASE a > 0 /\ b < 0
  <2>1. x = a /\ y = -b /\ q = -m /\ Sign(a) = 1
    BY <1>2, <1>5, <1>9 DEF Magnitude, Sign
  <2>2. b * q = m * y /\ s = r /\ q * b = m * y
    BY <1>1, <1>2, <1>5, <2>1
  <2>3. a = q * b + s
    BY <1>2, <2>1, <2>2
  <2>4. DivisionOf(a, b, q, s)
    BY <1>2, <1>3, <1>4, <1>9, <2>1, <2>2, <2>3 DEF DivisionOf, Magnitude, Sign
  <2> QED BY <2>4 DEF q, s
<1>10. CASE a < 0 /\ b < 0
  <2>1. x = -a /\ y = -b /\ q = m /\ Sign(a) = -1
    BY <1>2, <1>5, <1>10 DEF Magnitude, Sign
  <2>2. b * q = -(m * y) /\ s = -r /\ q * b = -(m * y)
    BY <1>1, <1>2, <1>5, <2>1
  <2>3. a = q * b + s
    BY <1>2, <2>1, <2>2
  <2>4. DivisionOf(a, b, q, s)
    BY <1>2, <1>3, <1>4, <1>10, <2>1, <2>2, <2>3 DEF DivisionOf, Magnitude, Sign
  <2> QED BY <2>4 DEF q, s
<1> QED BY <1>6, <1>7, <1>8, <1>9, <1>10

\* What DIV and MOD compute: if they do not fault, both are converted from values
\* that the promoted type has, the rest from one that the type has itself.
LEMMA ResultsFit ==
  ASSUME NEW t \in Ints, NEW a \in ValuesOf(t), NEW b \in ValuesOf(t), ~Faults(t, a, b)
  PROVE  /\ DivisionOf(a, b, Quotient(a, b), Residue(a, b))
         /\ ArithmInt("DIV", t, a, b) = Computed(Wrap(t, Quotient(a, b)))
         /\ ArithmInt("MOD", t, a, b) = Computed(Residue(a, b))
         /\ Residue(a, b) \in ValuesOf(t)
<1> DEFINE q == Quotient(a, b)
           r == Residue(a, b)
           p == Promoted(t)
<1>1. /\ a \in Int /\ b \in Int /\ b # 0 /\ p \in Ints
      /\ a \in ValuesOf(p) /\ b \in ValuesOf(p)
      /\ p \in Signed /\ a = Lowest(p) => b # -1
  BY ValuesAre, PromotedIs DEF Faults
<1>2. DivisionOf(a, b, q, r)
  BY <1>1, DivisionIs
<1> HIDE DEF q, r, p
<1>3. r \in ValuesOf(t)
  <2>1. /\ Lowest(t) \in Int /\ Highest(t) \in Int /\ ValuesOf(t) = Lowest(t) .. Highest(t)
        /\ Lowest(t) <= 0 /\ 0 <= Highest(t)
    BY ValuesAre
  <2>2. /\ r \in Int /\ a \in Int /\ a \in Lowest(t) .. Highest(t)
        /\ (r = 0 \/ (0 < r /\ r <= a) \/ (r < 0 /\ a <= r))
    BY <1>1, <1>2, <2>1 DEF DivisionOf, Magnitude, Sign
  <2> QED BY <2>1, <2>2
<1>4. q \in ValuesOf(p)
  <2> DEFINE l == Lowest(p)
             h == Highest(p)
  <2>1. /\ l \in Int /\ h \in Int /\ ValuesOf(p) = l .. h /\ a \in l .. h /\ b \in l .. h
        /\ l <= 0 /\ 0 <= h
        /\ (p \in Signed => l = (-h) - 1) /\ (p \notin Signed => l = 0)
    <3> DEFINE H == TwoTo[Bits[p] - 1]
    <3>1. /\ l \in Int /\ h \in Int /\ ValuesOf(p) = l .. h /\ l <= 0 /\ 0 <= h /\ H \in Nat
          /\ (p \in Signed => l = -H /\ h = H - 1) /\ (p \notin Signed => l = 0)
      BY <1>1, ValuesAre
    <3> HIDE DEF l, h, H
    <3> QED BY <1>1, <3>1
  <2>2. /\ q \in Int
        /\ Magnitude(q) <= Magnitude(a)
        /\ q > 0 => (a > 0 /\ b > 0) \/ (a < 0 /\ b < 0)
        /\ q < 0 => (a > 0 /\ b < 0) \/ (a < 0 /\ b > 0)
        /\ Magnitude(q) = Magnitude(a) /\ a # 0 => b \in {1, -1}
    BY <1>2 DEF DivisionOf
  <2>3. p \in Signed /\ a = l => b # -1
    BY <1>1
  <2> HIDE DEF l, h
  <2>4. l <= q /\ q <= h
    BY <1>1, <2>1, <2>2, <2>3 DEF Magnitude
  <2> QED BY <2>1, <2>2, <2>4
<1>5. r \in ValuesOf(p)
  BY <1>3, PromotedIs DEF p
<1>6. ArithmInt("DIV", t, a, b) = Narrowed(t, q) /\ ArithmInt("MOD", t, a, b) = Narrowed(t, r)
  BY DEF ArithmInt, q, r
<1>7. Narrowed(t, q) = Computed(Wrap(t, q)) /\ Narrowed(t, r) = Computed(Wrap(t, r))
  BY <1>4, <1>5, NarrowedIs DEF p
<1>8. Wrap(t, r) = r
  BY <1>3, WrapKeeps
<1> QED BY <1>2, <1>3, <1>6, <1>7, <1>8 DEF q, r

\* DIV and MOD agree.
LEMMA DivisionsAgree ==
  ASSUME NEW t \in Ints, NEW a \in ValuesOf(t), NEW b \in ValuesOf(t), ~Faults(t, a, b)
  PROVE  LET quot == ArithmInt("DIV", t, a, b)
             rest == ArithmInt("MOD", t, a, b)
         IN  /\ quot.value \in ValuesOf(t) /\ rest.value \in ValuesOf(t)
             /\ Wrap(t, (quot.value * b) + rest.value) = a
             /\ Magnitude(rest.value) < Magnitude(b)
             /\ Sign(rest.value) \in {0, Sign(a)}
<1> DEFINE q == Quotient(a, b)
           r == Residue(a, b)
           v == Wrap(t, q)
           M == TwoTo[Bits[t]]
<1>1. /\ DivisionOf(a, b, q, r) /\ r \in ValuesOf(t)
      /\ ArithmInt("DIV", t, a, b) = Computed(v) /\ ArithmInt("MOD", t, a, b) = Computed(r)
  BY ResultsFit
<1>2. a \in Int /\ b \in Int /\ q \in Int /\ r \in Int /\ a = q * b + r /\ M \in Nat
  BY <1>1, ValuesAre DEF DivisionOf
<1> HIDE DEF q, r
<1>3. v \in ValuesOf(t) /\ v \in Int
  BY <1>2, WrapIs, ValuesAre
<1>4. PICK k \in Int : q = v + k * M
  BY <1>2, WrapIs
<1> HIDE DEF v, M
<1>5. Wrap(t, v * b + r) = a
  <2>1. q * b = (v + k * M) * b
    BY <1>4
  <2>2. (v + k * M) * b = v * b + (k * b) * M
    BY <1>2, <1>3
  <2>3. v * b \in Int /\ (k * b) \in Int /\ (k * b) * M \in Int /\ (-(k * b)) * M = -((k * b) * M)
    BY <1>2, <1>3
  <2> DEFINE z == v * b + r
             j == -(k * b)
  <2>4. j \in Int /\ z = a + j * M
    BY <1>2, <2>1, <2>2, <2>3
  <2> HIDE DEF z, j
  <2>5. Wrap(t, z) = a
    BY <2>4, WrapUnique DEF M
  <2> QED BY <2>5 DEF z
<1>6. Computed(v).value = v /\ Computed(r).value = r
  BY DEF Computed
<1> QED BY <1>1, <1>3, <1>5, <1>6 DEF DivisionOf

\* A division faults only where there is no quotient.
LEMMA FaultsRightly ==
  ASSUME NEW t \in Ints, NEW a \in ValuesOf(t), NEW b \in ValuesOf(t), Faults(t, a, b)
  PROVE  b = 0 \/ (Bits[t] >= Bits["I32"] /\ a \notin {b * v : v \in ValuesOf(t)})
<1> SUFFICES ASSUME b # 0
             PROVE  Bits[t] >= Bits["I32"] /\ a \notin {b * v : v \in ValuesOf(t)}
  OBVIOUS
<1>1. Promoted(t) \in Signed /\ a = Lowest(Promoted(t)) /\ b = -1
  BY DEF Faults
<1>2. Promoted(t) = t
  <2>1. a \in Int /\ Lowest(t) \in Int /\ Lowest(t) <= a
    BY ValuesAre
  <2>2. "I32" \in Ints /\ Lowest("I32") \in Int
    BY ValuesAre DEF Ints, Signed
  <2>3. Promoted(t) # t => Promoted(t) = "I32" /\ Lowest("I32") < Lowest(t)
    BY PromotedIs
  <2> QED BY <1>1, <2>1, <2>2, <2>3
<1>3. Bits[t] >= Bits["I32"]
  BY <1>2, PromotedIs
<1>4. ASSUME NEW v \in ValuesOf(t) PROVE a # b * v
  <2> DEFINE H == TwoTo[Bits[t] - 1]
  <2>1. /\ H \in Nat /\ a = -H /\ v \in (-H) .. H - 1
    BY <1>1, <1>2, ValuesAre
  <2> HIDE DEF H
  <2> QED BY <1>1, <2>1
<1> QED BY <1>3, <1>4

\* SHR gives back what SHL was given.
LEMMA ShiftsUndo ==
  ASSUME NEW t \in Signed, NEW a \in ValuesOf(t), NEW n \in Nat
  PROVE  /\ Shl(t, a, n) \in ValuesOf(t)
         /\ a * TwoTo[n] \in ValuesOf(t) => Shift("SHR", t, Shl(t, a, n), n) = Computed(a)
<1> DEFINE N == TwoTo[n]
           w == Bits[t]
           M == TwoTo[w]
<1>1. t \in Ints
  BY DEF Ints
<1>2. /\ w \in Nat /\ a \in Int /\ N \in Nat /\ N > 0 /\ a * N \in Int /\ M \in Nat
      /\ Lowest(t) \in Int /\ Highest(t) \in Int /\ Lowest(t) <= 0 /\ 0 <= Highest(t)
      /\ ValuesOf(t) = Lowest(t) .. Highest(t)
  <2>1. a \in Int /\ N \in Nat /\ N > 0
    BY <1>1, ValuesAre, TwoToGrows
  <2>2. a * N \in Int
    BY <2>1, Multiples
  <2> QED BY <1>1, <2>1, <2>2, ValuesAre
<1>3. CASE n >= w
  <2>1. Shl(t, a, n) = 0 /\ 0 \in ValuesOf(t)
    BY <1>2, <1>3 DEF Shl
  <2>2. Shift("SHR", t, 0, n) = Computed(0)
    BY <1>3 DEF Shift, ShrSigned
  <2>3. ASSUME a * N \in ValuesOf(t) PROVE a = 0
    <3>1. M <= N
      BY <1>2, <1>3, TwoToMonotone
    <3> DEFINE H == TwoTo[w - 1]
    <3>2. H \in Nat /\ M = 2 * H /\ M > 0 /\ a * N \in (-H) .. H - 1
      BY <1>1, <2>3, ValuesAre
    <3> HIDE DEF H, M, N
    <3>3. ~(a * N >= N) /\ ~(a * N <= -N)
      BY <1>2, <3>1, <3>2
    <3>4. ~(a >= 1) /\ ~(a <= -1)
      BY <1>2, <3>3, Multiples
    <3> QED BY <1>2, <3>4
  <2> QED BY <2>1, <2>2, <2>3
<1>4. CASE ~(n >= w)
  <2>1. Shl(t, a, n) = Wrap(t, a * N)
    BY <1>4 DEF Shl
  <2>2. Wrap(t, a * N) \in ValuesOf(t)
    BY <1>1, <1>2, WrapIs
  <2>3. ASSUME a * N \in ValuesOf(t) PROVE Shift("SHR", t, Wrap(t, a * N), n) = Computed(a)
    <3>1. Wrap(t, a * N) = a * N
      BY <1>1, <2>3, WrapKeeps
    <3>2. (a * N) \div N = a
      <4> DEFINE x == a * N
      <4>1. x = a * N + 0 /\ 0 \in 0 .. N - 1
        BY <1>2
      <4> HIDE DEF x, N
      <4>2. x \div N = a
        BY <1>2, <4>1, DivisionUnique
      <4> QED BY <4>2 DEF x
    <3>3. Shift("SHR", t, a * N, n) = Computed(ShrSigned(t, a * N, n))
      BY DEF Shift
    <3>4. ShrSigned(t, a * N, n) = (a * N) \div N
      BY <1>4 DEF ShrSigned
    <3> QED BY <3>1, <3>2, <3>3, <3>4
  <2> QED BY <2>1, <2>2, <2>3
<1> QED BY <1>3, <1>4

\* What the output is, of the instructions of integers that the property speaks of.
OutputIs ==
  /\ instr.op \in {"DIV", "MOD"} =>
       \/ output = NoOutcome
       \/ output = ArithmInt(instr.op, instr.type, operands[1], operands[2])
  /\ instr.op = "SHL" =>
       output \in {NoOutcome, Shift("SHL", instr.type, operands[1], operands[2])}

\* An instruction is one of those that exist, and has operands of its type.
Fetching == instr \in Instrs /\ operands \in OperandsOf(instr)

ArithInv ==
  /\ Fetching
  /\ output = Looping => instr \in FModOps
  /\ OutputIs

\* The families of instructions, by their operation.
LEMMA FamiliesAre ==
  ASSUME NEW i \in Instrs
  PROVE  /\ i.op \in {"DIV", "MOD"} => i \in IntOps /\ i.type \in Ints
         /\ i.op = "SHL" => i \in ShiftOps /\ i.type \in Ints
         /\ i.op = "FMOD" => i \in FModOps /\ i.type \in Floats
         /\ i \in IntOps \cup BitOps \cup BoolOps \cup CompareOps \cup CmpOps \cup CastOps =>
              i.op \notin {"SHL", "FMOD"}
         /\ i \in BitOps \cup BoolOps \cup CompareOps \cup ShiftOps \cup CmpOps \cup CastOps \cup FModOps =>
              i.op \notin {"DIV", "MOD"}
         /\ i \in FModOps => i.op = "FMOD"
         /\ i \in ShiftOps => i.op # "FMOD"
BY DEF Instrs, IntOps, BitOps, BoolOps, CompareOps, ShiftOps, CmpOps, CastOps, FModOps

\* The outcomes are different from each other.
LEMMA OutcomesDiffer ==
  /\ Looping # NoOutcome /\ Looping # Trap /\ Looping # Throws
  /\ \A v : Looping # Computed(v) /\ Computed(v) # Trap /\ Computed(v) # NoOutcome
  /\ \A v : Computed(v).kind = "value" /\ Computed(v).value = v
  /\ NoOutcome.kind = "none" /\ Looping.kind = "looping" /\ Trap.kind = "trap" /\ Throws.kind = "throws"
  /\ Trap # NoOutcome
BY DEF Looping, NoOutcome, Trap, Throws, Computed

\* No instruction but the floating-point remainder has a loop.
LEMMA NoLoop ==
  /\ \A op, t, a, b : op \in {"ADD", "SUB", "MUL", "DIV", "MOD"} => ArithmInt(op, t, a, b) # Looping
  /\ \A op, t, a, b : op \in {"AND", "OR", "XOR"} => ArithmBits(op, t, a, b) # Looping
  /\ \A op, a, b : ArithmBool(op, a, b) # Looping /\ Compare(op, a, b) # Looping
  /\ \A op, t, a, b : Shift(op, t, a, b) # Looping
  /\ \A a, b : ThreeWay(a, b) # Looping
  /\ Throws # Looping
BY OutcomesDiffer DEF ArithmInt, ArithmBits, ArithmBool, Narrowed, Compare, Shift, ThreeWay

\* Nor has a cast.
LEMMA CastsEnd ==
  ASSUME NEW s, NEW t, NEW a, NEW o \in Casts(s, t, a)
  PROVE  o # Looping
<1>1. \E v : o = Computed(v)
  BY DEF Casts
<1> QED BY <1>1, OutcomesDiffer

\* What a step does to the instruction and to the output.
LEMMA ArithSteps ==
  ASSUME Fetching, ArithNext
  PROVE  /\ UNCHANGED <<instr, operands>>
         /\ \/ /\ output = NoOutcome /\ instr.op \in {"DIV", "MOD"} /\ instr.op # "SHL"
               /\ output' = ArithmInt(instr.op, instr.type, operands[1], operands[2])
               /\ output' # Looping
            \/ /\ output = NoOutcome /\ instr.op = "SHL" /\ instr.op \notin {"DIV", "MOD"}
               /\ output' = Shift("SHL", instr.type, operands[1], operands[2])
               /\ output' # Looping
            \/ /\ output = NoOutcome /\ instr.op \notin {"DIV", "MOD", "SHL", "FMOD"}
               /\ output' # Looping
            \/ FMod /\ instr \in FModOps /\ instr.op = "FMOD"
            \/ FModStep
<1> USE FamiliesAre DEF Fetching, Fetched, Done
<1>1. CASE ArithmInts
  <2>1. instr.op \in {"ADD", "SUB", "MUL", "DIV", "MOD"}
    BY <1>1 DEF ArithmInts, IntOps
  <2> QED BY <1>1, <2>1, NoLoop DEF ArithmInts
<1>2. CASE ArithmOnBits
  <2>1. instr.op \in {"AND", "OR", "XOR"}
    BY <1>2 DEF ArithmOnBits, BitOps
  <2> QED BY <1>2, <2>1, NoLoop DEF ArithmOnBits
<1>3. CASE ArithmOnBool
  BY <1>3, NoLoop DEF ArithmOnBool
<1>4. CASE Comparison
  BY <1>4, NoLoop DEF Comparison
<1>5. CASE Shifting
  <2>1. instr.op \in {"SHL", "SHR"}
    BY <1>5 DEF Shifting, ShiftOps
  <2> QED BY <1>5, <2>1, NoLoop DEF Shifting
<1>6. CASE Cmp
  BY <1>6, NoLoop DEF Cmp
<1>7. CASE Cast
  BY <1>7, CastsEnd DEF Cast
<1>8. CASE FMod
  BY <1>8 DEF FMod
<1>9. CASE FModStep
  BY <1>9 DEF FModStep
<1> QED BY <1>1, <1>2, <1>3, <1>4, <1>5, <1>6, <1>7, <1>8, <1>9 DEF ArithNext

\* The invariant holds at first.
LEMMA ArithInitInv == ArithInit => ArithInv
BY OutcomesDiffer DEF ArithInit, ArithInv, OutputIs, Fetching

\* Every step keeps it.
LEMMA ArithStepInv == ArithInv /\ [ArithNext]_arith => ArithInv'
<1> SUFFICES ASSUME ArithInv, ArithNext \/ UNCHANGED arith PROVE ArithInv'
  OBVIOUS
<1>1. CASE UNCHANGED arith
  BY <1>1 DEF ArithInv, OutputIs, Fetching, arith
<1>2. CASE ArithNext
  <2>1. UNCHANGED <<instr, operands>>
    BY <1>2, ArithSteps DEF ArithInv
  <2>2. Fetching'
    BY <2>1 DEF ArithInv, Fetching
  <2>3. CASE FMod \/ FModStep
    <3>1. instr.op = "FMOD" /\ instr \in FModOps
      BY <2>3, FamiliesAre DEF ArithInv, FMod, FModStep, Fetched, Fetching
    <3> QED BY <2>1, <2>2, <3>1 DEF ArithInv, OutputIs
  <2>4. CASE ~(FMod \/ FModStep)
    <3>1. OutputIs' /\ output' # Looping
      BY <1>2, <2>1, <2>4, ArithSteps DEF ArithInv, OutputIs
    <3> QED BY <2>2, <3>1 DEF ArithInv
  <2> QED BY <2>3, <2>4
<1> QED BY <1>1, <1>2

\* The output agrees with what the other instruction of the pair would give.
LEMMA InvIntegersSound == ArithInv => IntegersSound
<1> SUFFICES ASSUME ArithInv PROVE DivModAgree /\ ShiftUndone
  BY DEF IntegersSound
<1> DEFINE t == instr.type
           a == operands[1]
           b == operands[2]
<1>1. DivModAgree
  <2> SUFFICES ASSUME output.kind \in {"value", "trap"}, instr.op \in {"DIV", "MOD"}
               PROVE  DivModAgree
    BY DEF DivModAgree
  <2>1. t \in Ints /\ a \in ValuesOf(t) /\ b \in ValuesOf(t)
    <3>1. t \in Ints
      BY FamiliesAre DEF ArithInv, Fetching
    <3>2. OperandsOf(instr) = ValuesOf(t) \X ValuesOf(t)
      BY DEF OperandsOf
    <3> QED BY <3>1, <3>2 DEF ArithInv, Fetching
  <2>2. output = ArithmInt(instr.op, t, a, b)
    BY OutcomesDiffer DEF ArithInv, OutputIs
  <2> HIDE DEF t, a, b
  <2>3. CASE Faults(t, a, b)
    <3>1. output = Trap
      BY <2>2, <2>3 DEF ArithmInt
    <3>2. b = 0 \/ (Bits[t] >= Bits["I32"] /\ a \notin {b * v : v \in ValuesOf(t)})
      BY <2>1, <2>3, FaultsRightly
    <3> QED BY <3>1, <3>2 DEF DivModAgree, t, a, b
  <2>4. CASE ~Faults(t, a, b)
    <3> DEFINE quot == ArithmInt("DIV", t, a, b)
               rest == ArithmInt("MOD", t, a, b)
    <3>1. /\ quot.value \in ValuesOf(t) /\ rest.value \in ValuesOf(t)
          /\ Wrap(t, (quot.value * b) + rest.value) = a
          /\ Magnitude(rest.value) < Magnitude(b)
          /\ Sign(rest.value) \in {0, Sign(a)}
      BY <2>1, <2>4, DivisionsAgree
    <3>2. output # Trap /\ (output = quot \/ output = rest)
      <4>1. \A op, x : Narrowed(op, x) # Trap
        BY OutcomesDiffer DEF Narrowed
      <4> QED BY <2>2, <2>4, <4>1 DEF ArithmInt
    <3> QED BY <3>1, <3>2 DEF DivModAgree, t, a, b
  <2> QED BY <2>3, <2>4
<1>2. ShiftUndone
  <2> SUFFICES ASSUME output.kind = "value", instr.op = "SHL", t \in Signed
               PROVE  ShiftUndone
    BY DEF ShiftUndone
  <2>1. a \in ValuesOf(t) /\ b \in Nat
    <3>1. OperandsOf(instr) = ValuesOf(t) \X (0..(Bits[t] + 1))
      BY DEF OperandsOf
    <3> QED BY <3>1 DEF ArithInv, Fetching
  <2>2. output = Computed(Shl(t, a, b))
    <3>1. output = Shift("SHL", t, a, b)
      BY OutcomesDiffer DEF ArithInv, OutputIs
    <3> QED BY <3>1 DEF Shift
  <2> HIDE DEF t, a, b
  <2>3. output.value = Shl(t, a, b)
    BY <2>2, OutcomesDiffer
  <2>4. /\ Shl(t, a, b) \in ValuesOf(t)
        /\ a * TwoTo[b] \in ValuesOf(t) => Shift("SHR", t, Shl(t, a, b), b) = Computed(a)
    BY <2>1, ShiftsUndo
  <2> QED BY <2>3, <2>4 DEF ShiftUndone, t, a, b
<1> QED BY <1>1, <1>2

(***************************************************************************)
(* DIV and MOD agree with each other and kill the process only where there *)
(* is no quotient, and a signed SHR undoes an SHL that has lost nothing: for*)
(* integer types of any width and any operands of theirs, the widths being *)
(* related as those of C++ are.                                            *)
(***************************************************************************)
THEOREM IntegersStaySound == ArithSpec => []IntegersSound
BY ArithInitInv, ArithStepInv, InvIntegersSound, PTL DEF ArithSpec

-----------------------------------------------------------------------------
(* Values and their bits.                                                  *)

\* Bits that lie lower than what is added stay what they are.
LEMMA LowBitsStay ==
  ASSUME NEW x \in Int, NEW c \in Int, NEW w \in Nat, NEW i \in 0 .. w - 1
  PROVE  Bit(x + (c * TwoTo[w]), i) = Bit(x, i)
<1> DEFINE N == TwoTo[i]
           q == x \div N
           r == x % N
           P == TwoTo[(w - i) - 1]
<1>1. /\ i \in Nat /\ (w - i) - 1 \in Nat /\ ((w - i) - 1) + 1 = w - i /\ w - i \in Nat
      /\ i + (w - i) = w
  OBVIOUS
<1>2. N \in Nat /\ N > 0 /\ P \in Nat /\ TwoTo[w - i] = 2 * P
  BY <1>1, TwoToGrows, TwoToIs
<1>3. TwoTo[w] = N * (2 * P)
  BY <1>1, <1>2, TwoToAdds
<1>4. q \in Int /\ r \in 0 .. N - 1 /\ x = q * N + r
  <2> HIDE DEF N
  <2> QED BY <1>2, DivisionBy
<1> HIDE DEF N, P, q, r
<1> DEFINE k == q + (2 * (c * P))
           y == x + (c * TwoTo[w])
<1>5. k \in Int /\ y = k * N + r
  <2>1. c * P \in Int /\ (c * P) * N \in Int /\ q * N \in Int
    BY <1>2, <1>4
  <2>2. c * (N * (2 * P)) = 2 * ((c * P) * N)
    BY <1>2
  <2>3. (q + (2 * (c * P))) * N = (q * N) + (2 * ((c * P) * N))
    BY <1>2, <1>4, <2>1
  <2> QED BY <1>2, <1>3, <1>4, <2>1, <2>2, <2>3
<1>6. y \div N = k
  <2> HIDE DEF k, y
  <2> QED BY <1>2, <1>4, <1>5, DivisionUnique
<1>7. k % 2 = q % 2
  <2> DEFINE u == q \div 2
             v == q % 2
  <2>1. u \in Int /\ v \in 0 .. 2 - 1 /\ q = u * 2 + v
    BY <1>4, DivisionBy
  <2>2. c * P \in Int
    BY <1>2
  <2> HIDE DEF u, v
  <2>3. \A z \in Int : (2 * z + v) % 2 = v
    BY <2>1
  <2> DEFINE z == u + (c * P)
  <2>4. z \in Int /\ k = 2 * z + v
    BY <2>1, <2>2
  <2> HIDE DEF k, z
  <2>5. k % 2 = v
    BY <2>3, <2>4
  <2> QED BY <2>5 DEF v
<1>8. Bit(y, i) = k % 2 /\ Bit(x, i) = q % 2
  BY <1>6 DEF Bit, N, q
<1> QED BY <1>7, <1>8 DEF y

\* A bit is 0 or 1, and so are two of them combined.
LEMMA BitsAre ==
  ASSUME NEW op \in {"AND", "OR", "XOR"}, NEW a \in Int, NEW b \in Int, NEW i \in Nat
  PROVE  Combined(op, Bit(a, i), Bit(b, i)) \in {0, 1}
<1>1. ASSUME NEW x \in Int PROVE Bit(x, i) \in {0, 1}
  <2>1. TwoTo[i] \in Nat /\ TwoTo[i] > 0
    BY TwoToGrows
  <2> DEFINE q == x \div TwoTo[i]
  <2>2. q \in Int
    <3> DEFINE N == TwoTo[i]
    <3> HIDE DEF N
    <3> QED BY <2>1, DivisionBy DEF N
  <2> HIDE DEF q
  <2>3. q % 2 \in {0, 1}
    BY <2>2
  <2> QED BY <2>3 DEF Bit, q
<1>2. \A x, y \in {0, 1} : Combined(op, x, y) \in {0, 1}
  BY DEF Combined
<1> QED BY <1>1, <1>2

\* The equation that defines the numbers of the first bits.
LEMMA MergedIs ==
  ASSUME NEW op \in {"AND", "OR", "XOR"}, NEW a \in Int, NEW b \in Int
  PROVE  /\ Merged(op, a, b)[0] = 0
         /\ \A n \in Nat :
              Merged(op, a, b)[n + 1] =
                Merged(op, a, b)[n] + TwoTo[n] * Combined(op, Bit(a, n), Bit(b, n))
<1> DEFINE c(n) == Combined(op, Bit(a, n), Bit(b, n))
           d == [n \in Nat |-> TwoTo[n] * c(n)]
           Walk(f) == [n \in Nat |-> IF n = 0 THEN 0 ELSE f[n - 1] + TwoTo[n - 1] * c(n - 1)]
           low == Merged(op, a, b)
<1>1. d \in [Nat -> Int]
  <2> SUFFICES ASSUME NEW n \in Nat PROVE TwoTo[n] * c(n) \in Int
    OBVIOUS
  <2>1. c(n) \in {0, 1}
    BY BitsAre, Zenon
  <2>2. TwoTo[n] \in Int
    BY TwoToIs
  <2> HIDE DEF c
  <2> QED BY <2>1, <2>2
<1> DEFINE S == Nat \X Int
           G == [p \in S |-> <<p[1] + 1, p[2] + d[p[1]]>>]
<1>2. G \in [S -> S] /\ <<0, 0>> \in S
  <2> HIDE DEF d
  <2> QED BY <1>1
<1>3. PICK g \in [Nat -> S] : IteratesAll(g, G, <<0, 0>>)
  <2> HIDE DEF G, S
  <2> QED BY <1>2, IteratesForever, Zenon
<1>4. \A n \in Nat : g[n + 1] = <<g[n][1] + 1, g[n][2] + d[g[n][1]]>>
  <2> HIDE DEF d
  <2>1. \A p \in S : G[p] = <<p[1] + 1, p[2] + d[p[1]]>>
    OBVIOUS
  <2> HIDE DEF G, S
  <2> QED BY <1>3, <2>1 DEF IteratesAll
<1>5. \A n \in Nat : g[n][1] = n
  <2> DEFINE T == {n \in Nat : g[n][1] = n}
  <2>1. 0 \in T
    BY <1>3 DEF IteratesAll
  <2>2. ASSUME NEW n \in T PROVE n + 1 \in T
    <3>1. n \in Nat /\ n + 1 \in Nat /\ g[n][1] = n
      OBVIOUS
    <3>2. g[n + 1][1] = n + 1
      <4> HIDE DEF d
      <4> QED BY <1>4, <3>1
    <3> QED BY <3>1, <3>2
  <2>3. T = Nat
    <3>1. T \in SUBSET Nat
      OBVIOUS
    <3> HIDE DEF T
    <3> QED BY <2>1, <2>2, <3>1, Counting
  <2> QED BY <2>3
<1> DEFINE f == [n \in Nat |-> g[n][2]]
<1>6. f[0] = 0 /\ \A n \in Nat : f[n + 1] = f[n] + d[n]
  <2>1. g[0][2] = 0
    BY <1>3 DEF IteratesAll
  <2>2. \A n \in Nat : n + 1 \in Nat /\ g[n + 1][2] = g[n][2] + d[n]
    <3> HIDE DEF d
    <3> QED BY <1>4, <1>5
  <2> HIDE DEF d
  <2> QED BY <2>1, <2>2
<1>7. f = Walk(f)
  <2>1. ASSUME NEW n \in Nat PROVE f[n] = IF n = 0 THEN 0 ELSE f[n - 1] + TwoTo[n - 1] * c(n - 1)
    <3>1. CASE n = 0
      BY <1>6, <3>1
    <3>2. CASE n # 0
      <4>1. n - 1 \in Nat /\ (n - 1) + 1 = n
        BY <3>2
      <4>2. d[n - 1] = TwoTo[n - 1] * c(n - 1)
        BY <4>1
      <4>3. f[n] = f[n - 1] + d[n - 1]
        <5> HIDE DEF f, d
        <5> QED BY <1>6, <4>1
      <4> HIDE DEF f, d, c
      <4> QED BY <3>2, <4>2, <4>3
    <3> QED BY <3>1, <3>2
  <2> HIDE DEF c
  <2> QED BY <2>1
<1>8. low = Walk(low)
  <2> HIDE DEF f
  <2> QED BY <1>7 DEF Merged
<1>9. low[0] = 0
  <2> HIDE DEF low
  <2> QED BY <1>8
<1>10. ASSUME NEW n \in Nat PROVE low[n + 1] = low[n] + TwoTo[n] * c(n)
  <2>1. n + 1 \in Nat /\ n + 1 # 0 /\ (n + 1) - 1 = n
    OBVIOUS
  <2> HIDE DEF low, c
  <2>2. low[n + 1] = low[(n + 1) - 1] + TwoTo[(n + 1) - 1] * c((n + 1) - 1)
    BY <1>8, <2>1
  <2> QED BY <2>1, <2>2
<1> QED BY <1>9, <1>10

\* The number of the first w bits is below the w-th power of two and has these bits.
LEMMA MergedBits ==
  ASSUME NEW op \in {"AND", "OR", "XOR"}, NEW a \in Int, NEW b \in Int, NEW w \in Nat
  PROVE  /\ Merged(op, a, b)[w] \in 0 .. TwoTo[w] - 1
         /\ \A i \in 0 .. w - 1 : Bit(Merged(op, a, b)[w], i) = Combined(op, Bit(a, i), Bit(b, i))
<1> DEFINE low == Merged(op, a, b)
           f(i) == Combined(op, Bit(a, i), Bit(b, i))
           Has(k) == low[k] \in 0 .. TwoTo[k] - 1 /\ \A i \in 0 .. k - 1 : Bit(low[k], i) = f(i)
           T == {k \in Nat : Has(k)}
<1>1. 0 \in T
  <2>1. TwoTo[0] = 1 /\ low[0] = 0
    BY TwoToIs, MergedIs
  <2> HIDE DEF low, f
  <2> QED BY <2>1
<1>2. ASSUME NEW k \in T PROVE k + 1 \in T
  <2> DEFINE N == TwoTo[k]
             c == f(k)
             x == low[k]
             y == x + (c * N)
  <2>1. k \in Nat /\ x \in 0 .. N - 1 /\ \A i \in 0 .. k - 1 : Bit(x, i) = f(i)
    OBVIOUS
  <2>2. N \in Nat /\ N > 0 /\ TwoTo[k + 1] = 2 * N /\ c \in {0, 1}
    <3>1. N \in Nat /\ N > 0 /\ TwoTo[k + 1] = 2 * N
      BY <2>1, TwoToGrows, TwoToIs
    <3>2. c \in {0, 1}
      BY <2>1, BitsAre, Zenon
    <3> QED BY <3>1, <3>2
  <2>3. low[k + 1] = y
    <3>1. low[k + 1] = x + N * c
      <4>1. \A n \in Nat : low[n + 1] = low[n] + TwoTo[n] * f(n)
        BY MergedIs
      <4> HIDE DEF low, f
      <4> QED BY <2>1, <4>1
    <3> HIDE DEF N, c, low, x
    <3> QED BY <2>2, <3>1
  <2> HIDE DEF x, f, low
  <2>4. y \in 0 .. TwoTo[k + 1] - 1
    <3> HIDE DEF N, c
    <3> QED BY <2>1, <2>2
  <2>5. \A i \in 0 .. k - 1 : Bit(y, i) = f(i)
    <3>1. x \in Int /\ c \in Int
      BY <2>1, <2>2
    <3> HIDE DEF c
    <3> QED BY <2>1, <3>1, LowBitsStay
  <2>6. Bit(y, k) = c
    <3>1. y \div N = c
      <4>1. y = c * N + x /\ c \in Int
        BY <2>1, <2>2
      <4> HIDE DEF N, c, y
      <4> QED BY <2>1, <2>2, <4>1, DivisionUnique
    <3>2. c % 2 = c
      BY <2>2
    <3> QED BY <3>1, <3>2 DEF Bit
  <2>7. \A i \in 0 .. (k + 1) - 1 : Bit(y, i) = f(i)
    <3>1. \A i \in 0 .. (k + 1) - 1 : i \in 0 .. k - 1 \/ i = k
      BY <2>1
    <3> HIDE DEF y
    <3> QED BY <2>5, <2>6, <3>1
  <2> HIDE DEF y
  <2>8. Has(k + 1)
    BY <2>3, <2>4, <2>7
  <2> QED BY <2>1, <2>8
<1>3. T = Nat
  <2>1. T \in SUBSET Nat
    OBVIOUS
  <2> HIDE DEF T
  <2> QED BY <1>1, <1>2, <2>1, Counting
<1> QED BY <1>3

(***************************************************************************)
(* AND, OR and XOR are computed in the promoted type and converted back.   *)
(* For two values of a type, signed or not and of any width, the result is *)
(* the value of the type each of whose bits is that of the operands        *)
(* combined: neither the promotion nor the conversion changes a bit.       *)
(***************************************************************************)
THEOREM BitsCombine ==
  ASSUME NEW op \in {"AND", "OR", "XOR"}, NEW t \in Ints, NEW a \in ValuesOf(t), NEW b \in ValuesOf(t)
  PROVE  \E v \in ValuesOf(t) :
           /\ ArithmBits(op, t, a, b) = Computed(v)
           /\ \A i \in 0 .. (Bits[t] - 1) : Bit(v, i) = Combined(op, Bit(a, i), Bit(b, i))
<1> DEFINE p == Promoted(t)
           w == Bits[t]
           u == Bits[p]
           x == Merged(op, a, b)[u]
           y == Wrap(p, x)
           v == Wrap(t, y)
<1>1. a \in Int /\ b \in Int /\ w \in Nat /\ ValuesOf(t) \subseteq Int
  BY ValuesAre
<1>2. p \in Ints /\ u \in Nat /\ w <= u /\ ValuesOf(p) \subseteq Int
  <2>1. p \in Ints /\ (p = t \/ (p = "I32" /\ Bits[t] < Bits["I32"]))
    BY DEF Promoted, Ints, Signed
  <2>2. Bits[p] \in Nat /\ ValuesOf(p) \subseteq Int
    BY <2>1, ValuesAre
  <2> HIDE DEF p
  <2>3. Bits[t] \in Nat /\ Bits[t] <= Bits[p]
    BY <1>1, <2>1, <2>2
  <2> QED BY <2>1, <2>2, <2>3
<1>3. x \in Int /\ \A i \in 0 .. u - 1 : Bit(x, i) = Combined(op, Bit(a, i), Bit(b, i))
  <2>1. TwoTo[u] \in Nat
    BY <1>2, TwoToIs
  <2> HIDE DEF u
  <2> QED BY <1>1, <1>2, <2>1, MergedBits
<1> HIDE DEF x
<1>4. y \in Int /\ \A i \in 0 .. u - 1 : Bit(x, i) = Bit(y, i)
  <2>1. y \in Int
    BY <1>2, <1>3, WrapIs
  <2>2. PICK k \in Int : x = y + (k * TwoTo[u])
    BY <1>2, <1>3, WrapIs
  <2> HIDE DEF y, u
  <2> QED BY <1>2, <2>1, <2>2, LowBitsStay
<1> HIDE DEF y
<1>5. v \in ValuesOf(t) /\ \A i \in 0 .. w - 1 : Bit(y, i) = Bit(v, i)
  <2>1. v \in ValuesOf(t) /\ v \in Int
    BY <1>1, <1>4, WrapIs
  <2>2. PICK k \in Int : y = v + (k * TwoTo[w])
    BY <1>4, WrapIs
  <2> HIDE DEF v, w
  <2> QED BY <1>1, <2>1, <2>2, LowBitsStay
<1>6. ArithmBits(op, t, a, b) = Computed(v)
  BY DEF ArithmBits, Narrowed, x, y
<1>7. \A i \in 0 .. w - 1 : i \in 0 .. u - 1
  <2> HIDE DEF u, w
  <2> QED BY <1>1, <1>2
<1> HIDE DEF v, w, u
<1>8. \A i \in 0 .. w - 1 : Bit(v, i) = Combined(op, Bit(a, i), Bit(b, i))
  BY <1>3, <1>4, <1>5, <1>7
<1> QED BY <1>5, <1>6, <1>8 DEF w

=============================================================================
