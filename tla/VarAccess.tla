------------------------------ MODULE VarAccess ------------------------------
(***************************************************************************)
(* Reading and writing variables through references: Runtime::typeof_var,  *)
(* read_var and write_var (src/slake/rt/var_access.cc), the test whether a *)
(* value fits a type (type.cc), the sizes and default values of types      *)
(* (runtime.cc), and how a variable comes to be (_add_local_var of         *)
(* exec.cc, append_field_record of obj/module.cc, the initial data of      *)
(* object layouts and arrays in rt/new.cc).                                *)
(*                                                                         *)
(* An execution creates one variable of one type, then reads it and writes *)
(* to it.  Its bytes are a map from offsets to what was stored there; what *)
(* was not stored is Junk.  A process that calls std::terminate(), fails   *)
(* an assertion or follows a junk pointer is "stopped".                    *)
(***************************************************************************)
EXTENDS Naturals, Sequences, Functions, FiniteSets

CONSTANTS
  Builds,   \* the builds considered: "debug" checks assertions, "release" does not
  Written,  \* the values a program tries to write
  Types     \* the types of variables considered: records [id, nullable, local]

\* The widths in bytes of the types of the numbers (exec.cc and runtime.cc).
Width == [I8 |-> 1, I16 |-> 2, I32 |-> 4, I64 |-> 8, ISize |-> 8, U8 |-> 1, U16 |-> 2,
          U32 |-> 4, U64 |-> 8, USize |-> 8, F32 |-> 4, F64 |-> 8, Bool |-> 1]

Numbers == DOMAIN Width
PlatformSized == {"ISize", "USize"}
Sized   == Numbers \ PlatformSized
Handles == {"String", "Instance", "Array", "Fn"}
Structs == {"StructInstance", "UnionEnum", "UnionEnumItem"}
Enums   == {"ScopedEnum", "TypelessScopedEnum"}
TypeIds == Numbers \cup Handles \cup Structs \cup Enums \cup {"Ref", "Any"}

\* An object is one of these; "stranger" is an instance of another class.
Objects == {"string", "instance", "stranger", "array", "function"}
\* A reference: to a field of "instance", to a local variable, or the one that
\* Reference(nullptr) builds, of kind DefaultStructValueRef.
References == {"field", "variable", "nothing"}

Value(type, data, local) == [type |-> type, data |-> data, local |-> local]
Junk == "junk"
Values == [type : Numbers, data : {"0", "1"}, local : BOOLEAN]
          \cup [type : {"Object"}, data : Objects \cup {"null"}, local : BOOLEAN]
          \cup [type : {"Reference"}, data : References, local : BOOLEAN]

ASSUME VarAccessAssumption ==
  /\ Builds \subseteq {"debug", "release"}
  /\ Written \subseteq Values
  /\ Types \subseteq [id : TypeIds, nullable : BOOLEAN, local : BOOLEAN]

VARIABLES
  build,     \* whether assertions are checked
  place,     \* the kind of the reference
  vtype,     \* the type of the variable
  memory,    \* its bytes: offset -> the value whose data lies there
  register,  \* the Value that the last read has filled
  status,    \* "absent", "live" or "stopped"
  verdict,   \* what write_var() returned: "none", "accepted" or "refused"
  settled,   \* ghost: the value written last, or by the creation
  passed     \* ghost: the argument that a call of the program has passed

var == <<build, place, vtype, memory, register, status, verdict, settled, passed>>

Locals == {"LocalVarRef", "CoroutineLocalVarRef"}
Fields == {"StaticFieldRef", "ObjectFieldRef", "InitObjectLayoutFieldRef", "ObjectFieldStructFieldRef"}
Places == Locals \cup Fields \cup {"ArrayElementRef", "ArgRef"}

-----------------------------------------------------------------------------
(* Values and types.                                                       *)

\* Value::is_null and is_local.  A null pointer is an Object; the value that stands
\* for "nothing" elsewhere is a Reference.
IsNull(v)  == v.type = "Object" /\ v.data = "null"
IsLocal(v) == v.type = "Reference" /\ v.local

Nullptr == Value("Reference", "nothing", FALSE)

\* Runtime::default_value_of: no default for the types it terminates on.
DefaultOf(t) ==
  CASE t.nullable                  -> {Nullptr}
    [] ~ t.nullable /\ t.id \in Sized -> {Value(t.id, "0", FALSE)}
    [] ~ t.nullable /\ t.id \in {"String", "Instance", "Array", "StructInstance"} -> {Nullptr}
    [] ~ t.nullable /\ t.id = "Ref" -> {Value("Reference", "field", FALSE)}
    [] OTHER -> {}

\* Runtime::sizeof_type and alignof_type know these types; the others terminate.
HasSize(t)      == t.id \notin PlatformSized \cup {"Fn", "Ref"}
HasAlignment(t) == HasSize(t) /\ t.id # "Any"

\* What an unchecked get_object() of a reference yields: the first word of the union.
Pointee(v) == CASE v.data = "nothing" -> "null" [] v.data = "field" -> "instance" [] OTHER -> Junk

\* is_compatible(type, value): the possible outcomes.  For instances, arrays and
\* functions it asks for a Reference and then takes the object out of it.
Verdict(b) == IF b THEN {"yes"} ELSE {"no"}
Unknown == {"yes", "no", "stop"}
LocalFits(t, v) == ~ IsLocal(v) \/ t.local

CompatibleHandle(t, v) ==
  CASE v.type # "Reference" \/ ~ LocalFits(t, v) -> {"no"}
    [] v.type = "Reference" /\ LocalFits(t, v) /\ build = "debug" -> {"stop"}
    [] OTHER ->
         CASE Pointee(v) = Junk   -> Unknown
           [] Pointee(v) = "null" -> Verdict(t.id = "Instance")
           [] OTHER               -> IF t.id = "Instance" THEN {"yes", "no"} ELSE {"no"}

IsCompatible(t, v) ==
  CASE t.nullable /\ IsNull(v) -> {"yes"}
    [] ~ (t.nullable /\ IsNull(v)) /\ t.id \in Numbers -> Verdict(v.type = t.id)
    [] ~ (t.nullable /\ IsNull(v)) /\ t.id = "String" ->
         CASE v.type # "Object" -> {"no"}
           [] IsNull(v)         -> {"stop"}
           [] v.type = "Object" /\ v.data = Junk -> Unknown
           [] OTHER             -> Verdict(v.data = "string")
    [] ~ (t.nullable /\ IsNull(v)) /\ t.id \in Handles \ {"String"} -> CompatibleHandle(t, v)
    \* The type of a local structure is read from the wrong place: it never equals.
    [] t.id = "StructInstance" /\ ~ (t.nullable /\ IsNull(v)) ->
         IF v.type = "Reference" /\ v.data = "variable" /\ build = "debug" THEN {"stop"} ELSE {"no"}
    \* The type of the referenced variable is compared as if it were a value.
    [] t.id = "Ref" /\ ~ (t.nullable /\ IsNull(v)) ->
         CASE ~ LocalFits(t, v)     -> {"no"}
           [] v.type # "Reference" /\ LocalFits(t, v) -> IF build = "debug" THEN {"stop"} ELSE Unknown
           [] v.type = "Reference" /\ LocalFits(t, v) /\ v.data = "variable" -> {"no"}
           [] v.type = "Reference" /\ LocalFits(t, v) /\ v.data = "nothing"  -> {"stop"}
           [] OTHER -> {"yes", "no"}
    [] t.id = "Any" /\ ~ (t.nullable /\ IsNull(v)) -> Verdict(LocalFits(t, v))
    [] OTHER -> {"no"}

-----------------------------------------------------------------------------
(* Where the parts of a variable lie.                                      *)

Header  == 2   \* sizeof(TypeId) + sizeof(TypeModifier)
Pointer == 8

\* The type definition that follows the header of a local variable.
WritesPastTypeDef(t) == t.id \in Handles \cup Structs \cup {"Ref"}
ReadsPastTypeDef(t)  == t.id \in {"Instance", "Array", "Fn", "TypelessScopedEnum", "Ref"} \cup Structs

\* The null flag precedes the data of a local variable and follows that of a field.
InLocal(pastTypeDef, t) == Header + IF pastTypeDef THEN Pointer ELSE 0
NullAt(t) == IF place \in Locals THEN Header ELSE Width[t.id]
WriteAt(t) ==
  IF place \in Locals THEN InLocal(WritesPastTypeDef(t), t) + (IF t.nullable /\ t.id \in Numbers THEN 1 ELSE 0) ELSE 0
ReadAt(t) ==
  IF place \in Locals THEN InLocal(ReadsPastTypeDef(t), t) + (IF t.nullable /\ t.id \in Numbers THEN 1 ELSE 0) ELSE 0

Stored(o) == IF o \in DOMAIN memory THEN memory[o] ELSE Value(Junk, Junk, FALSE)
Store(o, v) == [x \in DOMAIN memory \cup {o} |-> IF x = o THEN v ELSE memory[x]]

-----------------------------------------------------------------------------
(* Reading.  The result is a set of values; the empty set stops the        *)
(* process.  value_out keeps its local flag unless it is assigned to.      *)

Got(type, v) == Value(type, v.data, register.local)
FlagSet(v) == v.data # "clear"     \* a junk flag may read as either: see MayBeClear
MayBeClear(v) == v.data # "set"

\* set_local() asserts that the value is a reference.
ReadAsObject(t) ==
  IF t.local /\ build = "debug" THEN {}
  ELSE {Value("Object", Stored(ReadAt(t)).data, register.local \/ t.local)}

NullableRead(t, type) ==
  (IF t.nullable /\ FlagSet(Stored(NullAt(t))) THEN {Nullptr} ELSE {})
  \cup (IF ~ t.nullable \/ MayBeClear(Stored(NullAt(t))) THEN {Got(type, Stored(ReadAt(t)))} ELSE {})

ReadLocal(t) ==
  CASE t.id \in Numbers -> NullableRead(t, t.id)
    [] t.id \in Handles -> ReadAsObject(t)
    [] t.id = "StructInstance" -> {Value("Reference", "variable", register.local \/ t.local)}
    [] t.id = "Ref" -> {Value("Reference", Stored(ReadAt(t)).data, register.local \/ t.local)}
    [] t.id = "Any" -> {Stored(ReadAt(t))}
    [] OTHER -> {}

ReadField(t) ==
  CASE t.id \in Numbers -> NullableRead(t, t.id)
    [] t.id \in Handles -> IF t.local THEN {} ELSE {Value("Object", Stored(0).data, register.local)}
    [] t.id = "StructInstance" -> {Value("Reference", "field", register.local)}
    [] t.id \in Enums -> {Value("I32", Stored(0).data, register.local)}
    [] t.id = "Ref" -> IF t.local THEN {} ELSE {Value("Reference", Stored(0).data, register.local)}
    [] t.id = "Any" -> IF t.local THEN {} ELSE {Stored(0)}
    [] OTHER -> {}

ReadElement(t) ==
  CASE t.nullable -> {}
    [] ~ t.nullable /\ t.id \in Sized -> {Got(t.id, Stored(0))}
    [] ~ t.nullable /\ ~ t.local /\ t.id \in Handles -> {Value("Object", Stored(0).data, FALSE)}
    [] ~ t.nullable /\ ~ t.local /\ t.id = "StructInstance" -> {Value("Reference", "field", FALSE)}
    [] ~ t.nullable /\ ~ t.local /\ t.id \in {"Ref", "Any"} -> {Stored(0)}
    [] OTHER -> {}

ReadArg(t) ==
  IF t.local /\ Stored(0).type # "Reference" /\ build = "debug" THEN {}
  ELSE {[Stored(0) EXCEPT !.local = @ \/ t.local]}

ReadResults(t) ==
  CASE place \in Locals -> ReadLocal(t)
    [] place \in Fields -> ReadField(t)
    [] place = "ArrayElementRef" -> ReadElement(t)
    [] place = "ArgRef" -> ReadArg(t)

-----------------------------------------------------------------------------
(* Writing.  A result is what write_var() does: [outcome, memory].         *)

Result(outcome, m) == [outcome |-> outcome, memory |-> m]
Stops == {Result("stop", memory)}
Refuses == {Result("refused", memory)}

Flagged(t, v) == Store(NullAt(t), Value("Bool", IF IsNull(v) THEN "set" ELSE "clear", FALSE))

\* Numbers: the flag is written first, then the type of the value is tested.  The
\* ISize case stores is_null() instead of the number.
WriteNumberOfAnyType(t, v, stored) == {Result("accepted", Store(WriteAt(t), stored))}   \* mutant
WriteNumber(t, v, stored) ==
  LET flagged == IF t.nullable THEN Flagged(t, v) ELSE memory
  IN IF t.nullable /\ IsNull(v) THEN {Result("accepted", flagged)}
     ELSE IF v.type # t.id THEN {Result("refused", flagged)}
     ELSE {Result("accepted", [x \in DOMAIN flagged \cup {WriteAt(t)} |->
                                 IF x = WriteAt(t) THEN stored ELSE flagged[x]])}

\* A value of unchecked type: get_object() asserts, or takes the bits it finds.
ObjectIn(v) == IF v.type = "Object" THEN v ELSE Value("Object", Pointee(v), FALSE)
PutObject(t, v) ==
  IF v.type # "Object" /\ build = "debug" THEN Stops
  ELSE {Result("accepted", Store(WriteAt(t), ObjectIn(v)))}

ByCompatibility(verdicts, put) ==
  (IF "yes" \in verdicts THEN put ELSE {}) \cup (IF "no" \in verdicts THEN Refuses ELSE {})
  \cup (IF "stop" \in verdicts THEN Stops ELSE {})

WriteLocal(t, v) ==
  CASE t.id = "ISize" -> WriteNumber(t, v, Value("ISize", "0", FALSE))
    [] t.id \in Numbers \ {"ISize"} -> WriteNumber(t, v, v)
    [] t.id \in Handles -> ByCompatibility(IsCompatible(t, v), PutObject(t, v))
    [] t.id \in Structs -> ByCompatibility(IsCompatible(t, v), {Result("accepted", Store(WriteAt(t), v))})
    \* "TODO: Implement it."
    [] t.id = "Ref" -> ByCompatibility(IsCompatible(t, v), {Result("accepted", memory)})
    [] OTHER -> Stops

\* In all cases but that of I8 the test of the null flag is the wrong way round:
\* what is not null is accepted and not stored, null sets the flag and is refused.
WriteNullableField(t, v) ==
  CASE t.id = "I8" -> WriteNumber(t, v, v)
    [] t.id \in Sized \ {"I8"} ->
         {Result(IF IsNull(v) THEN "refused" ELSE "accepted", Flagged(t, v))}
    [] OTHER -> Stops

\* For objects only the type of the value is handed to is_compatible(), which builds
\* a value with that type and no data.
WriteField(t, v) ==
  CASE t.nullable /\ t.id \in Sized -> WriteNullableField(t, v)
    [] ~ t.nullable /\ t.id \in Sized -> WriteNumber(t, v, v)
    [] t.id \in Handles \ {"Fn"} ->
         IF t.local \/ IsLocal(v) THEN Stops
         ELSE ByCompatibility(
                IsCompatible(t, Value(v.type, Junk, FALSE))
                  \cup (IF t.nullable /\ v.type = "Object" THEN {"yes"} ELSE {}),
                PutObject(t, v))
    [] OTHER -> Stops

\* Array elements: objects are not tested against the element type.
WriteElement(t, v) ==
  CASE t.nullable /\ ~ IsNull(v) -> Stops
    [] ~ (t.nullable /\ ~ IsNull(v)) /\ t.id \in Sized ->
         IF v.type = t.id THEN {Result("accepted", Store(0, v))} ELSE Refuses
    [] ~ (t.nullable /\ ~ IsNull(v)) /\ t.id \in Handles \ {"Fn"} ->
         IF t.local \/ IsLocal(v) THEN Stops ELSE PutObject(t, v)
    [] OTHER -> Stops

\* An argument takes any value, whatever its parameter's type.  (The mutant leaves
\* out the test for local values.)
WriteArgAnyway(t, v) == {Result("accepted", Store(0, v))}
WriteArg(t, v) == IF ~ LocalFits(t, v) THEN Stops ELSE {Result("accepted", Store(0, v))}

WriteResults(t, v) ==
  CASE place \in Locals -> WriteLocal(t, v)
    [] place \in Fields -> WriteField(t, v)
    [] place = "ArrayElementRef" -> WriteElement(t, v)
    [] place = "ArgRef" -> WriteArg(t, v)

-----------------------------------------------------------------------------
VarInit ==
  /\ build \in Builds /\ place \in Places /\ vtype \in Types
  /\ memory = [o \in {} |-> 0]
  /\ register \in {Value("Object", "null", FALSE), Value("Reference", "variable", TRUE)}
  /\ status = "absent" /\ verdict = "none"
  /\ settled = Value(Junk, Junk, FALSE) /\ passed = settled

\* A write as the only thing that happens, its outcome taken as it comes.
Wrote(v, r) ==
  /\ memory' = r.memory
  /\ status' = IF r.outcome = "stop" THEN "stopped" ELSE "live"
  /\ verdict' = IF r.outcome = "stop" THEN "none" ELSE r.outcome
  /\ settled' = IF r.outcome = "accepted" THEN v ELSE settled
  /\ UNCHANGED <<build, place, vtype, register>>

Stop ==
  /\ status' = "stopped"
  /\ UNCHANGED <<build, place, vtype, memory, register, verdict, settled>>

\* _add_local_var: the default value is written if the type is one of those that
\* have one (not the enumerations); a refusal terminates.
CreateLocal ==
  /\ status = "absent" /\ place \in Locals
  /\ \/ /\ ~ HasAlignment(vtype) /\ Stop
     \/ /\ HasAlignment(vtype) /\ vtype.id \in Enums \cup (Structs \ {"StructInstance"})
        /\ status' = "live"
        /\ UNCHANGED <<build, place, vtype, memory, register, verdict, settled>>
     \/ /\ HasAlignment(vtype) /\ vtype.id \notin Enums \cup (Structs \ {"StructInstance"})
        /\ \E v \in DefaultOf(vtype) : \E r \in WriteResults(vtype, v) :
             IF r.outcome = "accepted" THEN Wrote(v, r) ELSE Stop

\* The loader gives static fields their space with realloc_field_spaces() alone.
CreateLoadedField ==
  /\ status = "absent" /\ place = "StaticFieldRef"
  /\ HasAlignment(vtype)
  /\ status' = "live"
  /\ UNCHANGED <<build, place, vtype, memory, register, verdict, settled>>

\* append_field_record asserts that the default value was accepted; what is written
\* to the initial data of an object layout is unwrapped.
CreateField ==
  /\ status = "absent" /\ place \in Fields
  /\ \/ /\ (~ HasAlignment(vtype) \/ DefaultOf(vtype) = {}) /\ Stop
     \/ /\ HasAlignment(vtype)
        /\ \E v \in DefaultOf(vtype) : \E r \in WriteResults(vtype, v) :
             IF r.outcome = "accepted" \/ (r.outcome = "refused" /\ place = "StaticFieldRef" /\ build = "release")
               THEN Wrote(v, r) ELSE Stop

\* new_array_instance: the elements are left as they were allocated.
CreateElement ==
  /\ status = "absent" /\ place = "ArrayElementRef"
  /\ IF vtype.id \in Sized \cup {"String", "Instance", "Array", "Any"}
       THEN /\ status' = "live"
            /\ UNCHANGED <<build, place, vtype, memory, register, verdict, settled>>
       ELSE Stop

\* _fill_args, for a host's call: each argument has to fit the type of its parameter.
CreateArg ==
  /\ status = "absent" /\ place = "ArgRef"
  /\ \E v \in Written : \E fits \in IsCompatible(vtype, v) :
       CASE fits = "yes" -> Wrote(v, Result("accepted", Store(0, v)))
         [] fits = "stop" -> Stop
         [] OTHER -> FALSE

\* PUSHARG and CALL, for the program's: what a register holds becomes an argument as it
\* is.  Nothing compares it with the parameter's type, nor asks whether it is local.
PassArg ==
  /\ status = "absent" /\ place = "ArgRef"
  /\ \E v \in Written : Wrote(v, Result("accepted", Store(0, v))) /\ passed' = v

\* write_var of a value of the program's, or of the one that was read last.
WriteVar ==
  /\ status = "live"
  /\ \E v \in Written \cup {register} : \E r \in WriteResults(vtype, v) : Wrote(v, r)

ReadVar ==
  /\ status = "live"
  /\ \/ /\ ReadResults(vtype) = {} /\ Stop
     \/ \E v \in ReadResults(vtype) :
          /\ register' = v
          /\ verdict' = "none"
          /\ UNCHANGED <<build, place, vtype, memory, status, settled>>

\* The LVALUE opcodes of the numbers copy what is read to a typed register.  They test
\* the reference where they mean the value: one of another type fails an assertion.
ReadTyped ==
  /\ status = "live"
  /\ \E type \in Numbers :
       IF ReadResults(vtype) = {} \/ (build = "debug" /\ \E v \in ReadResults(vtype) : v.type # type)
         THEN Stop
         ELSE /\ verdict' = "none"
              /\ UNCHANGED <<build, place, vtype, memory, register, status, settled>>

VarNext ==
  \/ /\ CreateLocal \/ CreateLoadedField \/ CreateField \/ CreateElement \/ CreateArg
        \/ WriteVar \/ ReadVar \/ ReadTyped
     /\ UNCHANGED passed
  \/ PassArg
VarSpec == VarInit /\ [][VarNext]_var

-----------------------------------------------------------------------------
(* Properties.                                                             *)

\* Reading and writing are separate cascades over the place and the type, each with
\* offsets of its own: for variables of all numeric types that are not nullable
\* (arguments too, whatever they were given) and for elements that hold objects, a
\* read gives what was written last or by the creation, whatever was refused in
\* between.  (Not for nullable fields, where a number is accepted and not stored;
\* a local variable of type ISize would lose its value, but cannot be created.)
ReadGivesWritten ==
  (/\ status = "live" /\ settled.type # Junk /\ ~ vtype.nullable
   /\ \/ vtype.id \in Numbers
      \/ place = "ArrayElementRef" /\ settled.type = "Object") =>
    /\ place # "ArgRef" => ReadResults(vtype) # {}
    /\ \A v \in ReadResults(vtype) : v.type = settled.type /\ v.data = settled.data

\* No reference that is marked as local gets into a variable whose type is not local
\* by a write, a creation or a host's argument: each of the cascades of write_var() and
\* _fill_args() refuse it or stop.  The argument of a call of the program is not tested,
\* and is all of the kind that such a variable ever holds.
LocalStaysLocal ==
  \A o \in DOMAIN memory : IsLocal(memory[o]) => vtype.local \/ memory[o] = passed
=============================================================================
