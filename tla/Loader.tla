-------------------------------- MODULE Loader --------------------------------
(***************************************************************************)
(* Reading a module from its file: load_type, load_value, load_id_ref,     *)
(* load_module_members and load_single_module of src/slake/loader/         *)
(* loader.cc.  What is in a file is arbitrary; every read and every        *)
(* allocation may fail, which ends the load and forgets its context, but   *)
(* not the type definitions it has registered.                             *)
(*                                                                         *)
(* load_module() and complete_parent_namespaces(), which follow, are not   *)
(* modelled.                                                               *)
(***************************************************************************)
EXTENDS Naturals, Sequences, FiniteSets, SequencesExt

CONSTANTS
  Types,     \* the types files name: [id, name, parts], closed under parts
  Values,    \* the values files contain: [kind, types]
  TypeLists, \* sequences of types, as of generic parameters, bases, parameters
  ObjectMax, \* the number of objects in a file
  RecordMax  \* the number of their fields, items and overloadings

Plain  == {"Void", "Any", "I8", "I32", "F32", "Bool", "String"}
Custom == {"Instance", "StructInstance", "ScopedEnum", "TypelessScopedEnum", "UnionEnum", "UnionEnumItem"}
Nesting == {"Array", "Ref", "ParamTypeList", "Unpacking", "GenericArg"}

ASSUME LoaderAssumption ==
  /\ \A t \in Types : t.id \in Plain \cup Custom \cup Nesting /\ Range(t.parts) \subseteq Types
  /\ TypeLists \subseteq Seq(Types)
  /\ \A v \in Values : Range(v.types) \subseteq Types

VARIABLES
  type_defs, \* the definitions registered with the runtime
  earlier,   \* those among them that were there when the load began
  customs,   \* loaded_custom_type_defs: what is still to be resolved
  named,     \* the custom definitions that types in this file refer to
  objects,   \* the objects read: [kind, records, listed]; listed in a loaded_* set
  inits,     \* init_var_data: [of, index, value]
  stack,     \* the calls of load_module_members and the loops in it: [of, section, index]
  todo,      \* the definitions still to be interned before the file is read on
  phase      \* "idle", "reading", "read" or "stopped"

loader == <<type_defs, earlier, customs, named, objects, inits, stack, todo, phase>>

Sections == <<"Class", "Interface", "Struct", "ScopedEnum", "UnionEnum", "Fn", "Field">>

LoaderInit ==
  /\ type_defs = {} /\ earlier = {} /\ customs = {} /\ named = {}
  /\ objects = <<>> /\ inits = <<>> /\ stack = <<>> /\ todo = <<>>
  /\ phase = "idle"

-----------------------------------------------------------------------------
(* Types.                                                                  *)

\* The definition that stands for a type.  A custom one holds the reference only,
\* whatever kind of object is expected; a generic argument belongs to its owner.
Definition(t, owner) ==
  [id    |-> IF t.id \in Custom THEN "Custom" ELSE t.id,
   name  |-> t.name,
   parts |-> t.parts,
   owner |-> IF t.id = "GenericArg" THEN owner ELSE <<>>]

\* What load_type() interns, in this order: the parts of a type, its own definition.
\* Those of a reference are the types of its entries and parameters.
Interned ==
  [t \in Types |->
     LET below[s \in Types] == FlattenSeq([i \in DOMAIN s.parts |-> below[s.parts[i]]])
                               \o IF s.id \in Plain THEN <<>> ELSE <<s>>
     IN below[t]]

InternedAll(ts, owner) ==
  LET all == FlattenSeq([i \in DOMAIN ts |-> Interned[ts[i]]])
  IN [i \in DOMAIN all |-> Definition(all[i], owner)]

\* load_id_ref() and load_type() of a kind that is resolved later.  The definition
\* is listed first, then registered.
ListCustom ==
  /\ phase = "reading" /\ todo # <<>> /\ Head(todo).id = "Custom"
  /\ Head(todo) \notin type_defs \cup customs
  /\ customs' = customs \cup {Head(todo)}
  /\ UNCHANGED <<type_defs, earlier, named, objects, inits, stack, todo, phase>>

\* Mutant: a definition is registered without being listed.
Unlisted(def) == TRUE

\* It has been listed, or an equal one is registered already.
Settled(def) == def \in type_defs \cup customs

RegisterCustom ==
  /\ phase = "reading" /\ todo # <<>> /\ Head(todo).id = "Custom"
  /\ Settled(Head(todo))
  /\ type_defs' = type_defs \cup {Head(todo)}
  /\ named' = named \cup {Head(todo)}
  /\ todo' = Tail(todo)
  /\ UNCHANGED <<earlier, customs, objects, inits, stack, phase>>

RegisterNesting ==
  /\ phase = "reading" /\ todo # <<>> /\ Head(todo).id \in Nesting
  /\ type_defs' = type_defs \cup {Head(todo)}
  /\ todo' = Tail(todo)
  /\ UNCHANGED <<earlier, customs, named, objects, inits, stack, phase>>

-----------------------------------------------------------------------------
(* Values.                                                                 *)

Numbers == {"I8", "I32", "F32", "Bool"}

\* is_compatible() of what load_value() makes: a string is a Reference where an
\* object is asked for, and nothing is resolved yet.
Fits(t, v) ==
  \/ t.id = "Any"
  \/ t.id \in Numbers /\ v.kind = t.id
  \/ t.id = "Array" /\ v.kind = "Array" /\ v.types = t.parts

\* Types whose fields come with a value.
Recorded == (Plain \ {"Void"}) \cup {"Array", "Instance"}

-----------------------------------------------------------------------------
(* The members of a module.                                                *)

Here     == Last(stack)
Section == Sections[Here.section]
Reading == phase = "reading" /\ todo = <<>>
New     == Len(objects) + 1
Object(kind) == [kind |-> kind, records |-> <<>>, listed |-> FALSE]
Counted(s)   == [s EXCEPT ![Len(s)].index = @ + 1]
Members(n)   == [of |-> n, section |-> 1, index |-> 0]
Loop(n, s)   == [of |-> n, section |-> s, index |-> 0]

Forget(p) ==
  /\ phase' = p
  /\ customs' = {} /\ named' = {} /\ earlier' = {}
  /\ objects' = <<>> /\ inits' = <<>> /\ stack' = <<>> /\ todo' = <<>>
  /\ UNCHANGED type_defs

\* An unknown type, or an access modifier that is not valid, ends the process.
ReadUnknown ==
  /\ phase = "reading" /\ Forget("stopped")

\* The file ends early, a value is of no known kind, or memory is short.
FailLoad ==
  /\ phase = "reading" /\ Forget("idle")

\* The header and the imports.
BeginLoad ==
  /\ phase = "idle"
  /\ phase' = "reading"
  /\ earlier' = type_defs
  /\ objects' = <<Object("Module")>>
  /\ stack' = <<Members(1)>>
  /\ UNCHANGED <<type_defs, customs, named, inits, todo>>

NextSection ==
  /\ Reading /\ Here.section < Len(Sections)
  /\ stack' = [stack EXCEPT ![Len(stack)] = Loop(Here.of, Here.section + 1)]
  /\ UNCHANGED <<type_defs, earlier, customs, named, objects, inits, todo, phase>>

\* A class, interface or structure: generic parameters, base and interfaces are
\* read for the module around it, then its members.
ReadModule(types) ==
  /\ Reading /\ Here.section \in 1..3 /\ Len(objects) < ObjectMax
  /\ objects' = Append(objects, Object(Section))
  /\ todo' = InternedAll(types, <<Here.of>>)
  /\ stack' = Append(Counted(stack), Members(New))
  /\ UNCHANGED <<type_defs, earlier, customs, named, inits, phase>>

\* Enumerations and functions have loops of their own.
ReadScopedEnum(base) ==
  /\ Reading /\ Here.section = 4 /\ Len(objects) < ObjectMax
  /\ objects' = Append(objects, Object("ScopedEnum"))
  /\ todo' = InternedAll(base, <<Here.of>>)
  /\ stack' = Append(Counted(stack), [of |-> New, section |-> 8, index |-> 0, base |-> base, place |-> Here.index])
  /\ UNCHANGED <<type_defs, earlier, customs, named, inits, phase>>

ReadUnionEnum ==
  /\ Reading /\ Here.section = 5 /\ Len(objects) < ObjectMax
  /\ objects' = Append(objects, Object("UnionEnum"))
  /\ stack' = Append(Counted(stack), Loop(New, 9))
  /\ UNCHANGED <<type_defs, earlier, customs, named, inits, todo, phase>>

ReadUnionEnumItem ==
  /\ Reading /\ Here.section = 9 /\ Len(objects) < ObjectMax
  /\ objects' = Append(objects, Object("UnionEnumItem"))
  /\ stack' = Append(stack, Loop(New, 10))
  /\ UNCHANGED <<type_defs, earlier, customs, named, inits, todo, phase>>

ReadFn ==
  /\ Reading /\ Here.section = 6 /\ Len(objects) < ObjectMax
  /\ objects' = Append(objects, Object("Fn"))
  /\ stack' = Append(Counted(stack), Loop(New, 11))
  /\ UNCHANGED <<type_defs, earlier, customs, named, inits, todo, phase>>

Room == FoldSeq(LAMBDA o, n : n + Len(o.records), 0, objects) < RecordMax

\* A record of the object whose loop this is.
ReadRecord(r, types, owner) ==
  /\ Room
  /\ todo' = InternedAll(types, owner)
  /\ objects' = [objects EXCEPT ![Here.of].records = Append(@, r)]
  /\ stack' = Counted(stack)
  /\ UNCHANGED <<type_defs, earlier, customs, named, phase>>

\* One overloading with its generic parameters, parameters and result, and the
\* values its instructions have as operands.
ReadOverloading(types, values) ==
  /\ Reading /\ Here.section = 11
  /\ ReadRecord("overloading", types \o FlattenSeq([i \in DOMAIN values |-> values[i].types]),
                  <<Here.of, Here.index>>)
  /\ UNCHANGED inits

ReadItemField(t) ==
  /\ Reading /\ Here.section = 10
  /\ ReadRecord(t, <<t>>, <<stack[Len(stack) - 1].of>>)
  /\ UNCHANGED inits

\* Mutant: the index is taken behind the record.
IndexBehind == Here.index + 1

\* The index of the field whose value is kept for the end of the load.  For the
\* items of an enumeration it is the place of the enumeration among its like.
Index == IF Here.section = 8 THEN Here.place ELSE Here.index

\* A record with the value to write to it later, which ends the process if it does
\* not fit.
AppendInitialised(t, v, types) ==
  /\ Room
  /\ \/ /\ Fits(t, v)
        /\ inits' = Append(inits, [of |-> Here.of, index |-> Index, value |-> v])
        /\ ReadRecord(t, types, <<Here.of>>)
     \/ ~ Fits(t, v) /\ Forget("stopped")


\* An item of an enumeration with a base type.
ReadItem(v) ==
  /\ Reading /\ Here.section = 8 /\ Here.base # <<>>
  /\ AppendInitialised(Here.base[1], v, v.types)

\* Without one, the items have neither type nor value.
ReadTypelessItem ==
  /\ Reading /\ Here.section = 8 /\ Here.base = <<>>
  /\ ReadRecord("item", <<>>, <<>>)
  /\ UNCHANGED inits

ReadField(t, v) ==
  /\ Reading /\ Here.section = 7 /\ t.id \in Recorded
  /\ AppendInitialised(t, v, <<t>> \o v.types)

ReadPlainField(t) ==
  /\ Reading /\ Here.section = 7 /\ t.id \notin Recorded
  /\ ReadRecord(t, <<t>>, <<Here.of>>)
  /\ UNCHANGED inits

\* The object is listed in its loaded_* set and becomes a member; with the module
\* itself the file ends.
EndMembers ==
  /\ Reading /\ Here.section \in 7..11
  /\ objects' = [objects EXCEPT ![Here.of].listed = TRUE]
  /\ stack' = Front(stack)
  /\ phase' = IF Len(stack) = 1 THEN "read" ELSE phase
  /\ UNCHANGED <<type_defs, earlier, customs, named, inits, todo>>

\* A collection before the next load deletes what only the failed one refers to.
CollectFailed ==
  /\ phase = "idle" /\ type_defs' = {}
  /\ UNCHANGED <<earlier, customs, named, objects, inits, stack, todo, phase>>

LoaderNext ==
  \/ BeginLoad \/ NextSection \/ EndMembers \/ ReadUnknown \/ FailLoad \/ CollectFailed
  \/ ListCustom \/ RegisterCustom \/ RegisterNesting
  \/ \E ts \in TypeLists : ReadModule(ts) \/ (Len(ts) < 2 /\ ReadScopedEnum(ts))
  \/ ReadUnionEnum \/ ReadUnionEnumItem \/ ReadFn \/ ReadTypelessItem
  \/ \E ts \in TypeLists, vs \in BoundedSeq(Values, 1) : ReadOverloading(ts, vs)
  \/ \E t \in Types : ReadItemField(t) \/ ReadPlainField(t)
  \/ \E v \in Values : ReadItem(v) \/ \E t \in Types : ReadField(t, v)

LoaderSpec == LoaderInit /\ [][LoaderNext]_loader

-----------------------------------------------------------------------------
(* Properties.                                                             *)

\* When a file has been read, every deferred definition that its types refer to is
\* listed for load_module() to resolve, except those that a load that failed has
\* left registered; and whatever is listed is registered (load_type).
DeferredAreListed ==
  /\ named \subseteq customs \cup earlier
  /\ phase = "read" => customs \subseteq type_defs /\ customs \subseteq named

\* A value kept for the end of the load belongs to a field of the object that it
\* fits, and to no other's, however modules are nested; but for enumerations,
\* whose items all get the place of their enumeration (load_module_members).
ValuesBelongToFields ==
  \A i \in {j \in DOMAIN inits : objects[inits[j].of].kind # "ScopedEnum"} :
    LET o == objects[inits[i].of]
    IN /\ inits[i].index < Len(o.records)
       /\ Fits(o.records[inits[i].index + 1], inits[i].value)
       /\ \A j \in DOMAIN inits : (inits[j].of = inits[i].of /\ inits[j].index = inits[i].index) => j = i
=============================================================================
