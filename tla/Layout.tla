-------------------------------- MODULE Layout --------------------------------
(***************************************************************************)
(* Classes, their static storage, the layout of their instances and their *)
(* method tables: append_field_record of src/slake/obj/module.cc,          *)
(* prepare_class_for_instantiation and new_class_instance of rt/new.cc,    *)
(* ObjectLayout and MethodTable of obj/class.cc.                           *)
(*                                                                         *)
(* A class gets its field records first; then instances are asked for.  A  *)
(* request climbs the chain of base classes and prepares it from the root  *)
(* downwards; every allocation on the way can fail, and the request be     *)
(* repeated.                                                               *)
(***************************************************************************)
EXTENDS Naturals, Sequences, FiniteSets, SequencesExt

CONSTANTS
  Classes,    \* the classes
  Chains,     \* the possible base_type of each: a class, "none", or "malformed"
  FieldSorts, \* what fields may be declared: [type, size, align, static, default]
  Functions,  \* the possible members of kind Fn: for each class, name -> its signatures
  FieldMax    \* bound on the number of attempts to append a field

ASSUME LayoutAssumption ==
  /\ IsFiniteSet(Classes) /\ {"none", "malformed"} \cap Classes = {}
  /\ Chains \subseteq [Classes -> Classes \cup {"none", "malformed"}]
  /\ \A f \in FieldSorts : f.size \in Nat /\ f.align \in Nat \ {0}
  /\ FieldMax \in Nat

VARIABLES
  base,      \* base_type of each class
  fns,       \* its functions: name -> signatures
  records,   \* its field_records
  indices,   \* its field_record_indices: the name a field got -> index, from 0
  storage,   \* the size of its local_field_storage
  layouts,   \* its cached_object_layout, or "none"
  tables,    \* its cached_instantiated_method_table, or "none"
  climbed,   \* unprepared_classes: the class asked for first
  state,     \* "idle", "climbing", "preparing" or "stopped"
  answer     \* the class of the instance returned last, or "null"

lay == <<base, fns, records, indices, storage, layouts, tables, climbed, state, answer>>

\* What is not cached.
Absent == [absent |-> TRUE]
Padded(n, align) == IF n % align = 0 THEN n ELSE n + align - (n % align)

-----------------------------------------------------------------------------
(* Field records and static storage.                                       *)

LayoutInit ==
  /\ base \in Chains
  /\ fns \in Functions
  /\ records = [c \in Classes |-> <<>>]
  /\ indices = [c \in Classes |-> <<>>]
  /\ storage = [c \in Classes |-> 0]
  /\ layouts = [c \in Classes |-> Absent]
  /\ tables = [c \in Classes |-> Absent]
  /\ climbed = <<>>
  /\ state = "idle"
  /\ answer = "null"

\* Writing default_value_of() a type to a field is refused for some types, which
\* ends the process here as in every place that writes defaults.
Declare(c, f) ==
  /\ state = "idle" /\ layouts[c] = Absent
  /\ MapThenSumSet(LAMBDA d : Len(indices[d]), Classes) < FieldMax
  /\ UNCHANGED <<base, fns, layouts, tables, climbed, answer>>

\* append_field_space(): where padding is needed the storage grows by it and by twice
\* the size, but the field begins where the storage ended before.
Space(n, f) == Padded(n, f.align) + IF n % f.align = 0 THEN f.size ELSE 2 * f.size

\* append_field_record() as the loader and hosts use it.
AppendField(c, f) ==
  /\ Declare(c, f)
  /\ records' = [records EXCEPT ![c] = Append(@, [sort |-> f, name |-> Len(indices[c]) + 1,
                                                  offset |-> storage[c]])]
  /\ indices' = [indices EXCEPT ![c] = Append(@, Len(@))]
  /\ storage' = [storage EXCEPT ![c] = Space(@, f)]
  /\ state' = IF f.default THEN "idle" ELSE "stopped"

\* No space for the value: the record is taken back, its name stays.
AppendWithoutSpace(c, f) ==
  /\ Declare(c, f)
  /\ indices' = [indices EXCEPT ![c] = Append(@, Len(@))]
  /\ UNCHANGED <<records, storage, state>>

-----------------------------------------------------------------------------
(* The layout of instances.                                                *)

Empty == [fields |-> <<>>, size |-> 0, align |-> 1, init |-> <<>>]

\* init_object_layout_for_module(), first loop: the fields that are not static
\* follow those of the parent.
AppendRecord(l, c, i) ==
  LET f == records[c][i].sort
      at == Padded(l.size, f.align)
  IN IF f.static THEN l
     ELSE [l EXCEPT !.fields = Append(@, [type |-> f.type, offset |-> at, size |-> f.size,
                                          align |-> f.align, owner |-> c]),
                    !.size = at + f.size,
                    !.align = IF f.align > @ THEN f.align ELSE @]

WithFields(l, c) ==
  LET upto[i \in 0 .. Len(records[c])] == IF i = 0 THEN l ELSE AppendRecord(upto[i - 1], c, i)
  IN upto[Len(records[c])]

\* Mutant: the layout of the parent is not taken over.
FieldsOfClassOnly(c, parent) == WithFields(Empty, c)

FieldsOf(c, parent) == WithFields(IF parent = <<>> THEN Empty ELSE layouts[parent[1]], c)

\* The second loop writes the default value of the i-th record of the class, static
\* or not, to the i-th field of the layout, inherited or not.
Writable(l, c) ==
  \A i \in DOMAIN records[c] :
    /\ i \in DOMAIN l.fields
    /\ l.fields[i].type = records[c][i].sort.type
    /\ records[c][i].sort.default

Initialised(l, c) ==
  [l EXCEPT !.init = [i \in DOMAIN l.fields |-> IF i \in DOMAIN records[c] THEN "default" ELSE "junk"]]

Top == Last(climbed)
\* The class prepared just before: the parent of Top.
Parent == IF base[Top] \in Classes THEN <<base[Top]>> ELSE <<>>

PrepareLayout ==
  /\ state = "preparing" /\ layouts[Top] = Absent
  /\ LET l == FieldsOf(Top, Parent)
     IN \/ /\ l.size = 0 \/ Writable(l, Top)
           /\ layouts' = [layouts EXCEPT ![Top] = IF l.size = 0 THEN l ELSE Initialised(l, Top)]
           /\ UNCHANGED <<climbed, state, answer>>
        \/ /\ l.size > 0 /\ ~ Writable(l, Top)
           /\ state' = "stopped"
           /\ UNCHANGED <<layouts, climbed, answer>>
  /\ UNCHANGED <<base, fns, records, indices, storage, tables>>

-----------------------------------------------------------------------------
(* Method tables.                                                          *)

\* init_method_table_for_class(): the comparator answers 0 for equal signatures, so
\* that the overloading taken for a destructor is the first with parameters.
Destructors(c) ==
  IF "delete" \in DOMAIN fns[c] /\ fns[c]["delete"] \ {"()"} # {}
  THEN <<[class |-> c, sig |-> CHOOSE s \in fns[c]["delete"] : s # "()"]>>
  ELSE <<>>

NoTable == [methods |-> <<>>, destructors |-> <<>>]
\* parent_mt: null for a root, and for a parent whose table could not be allocated.
HasTable(parent) == parent # <<>> /\ tables[parent[1]] # Absent
Inherited(parent) == IF HasTable(parent) THEN tables[parent[1]] ELSE NoTable

\* Mutant: what the parent has replaces what the class declares.
OverloadingsParentFirst(c, parent, name) ==
  LET inherited == IF name \in DOMAIN Inherited(parent).methods THEN Inherited(parent).methods[name] ELSE {}
  IN inherited \cup {[sig |-> s, class |-> c] : s \in fns[c][name] \ {m.sig : m \in inherited}}

\* The overloadings of one function: its own, and those of the parent's function of
\* the same name that it does not override.
Overloadings(c, parent, name) ==
  LET own == {[sig |-> s, class |-> c] : s \in fns[c][name]}
      inherited == IF name \in DOMAIN Inherited(parent).methods THEN Inherited(parent).methods[name] ELSE {}
  IN own \cup {m \in inherited : m.sig \notin fns[c][name]}

\* Functions the class does not declare itself are not taken over.
MethodTable(c, parent) ==
  [methods |-> [name \in {n \in DOMAIN fns[c] \ {"delete"} : Overloadings(c, parent, n) # {}} |->
                  Overloadings(c, parent, name)],
   destructors |-> Destructors(c) \o Inherited(parent).destructors]

PrepareTable ==
  /\ state = "preparing" /\ layouts[Top] # Absent /\ tables[Top] = Absent
  /\ tables' = [tables EXCEPT ![Top] = MethodTable(Top, Parent)]
  /\ UNCHANGED <<base, fns, records, indices, storage, layouts, climbed, state, answer>>

\* MethodTable::alloc() fails, which nobody asks: the null pointer is written through,
\* unless there is nothing to write; then the class goes without a table.
PrepareNoTable ==
  /\ state = "preparing" /\ layouts[Top] # Absent /\ tables[Top] = Absent
  /\ \/ /\ HasTable(Parent) \/ MethodTable(Top, Parent) # NoTable
        /\ state' = "stopped"
        /\ UNCHANGED <<climbed, answer>>
     \/ /\ ~ HasTable(Parent) /\ MethodTable(Top, Parent) = NoTable
        /\ climbed' = Front(climbed)
        /\ IF Len(climbed) > 1 THEN UNCHANGED <<state, answer>> ELSE state' = "idle" /\ answer' = Top
  /\ UNCHANGED <<base, fns, records, indices, storage, layouts, tables>>

PreparedBase ==
  /\ state = "preparing" /\ Len(climbed) > 1 /\ layouts[Top] # Absent /\ tables[Top] # Absent
  /\ climbed' = Front(climbed)
  /\ UNCHANGED <<base, fns, records, indices, storage, layouts, tables, state, answer>>

-----------------------------------------------------------------------------
(* Requests.                                                               *)

\* new_class_instance()
RequestInstance(c) ==
  /\ state = "idle"
  /\ climbed' = <<c>>
  /\ state' = "climbing"
  /\ UNCHANGED <<base, fns, records, indices, storage, layouts, tables, answer>>

Climb ==
  /\ state = "climbing"
  /\ \/ /\ base[Top] \in Classes
        /\ climbed' = Append(climbed, base[Top])
        /\ UNCHANGED <<state, answer>>
     \/ /\ base[Top] = "none"
        /\ state' = "preparing"
        /\ UNCHANGED <<climbed, answer>>
     \/ /\ base[Top] = "malformed"
        /\ climbed' = <<>> /\ state' = "idle" /\ answer' = "null"
  /\ UNCHANGED <<base, fns, records, indices, storage, layouts, tables>>

\* An allocation fails: the exception is dropped, what was cached stays cached.
PrepareOutOfMemory ==
  /\ state \in {"climbing", "preparing"}
  /\ climbed' = <<>> /\ state' = "idle" /\ answer' = "null"
  /\ UNCHANGED <<base, fns, records, indices, storage, layouts, tables>>

\* The class asked for is prepared too.
CreateInstance ==
  /\ state = "preparing" /\ Len(climbed) = 1 /\ layouts[Top] # Absent /\ tables[Top] # Absent
  /\ climbed' = <<>> /\ state' = "idle" /\ answer' = Top
  /\ UNCHANGED <<base, fns, records, indices, storage, layouts, tables>>

\* InstanceObject::alloc() fails and its result is written through.
CreateNothing ==
  /\ state = "preparing" /\ Len(climbed) = 1 /\ layouts[Top] # Absent /\ tables[Top] # Absent
  /\ state' = "stopped"
  /\ UNCHANGED <<base, fns, records, indices, storage, layouts, tables, climbed, answer>>

LayoutNext ==
  \/ \E c \in Classes, f \in FieldSorts : AppendField(c, f) \/ AppendWithoutSpace(c, f)
  \/ \E c \in Classes : RequestInstance(c)
  \/ Climb \/ PrepareLayout \/ PrepareTable \/ PrepareNoTable \/ PreparedBase
  \/ CreateInstance \/ CreateNothing \/ PrepareOutOfMemory

LayoutSpec == LayoutInit /\ [][LayoutNext]_lay

-----------------------------------------------------------------------------
(* Properties.                                                             *)

Lineage(c) ==
  LET up[n \in Nat] == IF n = 0 THEN <<c>>
                       ELSE LET l == up[n - 1] IN IF base[Last(l)] \in Classes THEN Append(l, base[Last(l)]) ELSE l
  IN up[Cardinality(Classes)]

Before(x, y) == x.offset + x.size <= y.offset

\* Fields neither overlap nor reach beyond what is allocated for them, in
\* the static storage of a class (append_field_space) as in its
\* instances; those of instances are aligned, and an instance of a class begins
\* with what an instance of its base consists of, so that a reference to a field
\* of the base serves for both (init_object_layout_for_class).
LayoutSound ==
  \A c \in Classes :
    /\ \A i \in DOMAIN records[c] :
         LET r == records[c]
         IN r[i].offset + r[i].sort.size <= IF i < Len(r) THEN r[i + 1].offset ELSE storage[c]
    /\ layouts[c] # Absent =>
         LET l == layouts[c]
         IN /\ \A i \in DOMAIN l.fields :
                 /\ l.fields[i].offset % l.fields[i].align = 0
                 /\ l.fields[i].offset + l.fields[i].size <= l.size
                 /\ l.align >= l.fields[i].align
                 /\ \A j \in 1..(i - 1) : Before(l.fields[j], l.fields[i])
            /\ base[c] \in Classes =>
                 /\ layouts[base[c]] # Absent
                 /\ IsPrefix(layouts[base[c]].fields, l.fields)
                 /\ l.align >= layouts[base[c]].align

\* A method found in the table of a class is the one that the nearest class at or
\* above it declares, and destructors run from the class itself towards the
\* root, whatever was cached in earlier requests that failed
\* (init_method_table_for_class, prepare_class_for_instantiation).
OverridesWin ==
  \A c \in {x \in Classes : tables[x] # Absent} :
    LET line == Lineage(c)
        Rank(d) == CHOOSE i \in DOMAIN line : line[i] = d
        Declares(d, name, sig) == name \in DOMAIN fns[d] /\ sig \in fns[d][name]
    IN /\ \A name \in DOMAIN tables[c].methods : \A m \in tables[c].methods[name] :
            /\ Declares(m.class, name, m.sig)
            /\ \A i \in 1..(Rank(m.class) - 1) : ~ Declares(line[i], name, m.sig)
       /\ \A i, j \in DOMAIN tables[c].destructors :
            i < j => Rank(tables[c].destructors[i].class) < Rank(tables[c].destructors[j].class)
=============================================================================
