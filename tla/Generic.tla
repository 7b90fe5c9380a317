-------------------------------- MODULE Generic --------------------------------
(***************************************************************************)
(* Instances of generic classes, interfaces and functions, and the cache   *)
(* that keeps them: instantiate_generic_object, set_generic_cache and      *)
(* invalidate_generic_cache of src/slake/rt/generic.cc, with the copying   *)
(* of objects that it starts from.                                         *)
(*                                                                         *)
(* The places of an object where a type stands are its slots, in the order *)
(* in which they are reached: the base, then the types of its functions,   *)
(* then the arguments of the references in their code.                     *)
(***************************************************************************)
EXTENDS Naturals, Sequences, FiniteSets, SequencesExt, Functions

CONSTANTS
  Originals,  \* the generic objects
  Decl,       \* of each: [kind, params, slots, fields, others]
  Arguments,  \* the lists of types that instances are asked for with
  RefTypes,   \* the type in each reference that code holds
  InstanceMax \* bound on the copies alive

\* A slot: [type, fn, overloading, params, form, hidden, ref]; fn and overloading are
\* 0 outside the parameters of functions; params are the overloading's own generic
\* parameters, form whether it takes variable arguments and the type it overrides;
\* hidden are parameters of a class between; ref names the reference that the slot
\* belongs to, or is "".  Packs inside packs are left out.
ASSUME GenericAssumption ==
  /\ \A o \in Originals : /\ Decl[o].kind \in {"Class", "Interface", "Fn"}
                          /\ Decl[o].slots \in Seq(Range(Decl[o].slots))
  /\ InstanceMax \in Nat

Instances == 1..InstanceMax

VARIABLES
  heap,   \* the copies: instance -> [original, args, types]
  refs,   \* the type that each reference holds, shared by all copies
  dir,    \* _generic_cache_dir: original -> arguments -> instance
  lookup, \* _generic_cache_lookup_table: instance -> [original, args]
  held,   \* the instances that somebody else still refers to
  job,    \* what is being made: [original, args, value, at]
  step   \* "idle", "walking", "slots", "packs", "caching" or "stopped"

generic == <<heap, refs, dir, lookup, held, job, step>>

None  == [original |-> "none"]
Slots(o) == Decl[o].slots
Mine  == Slots(job.original)

GenericInit ==
  /\ heap = <<>> /\ refs = RefTypes
  /\ dir = <<>> /\ lookup = <<>>
  /\ held = {} /\ job = None
  /\ step = "idle"

Without(f, x) == Restrict(f, DOMAIN f \ {x})
With(f, x, y) == [z \in DOMAIN f \cup {x} |-> IF z = x THEN y ELSE f[z]]

\* The process ends.
Stop ==
  /\ step' = "stopped"
  /\ heap' = <<>> /\ refs' = RefTypes /\ dir' = <<>> /\ lookup' = <<>> /\ held' = {} /\ job' = None

\* An error is returned; the copy is left to the collector, and what has been put
\* into references stays there.
Refuse == step' = "idle" /\ job' = None

-----------------------------------------------------------------------------
(* The copy.                                                               *)

CacheHit(o, args) ==
  /\ step = "idle" /\ o \in DOMAIN dir /\ args \in DOMAIN dir[o]
  /\ held' = held \cup {dir[o][args]}
  /\ UNCHANGED <<heap, refs, dir, lookup, job, step>>

\* The types of the original are copied; references are not, only the pointers to
\* them (RegularFnOverloadingObject).
Duplicate(o, args) ==
  /\ step = "idle" /\ ~ (o \in DOMAIN dir /\ args \in DOMAIN dir[o])
  /\ \E i \in Instances \ DOMAIN heap :
       /\ \A j \in 1..(i - 1) : j \in DOMAIN heap
       /\ heap' = With(heap, i, [original |-> o, args |-> args, types |-> [k \in DOMAIN Slots(o) |-> Slots(o)[k].type]])
       /\ job' = [original |-> o, args |-> args, value |-> i, at |-> 1]
  /\ step' = "walking"
  /\ UNCHANGED <<refs, dir, lookup, held>>

\* The object itself cannot be copied, which nobody looks at.
DuplicateNothing(o, args) ==
  /\ step = "idle" /\ ~ (o \in DOMAIN dir /\ args \in DOMAIN dir[o])
  /\ Stop

-----------------------------------------------------------------------------
(* The walk over objects.                                                  *)

\* _map_generic_params(); for a function, each overloading is compared later.
MapGenericParams ==
  Decl[job.original].kind = "Fn" \/ Len(job.args) = Len(Decl[job.original].params)

\* A parameter of a function inside a generic class has a context on the stack that
\* has ended when it is used.
ContextGone == \E k \in DOMAIN Mine : Decl[job.original].kind # "Fn" /\ Mine[k].params # <<>>

\* _instantiate_module_fields(): appending a record computes the size of its type.
\* Records that move leave their slots pointing at where they were.
FieldsFail == \E f \in Range(Decl[job.original].fields) : f.id = "GenericArg"

\* Objects of other kinds are not expected.
WalkObjects ==
  /\ step = "walking"
  /\ \/ /\ ~ MapGenericParams /\ Refuse
        /\ UNCHANGED <<heap, refs, dir, lookup, held>>
     \/ /\ MapGenericParams /\ (ContextGone \/ FieldsFail \/ Decl[job.original].others)
        /\ Stop
     \/ /\ MapGenericParams /\ Len(Decl[job.original].fields) > 1
        /\ Stop
     \/ /\ MapGenericParams /\ ~ (ContextGone \/ FieldsFail \/ Decl[job.original].others)
        /\ step' = "slots"
        /\ UNCHANGED <<heap, refs, dir, lookup, held, job>>

-----------------------------------------------------------------------------
(* The walk over type slots.                                               *)

\* The parameters that the arguments stand for in a slot.
Params(o, s) == IF Decl[o].kind = "Fn" THEN s.params ELSE Decl[o].params

\* Overloadings with another number of parameters are left as they are.
Visited(o, args, s) == Len(Params(o, s)) = Len(args)

\* Mutant: the arguments are taken in the opposite order.
ArgumentFromEnd(o, args, s, name) ==
  args[Len(args) + 1 - CHOOSE i \in DOMAIN Params(o, s) : Params(o, s)[i] = name]

Argument(o, args, s, name) == args[CHOOSE i \in DOMAIN Params(o, s) : Params(o, s)[i] = name]

Put(k, t) ==
  IF Mine[k].ref = "" THEN heap' = [heap EXCEPT ![job.value].types[k] = t] /\ UNCHANGED refs
                      ELSE refs' = [refs EXCEPT ![Mine[k].ref] = t] /\ UNCHANGED heap

NextSlot == job' = [job EXCEPT !.at = @ + 1] /\ UNCHANGED step

\* A parameter that a class between hides is marked in a table that has its name
\* already: whether the mark or the argument counts is left open.
SubstituteSlot ==
  /\ step = "slots" /\ job.at <= Len(Mine)
  /\ LET s == Mine[job.at]
         t == IF s.ref = "" THEN heap[job.value].types[job.at] ELSE refs[s.ref]
         mapped == t.id = "GenericArg" /\ t.name \in Range(Params(job.original, s))
     IN \/ /\ ~ Visited(job.original, job.args, s) /\ NextSlot
           /\ UNCHANGED <<heap, refs>>
        \/ /\ Visited(job.original, job.args, s) /\ mapped
           /\ NextSlot
           /\ \/ Put(job.at, Argument(job.original, job.args, s, t.name))
              \/ t.name \in s.hidden /\ UNCHANGED <<heap, refs>>
        \/ /\ Visited(job.original, job.args, s)
           /\ t.id = "GenericArg" /\ ~ mapped /\ t.name \in s.hidden
           /\ NextSlot
           /\ UNCHANGED <<heap, refs>>
        \/ /\ Visited(job.original, job.args, s)
           /\ t.id = "GenericArg" /\ ~ mapped /\ t.name \notin s.hidden
           /\ Refuse
           /\ UNCHANGED <<heap, refs>>
        \* Lists and unpackings push slots for their parts, which the pass over value
        \* slots, of which there are none, then drops.
        \/ /\ Visited(job.original, job.args, s)
           /\ t.id \notin {"GenericArg", "Array", "Ref"} /\ NextSlot
           /\ UNCHANGED <<heap, refs>>
  /\ UNCHANGED <<dir, lookup, held>>

\* The duplicator that an array or reference type is copied with is null.
SubstituteNested ==
  /\ step = "slots" /\ job.at <= Len(Mine)
  /\ Mine[job.at].ref = "" /\ Visited(job.original, job.args, Mine[job.at])
  /\ heap[job.value].types[job.at].id \in {"Array", "Ref"}
  /\ Stop

SlotsDone ==
  /\ step = "slots" /\ job.at > Len(Mine)
  /\ step' = "packs"
  /\ UNCHANGED <<heap, refs, dir, lookup, held, job>>

-----------------------------------------------------------------------------
(* Parameter packs and overloadings.                                       *)

IsParam(s) == s.fn # 0 /\ s.ref = ""
Overloaded == {<<Mine[k].fn, Mine[k].overloading>> : k \in {l \in DOMAIN Mine : IsParam(Mine[l])}}
\* The slots of the parameters of an overloading, and their types.
ParamSlots(ol) == SelectSeq([k \in DOMAIN Mine |-> k],
                            LAMBDA k : IsParam(Mine[k]) /\ <<Mine[k].fn, Mine[k].overloading>> = ol)
ParamTypes(ol) == [n \in DOMAIN ParamSlots(ol) |-> heap[job.value].types[ParamSlots(ol)[n]]]
Packs(ol) == {t \in Range(ParamTypes(ol)) : t.id = "Unpacking"}

\* What a slot holds once packs are expanded: in the place of a pack stand the types of
\* its list.  The slots of these were pushed for the walk, but dropped with the list of
\* slots before it came to them, so that parameters among them are not replaced.
Spread(t) == [id |-> "Spread", name |-> "", of |-> t.of.of]
InPlace(s, t) == IF IsParam(s) /\ t.id = "Unpacking" THEN Spread(t) ELSE t

Expanded(ol) == FlattenSeq([n \in DOMAIN ParamTypes(ol) |->
                  LET t == ParamTypes(ol)[n] IN IF t.id = "Unpacking" THEN Spread(t).of ELSE <<t>>])
Signature(ol) == LET s == Mine[ParamSlots(ol)[1]] IN <<ol[1], Expanded(ol), s.form, Len(s.params)>>

\* What is unpacked is no list.
NoList == \E ol \in Overloaded : \E t \in Packs(ol) : t.of.id # "ParamTypeList"
\* A list of no types asks for room for one type less than none.
EmptyList == \E ol \in Overloaded : \E t \in Packs(ol) : t.of.id = "ParamTypeList" /\ t.of.of = <<>>
Duplicated == \E a, b \in Overloaded : a # b /\ Signature(a) = Signature(b)

ExpandPacks ==
  /\ step = "packs"
  /\ \/ NoList /\ Stop
     \/ /\ ~ NoList /\ EmptyList /\ Refuse
        /\ UNCHANGED <<heap, refs, dir, lookup, held>>
     \/ /\ ~ NoList /\ ~ EmptyList /\ Duplicated /\ Refuse
        /\ UNCHANGED <<heap, refs, dir, lookup, held>>
     \/ /\ ~ NoList /\ ~ EmptyList /\ ~ Duplicated
        /\ step' = "caching"
        /\ heap' = [heap EXCEPT ![job.value].types = [k \in DOMAIN Mine |-> InPlace(Mine[k], @[k])]]
        /\ UNCHANGED <<refs, dir, lookup, held, job>>

\* An allocation fails on the way.
InstantiateOutOfMemory ==
  /\ step \in {"walking", "slots", "packs"} /\ Refuse
  /\ UNCHANGED <<heap, refs, dir, lookup, held>>

-----------------------------------------------------------------------------
(* The cache.                                                              *)

Table  == IF job.original \in DOMAIN dir THEN dir[job.original] ELSE <<>>
Cached == With(dir, job.original, With(Table, job.args, job.value))
Found  == With(lookup, job.value, [original |-> job.original, args |-> job.args])
Answer == Refuse /\ held' = held \cup {job.value} /\ UNCHANGED <<heap, refs>>
Failed == Refuse /\ UNCHANGED <<heap, refs, held>>

\* set_generic_cache().  Whether the insertions into the table and into the lookup
\* table succeed is not looked at.
SetGenericCache ==
  /\ step = "caching" /\ Answer
  /\ \/ dir' = Cached /\ lookup' = Found
     \/ dir' = With(dir, job.original, Table) /\ lookup' = Found
     \/ dir' = Cached /\ UNCHANGED lookup
     \/ dir' = With(dir, job.original, Table) /\ UNCHANGED lookup

\* The failures that it reports: no room in the directory, for the key of the table,
\* for the arguments in the lookup table.
SetGenericCacheFails ==
  /\ step = "caching" /\ Failed
  /\ \/ UNCHANGED <<dir, lookup>>
     \/ dir' = With(dir, job.original, Table) /\ UNCHANGED lookup
     \/ dir' = Cached /\ UNCHANGED lookup

Release(i) ==
  /\ step = "idle" /\ i \in held
  /\ held' = held \ {i}
  /\ UNCHANGED <<heap, refs, dir, lookup, job, step>>

\* Mutant: the collector does not walk the cache.
RootedByOthers(i) == i \in held

\* The cache is walked as a root.
Rooted(i) == i \in held \/ \E o \in DOMAIN dir : i \in Range(dir[o])

\* invalidate_generic_cache(), which ~MemberObject calls.
Invalidated(i) ==
  LET e == lookup[i]
      table == Without(dir[e.original], e.args)
  IN IF table = <<>> THEN Without(dir, e.original) ELSE With(dir, e.original, table)

CollectInstance(i) ==
  /\ step = "idle" /\ i \in DOMAIN heap /\ ~ Rooted(i)
  /\ \/ /\ i \notin DOMAIN lookup
        /\ heap' = Without(heap, i)
        /\ UNCHANGED <<refs, dir, lookup, held, job, step>>
     \/ /\ i \in DOMAIN lookup /\ lookup[i].original \in DOMAIN dir
        /\ heap' = Without(heap, i)
        /\ dir' = Invalidated(i)
        /\ lookup' = Without(lookup, i)
        /\ UNCHANGED <<refs, held, job, step>>
     \/ i \in DOMAIN lookup /\ lookup[i].original \notin DOMAIN dir /\ Stop

GenericNext ==
  \/ \E o \in Originals, args \in Arguments :
       CacheHit(o, args) \/ Duplicate(o, args) \/ DuplicateNothing(o, args)
  \/ WalkObjects \/ SubstituteSlot \/ SubstituteNested \/ SlotsDone \/ ExpandPacks
  \/ InstantiateOutOfMemory \/ SetGenericCache \/ SetGenericCacheFails
  \/ \E i \in Instances : Release(i) \/ CollectInstance(i)

GenericSpec == GenericInit /\ [][GenericNext]_generic

-----------------------------------------------------------------------------
(* Properties.                                                             *)

\* What a request finds in the cache is alive, was made from that object with
\* those arguments, and is finished, whatever failed before: each parameter that
\* stands alone in a slot is replaced by its argument, in the place of each pack stand
\* the types of its list as they were declared, and nothing else is changed
\* (instantiate_generic_object, set_generic_cache).
CacheSound ==
  \A o \in DOMAIN dir : \A args \in DOMAIN dir[o] :
    LET i == dir[o][args]
    IN /\ i \in DOMAIN heap /\ heap[i].original = o /\ heap[i].args = args
       /\ \A k \in {l \in DOMAIN Slots(o) : Slots(o)[l].ref = "" /\ Slots(o)[l].type.name \notin Slots(o)[l].hidden} :
            LET s == Slots(o)[k]
            IN heap[i].types[k] = InPlace(s, IF s.type.id = "GenericArg" /\ Visited(o, args, s)
                                             THEN LET p == Params(o, s)
                                                  IN args[CHOOSE j \in DOMAIN p : p[j] = s.type.name]
                                             ELSE s.type)

\* "Make a duplicate of the original value": what is done to the duplicate leaves
\* the original as it was (instantiate_generic_object).
OriginalUntouched == refs = RefTypes
=============================================================================
