--------------------------------- MODULE Gc ---------------------------------
(***************************************************************************)
(* The generational mark-and-sweep collector of the slake runtime          *)
(* (src/slake/rt/gc.cc, rt/gc_heapless.cc, the object lists of runtime.cc) *)
(* together with the program that uses the heap.                           *)
(*                                                                         *)
(* gc() first collects the young list.  Marking starts from the pinned     *)
(* objects of the list being collected, the generic cache, the contexts of *)
(* the managed threads and the root module, and follows references into    *)
(* both generations.  Two sweeps free what was not marked: type            *)
(* definitions first (each one is unregistered from the interning table),  *)
(* then everything else.  The survivors are promoted, their list is        *)
(* spliced in front of the persistent one, and when the persistent         *)
(* allocator is over its limit the same algorithm runs on that list.       *)
(*                                                                         *)
(* A cell of memory that is freed may be allocated again.  The sizes that  *)
(* trigger a collection are data: a collection may start whenever the      *)
(* program is between two instructions, and may or may not go on to the    *)
(* persistent list.                                                        *)
(*                                                                         *)
(* Type definitions are interned: a new one that the comparator finds      *)
(* equal to a registered one is dropped and the registered one is used     *)
(* instead, even if nothing has referred to it for a while.  The           *)
(* comparator looks through the objects that carry a definition's          *)
(* contents, the heap types, identifier references and names, and compares *)
(* everything else by address.                                             *)
(*                                                                         *)
(* What the collector takes for granted, without enforcing it, is recorded *)
(* in the history variable `lapses' the first time it fails.               *)
(***************************************************************************)
EXTENDS Reachability, FiniteSets, Naturals

CONSTANTS
  Root,        \* the cell of the root module
  TypeDefs,    \* the cells that hold type definitions
  Carriers,    \* the cells that hold what a definition is made of
  Opaque,      \* the cells that hold arrays whose elements the walk skips
  Shape,       \* Shape[t]: the kind and the numbers of definition t
  MaxPins,     \* bound on host_ref_count
  MaxRefs,     \* bound on the reference slots of an object
  MaxThreads,  \* bound on the managed threads
  MaxCache     \* bound on the entries of the generic cache

ASSUME GcAssumption ==
  /\ Root \in Object
  /\ TypeDefs \subseteq Object \ {Root}
  /\ Carriers \subseteq Object \ (TypeDefs \cup {Root})
  /\ Opaque \subseteq Object \ {Root}
  /\ MaxPins \in Nat /\ MaxRefs \in Nat /\ MaxThreads \in Nat /\ MaxCache \in Nat

VARIABLES
  young,       \* the objects of young_object_list
  persistent,  \* the objects of persistent_object_list
  generation,  \* Object::object_generation
  refs,        \* refs[o]: the references held in the fields of o
  pins,        \* Object::host_ref_count
  older,       \* <<a, b>>: a precedes b in its list, seen from the old end;
               \* kept for the pairs of one type definition and one other object
  keepRoot,    \* _root_object is not null
  threads,     \* the contexts of managed_thread_runnables
  looped,      \* those with a register or argument that refers to their own local variable
  cache,       \* <<original, instance>>: the entries of the generic cache
  typeDefs,    \* Runtime::type_defs
  pc,          \* where gc() is: see Phases
  collecting,  \* the list that _gc_serial works on
  status,      \* Object::gc_status
  unwalked,    \* GCWalkContext::unwalked_list
  keepListed,  \* _gc_serial's update_unwalked_list is false
  deiniting,   \* _RT_DEINITING
  fault,       \* the first access to a freed cell, or the stack overflow, if any
  lapses       \* what the collector relies on and has not been given: see Lapses

mutatorVars == <<refs, pins, keepRoot, threads, looped, cache, typeDefs>>
heapVars    == <<young, persistent, generation, older>>
gcVars      == <<pc, collecting, status, unwalked, keepListed, deiniting>>
vars        == <<mutatorVars, heapVars, gcVars, fault, lapses>>

Phases      == {"mutate", "mark", "sweepTypeDefs", "sweepAll", "dead"}
Generations == {"Young", "Persistent"}
Statuses    == {"Unwalked", "ReadyToWalk", "Walked"}
Faults      == {"none", "dangling", "doubleFree", "overflow"}

\* unrooted: a gc() started while the host had pinned a persistent object that
\*           nothing else keeps;
\* skipped:  the walk passed an array whose elements it does not follow;
\* changed:  a definition was changed in place after it had been registered,
\*           or made to refer to something younger.
Lapses      == {"unrooted", "skipped", "changed"}

Live    == young \cup persistent
Listed  == IF collecting = "Young" THEN young ELSE persistent
Pinned  == {o \in Live : pins[o] > 0}
Cached  == {e[1] : e \in cache} \cup {e[2] : e \in cache}
Roots   == Cached \cup threads \cup (IF keepRoot THEN {Root} ELSE {})
Marked  == {o \in Object : status[o] # "Unwalked"}

Accessible == Reach(refs, Roots \cup Pinned)
Usable     == Accessible \cap Live

-----------------------------------------------------------------------------
(* The interning table.                                                    *)

Made == TypeDefs \cup Carriers

\* What TypeDefComparator compares of the objects that t refers to: the
\* contents of its carriers, the addresses of the others.
Leads(t) == (refs[t] \ Carriers) \cup UNION {refs[k] : k \in refs[t] \cap Carriers}

Equals(t) == {u \in typeDefs : Shape[u] = Shape[t] /\ Leads(u) = Leads(t)}

\* What a search of the table for t may find.  The table is ordered by the
\* comparator: once the contents of an entry have changed under it, the search
\* may miss.
Found(t) == {Equals(t)} \cup (IF lapses = {} THEN {} ELSE {{}})

\* The cells that a comparison of the definitions in S may read.
ReadBy(S) == S \cup UNION {refs[u] \ TypeDefs : u \in S}

\* The fault after a search for t, which may come past any entry.
Searching(t) ==
  IF ReadBy(typeDefs \cup {t}) \subseteq Live THEN {fault} ELSE {fault, "dangling"}

\* Making a refer to the objects of S changes a definition that is in the table,
\* or makes an old one refer to something young.
Disturbs(a, S) ==
  /\ a \in Made
  /\ \/ \E u \in typeDefs : a \in {u} \cup (refs[u] \cap Carriers)
     \/ a \in persistent /\ ~ S \subseteq persistent

-----------------------------------------------------------------------------
(* The program.                                                            *)

Init ==
  /\ young = {Root} /\ persistent = {}
  /\ generation = [o \in Object |-> "Young"]
  /\ refs = [o \in Object |-> {}]
  /\ pins = [o \in Object |-> 0]
  /\ older = {}
  /\ keepRoot = TRUE /\ threads = {} /\ looped = {} /\ cache = {} /\ typeDefs = {}
  /\ pc = "mutate" /\ collecting = "Young"
  /\ status = [o \in Object |-> "Unwalked"]
  /\ unwalked = {} /\ keepListed = FALSE /\ deiniting = FALSE
  /\ fault = "none" /\ lapses = {}

Mutating == pc = "mutate" /\ fault = "none"

\* add_object() puts a new object at the head of the young list; the caller
\* holds it in the HostObjectRef that alloc() returned.
Alloc(o) ==
  /\ Mutating
  /\ o \notin Live
  /\ MaxPins > 0
  /\ young' = young \cup {o}
  /\ generation' = [generation EXCEPT ![o] = "Young"]
  /\ status' = [status EXCEPT ![o] = "Unwalked"]
  /\ refs' = [refs EXCEPT ![o] = {}]
  /\ pins' = [pins EXCEPT ![o] = 1]
  /\ older' = older \cup {<<a, o>> : a \in {x \in Live : (x \in TypeDefs) # (o \in TypeDefs)}}
  /\ UNCHANGED <<persistent, keepRoot, threads, looped, cache, typeDefs, fault, lapses, pc,
                 collecting, unwalked, keepListed, deiniting>>

Link(a, b) ==
  /\ Mutating
  /\ a \in Usable /\ b \in Usable
  /\ Cardinality(refs[a] \cup {b}) <= MaxRefs
  /\ refs' = [refs EXCEPT ![a] = @ \cup {b}]
  /\ lapses' = lapses \cup (IF Disturbs(a, {b}) THEN {"changed"} ELSE {})
  /\ UNCHANGED <<pins, keepRoot, threads, looped, cache, typeDefs, heapVars, gcVars, fault>>

Unlink(a, b) ==
  /\ Mutating
  /\ a \in Usable /\ b \in refs[a]
  /\ refs' = [refs EXCEPT ![a] = @ \ {b}]
  /\ lapses' = lapses \cup (IF Disturbs(a, {}) THEN {"changed"} ELSE {})
  /\ UNCHANGED <<pins, keepRoot, threads, looped, cache, typeDefs, heapVars, gcVars, fault>>

Pin(o) ==
  /\ Mutating
  /\ o \in Usable /\ pins[o] < MaxPins
  /\ pins' = [pins EXCEPT ![o] = @ + 1]
  /\ UNCHANGED <<refs, keepRoot, threads, looped, cache, typeDefs, heapVars, gcVars, fault,
                 lapses>>

\* Mutant: dec_host_ref() without its assertion.
UnpinUnchecked(o) ==
  /\ Mutating
  /\ o \in Live
  /\ pins' = [pins EXCEPT ![o] = @ - 1]
  /\ UNCHANGED <<refs, keepRoot, threads, looped, cache, typeDefs, heapVars, gcVars, fault,
                 lapses>>

Unpin(o) ==
  /\ Mutating
  /\ o \in Live /\ pins[o] > 0
  /\ pins' = [pins EXCEPT ![o] = @ - 1]
  /\ UNCHANGED <<refs, keepRoot, threads, looped, cache, typeDefs, heapVars, gcVars, fault,
                 lapses>>

\* exec_fn() lists the context it runs, and takes it off the list again.
EnterThread(c) ==
  /\ Mutating
  /\ c \in Usable \ (Made \cup threads)
  /\ Cardinality(threads) < MaxThreads
  /\ threads' = threads \cup {c}
  /\ UNCHANGED <<refs, pins, keepRoot, looped, cache, typeDefs, heapVars, gcVars, fault, lapses>>

LeaveThread(c) ==
  /\ Mutating
  /\ c \in threads
  /\ threads' = threads \ {c} /\ looped' = looped \ {c}
  /\ UNCHANGED <<refs, pins, keepRoot, cache, typeDefs, heapVars, gcVars, fault, lapses>>

\* LVAR: a register of the context comes to hold a reference to one of the
\* local variables of the same context; later it is overwritten or its frame
\* ends.
TakeLocal(c) ==
  /\ Mutating
  /\ c \in threads
  /\ looped' = looped \cup {c}
  /\ UNCHANGED <<refs, pins, keepRoot, threads, cache, typeDefs, heapVars, gcVars, fault, lapses>>

DropLocal(c) ==
  /\ Mutating
  /\ c \in looped
  /\ looped' = looped \ {c}
  /\ UNCHANGED <<refs, pins, keepRoot, threads, cache, typeDefs, heapVars, gcVars, fault, lapses>>

\* set_generic_cache(): instantiate_generic_object() stores a new instance.
Instantiate(o, i) ==
  /\ Mutating
  /\ o \in Usable \ Made /\ i \in Usable \ Made /\ o # i
  /\ i \notin {e[2] : e \in cache}
  /\ Cardinality(cache) < MaxCache
  /\ cache' = cache \cup {<<o, i>>}
  /\ UNCHANGED <<refs, pins, keepRoot, threads, looped, typeDefs, heapVars, gcVars, fault, lapses>>

\* The loader, or a substitution, registers a definition if the table has no
\* equal.
Register(t) ==
  /\ Mutating
  /\ t \in Usable \cap TypeDefs
  /\ {} \in Found(t)
  /\ typeDefs' = typeDefs \cup {t}
  /\ fault' \in Searching(t)
  /\ UNCHANGED <<refs, pins, keepRoot, threads, looped, cache, heapVars, gcVars, lapses>>

\* If the table has an equal, it is stored where t was meant to go, whether
\* or not anything else still refers to it.
Reuse(t, u, a) ==
  /\ Mutating
  /\ t \in Usable \cap TypeDefs
  /\ u \in Equals(t)
  /\ a \in Usable
  /\ Cardinality(refs[a] \cup {u}) <= MaxRefs
  /\ refs' = [refs EXCEPT ![a] = @ \cup {u}]
  /\ fault' \in Searching(t)
  /\ lapses' = lapses \cup (IF Disturbs(a, {u}) THEN {"changed"} ELSE {})
  /\ UNCHANGED <<pins, keepRoot, threads, looped, cache, typeDefs, heapVars, gcVars>>

\* The end of a load: a custom definition that it has made is taken out of the
\* table, made to refer to the object b that its identifier names, and
\* registered again (which terminates the process if the table has an equal).
Resolve(t, b) ==
  /\ Mutating
  /\ t \in Usable \cap typeDefs \cap young
  /\ refs[t] \subseteq Carriers
  /\ b \in Usable \ Made
  /\ \E found \in Found(t) :
       /\ \A u \in typeDefs \ (found \cup {t}) : Shape[u] # Shape[t] \/ Leads(u) # {b}
       /\ typeDefs' = (typeDefs \ found) \cup {t}
  /\ refs' = [refs EXCEPT ![t] = {b}]
  /\ fault' \in Searching(t)
  /\ UNCHANGED <<pins, keepRoot, threads, looped, cache, heapVars, gcVars, lapses>>

-----------------------------------------------------------------------------
(* The collector.                                                          *)

\* push_object() on every object of S.
Push(S, st) ==
  [o \in Object |-> IF o \in S /\ st[o] = "Unwalked" THEN "ReadyToWalk" ELSE st[o]]

\* Mutant: the scan of the list forgets the host's pins.
StartSerialRootsOnly(list, rootSet, st) ==
  /\ status'   = Push(rootSet, [o \in Object |-> IF o \in list THEN "Unwalked" ELSE st[o]])
  /\ unwalked' = list \ rootSet
  /\ fault'    = IF rootSet \subseteq Live THEN fault ELSE "dangling"
  /\ pc'       = "mark"

\* The head of _gc_serial(), on `list', from the statuses st: the scan, then
\* the roots.
StartSerial(list, rootSet, st) ==
  LET pushed == {o \in list : pins[o] > 0} \cup rootSet
  IN  /\ status'   = Push(pushed, [o \in Object |-> IF o \in list THEN "Unwalked" ELSE st[o]])
      /\ unwalked' = list \ pushed
      /\ fault'    = IF pushed \subseteq Live THEN fault ELSE "dangling"
      /\ pc'       = "mark"

\* What the host is trusted with: an object it has pinned is reachable from the
\* roots or from the young objects it has pinned.
HostKeepsPinnedRooted == Pinned \subseteq Reach(refs, Roots \cup (Pinned \cap young))

\* gc(), called between two instructions, by the loader or by the host.
StartGc ==
  /\ Mutating
  /\ lapses' = lapses \cup (IF HostKeepsPinnedRooted THEN {} ELSE {"unrooted"})
  /\ collecting' = "Young"
  /\ StartSerial(young, Roots, status)
  /\ UNCHANGED <<mutatorVars, heapVars, keepListed, deiniting>>

\* Mutant: ~Runtime() without the clearing of the generic cache.
DeinitKeepingCache ==
  /\ Mutating
  /\ Pinned = {}
  /\ threads' = {} /\ looped' = {} /\ keepRoot' = FALSE
  /\ deiniting' = TRUE
  /\ collecting' = "Young"
  /\ StartSerial(young, Cached, status)
  /\ UNCHANGED <<refs, pins, cache, typeDefs, heapVars, keepListed, lapses>>

\* ~Runtime(): every table is cleared, the limits are 0, and gc() runs for
\* the last time.  The host has let go of everything.
Deinit ==
  /\ Mutating
  /\ Pinned = {}
  /\ cache' = {} /\ threads' = {} /\ looped' = {} /\ keepRoot' = FALSE
  /\ deiniting' = TRUE
  /\ collecting' = "Young"
  /\ StartSerial(young, {}, status)
  /\ UNCHANGED <<refs, pins, typeDefs, heapVars, keepListed, lapses>>

\* Mutant: only the list that is being collected is walked.
TracedListed(o) == refs[o] \cap Listed

\* The references that _gc_walk() pushes.
Traced(o) == IF o \in Opaque THEN {} ELSE refs[o]

\* Mutant: the object stays ReadyToWalk.
WalkForgetful(o) ==
  /\ pc = "mark" /\ fault = "none"
  /\ status[o] = "ReadyToWalk" /\ o \notin looped
  /\ status'   = Push(Traced(o), status)
  /\ unwalked' = unwalked \ Traced(o)
  /\ fault'    = IF Traced(o) \subseteq Live THEN fault ELSE "dangling"
  /\ UNCHANGED <<mutatorVars, heapVars, pc, collecting, keepListed, deiniting, lapses>>

\* _gc_walk(o): o becomes Walked and what it refers to is pushed.
Walk(o) ==
  /\ pc = "mark" /\ fault = "none"
  /\ status[o] = "ReadyToWalk" /\ o \notin looped
  /\ status'   = Push(Traced(o), [status EXCEPT ![o] = "Walked"])
  /\ unwalked' = unwalked \ Traced(o)
  /\ fault'    = IF Traced(o) \subseteq Live THEN fault ELSE "dangling"
  /\ lapses'   = lapses \cup (IF o \in Opaque /\ refs[o] # {} THEN {"skipped"} ELSE {})
  /\ UNCHANGED <<mutatorVars, heapVars, pc, collecting, keepListed, deiniting>>

\* The walk of a reference to a local variable walks the whole context that the
\* variable is in, and there is no mark on that way: when the reference is held
\* by the same context, the walk comes back to it until the stack is used up.
WalkLooped(o) ==
  /\ pc = "mark" /\ fault = "none"
  /\ status[o] = "ReadyToWalk" /\ o \in looped
  /\ fault' = "overflow"
  /\ UNCHANGED <<mutatorVars, heapVars, gcVars, lapses>>

\* The oldest object that was not reached, the head of the list that the
\* sweeps go through, is a type definition.
HeadIsTypeDef ==
  \E t \in unwalked \cap TypeDefs : \A o \in unwalked \ TypeDefs : <<t, o>> \in older

\* Mutant: the sweep starts while there are objects to walk.
EndMarkEarly ==
  /\ pc = "mark" /\ fault = "none"
  /\ pc' = "sweepTypeDefs"
  /\ keepListed' = HeadIsTypeDef
  /\ UNCHANGED <<mutatorVars, heapVars, collecting, status, unwalked, deiniting, fault,
                 lapses>>

EndMark ==
  /\ pc = "mark" /\ fault = "none"
  /\ \A o \in Object : status[o] # "ReadyToWalk"
  /\ pc' = "sweepTypeDefs"
  /\ keepListed' = HeadIsTypeDef
  /\ UNCHANGED <<mutatorVars, heapVars, collecting, status, unwalked, deiniting, fault,
                 lapses>>

\* dealloc(o), after o has been taken off its generation's list.  The
\* destructor of a member takes its entry out of the generic cache.  A freed
\* cell is given the contents of a fresh one.
Free(o) ==
  /\ young' = young \ {o} /\ persistent' = persistent \ {o}
  /\ refs'  = [refs EXCEPT ![o] = {}]
  /\ generation' = [generation EXCEPT ![o] = "Young"]
  /\ older' = {p \in older : o \notin {p[1], p[2]}}
  /\ cache' = {e \in cache : e[2] # o}

\* Mutant: a freed type definition stays registered.
SweepTypeDefRegistered(o) ==
  /\ pc = "sweepTypeDefs" /\ fault = "none"
  /\ o \in unwalked \cap TypeDefs \cap Live
  /\ Free(o)
  /\ unwalked' = IF keepListed THEN unwalked ELSE unwalked \ {o}
  /\ UNCHANGED <<pins, keepRoot, threads, looped, typeDefs, pc, collecting, status, keepListed,
                 deiniting, fault, lapses>>

\* One type definition of the first sweep: unregister_type_def() removes
\* whatever registered definition is equal to it.
SweepTypeDef(o) ==
  /\ pc = "sweepTypeDefs" /\ fault = "none"
  /\ o \in unwalked \cap TypeDefs \cap Live
  /\ Free(o)
  /\ \E found \in Found(o) : typeDefs' = typeDefs \ found
  /\ fault' \in Searching(o)
  /\ unwalked' = IF keepListed THEN unwalked ELSE unwalked \ {o}
  /\ UNCHANGED <<pins, keepRoot, threads, looped, pc, collecting, status, keepListed, deiniting,
                 lapses>>

EndTypeDefs ==
  /\ pc = "sweepTypeDefs" /\ fault = "none"
  /\ unwalked \cap TypeDefs \cap Live = {}
  /\ pc' = "sweepAll"
  /\ UNCHANGED <<mutatorVars, heapVars, collecting, status, unwalked, keepListed, deiniting,
                 fault, lapses>>

\* One object of the second sweep.  A cell that the first one freed but left
\* on the list is freed again.
Sweep(o) ==
  /\ pc = "sweepAll" /\ fault = "none"
  /\ o \in unwalked
  /\ unwalked' = unwalked \ {o}
  /\ IF o \in Live
     THEN Free(o) /\ UNCHANGED fault
     ELSE fault' = "doubleFree" /\ UNCHANGED <<heapVars, refs, cache>>
  /\ UNCHANGED <<pins, keepRoot, threads, looped, typeDefs, pc, collecting, status,
                 keepListed, deiniting, lapses>>

\* Mutants: only the collected list is settled; nothing is promoted; the tail
\* runs before the list is empty.
SettledListed ==
  [o \in Object |-> IF status[o] = "Walked" /\ o \in Listed THEN "Unwalked" ELSE status[o]]
Unpromoted == generation
SweptEarly == pc = "sweepAll" /\ fault = "none"

\* The tail of _gc_serial(): what was walked becomes Persistent and Unwalked.
Settled  == [o \in Object |-> IF status[o] = "Walked" THEN "Unwalked" ELSE status[o]]
Promoted == [o \in Object |-> IF status[o] = "Walked" THEN "Persistent" ELSE generation[o]]

\* Everything that was not marked has been freed.
Swept == pc = "sweepAll" /\ fault = "none" /\ unwalked = {}

\* gc(): the survivors are spliced in front of the persistent list.
Splice ==
  /\ Swept /\ collecting = "Young"
  /\ young' = {} /\ persistent' = persistent \cup young
  /\ generation' = Promoted
  /\ UNCHANGED <<mutatorVars, older, keepListed, deiniting, lapses>>

\* The persistent allocator is below its limit: gc() is over.
EndYoung ==
  /\ Splice
  /\ ~deiniting
  /\ status' = Settled
  /\ pc' = "mutate"
  /\ UNCHANGED <<collecting, unwalked, fault>>

\* It has reached its limit: the persistent list is collected as well.
StartPersistent ==
  /\ Splice
  /\ collecting' = "Persistent"
  /\ StartSerial(Live, Roots, Settled)

EndPersistent ==
  /\ Swept /\ collecting = "Persistent"
  /\ generation' = Promoted
  /\ status' = Settled
  /\ pc' = IF deiniting THEN "dead" ELSE "mutate"
  /\ collecting' = "Young"
  /\ UNCHANGED <<mutatorVars, young, persistent, older, unwalked, keepListed, deiniting,
                 fault, lapses>>

-----------------------------------------------------------------------------

Program ==
  \/ \E o \in Object : Alloc(o) \/ Pin(o) \/ Unpin(o) \/ EnterThread(o) \/ LeaveThread(o)
                       \/ TakeLocal(o) \/ DropLocal(o) \/ Register(o)
  \/ \E a, b \in Object : Link(a, b) \/ Unlink(a, b) \/ Instantiate(a, b) \/ Resolve(a, b)
  \/ \E t, u, a \in Object : Reuse(t, u, a)

\* The steps of a gc() that has started.
Collect ==
  \/ \E o \in Object : Walk(o) \/ WalkLooped(o) \/ SweepTypeDef(o) \/ Sweep(o)
  \/ EndMark \/ EndTypeDefs \/ EndYoung \/ StartPersistent \/ EndPersistent

Next == Program \/ StartGc \/ Deinit \/ Collect

Spec == Init /\ [][Next]_vars

\* gc() is a plain call that its caller waits for: it is run to its end.
FairSpec == Spec /\ WF_vars(Collect)

-----------------------------------------------------------------------------
(* Correctness.                                                            *)

TypeOK ==
  /\ young \subseteq Object /\ persistent \subseteq Object
  /\ generation \in [Object -> Generations]
  /\ refs \in [Object -> SUBSET Object]
  /\ pins \in [Object -> 0 .. MaxPins]
  /\ older \subseteq Object \X Object
  /\ keepRoot \in BOOLEAN /\ threads \subseteq Object /\ looped \subseteq Object
  /\ cache \subseteq Object \X Object
  /\ typeDefs \subseteq TypeDefs
  /\ pc \in Phases /\ collecting \in Generations
  /\ status \in [Object -> Statuses]
  /\ unwalked \subseteq Object
  /\ keepListed \in BOOLEAN /\ deiniting \in BOOLEAN
  /\ fault \in Faults /\ lapses \subseteq Lapses

(***************************************************************************)
(* Whatever the program can reach, from the roots or from what the host    *)
(* pins, is allocated - between collections and at every step of one - so  *)
(* that _gc_walk, the program and the comparator never follow a pointer    *)
(* into freed memory, as long as there has been no lapse.  A definition    *)
(* that the interning table brings back is no exception.                   *)
(***************************************************************************)
NoDangling == lapses = {} => Accessible \subseteq Live /\ fault # "dangling"

(***************************************************************************)
(* object.h: "The object will never be freed if its host reference count   *)
(* is not 0."  This holds whatever the host does.                          *)
(***************************************************************************)
PinnedNeverFreed == \A o \in Object : pins[o] > 0 => o \in Live

(***************************************************************************)
(* The interning table only points to definitions that are allocated, and  *)
(* so is everything that a comparison with them reads: reached or not,     *)
(* between collections and in the middle of a sweep, unregister_type_def() *)
(* and get_equal_type_def() may compare a candidate with any entry.        *)
(***************************************************************************)
InternTableLive == lapses = {} => ReadBy(typeDefs) \subseteq Live

(***************************************************************************)
(* A collection leaves no mark behind.  Push ignores an object that is not *)
(* Unwalked, so a stale mark would hide its references from the next gc(). *)
(***************************************************************************)
NoStaleMarks ==
  pc = "mutate" /\ fault = "none" => \A o \in Live : status[o] = "Unwalked"

(***************************************************************************)
(* The list an object is on and its object_generation agree whenever the   *)
(* program runs: get_allocator() picks the allocator by the latter.        *)
(***************************************************************************)
GenerationMatchesList ==
  pc = "mutate" =>
    /\ \A o \in young : generation[o] = "Young"
    /\ \A o \in persistent : generation[o] = "Persistent"

(***************************************************************************)
(* ~Runtime() asserts that both lists are empty after the last gc().       *)
(***************************************************************************)
NothingSurvivesDeinit == pc = "dead" => Live = {}

(***************************************************************************)
(* A collection that went on to the persistent list frees all garbage,     *)
(* cycles and cross-generation chains included, and nothing else.          *)
(***************************************************************************)
FullGcIsPrecise == [][EndPersistent /\ lapses = {} => Live = Accessible]_vars

(***************************************************************************)
(* A gc() that has started ends, unless it runs into a freed cell or a     *)
(* context it has to walk refers to its own local variables (the walk of   *)
(* such a context comes back to itself: see WalkLooped).                   *)
(***************************************************************************)
GcEnds ==
  (pc = "mark" /\ looped = {})
    ~> (pc \in {"mutate", "dead"} \/ fault \in {"dangling", "doubleFree"})

(***************************************************************************)
(* The collector implements the abstract heap for as long as there is no   *)
(* lapse.                                                                  *)
(***************************************************************************)
H == INSTANCE Heap WITH live <- Live, roots <- Roots

ImplementsHeap == H!Init /\ [][lapses' = {} => [H!Next]_(H!vars)]_vars

(***************************************************************************)
(* The comment on the sweep, "Delete unreachable objects.": a sweep frees  *)
(* only objects that nothing reaches.                                      *)
(***************************************************************************)
DeletesUnreachable     == [][Live \ Live' \subseteq Object \ Accessible]_vars
OnlyUnreachableDeleted == [][lapses = {} => Live \ Live' \subseteq Object \ Accessible]_vars

=============================================================================
