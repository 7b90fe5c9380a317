# A model of the slake runtime

[Slake](../src/README.md) is an embeddable virtual machine in C++: a host
program creates a `Runtime`, loads modules of bytecode into it, and calls
functions in them. This directory holds TLA+ models of the parts of it that keep
state, TLC configurations that check them on small instances, and theorems about
them that the TLA+ proof system checks for every value of the constants. The
reference is always the code under `src/slake`; `PROJECT.json` maps each
definition to the lines it stands for.

## 1. Inventory

| Component | State | Operations | Talks to | What makes it correct |
|---|---|---|---|---|
| **Garbage collector** (`rt/gc.cc`, `rt/gc_heapless.cc`, object lists of `runtime.cc`) | two object lists (generations), a status and a generation per object, host reference counts, the list of unreached objects | allocate, link, pin, `gc()`: mark, two sweeps, promote, splice; last collection of `~Runtime()` | every component allocates through it; reads contexts, the generic cache, the interning table | nothing reachable is freed; all garbage goes; no mark, list entry or table entry is stale afterwards |
| **Parallel collector thread** (`gc_heapless.cc` 938-1016, `plat/unix`) | `thread_state`, `is_active`, `is_done`, two condition variables, the thread's own mutexes | start, request, acknowledge, terminate, release | owner thread and collector thread share plain flags | a request returns when and only when served; nothing is used after its release; the release returns |
| **Execution context** (`rt/exec.cc`, `obj/context.*`) | one block of memory as a stack: frames, scopes, alloca records, variables, registers, arguments, linked by offsets | calls, returns, `ENTER`/`LEAVE`, `LVAR`, `PUSHARG`, exceptions, `exec_fn()` by the host | host, native callbacks, collector (walks it) | frame chain intact; activations do not disturb each other |
| **Instruction dispatch** (`rt/exec.cc` 2106-2215) | the instruction pointer, the frame's saved `cur_ins`, the code being run | step, change of frame, native callback, kill | context, collector | the code run belongs to the current frame; calls start at the beginning, callers resume where they were |
| **Generic instantiation and cache** (`rt/generic.cc`) | cache directory (original -> arguments -> instance), lookup table (instance -> original, arguments), the dispatcher's work lists | look up, instantiate, set, invalidate | collector (roots), interning table | the two tables mirror each other, also when an allocation fails |
| **Type interning** (`obj/typedef.*`, `type.*`) | the set of canonical type definitions, ordered structurally | find equal, register, unregister, duplicate | collector (unregisters), loader, generics | one canonical definition per type; no freed entry |
| **Module loader** (`loader/`) | modules being loaded, imports, deferred type definitions | load, resolve, register | identifier references, interning | ends; every deferred type is resolved |
| **Classes, layouts, method tables** (`obj/class.*`, `rt/new.cc`) | cached layout and method table per class | prepare for instantiation, inheritance checks, overload lookup | generics, collector | overriding methods win, inherited ones stay; offsets are aligned and disjoint |
| **Modules, members, fields** (`obj/module.*`) | member map, field records, name index, storage | add, find, remove members; append fields | loader, variable access | index and records agree, also after a failed append |
| **Host references** (`obj/object.h`, `obj/object.cc`) | `HostObjectRef` slots, `HostRefHolder` sets, `host_ref_count` | copy, move, assign, reset, release; add, remove | collector | the count is the number of holders |
| **Variable access** (`rt/var_access.cc`, `type.cc`, sizes and defaults of `runtime.cc`) | the bytes of static fields, instance fields, locals, arguments, array elements | typeof, read, write through a reference | dispatch, layouts, loader | a read gives what was written; no local reference escapes |
| **Arithmetic** (`rt/exec.cc` 704-1337, 1863-1972, `flib/`) | one output per instruction | arithmetic, shifts, comparisons, casts, `fmod` | dispatch | operations agree with each other in every width; loops end where their exponents are in range |
| **Duplication** (`obj/object.cc`, copy constructors) | a work list, the copies | duplicate | generics | the original stays as it was |
| **Optimizer** (`opti/`) | control-flow graph, register lifetimes and types, call maps, block boundaries | divide, analyse | | analysis agrees with the program |
| **JIT compiler** (`jit/`) | free and used physical registers, spill slots, virtual register states | allocate, spill, reload, emit | optimizer | no two live virtual registers share a place |
| **Exceptions, coroutines, identifier references, allocators, builder, platform layer** | see `PROJECT.json` | | | |

What is hard here: objects that die while others still name them (collector,
interning table, registers), a stack whose pieces are addressed by offsets and
released in bulk, two threads with unprotected flags, sequences of legal calls
that meet at one resource limit, and operations with several allocations any of
which may fail. `PROJECT.json` lists these as hazards at their lines.

## 2. Modules

    Reachability  <-  Heap (abstract)      <--implements--  Gc  <-  MCGc
    Gc  <-  Gc_proofs
    ParallelGc  <-  ParallelGc_proofs
    CallStack (abstract)  <--implements--  ContextStack  <-  MCContextStack
    ContextStack  <-  ContextStack_proofs
    Dispatch  <-  MCDispatch,  Dispatch_proofs
    VarAccess, Arith  <-  MCValues
    VarAccess, Arith  <-  Values_proofs
    Layout, Structs, Loader, Generic  <-  MCObjects,  Objects_proofs
    OpTyping, Cfg  <-  ProgAnal  <-  MCOptimizer,  Optimizer_proofs
    Induction  <-  ContextStack_proofs,  Values_proofs,  Objects_proofs,  Optimizer_proofs

`MCValues`, `MCObjects` and `MCOptimizer` each put components side by side: an execution
is one of theirs, with the state of the others at rest. They do not interact at
the level of these models (what passes between them is listed with each), so
nothing is lost by it and one configuration serves them all.

### Garbage collector: `Reachability`, `Heap`, `Gc`

`Reachability` defines `Reach(refs, S)`, the objects that can be reached from
`S`, as the least closed set; `Heap` is what the collector promises to the code
that uses it: a program rearranges what it can reach, an object that nothing reaches may
be taken back into use while it is whole (an interned definition), and cells disappear
only once nothing reaches them.

`Gc` is the code. `young` and `persistent` are the two object lists; `older`
keeps as much of their order as the code depends on (whether the object at the
old end of a list is a type definition decides `update_unwalked_list`).
`generation`, `status`, `pins` are the fields of `Object`; `refs` stands for all
its references. `threads`, `cache` and `keepRoot` are the roots besides the
pinned objects; `looped` are the contexts that hold a reference to a local variable
of their own. The program's actions are `Alloc`, `Link`, `Unlink`, `Pin`,
`Unpin`, `EnterThread`, `LeaveThread`, `TakeLocal`, `DropLocal`, `Instantiate`,
`Register`, `Reuse` and `Resolve`; those of a
collection are `StartGc` (roots and pins are pushed), `Walk` (one object),
`WalkLooped`, `EndMark`, `SweepTypeDef`, `EndTypeDefs`, `Sweep`, and `EndYoung`,
`StartPersistent` or `EndPersistent`, by the phases of `_gc_serial`. The program
does not run during a collection: `gc()` is a plain call, and the runtime has one
thread here (that two managed threads are not kept apart is a hazard of its own).
A collection may start at any time and may or may not go on to the persistent
list, which abstracts from the sizes that decide both.

**Interning.** `typeDefs` is the interning table. Two definitions are equal
(`Equals`) if they have the same `Shape` (the kind and the numbers in them) and lead
to the same objects (`Leads`): the comparator (`typedef.cc` 696) looks through the
heap types, identifier references and names that carry a definition's contents
(`Carriers`) and compares everything else, nested definitions included, by address
(`type.cc` 215). So equality follows from `refs` and changes with it. When a new
definition has an equal in the table, that one is taken in its place (`Reuse`,
`loader.cc` 103), whether or not anything still refers to it; the sweep of a
definition removes whatever equals it, which may be another one (`SweepTypeDef`).
The end of a load takes its deferred definitions out of the table before it changes
them (`Resolve`, `loader.cc` 1256; the function does not compile at this commit, so
this is what its text says). Every search may compare the candidate with any entry,
and reads what `ReadBy` gives; if some of it has been freed, the search may run
into it (`Searching`).

**Lapses.** The collector relies on three things that nothing enforces. The history
variable `lapses` records each the first time it fails:

- `unrooted`: a collection starts while the host has pinned a persistent object that
  nothing else keeps (the scan for pins goes through the collected list only);
- `skipped`: the walk passes an array whose elements it does not follow (`Opaque`,
  `gc_heapless.cc` 232);
- `changed`: a definition is changed in place after it was registered, as
  substitution does with nested ones (`generic.cc` 354), or an old one is made to
  refer to something younger. From then on the order of the table is broken and a
  search may miss what is there (`Found`).

The model goes on after a lapse as the code does. What is stated of reachability and
of the table holds until there is one; `PinnedNeverFreed`, `NoStaleMarks`,
`GenerationMatchesList` and `NothingSurvivesDeinit` hold whatever happens.
`gc_persistent_pin` shows what the first lapse leads to. `GcEnds` has an exception of
its own: the walk of a reference to a local variable walks the whole context it is
in, without a mark (`gc_heapless.cc` 64), and where that context holds the reference
itself, as it does after `LVAR`, the recursion has no end (`WalkLooped`).

### Collector thread: `ParallelGc`

Two program counters, `owner` and `worker`, one step per access to shared
state; the flags and the life of the two heap objects. A notification reaches a
thread only if it is in the wait; one that comes between the test of the flag and
the wait is lost and remembered in `missed`. `Spurious` allows waits to return
without cause, and `overtaken` records that the owner took the thread down
before it had begun, when it does not wait for it. `FairSpec` has weak fairness for each of the two threads: the
operating system schedules both and nothing else is assumed. Liveness is stated
"unless a notification was missed", because the code does lose them.

### Execution context: `ContextStack`, `CallStack`

`mem` is the block of memory, a cell per object that the code places in it
(frame header, scope header, alloca record, variable, value); `top` is
`stack_top`, `cur` is `off_cur_major_frame`, `depth` is `num_major_frames`,
`running` says that `exec_context()` is on. Cells above `top` keep what was in
them, as the memory does. Any instruction may come at any time: the bytecode is
not verified before it is run. Registers are addressed as the code addresses
them - base plus index - which for every register but the first is outside the
block of registers; `context_registers` shows what that does, and the other runs
keep to one register per function (`MaxRegs = 1`), where the layout is sound. That
also means that no function can copy a reference from one register into another, so
nothing is stated about references to variables that are gone: `CASTANY` (`exec.cc`
2085) makes such copies, and `LEAVE` clears only the register that `LVAR` named. A
failed insertion into `managed_thread_runnables` leaves a frame behind, as the code
does; structures as return values are left out.
`Balanced` excludes leaving a scope while arguments that were pushed in it are
pending, `Confined` excludes returning a reference to a local variable and storing
one in an older variable: neither `RET` nor `_leave_major_frame` visits the alloca
records of the scopes that it ends (`exec.cc` 330, 1795), and neither they nor
`STORE` look at the scope of what a reference refers to. Without `Confined` the
register of a caller, or a variable of an outer scope from which it is read again,
is left dangling, and a `STORE` through it may hit anything; what the code does then
is undefined, and `Confined` keeps the model out of it.

`CallStack` is what functions may rely on: a stack of activations with registers,
arguments and scopes of their own. `MCContextStack` reads the activations off
`mem` in every state (`activations`, a history-free copy) and checks that they
move as `CallStack` says.

### Instruction dispatch: `Dispatch`

`frames[c]` is the chain of major frames of a context, `runs` the activations of
`exec_context()` on the native stack of one thread, the last one being the one
that runs. An activation has the locals of the code: `initial_major_frame_depth`,
`ol`, `cur_ins` (as an index) and `cur_major_frame` (as a depth); `at` says where
it is: at the head of the outer loop, before an instruction, inside a native
callback, or `lost` once the index has passed the end of the function (what is
fetched there is not an instruction). `Call`, `Return`, `Proceed` and `Throw` are
the instructions by their effect on the control, up to the next fetch; `Loop` is
the head of the outer loop, `NativeReturn` what follows a callback, `ExecFn` the
entry, with both of its failures. A callback may enter any number of functions
before it returns. `registered` is the thread's entry in
`managed_thread_runnables`: `peff::Map::insert` with a key that is present either
replaces or keeps the entry, the model allows both. Each frame carries one history
field, `due`, the index its function has to continue at; only `Resumes` reads it.
`OwnContexts = TRUE` restricts native callbacks to contexts that no activation is
using; `DoneMeansReturned` needs it: with a callback into the same context, an
exception there leaves its frames, and `_leave_major_frame()` after the callback
then leaves one of those in place of the native function's.

### Values: `VarAccess`, `Arith`

`VarAccess` is one variable: its type `vtype`, the kind of reference `place` it is
reached by, its bytes `memory` (a map from offset to what was stored there, `Junk`
where nothing was) and the register that is read into or written from.
`typeof_var`, `read_var` and `write_var` are three cascades in the code, over the
kind of reference, the type and its nullability; each is modelled with its own
offsets and refusals, because that they agree is the question. The `Create`
actions are the ways a variable comes to be (local variable, static field, field of
an instance, array element, argument), with the default values of `runtime.cc`.
The arguments of a call of the program (`PassArg`) are whatever the registers hold:
`PUSHARG` and `CALL` test neither the type nor whether the reference is local
(`exec.cc` 1501), unlike `_fill_args()` for a host's arguments (`CreateArg`).
`build` says whether assertions are checked; `status` becomes `stopped` where the
code terminates, asserts or follows a pointer that is not one. `settled` is a
history variable: the value written last.

`Arith` evaluates one instruction on two operands. `Bits` gives each type a width:
any width for the proofs, one far smaller than the real one but with the same order
between them for the run, which so tries every pair of operands. Promotion to `int`,
the conversion back, traps and shift counts are those of C++ on the supported
platforms. `AND`, `OR` and `XOR` are computed bit by bit in the promoted type
(`Merged`) and narrowed. Floating-point types are binary formats with `Digits` digits,
exponents up to `Top` and subnormal values, and every result is rounded to the
nearest, ties to even (`Round`); a value is stored as a multiple of the least one of
`F64`, so that they are all integers. `fmodf()` (for `F32`) and `fmod()` (for `F64`) are
loops with a step of their own (`FModStep`): the exponent is that of the rounded,
possibly infinite quotient, kept in the `int8_t` of the code or with the bias of the
code, and the shifts are those of a word of `Word` bits.

### Objects: `Layout`, `Structs`, `Loader`, `Generic`

`Layout`: a chain of classes, their field records with index and storage, the
object layouts and method tables cached for them, and `climbed`, the classes a
request for an instance has passed on its way to the root. Each allocation may
fail, which ends the request and keeps what was cached; the request may come
again. `Structs`: structures, union enums and their items, and the two walks
through them, with the list of frames that the code uses instead of the stack
(`frames`, `walked`, `laid`). A frame list longer than `FrameMax` is memory used up.

`Loader`: the file is arbitrary, so what is read next is a choice; `objects` are
those read so far, `stack` the members being read, `customs`
`loaded_custom_type_defs`, `named` the deferred definitions that types refer to,
`inits` `init_var_data`. Any read or allocation may fail. The next load begins
with the definitions that the failed one has registered.

`Generic`: `dir` is `_generic_cache_dir`, `lookup` `_generic_cache_lookup_table`,
`heap` the copies, `job` the request being worked on with its work lists. An
object is the sequence of its slots, the places where a type stands, in the order
in which the dispatcher reaches them; substitution goes through the three lists
as the code does. `refs` are the identifier references inside instructions,
shared between original and copies because the instructions are copied as bytes.

### Optimizer: `OpTyping`, `ProgAnal`, `Cfg`

`OpTyping` is what `arithm.cc` and `cast.cc` say of the type of each opcode's
result. `ProgAnal` is the analysis pass: the program is built while it is
analysed, an instruction from a menu at a time, so that an execution is the
analysis of one program and ends where the pass refuses it. `info` is
`analyzed_reg_info`, `calls` and `fn_calls` the call tables, `marks` the block
boundaries. `Cfg` divides a finished function into basic blocks, replaces jump
offsets by labels and tests that each block ends with a jump or a return.

## 3. Runs

| Run | Question | Bounds | Result |
|---|---|---|---|
| `gc_graph` | marking, sweeping, promotion over all graphs; contexts and cache as roots; end of the runtime; implements `Heap` | 3 objects and the root (2 and the root while there is a thread or a cache entry), 1 reference each, 1 thread, 1 cache entry, symmetric; up to the first lapse | holds; 743 000 states |
| `gc_anyhost` | pins without discipline; the interning table: reuse, deregistration by equality, definitions resolved and changed in place; termination | the root, 2 definitions of one shape and 1 carrier, 1 thread, 1 pin and 1 reference each; a thread beside one definition; with the carrier in use only the states without a lapse | holds; 483 000 states |
| `parallel` | the handshake of owner and collector thread | 3 requests, spurious wake-ups, failed start-ups | holds; the releases and requests return unless a notification is missed |
| `context_stack` | frame chain, implements `CallStack` | 10 cells, 1 register, 2 arguments | holds; 49 600 states |
| `dispatch` | locals, nesting and ends of activations | 2 contexts of 4 frames, 2 regular functions of 2 instructions, 1 native function, 2 nested activations, symmetric | holds |
| `values` | reads, writes and refusals of every kind of variable; every opcode on every pair of operands | every type, nullable or not, local or not, 5 kinds of reference, both builds; integers of 2 to 5 bits, floats of 2 and 3 digits with exponents to 3, words of 2 bits | holds; 1 490 000 states |
| `objects` | failed and repeated loads, recursive structures, layouts and method tables, the generic cache | chains of 3 classes with 3 fields in all; 3 structures with 2 parts; files of 3 objects; 2 instances alive | holds; 888 000 states |
| `optimizer` | what the analysis says of registers, arguments and boundaries; division into blocks | programs of 2 to 5 instructions from 8 menus that together have every opcode with a case of its own; functions of 3 instructions with targets up to 3 | holds; 616 000 states |
| `gc_persistent_pin` | young objects behind pinned old ones | 2 objects, undisciplined host | freed though reachable |
| `context_registers` | second register | 2 registers | scope header overwritten |
| `dispatch_resumes` | where callees start and callers resume | as `dispatch` | a recursive call starts in the middle |
| `generic_original` | is the original left alone | as `objects` | the first instance rewrites the original's code |

The bounds of the passing runs are chosen so that the interesting cases occur:
three objects suffice for a cycle that is entered from outside and for a chain
across generations that is collected twice; three requests for an acknowledgement
that is late by one request; ten cells for a host call, a nested call with an
argument, a scope and a local variable at once, and for each of the failures of
a full stack; four frames for a top frame, two functions and a native one above
it, two functions for a call of the function itself and of another one, two
activations for a callback that ends while the outer one waits. Widths of 2, 3, 4
and 5 bits keep the order of the real ones, with types narrower than `int`, as
wide and wider; nothing in the code depends on a width otherwise. Three classes
are the least with a class between the one asked for and the root; three attempts
at a field put one into each class, or a padded one between two others; three structures for a cycle that is not entered
at its first element and for one that is contained twice. Two instances alive for
two lists of arguments of one original, or one each of two. Three
instructions have a jump, its target and what lies between; the longest menu has
calls with two arguments. Two digits are the least for which rounding to even
matters, a greatest exponent of 3 with words of 2 bits has, as 127 with 64 bits, exponents
below a word, those from a word on and the shift by a whole word. One carrier that
two definitions of one shape may both be made of is what an interned equal, its
deregistration through the other and its return from the dead take. A second argument
is what `PUSHARG` can refuse.

Each property has a mutant of the code's model in `PROJECT.json` that breaks it
under the same configuration.

Fairness is assumed in three places. `ParallelGc` has weak fairness of each of the
two threads: the operating system schedules both, and nothing promises a
spurious wake-up. `Gc` has weak fairness of the steps of a collection, `Arith` of
the rounds of `fmodf()`: both are plain calls that nothing interrupts. What
collections and the program do next is never assumed.

`CHECK_DEADLOCK FALSE` stands in every configuration because every one of these
systems may stop: the runtime ends, the threads are released, the host makes no
further call, the process has terminated.

## 4. Proofs

All theorems hold for every value of the constants that satisfies the named
assumption of the module and the conditions given here.

**Garbage collector.** `Gc_proofs` begins with the facts about `Reach` that the
proofs need (closure, leastness, monotonicity) and proves by induction, for any
number of objects and any host: types (`TypeCorrect`), and with the invariant
`Books` (list membership, generation, marks and the doomed objects agree) that
pinned objects are never freed, that no mark survives a collection and that
generations agree. `RuntimeEndsEmpty` adds
`Ending`: once `~Runtime()` has begun, nothing is pinned and there are no roots, and
each phase of the last collection has emptied its part of the lists.

Its second half is the deep part: nothing reachable is freed, a definition brought
back by the interning table included, neither marking nor a comparison
follows a freed cell (`NothingDangles`, `InternTableSafe`), no sweep deletes a
reachable object (`SweepsUnreachable`), a full collection is precise (`FullGcPrecise`), and the
collector implements `Heap` (`Refinement`). The inductive invariant adds to
`Books` where the marking stands - everything pushed is reachable, everything
walked leads to pushed objects, the unwalked list is the rest - and where the
sweeps stand (`Reached`). `NoDangling` alone is not inductive: it says nothing about the
marks that decide what the sweep takes. A definition that nothing reaches may come
back, so the invariant also says what the table guarantees by itself (`Whole`): what
a definition is made of is allocated, persistent if the definition is, and freed no
earlier; definitions are freed in the first sweep and their carriers in the second,
which is why a comparison in between reads nothing that is gone. All of this holds
until the first lapse and assumes nothing else of the host, the arrays or the
definitions.

`CollectionsShrink` is the termination argument for a `gc()`: each of its steps ends a
phase (there are at most six) or takes something off what the phase has left to do,
which for marking are the objects not yet walked, not those pushed. A context with a
reference to its own local variable is excepted: its walk has no measure.

**Collector thread.** `ParallelGc_proofs` proves types (`ParallelTyped`) and the
safety of the handshake for any number of requests, from an invariant that lists
which owner and worker positions go with which flags.

What the two liveness properties rest on besides fairness is proved too. While the owner
waits, it is always the turn of one of the two threads, and that thread can take a step
(`NoMutualWait`); its steps shorten the wait and those of the other, or a spurious
wake-up, do not lengthen it (`WaitsShorten`, with `Distance` as the measure). The
invariant `Notified` adds to the handshake that after a notification that was not lost
the thread is past its wait. A lost one is the exception in the liveness properties as
well: the code can lose it, and then both threads wait.

**Execution context.** `ContextStack_proofs` proves, for a stack of any size and any
values, that cells and counters keep their types (`StackTyped`) and that the headers of frames
and scopes stay intact and linked (`HeadersStayIntact`), under `MaxRegs = 1`.
`HeadersIntact` is not inductive: that a return cuts nothing off
that is still needed follows from where everything lies. The invariant `Layout`
says that - the scope and the registers of a frame lie above its header and below
what any later frame cuts the stack back to (`Apart`), and the same for scopes
(`ScopeOK`). Four lemmas say that pushing and popping a frame or a scope keep
`Layout`, a fifth that any other write does (`KeepLayout`); every instruction is
one of these or two in a row.

The refinement needs `Balanced` and `Confined` too, and with them that with one register
per function no reference in use leads to a variable that is gone. What a value refers
to must go no earlier than the value does. The invariant `RefsOK` says so by places:
what a cell refers to is a variable in use, below every later frame and, but for
registers, not above the cell itself (`ValuesOK`); the arguments of a frame, those
passed to it and those it is about to pass, lie below every cut that does not end
it (`ArgsOK`). A register may refer upwards, to a variable of a scope of its own
frame; `_leave_minor_frame` clears it by way of the scope's alloca record, so the
invariant also says that the scope that was innermost when a variable was pushed has
a record, and that its newest one names the register (`ScopesOK`, `Recorded`). That
the first record is among those that `Records` collects by recursion is
`FirstRecord`.

`StackImplementsCalls` is the refinement of `CallStack`. Its mapping reads the memory
by recursion, along the links between frames and between scopes; the invariant
`Mapped` states the same without recursion: there is a sequence of the frames in use,
each the caller of the next, and for each frame one of its scopes (`Book`), and no
argument lies in a cell that is a register (`Places`). `FramesAre` and
`ScopesCounted` say that the recursive reading gives just these. What is left is one
lemma per instruction in two halves. The first is about memories only: writing a
register, pushing an argument, leaving a scope, creating and leaving a frame keep the
sequences and change no activation but one (`RegisterWritten`, `Pended`, `ScopeLeft`,
`FrameCreated`, `FrameReturned`). The second is about `CallStack` only: a sequence that
changes so at its end has made one of its steps (`WriteMaps` to `StartRunningMaps`).
The assumptions are those of `RefsOK`: an argument or a register that
lies above the point where a scope or a frame is cut off would change later, when the
memory is used again.

**Dispatch.** `Dispatch_proofs` proves, for any functions, contexts, depth and
nesting, that the loop is well typed (`DispatchTyped`), that its locals are those of
the current frame (`LocalsAreCurrent`) and that the thread's entry never outlives its
runnable (`NoStaleRunnable`), from the invariant `Books`: every activation but the
innermost is inside a native callback, so only one can hold locals, and the entry
is at most the number of activations. `CallsReturn` (from `OwnContexts`) adds
`Apart`: no two activations share a context, and above the top frame of each
(`Floor`) all frames have a function, so the frame that makes the loop stop can
only be that top frame.

**Variables.** `Values_proofs` first reduces the three cascades to what they may do
to the memory (`LocalWrites`, `FieldWrites`, `ElementWrites` and so on, one per kind
of reference), then every step to one of four: end the process, create, read, write
(`StepCases`). `LocalReferencesStay` follows: what a write changes is the value itself,
a zero or a flag, and local only if the type is (`Changes`). The argument of a script
call is excepted, and is all its variable ever holds that is local (`passed`).
`ReadsGiveWritten` needs `KeptOK`: for the types and places in question the bytes hold
the value settled last at the offset where a read of this type through this kind of
reference looks, and an object is in an element only if the element's type is one
that both cascades treat as an object. The property itself speaks of what
`read_var()` would give, not of the bytes it comes from.

**Arithmetic.** The second half of `Values_proofs` is about integer types of any width,
`I32` being wider than the 8- and 16-bit types and no wider than the others. Everything
rests on two facts: a conversion to a type changes a number by a multiple of `2^width`
into a value of the type (`WrapIs`), and there is only one such value (`WrapUnique`). An
operation that is promoted, computed and converted back twice therefore gives what one
conversion of the exact result gives, and that is the exact result if it fits: what a
division that does not fault leaves does, in the promoted type (`ResultsFit`). From
this follow the division identity (`DivisionsAgree`), that a division faults only where
no quotient exists (`FaultsRightly`) and the shifts (`ShiftsUndo`), together
`IntegersStaySound`. `BitsCombine`: what `AND`, `OR` and `XOR` compute in the promoted
type is the number with just the combined bits (`MergedIs`, `MergedBits`), and its low bits survive
the conversion back to the narrower type (`LowBitsStay`), signed or not.

Nothing is proved of `fmodf()` and `fmod()`: that rounding loses nothing of the
difference depends on the format, and is checked by TLC for two small ones.

**Structures, loader, generics.** `Objects_proofs` has a section for each.

`SizesReady`: a frame of the preparation is past only what has been laid out, except
the part that the next frame is about (`DoneIn(frames, laid)`). `RecursionDetected`
uses the same invariant with another set in the place of `laid`: the nodes within
which nothing contains itself (`CleanNodes`); when a frame is left all of its parts
are in it, and so is its node (`CleanFrom`). For the converse, that the process ends
only for a reason, `ChainOK` says that each frame is about a part of the one before
and that what is walked has a frame past its beginning: meeting such a node again
closes a cycle, unless it is a union enum, whose frame never advances. `Within`
is defined by recursion up to the number of nodes; that this is enough, because the
levels stop growing, is `WithinCloses`.

`DeferredListed`: of the two insertions for a deferred definition the model's step
between them is covered by what is next to be interned. `ValuesOfFields`: the loop
over fields that is under way counts the records that the object has
(`FrameOK`), and no two loops are for one object, so an index is given out once.

`CachedInstancesSound`: the instance being made is in no cache, its slots before
`job.at` are final and those from there on as they were copied (`JobOK`);
collecting an instance invalidates its entry before the slot of the heap is free.

`FieldsApart` (no two fields of an instance share a byte, all are aligned, a
subclass keeps the layout of its base): the invariant `LayoutsPlaced` says of each
layout that exists that it is well placed and continues the one of the base, and
`ChainPrepared` that in the list of classes to be prepared each is followed by its
base, the last one's having its layout. Appending a field to a well-placed layout
gives one that continues it (`Continuations`). `NearestWins` (a method table gives the nearest override):
`TableSound` states what a table says of the classes from the top of the hierarchy to
the one it is for; that such a chain is finite and without repetition
(`ChainDistinct`) and that the code's walk up the bases covers it (`LineageIs`)
takes a pigeonhole argument on the number of classes.

**Optimizer.** `Optimizer_proofs` is about any program over any table of entities.
`SameBoundaries` needs, besides the property, which boundaries are marked in terms of
the program read so far (`MarksAre`). `ArgumentsReachCalls` needs `PushesAre`: each
list of pushes, the pending one too, is ascending and holds the pushes since the call
before. `RegistersWellDescribed` needs `RegistersAre`: the lifetime of each register
is the one the program gives it, and the record of its type is `Fitting` the
operation that made it. One lemma per operation says that it gives a `Result`: it
changes only what is said of its output, and leaves that fitting. The assumption on
the menus, that entities have well-formed types, is used where a type found in the
program must not be mistaken for the one of a register without type.

`DivisionKeepsMeaning` is about any function. The boundaries are ordered by their rank,
the number of boundaries below; a pigeonhole argument (`RankReached`) gives one of
each rank, so the cuts are all the boundaries in order (`CutsAre`) and no boundary
lies inside a block (`CutsFollow`, `BlocksAreBasic`). A label is the rank of its
target plus one (`LabelsLead`) - if offset 0 is not a target, which is what the
property says too.

**Induction over data.** The provers cannot instantiate the induction principles of
the library, which take an operator. `Induction` has what is used instead: a set of
numbers that is not empty has a least element (`NatMin`), and a function may be
iterated (`IteratesExist`, `IteratesForever`), which says that a function defined by
recursion exists and so is what its equation says (`FirstRecord`, `LevelsAre`,
`TargetsBetweenAre`); `StepsExist` is the form for a definition that depends on the step.

**Left to TLC.** Liveness (`GcEnds`, `RequestReturns`, `ReleaseReturns`, `FModEnds`):
that something happens because a step stays enabled is beyond these provers. What they
need besides - a measure that each step lowers, and for the two threads that they do not
wait for each other - is proved for all but `FModEnds`: `CollectionsShrink`, `NoMutualWait`
and `WaitsShorten`. That a thread or a collection whose turn it is has an
enabled step is read off the guards there.

## 5. Findings

Each has a run that shows it, and a line of the code that says otherwise
(`PROJECT.json`):

- a young collection forgets what pinned persistent objects refer to, and frees it
  (`gc_persistent_pin`);
- all registers of a function but the first alias later allocations
  (`context_registers`);
- the index of the next instruction is saved in the wrong frame, so callees start
  and callers resume at each other's index (`dispatch_resumes`);
- the instructions of a generic function are shared with its instances, so that the
  first instantiation decides what all of them refer to (`generic_original`).

### Also met

Seen while modelling; the models have these behaviours as the code does, or
the named bound excludes them, and no property states the opposite.

- Collector: elements of arrays of strings, arrays and functions are not walked
  (`gc_heapless.cc` 232; `Opaque`). A type definition can be deleted by both sweeps,
  by the age order of unreached objects (`gc_heapless.cc` 850). The walk of a context
  that holds a reference to its own local variable does not end (`gc_heapless.cc` 64).
- Interning: the death of an unregistered duplicate takes the canonical definition out
  of the table, after which a third equal one is registered beside it, and equal
  types differ by address. Substitution changes nested definitions in place after
  others were ordered by them, and registers before it is done (`generic.cc` 354).
  A persistent definition may be made to refer to something young that only an entry
  of the table leads to. A second load that defers an equal of a definition that has
  been resolved meanwhile ends in `std::terminate()` (`runtime.cc` 622).
- Context: the allocation of the top frame's register is not checked (`exec.cc` 164).
  `CASTANY` copies a reference to a local variable into a register that `LEAVE` does not
  clear (`exec.cc` 2085, 1481).
- Arithmetic: `SHRU8` to `SHRUSIZE` are defined by the macro of the left shifts
  (`exec.cc` 1265); no opcode tests its divisor. `fmodf()` does not end for a divisor
  of zero or below, nor for many quotients from 2^127 on: the exponent 127 makes it
  shift a 64-bit word by 64, an infinite quotient gives the exponent -128 and the
  divisor is then lost in the rounding (`fmod.cc` 13-31). `fmod()` has a bias that is one too
  large (`fmod.cc` 49), takes off half of what it could or less, and may round the difference.
- Variables: the null test of nullable fields is inverted for all types but `I8`
  (`var_access.cc` 1154 onwards), so a number is accepted and not stored, and null
  refused; a local variable of type `ISize`, could one be created, would store its null flag; arguments
  are written without a check of their type, and those of a script call are not
  checked at all, so that a local reference reaches a parameter that is not local.
- Fields: the default value of strings, arrays and instances is refused by
  `write_var`, which the assertion at `module.cc` 111 excludes. The name of a field
  that was refused for want of space keeps its entry and finds the next one's
  record. Default values of fields are written to the layout by the position in
  the class, not in the layout (`new.cc` 126). A field that needs padding gets its size added to the
  static storage twice (`module.cc` 154-162), which wastes space and overlaps nothing.
- Classes: a failed allocation of a method table or of an instance is dereferenced
  (`new.cc` 10, 416). Destructors are compared by a three-way comparison used as a Boolean
  (`new.cc` 40); functions that a class does not declare itself are not inherited.
  A chain of bases that is a cycle is climbed until memory is used up.
- Structures: one without fields reads the first; the check terminates at a union
  enum; preparing a structure inside a structure terminates.
- Loader: the values of all items of a scoped enumeration are given the index of the
  enumeration (`loader.cc` 850). Strings never fit the type of their field.
- Generics: an expanded parameter pack is replaced by the elements of its list before
  they are substituted, and one that is itself a parameter stays one
  (`generic.cc` 721); slots nested in a type are dropped between two of the three passes; a
  generic method of a generic class uses a context that is gone; the table of
  instances is not rolled back when the second insertion fails (`generic.cc` 92).
- Optimizer: `MOD` and `BR` are refused; `RLOAD` looks for the member in the type
  definition instead of the type's object and never finds one (`proganal.cc` 528); `NOT`, `LNOT` and `NEG` leave the type of
  their result unset; the loop around the analysis never walks again.

## 6. Not modelled

- `load_module()` and `complete_parent_namespaces()` (`loader.cc` 1214 onwards) do not
  compile at this commit, so there is no behaviour to be faithful to: imports and
  the resolution of deferred types end with them.
- The JIT compiler emits code opcode by opcode; it is not in the build
  (`slake/CMakeLists.txt` 41) and nothing in the runtime enters it. The optimizer and
  the loader are not in the build either (42, 43). The optimizer would not compile:
  it uses fields of `Instruction` and opcodes that `obj/fn.h` and `opcode.h` no longer
  have. Both are whole enough to read, and are modelled as they read.
- Several managed threads at once: the pause that kept them apart during a
  collection is commented out (`exec.cc` 2122), which leaves a data race in which
  anything may happen.
- Coroutines and script exceptions: the instructions that create, resume and
  dispatch them are not implemented.
- The slots of host references, identifier references, allocators, the bytecode
  builder, opcode tables: copies, counters and searches without control of their
  own, or tables.
- The order that comparators put types in: `Gc` has what makes two definitions equal,
  and lets a search of a table whose order is broken miss what is there.
- File and stream reading, the text of exceptions, Windows and non-POSIX platforms,
  examples, and the external `peff` library (containers and allocators), of which
  only the behaviour that `src/slake` relies on appears.
