------------------------------ MODULE Gc_proofs ------------------------------
(***************************************************************************)
(* Proofs about the collector, for any number of objects, any bounds and   *)
(* any placement of type definitions.                                      *)
(***************************************************************************)
EXTENDS Gc, TLAPS

-----------------------------------------------------------------------------
(* What the proofs need to know of Reach.                                  *)

\* Whatever a search starts from is reachable: a root or a pinned object is
\* always in the set that marking computes.
LEMMA ReachContains ==
  ASSUME NEW E, NEW S \in SUBSET Object
  PROVE  S \subseteq Reach(E, S)
BY DEF Reach

\* A reference held by a reachable object leads to a reachable object.
LEMMA ReachClosed ==
  ASSUME NEW E \in [Object -> SUBSET Object], NEW S \in SUBSET Object
  PROVE  Closed(E, Reach(E, S)) /\ Reach(E, S) \in SUBSET Object
BY DEF Reach, Closed

\* Reach is the least closed set: any other one that contains S, such as the
\* set of marked objects at the end of marking, contains it.
LEMMA ReachLeast ==
  ASSUME NEW E, NEW S, NEW A \in SUBSET Object, S \subseteq A, Closed(E, A)
  PROVE  Reach(E, S) \subseteq A
BY DEF Reach

\* Fewer references and fewer starting points reach fewer objects: freeing an
\* object, cutting a reference or dropping a root makes nothing reachable.
LEMMA ReachMonotone ==
  ASSUME NEW E \in [Object -> SUBSET Object], NEW F \in [Object -> SUBSET Object],
         NEW S \in SUBSET Object, NEW T \in SUBSET Object,
         S \subseteq T, \A o \in Object : E[o] \subseteq F[o]
  PROVE  Reach(E, S) \subseteq Reach(F, T)
<1>1. T \subseteq Reach(F, T)
  BY ReachContains
<1>2. Closed(F, Reach(F, T)) /\ Reach(F, T) \in SUBSET Object
  BY ReachClosed
<1>3. Closed(E, Reach(F, T))
  BY <1>2 DEF Closed
<1> QED
  BY <1>1, <1>2, <1>3, ReachLeast

\* A change to objects that are not reachable changes nothing about what is:
\* a sweep that empties a freed cell leaves the reachable set alone.
LEMMA ReachUnaffected ==
  ASSUME NEW E \in [Object -> SUBSET Object], NEW F \in [Object -> SUBSET Object],
         NEW S \in SUBSET Object, \A o \in Reach(E, S) : E[o] = F[o]
  PROVE  Reach(F, S) = Reach(E, S)
<1>1. Reach(F, S) \subseteq Reach(E, S)
  <2>1. S \subseteq Reach(E, S)
    BY ReachContains
  <2>2. Closed(E, Reach(E, S)) /\ Reach(E, S) \in SUBSET Object
    BY ReachClosed
  <2>3. Closed(F, Reach(E, S))
    BY <2>2 DEF Closed
  <2> QED
    BY <2>1, <2>2, <2>3, ReachLeast
<1>2. Reach(E, S) \subseteq Reach(F, S)
  <2>1. S \subseteq Reach(F, S)
    BY ReachContains
  <2>2. Closed(F, Reach(F, S)) /\ Reach(F, S) \in SUBSET Object
    BY ReachClosed
  <2>3. Closed(E, Reach(F, S))
    BY <1>1, <2>2 DEF Closed
  <2> QED
    BY <2>1, <2>2, <2>3, ReachLeast
<1> QED
  BY <1>1, <1>2

-----------------------------------------------------------------------------
(* Types.                                                                  *)

LEMMA TypeInvariantStep == TypeOK /\ [Next]_vars => TypeOK'
<1> SUFFICES ASSUME TypeOK, [Next]_vars PROVE TypeOK'
  OBVIOUS
<1> USE GcAssumption DEF TypeOK, mutatorVars, heapVars, gcVars, Phases, Generations, Statuses,
        Faults, Lapses
<1>1. ASSUME NEW o \in Object, Alloc(o) PROVE TypeOK'
  BY <1>1 DEF Alloc, Live
<1>2. ASSUME NEW o \in Object, Pin(o) PROVE TypeOK'
  BY <1>2 DEF Pin
<1>3. ASSUME NEW o \in Object, Unpin(o) PROVE TypeOK'
  BY <1>3 DEF Unpin
<1>4. ASSUME NEW o \in Object, EnterThread(o) PROVE TypeOK'
  BY <1>4 DEF EnterThread
<1>5. ASSUME NEW o \in Object, LeaveThread(o) PROVE TypeOK'
  BY <1>5 DEF LeaveThread
<1>6. ASSUME NEW o \in Object, Register(o) PROVE TypeOK'
  BY <1>6 DEF Register, Searching
<1>7. ASSUME NEW a \in Object, NEW b \in Object, Link(a, b) PROVE TypeOK'
  BY <1>7 DEF Link
<1>8. ASSUME NEW a \in Object, NEW b \in Object, Unlink(a, b) PROVE TypeOK'
  BY <1>8 DEF Unlink
<1>9. ASSUME NEW a \in Object, NEW b \in Object, Instantiate(a, b) PROVE TypeOK'
  BY <1>9 DEF Instantiate
<1>10. CASE StartGc
  BY <1>10 DEF StartGc, StartSerial, Push
<1>11. CASE Deinit
  BY <1>11 DEF Deinit, StartSerial, Push
<1>12. ASSUME NEW o \in Object, Walk(o) PROVE TypeOK'
  BY <1>12 DEF Walk, Push
<1>13. CASE EndMark
  <2>1. keepListed' \in BOOLEAN
    BY <1>13, Zenon DEF EndMark, HeadIsTypeDef
  <2> QED BY <1>13, <2>1 DEF EndMark
<1>14. ASSUME NEW o \in Object, SweepTypeDef(o) PROVE TypeOK'
  <2>1. typeDefs' \subseteq TypeDefs /\ fault' \in Faults
    BY <1>14 DEF SweepTypeDef, Searching
  <2> QED
    BY <1>14, <2>1 DEF SweepTypeDef, Free
<1>15. CASE EndTypeDefs
  BY <1>15 DEF EndTypeDefs
<1>16. ASSUME NEW o \in Object, Sweep(o) PROVE TypeOK'
  <2>1. CASE o \in Live
    BY <1>16, <2>1 DEF Sweep, Free
  <2>2. CASE o \notin Live
    BY <1>16, <2>2 DEF Sweep
  <2> QED BY <2>1, <2>2
<1>17. CASE EndYoung
  BY <1>17 DEF EndYoung, Splice, Promoted, Settled
<1>18. CASE StartPersistent
  BY <1>18 DEF StartPersistent, Splice, StartSerial, Push, Promoted, Settled, Live
<1>19. CASE EndPersistent
  BY <1>19 DEF EndPersistent, Promoted, Settled
<1>20. CASE UNCHANGED vars
  BY <1>20 DEF vars
<1>21. ASSUME NEW c \in Object, TakeLocal(c) \/ DropLocal(c) PROVE TypeOK'
  BY <1>21 DEF TakeLocal, DropLocal
<1>22. ASSUME NEW t \in Object, NEW b \in Object, Resolve(t, b) PROVE TypeOK'
  <2>1. typeDefs' \subseteq TypeDefs /\ fault' \in Faults
    BY <1>22 DEF Resolve, Searching
  <2> QED
    BY <1>22, <2>1 DEF Resolve
<1>23. ASSUME NEW t \in Object, NEW u \in Object, NEW a \in Object, Reuse(t, u, a) PROVE TypeOK'
  BY <1>23 DEF Reuse, Searching
<1>24. ASSUME NEW o \in Object, WalkLooped(o) PROVE TypeOK'
  BY <1>24 DEF WalkLooped
<1> QED
  BY <1>1, <1>2, <1>3, <1>4, <1>5, <1>6, <1>7, <1>8, <1>9, <1>10, <1>11, <1>12, <1>13,
     <1>14, <1>15, <1>16, <1>17, <1>18, <1>19, <1>20, <1>21, <1>22, <1>23, <1>24
     DEF Next, Program, Collect

LEMMA InitTypes == Init => TypeOK
<1> SUFFICES ASSUME Init PROVE TypeOK
  OBVIOUS
<1>1. Root \in Object /\ 0 \in 0 .. MaxPins
  BY GcAssumption
<1>2. pins \in [Object -> 0 .. MaxPins]
  BY <1>1 DEF Init
<1>3. generation \in [Object -> Generations] /\ status \in [Object -> Statuses]
  BY DEF Init, Generations, Statuses
<1>4. pc \in Phases /\ collecting \in Generations /\ fault \in Faults
  BY DEF Init, Phases, Generations, Faults
<1>5. keepRoot \in BOOLEAN /\ keepListed \in BOOLEAN /\ deiniting \in BOOLEAN
  BY DEF Init
<1>6. refs \in [Object -> SUBSET Object]
  BY DEF Init
<1> QED
  BY <1>1, <1>2, <1>3, <1>4, <1>5, <1>6 DEF Init, TypeOK

\* The variables keep their types whatever the bounds are.
THEOREM TypeCorrect == Spec => []TypeOK
BY InitTypes, TypeInvariantStep, PTL DEF Spec

-----------------------------------------------------------------------------
(* The bookkeeping.                                                        *)

InGc     == pc \in {"mark", "sweepTypeDefs", "sweepAll"}
Sweeping == pc \in {"sweepTypeDefs", "sweepAll"}

\* What holds whatever the host does: the lists, the generations and the
\* statuses fit each other in every phase, and what is going to be swept is
\* neither pinned nor, once the type definitions are gone, registered.
Generational ==
  /\ young \cap persistent = {}
  /\ \A o \in young : generation[o] = "Young"
  /\ \A o \in persistent : generation[o] = "Persistent"
  /\ InGc /\ collecting = "Persistent" => young = {}
  /\ pc = "mutate" => collecting = "Young"

Statused ==
  /\ pc = "mutate" => \A o \in Object : status[o] = "Unwalked"
  /\ Sweeping => \A o \in Object : status[o] # "ReadyToWalk"

Doomed ==
  /\ InGc => Listed \ Marked \subseteq unwalked
  /\ InGc => unwalked \cap Live \subseteq Listed
  /\ InGc => \A o \in unwalked : pins[o] = 0
  /\ pc = "sweepAll" => unwalked \cap TypeDefs \cap Live = {}

Books == TypeOK /\ Generational /\ Statused /\ Doomed /\ PinnedNeverFreed

LEMMA BooksStep == Books /\ [Next]_vars => Books'
<1> SUFFICES ASSUME Books, [Next]_vars PROVE Books'
  OBVIOUS
<1>0. TypeOK'
  BY TypeInvariantStep DEF Books
<1>a. TypeOK /\ TypeOK' /\ GcAssumption
  BY <1>0, GcAssumption DEF Books
<1> USE DEF Books, Generational, Statused, Doomed, PinnedNeverFreed, InGc,
        Sweeping, Listed, Marked, Live, mutatorVars, heapVars, gcVars, Mutating
<1>1. ASSUME NEW o \in Object, Alloc(o) PROVE Books'
  BY <1>a, <1>1 DEF Alloc, TypeOK, Phases, Statuses, Generations
<1>2. ASSUME NEW o \in Object, Pin(o) PROVE Books'
  BY <1>a, <1>2 DEF Pin, TypeOK, Usable
<1>3. ASSUME NEW o \in Object, Unpin(o) PROVE Books'
  BY <1>a, <1>3 DEF Unpin, TypeOK
<1>4. ASSUME NEW o \in Object, EnterThread(o) PROVE Books'
  BY <1>a, <1>4 DEF EnterThread
<1>5. ASSUME NEW o \in Object, LeaveThread(o) PROVE Books'
  BY <1>a, <1>5 DEF LeaveThread
<1>6. ASSUME NEW o \in Object, Register(o) PROVE Books'
  BY <1>a, <1>6 DEF Register, Usable
<1>7. ASSUME NEW a \in Object, NEW b \in Object, Link(a, b) PROVE Books'
  BY <1>a, <1>7 DEF Link
<1>8. ASSUME NEW a \in Object, NEW b \in Object, Unlink(a, b) PROVE Books'
  BY <1>a, <1>8 DEF Unlink
<1>9. ASSUME NEW a \in Object, NEW b \in Object, Instantiate(a, b) PROVE Books'
  BY <1>a, <1>9 DEF Instantiate
<1>10. CASE StartGc
  BY <1>a, <1>10 DEF StartGc, StartSerial, Push, TypeOK
<1>11. CASE Deinit
  BY <1>a, <1>11 DEF Deinit, StartSerial, Push, TypeOK
<1>12. ASSUME NEW o \in Object, Walk(o) PROVE Books'
  BY <1>a, <1>12 DEF Walk, Push, TypeOK
<1>13. CASE EndMark
  BY <1>a, <1>13 DEF EndMark
<1>14. ASSUME NEW o \in Object, SweepTypeDef(o) PROVE Books'
  BY <1>a, <1>14 DEF SweepTypeDef, Free, TypeOK
<1>15. CASE EndTypeDefs
  BY <1>a, <1>15 DEF EndTypeDefs
<1>16. ASSUME NEW o \in Object, Sweep(o) PROVE Books'
  <2>1. CASE o \in Live
    BY <1>a, <1>16, <2>1 DEF Sweep, Free, TypeOK
  <2>2. CASE o \notin Live
    BY <1>a, <1>16, <2>2 DEF Sweep
  <2> QED BY <2>1, <2>2
<1>17. CASE EndYoung
  BY <1>a, <1>17 DEF EndYoung, Splice, Swept, Promoted, Settled, TypeOK, Statuses
<1>18. CASE StartPersistent
  BY <1>a, <1>18 DEF StartPersistent, Splice, Swept, StartSerial, Push, Promoted, Settled,
     TypeOK, Statuses
<1>19. CASE EndPersistent
  BY <1>a, <1>19 DEF EndPersistent, Swept, Promoted, Settled, TypeOK, Statuses
<1>20. CASE UNCHANGED vars
  BY <1>a, <1>20 DEF vars, TypeOK
<1>21. ASSUME NEW c \in Object, TakeLocal(c) \/ DropLocal(c) PROVE Books'
  BY <1>a, <1>21 DEF TakeLocal, DropLocal
<1>22. ASSUME NEW t \in Object, NEW b \in Object, Resolve(t, b) PROVE Books'
  BY <1>a, <1>22 DEF Resolve
<1>23. ASSUME NEW t \in Object, NEW u \in Object, NEW a \in Object, Reuse(t, u, a) PROVE Books'
  BY <1>a, <1>23 DEF Reuse
<1>24. ASSUME NEW o \in Object, WalkLooped(o) PROVE Books'
  BY <1>a, <1>24 DEF WalkLooped
<1> QED
  BY <1>1, <1>2, <1>3, <1>4, <1>5, <1>6, <1>7, <1>8, <1>9, <1>10, <1>11, <1>12, <1>13,
     <1>14, <1>15, <1>16, <1>17, <1>18, <1>19, <1>20, <1>21, <1>22, <1>23, <1>24
     DEF Next, Program, Collect

LEMMA InitBooks == Init => Books
<1> SUFFICES ASSUME Init PROVE Books
  OBVIOUS
<1>1. TypeOK
  BY InitTypes
<1> QED
  BY <1>1, GcAssumption DEF Init, Books, Generational, Statused, Doomed, PinnedNeverFreed,
     InGc, Sweeping, Live

LEMMA BooksHold == Spec => []Books
BY InitBooks, BooksStep, PTL DEF Spec

\* object.h: "The object will never be freed if its host reference count is
\* not 0", whatever the host pins and whatever the walk skips.
THEOREM PinnedSafe == Spec => []PinnedNeverFreed
BY BooksHold, PTL DEF Books

\* No collection leaves a mark that would make the next one skip an object.
THEOREM MarksCleared == Spec => []NoStaleMarks
<1>1. Books => NoStaleMarks
  BY DEF Books, Statused, NoStaleMarks, Live, TypeOK
<1> QED
  BY <1>1, BooksHold, PTL

\* The generation of an object names the list it is on.
THEOREM GenerationsAgree == Spec => []GenerationMatchesList
<1>1. Books => GenerationMatchesList
  BY DEF Books, Generational, GenerationMatchesList
<1> QED
  BY <1>1, BooksHold, PTL

-----------------------------------------------------------------------------
(* The end of the runtime.                                                 *)

\* Once ~Runtime() has cleared the tables, nothing is a root, nothing is pinned
\* and so nothing is ever marked: the last collection meets the whole of each
\* list unmarked.
Ending ==
  /\ deiniting => /\ threads = {} /\ cache = {} /\ ~keepRoot
                  /\ pc # "mutate"
                  /\ \A o \in Object : pins[o] = 0 /\ status[o] = "Unwalked"
  /\ NothingSurvivesDeinit

LEMMA EndingStep == Books /\ Ending /\ [Next]_vars => Ending'
<1> SUFFICES ASSUME Books, Ending, [Next]_vars PROVE Ending'
  OBVIOUS
<1>a. TypeOK /\ TypeOK'
  BY TypeInvariantStep DEF Books
<1> USE DEF Ending, NothingSurvivesDeinit, Live, Mutating, mutatorVars, heapVars, gcVars
<1>1. CASE Program
  <2>1. pc = "mutate" /\ pc' = pc /\ deiniting' = deiniting
    BY <1>1, Zenon DEF Program, Alloc, Pin, Unpin, EnterThread, LeaveThread, TakeLocal,
       DropLocal, Register, Link, Unlink, Instantiate, Resolve, Reuse
  <2> QED BY <2>1
<1>2. CASE StartGc
  BY <1>2 DEF StartGc, StartSerial
<1>3. CASE Deinit
  BY <1>3, <1>a DEF Deinit, StartSerial, Push, Books, Statused, PinnedNeverFreed, Pinned, TypeOK
<1>4. ASSUME NEW o \in Object, Walk(o) PROVE Ending'
  BY <1>4 DEF Walk
<1>5. ASSUME NEW o \in Object, SweepTypeDef(o) PROVE Ending'
  BY <1>5 DEF SweepTypeDef, Free
<1>6. ASSUME NEW o \in Object, Sweep(o) PROVE Ending'
  BY <1>6 DEF Sweep, Free
<1>7. CASE EndMark
  BY <1>7 DEF EndMark
<1>8. CASE EndTypeDefs
  BY <1>8 DEF EndTypeDefs
<1>9. CASE EndYoung
  BY <1>9 DEF EndYoung, Splice, Swept
<1>10. CASE StartPersistent
  <2>1. ~deiniting => Ending'
    BY <1>10 DEF StartPersistent, Splice, StartSerial
  <2>2. deiniting => Roots = {}
    BY DEF Roots, Cached
  <2>3. deiniting => \A o \in Object : status'[o] = "Unwalked"
    BY <1>10, <1>a, <2>2 DEF StartPersistent, StartSerial, Push, Settled, TypeOK
  <2> QED
    BY <1>10, <2>1, <2>3 DEF StartPersistent, Splice, StartSerial
<1>11. CASE EndPersistent
  <2>1. ~deiniting => Ending'
    BY <1>11 DEF EndPersistent
  <2>2. deiniting => Live = {}
    BY <1>11, <1>a DEF EndPersistent, Swept, Books, Generational, Doomed, InGc, Listed, Marked, TypeOK
  <2>3. \A o \in Object : status[o] = "Unwalked" => status'[o] = "Unwalked"
    BY <1>11 DEF EndPersistent, Settled
  <2> QED
    BY <1>11, <2>1, <2>2, <2>3 DEF EndPersistent
<1>12. CASE UNCHANGED vars
  BY <1>12 DEF vars
<1>13. ASSUME NEW o \in Object, WalkLooped(o) PROVE Ending'
  BY <1>13 DEF WalkLooped
<1> QED
  BY <1>1, <1>2, <1>3, <1>4, <1>5, <1>6, <1>7, <1>8, <1>9, <1>10, <1>11, <1>12, <1>13
     DEF Next, Collect

\* ~Runtime() asserts that both object lists are empty after the last collection;
\* they are, whatever the host has done before it let go of everything.
THEOREM RuntimeEndsEmpty == Spec => []NothingSurvivesDeinit
<1>1. Init => Ending
  BY DEF Init, Ending, NothingSurvivesDeinit
<1> QED
  BY <1>1, EndingStep, BooksHold, PTL DEF Spec, Ending

-----------------------------------------------------------------------------
(* As long as there has been no lapse - the host has kept what it pins     *)
(* rooted, the walk has skipped nothing, no definition has been changed    *)
(* under the interning table - nothing reachable is ever freed.  With a    *)
(* lapse of the first kind the run gc_persistent_pin has a counterexample. *)

\* Where the marking stands: what has been pushed is reachable, what has been
\* walked leads to what has been pushed, and the rest of the list is exactly
\* what the sweeps would find.
Marking ==
  /\ Roots \cup (Pinned \cap Listed) \subseteq Marked
  /\ Marked \subseteq Accessible
  /\ \A o \in Object : status[o] = "Walked" => refs[o] \subseteq Marked
  /\ unwalked = Listed \ Marked
  /\ Pinned \subseteq Reach(refs, Roots \cup (Pinned \cap Listed))

\* Where the sweeps stand: the marks are exactly the reachable objects.
Reclaiming ==
  /\ Marked = Accessible
  /\ unwalked \cap Marked = {}

Reached ==
  /\ Accessible \subseteq Live
  /\ fault # "dangling"
  /\ pc = "mark" => Marking
  /\ Sweeping => Reclaiming

\* What definitions are made of, whether anything reaches them or not: an old
\* definition or carrier refers to nothing young, and one that is not about to
\* be freed to nothing that is freed.
Whole ==
  /\ collecting = "Young" => \A x \in Made \cap persistent : refs[x] \subseteq persistent
  /\ \A x \in Made \cap Live : (x \in unwalked /\ Sweeping) \/ refs[x] \subseteq Live
  /\ pc = "sweepTypeDefs" => \A x \in Made \cap Live : refs[x] \ TypeDefs \subseteq Live
  /\ typeDefs \subseteq Live

Sound == Books /\ Reached /\ Whole

Inv == Books /\ (lapses = {} => Sound)

-----------------------------------------------------------------------------

LEMMA SetTypes ==
  ASSUME TypeOK
  PROVE  /\ Roots \in SUBSET Object /\ Pinned \in SUBSET Object
         /\ Listed \in SUBSET Object /\ Live \in SUBSET Object
         /\ refs \in [Object -> SUBSET Object]
<1>1. Cached \in SUBSET Object
  BY DEF TypeOK, Cached
<1>2. Roots \in SUBSET Object
  BY <1>1, GcAssumption DEF Roots, TypeOK
<1> QED
  BY <1>2 DEF TypeOK, Pinned, Listed, Live

\* What is accessible contains the roots and the pinned objects, and every
\* reference that starts in it ends in it.
LEMMA AccessibleClosed ==
  ASSUME TypeOK
  PROVE  /\ Roots \cup Pinned \subseteq Accessible
         /\ Accessible \in SUBSET Object
         /\ \A o \in Accessible : refs[o] \subseteq Accessible
<1>1. Roots \cup Pinned \in SUBSET Object /\ refs \in [Object -> SUBSET Object]
  BY SetTypes
<1>2. Roots \cup Pinned \subseteq Reach(refs, Roots \cup Pinned)
  BY <1>1, ReachContains
<1>3. /\ Closed(refs, Reach(refs, Roots \cup Pinned))
      /\ Reach(refs, Roots \cup Pinned) \in SUBSET Object
  BY <1>1, ReachClosed
<1> QED
  BY <1>2, <1>3 DEF Accessible, Closed

\* To bound what becomes accessible it is enough to find a closed set.
LEMMA AccessibleLeast ==
  ASSUME NEW A \in SUBSET Object,
         (Roots \cup Pinned)' \subseteq A, \A o \in A : refs'[o] \subseteq A
  PROVE  Accessible' \subseteq A
<1>1. Closed(refs', A)
  BY DEF Closed
<1>2. Reach(refs', Roots' \cup Pinned') \subseteq A
  BY <1>1, ReachLeast
<1> QED
  BY <1>2 DEF Accessible

-----------------------------------------------------------------------------
(* The program makes nothing accessible that was not, but what it makes.   *)

LEMMA AllocReached ==
  ASSUME Sound, NEW o \in Object, Alloc(o)
  PROVE  Accessible' \subseteq Live'
<1> DEFINE A == Accessible \cup {o}
<1>1. TypeOK
  BY DEF Sound, Books
<1>2. /\ Roots \cup Pinned \subseteq Accessible
      /\ Accessible \in SUBSET Object
      /\ \A x \in Accessible : refs[x] \subseteq Accessible
  BY <1>1, AccessibleClosed
<1>3. o \notin Accessible
  BY DEF Sound, Reached, Alloc
<1>4. (Roots \cup Pinned)' \subseteq A
  BY <1>1, <1>2 DEF Alloc, Roots, Cached, Pinned, Live, TypeOK
<1>5. \A x \in A : refs'[x] \subseteq A
  BY <1>1, <1>2, <1>3 DEF Alloc, TypeOK
<1>6. Accessible' \subseteq A
  BY <1>2, <1>4, <1>5, AccessibleLeast
<1> QED
  BY <1>6 DEF Alloc, Live, Sound, Reached

\* The other operations, and the abstract heap's: the roots, the pins and the
\* references change inside what was accessible.
LEMMA MutatorReached ==
  ASSUME TypeOK, Accessible \subseteq Live, Live' = Live,
         (Roots \cup Pinned)' \subseteq Accessible,
         \A o \in Accessible : refs'[o] \subseteq Accessible
  PROVE  Accessible' \subseteq Live'
<1>1. Accessible \in SUBSET Object
  BY AccessibleClosed
<1> QED
  BY <1>1, AccessibleLeast

-----------------------------------------------------------------------------
(* The collector.                                                          *)

LEMMA StartGcReached ==
  ASSUME Sound, HostKeepsPinnedRooted, StartGc
  PROVE  Reached'
<1>1. TypeOK /\ TypeOK'
  BY TypeInvariantStep DEF Sound, Books, Next
<1>2. /\ Roots \cup Pinned \subseteq Accessible
      /\ Accessible \subseteq Live
  BY <1>1, AccessibleClosed DEF Sound, Reached
<1>3. /\ Roots' = Roots /\ Pinned' = Pinned /\ refs' = refs /\ Live' = Live
      /\ Listed' = young
  BY DEF StartGc, StartSerial, mutatorVars, heapVars, Roots, Cached, Pinned, Live, Listed
<1>4. Accessible' = Accessible
  BY <1>3 DEF Accessible
<1> DEFINE pushed == {o \in young : pins[o] > 0} \cup Roots
<1>5. pushed = Roots \cup (Pinned \cap young) /\ pushed \subseteq Object
  BY <1>1, SetTypes DEF Pinned, Live, TypeOK
<1>6. status' = [o \in Object |-> IF o \in pushed THEN "ReadyToWalk" ELSE "Unwalked"]
  BY DEF StartGc, StartSerial, Push, Sound, Books, Statused, Mutating
<1>7. Marked' = pushed
  BY <1>5, <1>6 DEF Marked
<1>8. fault' # "dangling"
  BY <1>2, <1>5 DEF StartGc, StartSerial, Mutating
<1>9. pc' = "mark" /\ unwalked' = young \ pushed
  BY DEF StartGc, StartSerial
<1>10. Pinned \subseteq Reach(refs, pushed)
  BY <1>5 DEF HostKeepsPinnedRooted
<1>11. Marking'
  <2>1. (Roots \cup (Pinned \cap Listed))' = pushed
    BY <1>3, <1>5
  <2>2. (\A o \in Object : status[o] = "Walked" => refs[o] \subseteq Marked)'
    BY <1>6
  <2>3. (Pinned \subseteq Reach(refs, Roots \cup (Pinned \cap Listed)))'
    BY <1>3, <1>5, <1>10
  <2>4. pushed \subseteq Accessible
    BY <1>2, <1>5
  <2> QED
    BY <1>3, <1>4, <1>7, <1>9, <2>1, <2>2, <2>3, <2>4 DEF Marking
<1> QED
  BY <1>2, <1>3, <1>4, <1>8, <1>9, <1>11 DEF Reached, Sweeping

\* ~Runtime(): there is nothing left to start from.
LEMMA DeinitReached ==
  ASSUME Sound, Deinit
  PROVE  Reached'
<1>1. TypeOK /\ TypeOK'
  BY TypeInvariantStep DEF Sound, Books, Next
<1>2. Roots' = {} /\ Pinned' = {} /\ refs' = refs /\ Listed' = young
  BY DEF Deinit, StartSerial, heapVars, Roots, Cached, Pinned, Live, Listed
<1>3. Accessible' = {}
  <2>1. Closed(refs', {})
    BY DEF Closed
  <2>2. Reach(refs', Roots' \cup Pinned') \subseteq {}
    BY <1>2, <2>1, ReachLeast
  <2> QED
    BY <2>2 DEF Accessible
<1>4. {o \in young : pins[o] > 0} = {}
  BY DEF Deinit, Pinned, Live
<1>5. status' = [o \in Object |-> "Unwalked"]
  BY <1>4 DEF Deinit, StartSerial, Push, Sound, Books, Statused, Mutating
<1>6. Marked' = {}
  BY <1>5 DEF Marked
<1>7. pc' = "mark" /\ unwalked' = young /\ fault' # "dangling"
  BY <1>4 DEF Deinit, StartSerial, Mutating
<1> QED
  BY <1>2, <1>3, <1>5, <1>6, <1>7 DEF Reached, Marking, Sweeping

LEMMA WalkReached ==
  ASSUME Sound, NEW o \in Object, Walk(o), Traced(o) = refs[o]
  PROVE  Reached'
<1>1. TypeOK /\ TypeOK'
  BY TypeInvariantStep DEF Sound, Books, Next, Collect
<1>2. Marking /\ Accessible \subseteq Live /\ Traced(o) = refs[o]
  BY DEF Sound, Reached, Walk
<1>3. o \in Marked
  BY DEF Walk, Marked
<1>4. refs[o] \subseteq Accessible /\ refs[o] \subseteq Object
  BY <1>1, <1>2, <1>3, AccessibleClosed DEF Marking, TypeOK
<1>5. /\ Roots' = Roots /\ Pinned' = Pinned /\ refs' = refs /\ Live' = Live
      /\ Listed' = Listed
  BY DEF Walk, mutatorVars, heapVars, Roots, Cached, Pinned, Live, Listed
<1>6. Accessible' = Accessible
  BY <1>5 DEF Accessible
<1>7. Marked' = Marked \cup refs[o]
  BY <1>1, <1>2, <1>4 DEF Walk, Push, Marked, TypeOK
<1>8. fault' # "dangling" /\ pc' = "mark"
  BY <1>2, <1>4 DEF Walk
<1>9. unwalked' = Listed' \ Marked'
  BY <1>2, <1>5, <1>7 DEF Walk, Marking
<1>10. (\A x \in Object : status[x] = "Walked" => refs[x] \subseteq Marked)'
  <2> SUFFICES ASSUME NEW x \in Object, status'[x] = "Walked" PROVE refs[x] \subseteq Marked'
    BY <1>5
  <2>1. CASE x = o
    BY <1>7, <2>1
  <2>2. CASE x # o
    <3>1. status[x] = "Walked"
      BY <1>1, <2>2 DEF Walk, Push, TypeOK
    <3> QED
      BY <1>2, <1>7, <3>1 DEF Marking
  <2> QED
    BY <2>1, <2>2
<1> QED
  BY <1>2, <1>4, <1>5, <1>6, <1>7, <1>8, <1>9, <1>10 DEF Reached, Marking, Sweeping

\* When nothing is left to walk, the marks are closed under references.
LEMMA EndMarkReached ==
  ASSUME Sound, EndMark
  PROVE  Reached'
<1>1. TypeOK
  BY DEF Sound, Books
<1>2. Marking /\ Accessible \subseteq Live
  BY DEF Sound, Reached, EndMark
<1>3. \A o \in Marked : status[o] = "Walked"
  BY <1>1 DEF EndMark, Marked, TypeOK, Statuses
<1>4. Marked \in SUBSET Object /\ Closed(refs, Marked)
  BY <1>2, <1>3 DEF Marking, Marked, Closed
<1>5. Reach(refs, Roots \cup (Pinned \cap Listed)) \subseteq Marked
  BY <1>2, <1>4, ReachLeast DEF Marking
<1>6. Roots \cup Pinned \subseteq Marked
  BY <1>2, <1>5 DEF Marking
<1>7. Accessible \subseteq Marked
  BY <1>4, <1>6, ReachLeast DEF Accessible
<1>8. Marked = Accessible /\ unwalked \cap Marked = {}
  BY <1>2, <1>7 DEF Marking
<1>9. /\ Accessible' = Accessible /\ Live' = Live /\ Marked' = Marked
      /\ unwalked' = unwalked /\ fault' = fault /\ pc' = "sweepTypeDefs"
  BY DEF EndMark, mutatorVars, heapVars, Accessible, Roots, Cached, Pinned, Live, Marked
<1> QED
  BY <1>2, <1>8, <1>9 DEF Reached, Reclaiming, Sound

\* Freeing an object that is not accessible.
LEMMA FreeAccessible ==
  ASSUME TypeOK, NEW o \in Object \ Accessible, Free(o),
         UNCHANGED <<pins, threads, keepRoot>>
  PROVE  /\ Accessible' = Accessible /\ Roots' = Roots /\ Pinned' = Pinned
         /\ cache' = cache /\ Live' = Live \ {o}
<1>1. Roots \cup Pinned \subseteq Accessible
  BY AccessibleClosed
<1>2. cache' = cache
  BY <1>1 DEF Free, Roots, Cached
<1>3. Roots' = Roots
  BY <1>2 DEF Roots, Cached
<1>4. Live' = Live \ {o}
  BY DEF Free, Live
<1>5. Pinned' = Pinned
  BY <1>1, <1>4 DEF Pinned
<1>6. refs' \in [Object -> SUBSET Object] /\ \A x \in Accessible : refs[x] = refs'[x]
  BY AccessibleClosed DEF Free, TypeOK
<1>7. Reach(refs', Roots \cup Pinned) = Reach(refs, Roots \cup Pinned)
  BY <1>6, SetTypes, ReachUnaffected DEF Accessible
<1> QED
  BY <1>2, <1>3, <1>4, <1>5, <1>7 DEF Accessible

\* What the sweeps find unwalked was not accessible.
LEMMA UnwalkedInaccessible ==
  ASSUME Sound, Sweeping
  PROVE  unwalked \subseteq Object \ Accessible
BY DEF Sound, Books, TypeOK, Reached, Reclaiming

\* A comparison of definitions that are allocated reads nothing that has been freed.
LEMMA TableIntact ==
  ASSUME Sound, NEW S \in SUBSET (TypeDefs \cap Live)
  PROVE  ReadBy(typeDefs \cup S) \subseteq Live
<1>1. typeDefs \cup S \subseteq TypeDefs \cap Live
  BY DEF Sound, Books, TypeOK, Whole
<1>2. ASSUME NEW u \in TypeDefs \cap Live PROVE refs[u] \ TypeDefs \subseteq Live
  <2>1. u \in unwalked /\ Sweeping => pc = "sweepTypeDefs"
    BY DEF Sound, Books, Doomed, Sweeping
  <2>2. u \in Made
    BY DEF Made
  <2> QED
    BY <2>1, <2>2 DEF Sound, Whole
<1> QED
  BY <1>1, <1>2 DEF ReadBy

LEMMA SweepTypeDefReached ==
  ASSUME Sound, NEW o \in Object, SweepTypeDef(o)
  PROVE  Reached'
<1>1. TypeOK /\ Sweeping /\ o \in Object \ Accessible
  BY UnwalkedInaccessible DEF Sound, Books, SweepTypeDef, Sweeping
<1>2. Accessible' = Accessible /\ Live' = Live \ {o}
  BY <1>1, FreeAccessible DEF SweepTypeDef
<1>3. Marked' = Marked /\ unwalked' \subseteq unwalked
  BY DEF SweepTypeDef, Marked
<1>4. o \in TypeDefs \cap Live
  BY DEF SweepTypeDef
<1>5. fault' = fault
  BY <1>4, TableIntact DEF SweepTypeDef, Searching
<1> QED
  BY <1>1, <1>2, <1>3, <1>5 DEF Sound, Reached, Reclaiming, SweepTypeDef, Sweeping

LEMMA SweepReached ==
  ASSUME Sound, NEW o \in Object, Sweep(o)
  PROVE  Reached'
<1>1. TypeOK /\ Sweeping /\ o \in Object \ Accessible
  BY UnwalkedInaccessible DEF Sound, Books, Sweep, Sweeping
<1>2. Accessible' = Accessible /\ Live \ {o} \subseteq Live' /\ fault' # "dangling"
  <2>1. CASE o \in Live
    BY <1>1, <2>1, FreeAccessible DEF Sweep, Sound, Reached
  <2>2. CASE o \notin Live
    BY <2>2 DEF Sweep, heapVars, Accessible, Roots, Cached, Pinned, Live
  <2> QED
    BY <2>1, <2>2
<1>3. Marked' = Marked /\ unwalked' \subseteq unwalked
  BY DEF Sweep, Marked
<1> QED
  BY <1>1, <1>2, <1>3 DEF Sound, Reached, Reclaiming, Sweep, Sweeping

\* The splice moves the survivors and changes nothing else that counts.
LEMMA SpliceReached ==
  ASSUME Sound, Splice
  PROVE  /\ Accessible' = Accessible /\ Roots' = Roots /\ Pinned' = Pinned /\ Live' = Live
         /\ refs' = refs /\ Accessible \subseteq Live
         /\ Settled = [o \in Object |-> "Unwalked"]
<1>1. Live' = Live
  BY DEF Splice, Live
<1>2. Roots' = Roots /\ Pinned' = Pinned /\ refs' = refs
  BY <1>1 DEF Splice, mutatorVars, Roots, Cached, Pinned
<1>3. \A o \in Object : status[o] \in {"Unwalked", "Walked"}
  BY DEF Splice, Swept, Sound, Books, Statused, Sweeping, TypeOK, Statuses
<1> QED
  BY <1>1, <1>2, <1>3 DEF Accessible, Settled, Sound, Reached

LEMMA StartPersistentReached ==
  ASSUME Sound, StartPersistent
  PROVE  Reached'
<1>1. TypeOK /\ TypeOK'
  BY TypeInvariantStep DEF Sound, Books, Next, Collect
<1>2. /\ Accessible' = Accessible /\ Roots' = Roots /\ Pinned' = Pinned /\ Live' = Live
      /\ refs' = refs /\ Accessible \subseteq Live
      /\ Settled = [o \in Object |-> "Unwalked"]
  BY SpliceReached DEF StartPersistent
<1>3. Listed' = Live
  BY DEF StartPersistent, Splice, Listed, Live
<1> DEFINE pushed == {o \in Live : pins[o] > 0} \cup Roots
<1>4. pushed = Roots \cup Pinned /\ pushed \subseteq Object /\ pushed \subseteq Accessible
  BY <1>1, SetTypes, AccessibleClosed DEF Pinned
<1>5. status' = [o \in Object |-> IF o \in pushed THEN "ReadyToWalk" ELSE "Unwalked"]
  BY <1>2 DEF StartPersistent, StartSerial, Push
<1>6. Marked' = pushed
  BY <1>4, <1>5 DEF Marked
<1>7. fault' # "dangling" /\ pc' = "mark" /\ unwalked' = Live \ pushed
  BY <1>2, <1>4 DEF StartPersistent, StartSerial, Splice, Swept
<1>8. Pinned \subseteq Reach(refs, pushed)
  BY <1>1, <1>4, SetTypes, ReachContains
<1>9. (Roots \cup (Pinned \cap Listed))' = pushed
  BY <1>2, <1>3, <1>4 DEF Pinned
<1>10. (\A o \in Object : status[o] = "Walked" => refs[o] \subseteq Marked)'
  BY <1>5
<1>11. (Pinned \subseteq Reach(refs, Roots \cup (Pinned \cap Listed)))'
  BY <1>2, <1>8, <1>9
<1> QED
  BY <1>2, <1>3, <1>4, <1>6, <1>7, <1>9, <1>10, <1>11 DEF Reached, Marking, Sweeping

\* A registered definition that is taken back into use, if nothing reaches it any
\* more, leads to what an accessible equal leads to: only itself and its carriers
\* become accessible again.
LEMMA ReuseLeads ==
  ASSUME Sound, NEW t \in Object, NEW u \in Object, NEW a \in Object, Reuse(t, u, a)
  PROVE  LET A == Accessible \cup {u} \cup (refs[u] \cap Carriers)
         IN  /\ A \in SUBSET Object /\ A \subseteq Live
             /\ \A x \in A : refs[x] \subseteq A
             /\ t \in Accessible /\ t \in TypeDefs \cap Live
             /\ u \in Live /\ a \in Accessible /\ fault' = fault
<1> DEFINE A == Accessible \cup {u} \cup (refs[u] \cap Carriers)
<1>1. TypeOK /\ Accessible \subseteq Live /\ pc = "mutate"
  BY DEF Sound, Books, Reached, Reuse, Mutating
<1>2. /\ Accessible \in SUBSET Object
      /\ \A x \in Accessible : refs[x] \subseteq Accessible
  BY <1>1, AccessibleClosed
<1>3. t \in Accessible /\ t \in TypeDefs \cap Live /\ a \in Accessible
  BY DEF Reuse, Usable
<1>4. Leads(t) \subseteq Accessible
  BY <1>2, <1>3 DEF Leads
<1>5. u \in typeDefs /\ Leads(u) = Leads(t)
  BY DEF Reuse, Equals
<1>6. u \in TypeDefs \cap Live /\ refs[u] \subseteq Live
  BY <1>1, <1>5 DEF Sound, Whole, Made, Sweeping, TypeOK
<1>7. refs[u] \subseteq A /\ \A k \in refs[u] \cap Carriers : refs[k] \subseteq A
  BY <1>4, <1>5 DEF Leads
<1>8. fault' = fault
  BY <1>3, TableIntact DEF Reuse, Searching
<1>9. A \in SUBSET Object /\ A \subseteq Live
  BY <1>1, <1>2, <1>6 DEF TypeOK
<1>10. \A x \in A : refs[x] \subseteq A
  BY <1>2, <1>7
<1> QED
  BY <1>3, <1>6, <1>8, <1>9, <1>10

LEMMA ReuseReached ==
  ASSUME Sound, NEW t \in Object, NEW u \in Object, NEW a \in Object, Reuse(t, u, a)
  PROVE  Accessible' \subseteq Live' /\ fault' = fault
<1> DEFINE A == Accessible \cup {u} \cup (refs[u] \cap Carriers)
<1>1. /\ A \in SUBSET Object /\ A \subseteq Live
      /\ \A x \in A : refs[x] \subseteq A
      /\ fault' = fault
  BY ReuseLeads
<1>2. TypeOK
  BY DEF Sound, Books
<1>3. Live' = Live /\ (Roots \cup Pinned)' = Roots \cup Pinned
  BY DEF Reuse, heapVars, Live, Roots, Cached, Pinned
<1>4. (Roots \cup Pinned)' \subseteq A
  BY <1>2, <1>3, AccessibleClosed
<1>5. \A x \in A : refs'[x] \subseteq A
  BY <1>1, <1>2 DEF Reuse, TypeOK
<1>6. Accessible' \subseteq A
  BY <1>1, <1>4, <1>5, AccessibleLeast
<1> QED
  BY <1>1, <1>3, <1>6

LEMMA ReachedStep ==
  ASSUME Sound, [Next]_vars, lapses' = {}
  PROVE  Reached'
<1>a. TypeOK /\ Accessible \subseteq Live /\ fault # "dangling"
  BY DEF Sound, Books, Reached
<1>b. /\ Roots \cup Pinned \subseteq Accessible
      /\ Accessible \in SUBSET Object
      /\ \A o \in Accessible : refs[o] \subseteq Accessible
  BY <1>a, AccessibleClosed
<1>c. ASSUME pc' = "mutate", fault' = fault, Accessible' \subseteq Live'
      PROVE  Reached'
  BY <1>a, <1>c DEF Reached, Sweeping
<1>1. ASSUME NEW o \in Object, Alloc(o) PROVE Reached'
  BY <1>1, <1>c, AllocReached DEF Alloc, Mutating
<1>2. ASSUME NEW o \in Object, Pin(o) PROVE Reached'
  <2>1. Live' = Live /\ (Roots \cup Pinned)' \subseteq Accessible /\ refs' = refs
    BY <1>2, <1>a, <1>b DEF Pin, heapVars, Live, Roots, Cached, Pinned, Usable, TypeOK
  <2> QED
    BY <1>2, <1>a, <1>b, <1>c, <2>1, MutatorReached DEF Pin, Mutating, gcVars
<1>3. ASSUME NEW o \in Object, Unpin(o) PROVE Reached'
  <2>1. Live' = Live /\ (Roots \cup Pinned)' \subseteq Accessible /\ refs' = refs
    BY <1>3, <1>a, <1>b DEF Unpin, heapVars, Live, Roots, Cached, Pinned, TypeOK
  <2> QED
    BY <1>3, <1>a, <1>b, <1>c, <2>1, MutatorReached DEF Unpin, Mutating, gcVars
<1>4. ASSUME NEW o \in Object, EnterThread(o) PROVE Reached'
  <2>1. Live' = Live /\ (Roots \cup Pinned)' \subseteq Accessible /\ refs' = refs
    BY <1>4, <1>b DEF EnterThread, heapVars, Live, Roots, Cached, Pinned, Usable
  <2> QED
    BY <1>4, <1>a, <1>b, <1>c, <2>1, MutatorReached DEF EnterThread, Mutating, gcVars
<1>5. ASSUME NEW o \in Object, LeaveThread(o) PROVE Reached'
  <2>1. Live' = Live /\ (Roots \cup Pinned)' \subseteq Accessible /\ refs' = refs
    BY <1>5, <1>b DEF LeaveThread, heapVars, Live, Roots, Cached, Pinned
  <2> QED
    BY <1>5, <1>a, <1>b, <1>c, <2>1, MutatorReached DEF LeaveThread, Mutating, gcVars
<1>6. ASSUME NEW o \in Object, Register(o) PROVE Reached'
  <2>1. Live' = Live /\ (Roots \cup Pinned)' \subseteq Accessible /\ refs' = refs
    BY <1>6, <1>b DEF Register, heapVars, Live, Roots, Cached, Pinned
  <2>2. fault' = fault
    BY <1>6, TableIntact DEF Register, Searching, Usable
  <2> QED
    BY <1>6, <1>a, <1>b, <1>c, <2>1, <2>2, MutatorReached DEF Register, Mutating, gcVars
<1>7. ASSUME NEW a \in Object, NEW b \in Object, Link(a, b) PROVE Reached'
  <2>1. /\ Live' = Live /\ (Roots \cup Pinned)' \subseteq Accessible
        /\ \A o \in Accessible : refs'[o] \subseteq Accessible
    BY <1>7, <1>a, <1>b DEF Link, heapVars, Live, Roots, Cached, Pinned, Usable, TypeOK
  <2> QED
    BY <1>7, <1>a, <1>c, <2>1, MutatorReached DEF Link, Mutating, gcVars
<1>8. ASSUME NEW a \in Object, NEW b \in Object, Unlink(a, b) PROVE Reached'
  <2>1. /\ Live' = Live /\ (Roots \cup Pinned)' \subseteq Accessible
        /\ \A o \in Accessible : refs'[o] \subseteq Accessible
    BY <1>8, <1>a, <1>b DEF Unlink, heapVars, Live, Roots, Cached, Pinned, TypeOK
  <2> QED
    BY <1>8, <1>a, <1>c, <2>1, MutatorReached DEF Unlink, Mutating, gcVars
<1>9. ASSUME NEW a \in Object, NEW b \in Object, Instantiate(a, b) PROVE Reached'
  <2>1. Live' = Live /\ (Roots \cup Pinned)' \subseteq Accessible /\ refs' = refs
    BY <1>9, <1>b DEF Instantiate, heapVars, Live, Roots, Cached, Pinned, Usable
  <2> QED
    BY <1>9, <1>a, <1>b, <1>c, <2>1, MutatorReached DEF Instantiate, Mutating, gcVars
<1>10. CASE StartGc
  BY <1>10, StartGcReached DEF StartGc
<1>11. CASE Deinit
  BY <1>11, DeinitReached
<1>12. ASSUME NEW o \in Object, Walk(o) PROVE Reached'
  BY <1>12, WalkReached DEF Walk, Traced
<1>13. CASE EndMark
  BY <1>13, EndMarkReached
<1>14. ASSUME NEW o \in Object, SweepTypeDef(o) PROVE Reached'
  BY <1>14, SweepTypeDefReached
<1>15. CASE EndTypeDefs
  BY <1>15 DEF EndTypeDefs, mutatorVars, heapVars, Sound, Reached, Reclaiming, Sweeping,
     Accessible, Roots, Cached, Pinned, Live, Marked
<1>16. ASSUME NEW o \in Object, Sweep(o) PROVE Reached'
  BY <1>16, SweepReached
<1>17. CASE EndYoung
  BY <1>17, <1>c, SpliceReached DEF EndYoung
<1>18. CASE StartPersistent
  BY <1>18, StartPersistentReached
<1>19. CASE EndPersistent
  BY <1>19, <1>a DEF EndPersistent, mutatorVars, Reached, Sweeping, Accessible, Roots,
     Cached, Pinned, Live
<1>20. CASE UNCHANGED vars
  BY <1>20 DEF vars, mutatorVars, heapVars, gcVars, Sound, Reached, Marking, Reclaiming,
     Sweeping, Accessible, Roots, Cached, Pinned, Live, Listed, Marked
<1>21. ASSUME NEW c \in Object, TakeLocal(c) \/ DropLocal(c) PROVE Reached'
  <2>1. Live' = Live /\ (Roots \cup Pinned)' \subseteq Accessible /\ refs' = refs
    BY <1>21, <1>b DEF TakeLocal, DropLocal, heapVars, Live, Roots, Cached, Pinned
  <2> QED
    BY <1>21, <1>a, <1>b, <1>c, <2>1, MutatorReached DEF TakeLocal, DropLocal, Mutating, gcVars
<1>22. ASSUME NEW t \in Object, NEW b \in Object, Resolve(t, b) PROVE Reached'
  <2>1. Live' = Live /\ (Roots \cup Pinned)' \subseteq Accessible
    BY <1>22, <1>b DEF Resolve, heapVars, Live, Roots, Cached, Pinned
  <2>2. t \in TypeDefs \cap Live /\ b \in Accessible
    BY <1>22, <1>a DEF Resolve, Usable, TypeOK
  <2>3. fault' = fault
    BY <1>22, <2>2, TableIntact DEF Resolve, Searching
  <2>4. \A o \in Accessible : refs'[o] \subseteq Accessible
    BY <1>22, <1>a, <1>b, <2>2 DEF Resolve, TypeOK
  <2> QED
    BY <1>22, <1>a, <1>c, <2>1, <2>3, <2>4, MutatorReached DEF Resolve, Mutating, gcVars
<1>23. ASSUME NEW t \in Object, NEW u \in Object, NEW a \in Object, Reuse(t, u, a) PROVE Reached'
  BY <1>23, <1>c, ReuseReached DEF Reuse, Mutating, gcVars
<1>24. ASSUME NEW o \in Object, WalkLooped(o) PROVE Reached'
  BY <1>24, <1>a DEF WalkLooped, mutatorVars, heapVars, gcVars, Sound, Reached, Marking, Sweeping,
     Accessible, Roots, Cached, Pinned, Live, Listed, Marked
<1> QED
  BY <1>1, <1>2, <1>3, <1>4, <1>5, <1>6, <1>7, <1>8, <1>9, <1>10, <1>11, <1>12, <1>13,
     <1>14, <1>15, <1>16, <1>17, <1>18, <1>19, <1>20, <1>21, <1>22, <1>23, <1>24
     DEF Next, Program, Collect

-----------------------------------------------------------------------------
(* The definitions stay whole.                                             *)

\* What a sweep frees is not part of a definition that it leaves.
LEMMA PartsStay ==
  ASSUME Sound, Sweeping, NEW o \in unwalked \cap Live, NEW x \in (Made \cap Live) \ unwalked
  PROVE  o \notin refs[x]
<1>1. TypeOK /\ Marked = Accessible /\ unwalked \cap Marked = {}
  BY DEF Sound, Books, Reached, Reclaiming
<1>2. o \in Listed /\ Listed \ Marked \subseteq unwalked
  BY DEF Sound, Books, Doomed, InGc, Sweeping
<1>3. CASE x \in Marked
  <2>1. refs[x] \subseteq Marked
    BY <1>1, <1>3, AccessibleClosed
  <2> QED
    BY <1>1, <2>1
<1>4. CASE x \notin Marked
  <2>1. x \notin Listed
    BY <1>2, <1>4
  <2>2. collecting = "Young" /\ x \in persistent /\ o \in young
    BY <1>1, <1>2, <2>1 DEF Listed, Live, TypeOK, Generations, Sound, Books, Generational, InGc,
       Sweeping
  <2>3. refs[x] \subseteq persistent /\ young \cap persistent = {}
    BY <2>2 DEF Sound, Whole, Books, Generational
  <2> QED
    BY <2>2, <2>3
<1> QED
  BY <1>3, <1>4

LEMMA FreeWhole ==
  ASSUME Sound, Sweeping, NEW o \in unwalked \cap Live, Free(o), collecting' = collecting,
         unwalked \ {o} \subseteq unwalked', Sweeping'
  PROVE  /\ collecting' = "Young" => \A x \in Made \cap persistent' : refs'[x] \subseteq persistent'
         /\ \A x \in Made \cap Live' : x \in unwalked' \/ refs'[x] \subseteq Live'
         /\ \A x \in Made \cap Live' : refs'[x] \ {o} = refs[x] \ {o}
<1>1. TypeOK /\ Live' = Live \ {o}
  BY DEF Sound, Books, Free, Live
<1>2. \A x \in Live' : refs'[x] = refs[x]
  BY <1>1 DEF Free, TypeOK, Live
<1>3. ASSUME collecting' = "Young", NEW x \in Made \cap persistent'
      PROVE  refs'[x] \subseteq persistent'
  <2>1. o \in young
    BY <1>3 DEF Sound, Books, Doomed, InGc, Sweeping, Listed
  <2>2. persistent' = persistent
    BY <2>1 DEF Free, Sound, Books, Generational
  <2>3. refs'[x] = refs[x]
    BY <1>2, <1>3 DEF Live
  <2>4. refs[x] \subseteq persistent
    BY <1>3, <2>2 DEF Sound, Whole
  <2> QED
    BY <2>2, <2>3, <2>4
<1>4. ASSUME NEW x \in Made \cap Live', x \notin unwalked' PROVE refs'[x] \subseteq Live'
  <2>1. x \in (Made \cap Live) \ unwalked
    BY <1>1, <1>4
  <2>2. refs[x] \subseteq Live
    BY <2>1 DEF Sound, Whole
  <2> QED
    BY <1>1, <1>2, <1>4, <2>1, <2>2, PartsStay
<1> QED
  BY <1>2, <1>3, <1>4

LEMMA SweepTypeDefWhole ==
  ASSUME Sound, lapses = {}, NEW o \in Object, SweepTypeDef(o)
  PROVE  Whole'
<1>1. TypeOK /\ Sweeping /\ Sweeping' /\ pc = "sweepTypeDefs" /\ o \in TypeDefs
      /\ o \in unwalked \cap Live /\ Free(o) /\ Live' = Live \ {o}
  BY DEF Sound, Books, SweepTypeDef, Sweeping, Free, Live
<1>2. unwalked \ {o} \subseteq unwalked' /\ collecting' = collecting
  BY DEF SweepTypeDef
<1>3. /\ collecting' = "Young" => \A x \in Made \cap persistent' : refs'[x] \subseteq persistent'
      /\ \A x \in Made \cap Live' : x \in unwalked' \/ refs'[x] \subseteq Live'
      /\ \A x \in Made \cap Live' : refs'[x] \ {o} = refs[x] \ {o}
  BY <1>1, <1>2, FreeWhole
<1>4. \A x \in Made \cap Live : refs[x] \ TypeDefs \subseteq Live
  BY <1>1 DEF Sound, Whole
<1>5. \A x \in Made \cap Live' : refs'[x] \ TypeDefs \subseteq Live'
  BY <1>1, <1>3, <1>4
<1>6. typeDefs' = typeDefs \ Equals(o)
  BY DEF SweepTypeDef, Found
<1>7. o \notin typeDefs'
  BY <1>6 DEF Equals
<1>8. typeDefs' \subseteq Live'
  BY <1>1, <1>6, <1>7 DEF Sound, Whole
<1> QED
  BY <1>1, <1>3, <1>5, <1>8 DEF Whole

LEMMA SweepWhole ==
  ASSUME Sound, NEW o \in Object, Sweep(o)
  PROVE  Whole'
<1>1. TypeOK /\ Sweeping /\ Sweeping' /\ pc' = "sweepAll" /\ o \in unwalked
  BY DEF Sound, Books, Sweep, Sweeping
<1>2. unwalked \ {o} \subseteq unwalked' /\ collecting' = collecting /\ typeDefs' = typeDefs
  BY DEF Sweep
<1>3. CASE o \in Live
  <2>1. Free(o) /\ Live' = Live \ {o}
    BY <1>3 DEF Sweep, Free, Live
  <2>2. /\ collecting' = "Young" => \A x \in Made \cap persistent' : refs'[x] \subseteq persistent'
        /\ \A x \in Made \cap Live' : x \in unwalked' \/ refs'[x] \subseteq Live'
    BY <1>1, <1>2, <1>3, <2>1, FreeWhole
  <2>3. o \notin typeDefs
    BY <1>1, <1>3 DEF Sweep, Sound, Books, Doomed, TypeOK
  <2>4. typeDefs' \subseteq Live'
    BY <1>2, <2>1, <2>3 DEF Sound, Whole
  <2> QED
    BY <1>1, <2>2, <2>4 DEF Whole
<1>4. CASE o \notin Live
  <2>1. UNCHANGED <<young, persistent, refs>> /\ Live' = Live
    BY <1>4 DEF Sweep, heapVars, Live
  <2>2. collecting' = "Young" => \A x \in Made \cap persistent' : refs'[x] \subseteq persistent'
    BY <1>2, <2>1 DEF Sound, Whole
  <2>3. \A x \in Made \cap Live' : x \in unwalked' \/ refs'[x] \subseteq Live'
    BY <1>1, <1>2, <1>4, <2>1 DEF Sound, Whole
  <2>4. typeDefs' \subseteq Live'
    BY <1>2, <2>1 DEF Sound, Whole
  <2> QED
    BY <1>1, <2>2, <2>3, <2>4 DEF Whole
<1> QED
  BY <1>3, <1>4

\* The survivors of the young list are old now, and so is all they are made of.
LEMMA SpliceWhole ==
  ASSUME Sound, Splice, pc' \in {"mutate", "mark"}
  PROVE  Whole'
<1>1. unwalked = {} /\ Live' = Live /\ persistent' = Live /\ refs' = refs /\ typeDefs' = typeDefs
  BY DEF Splice, Swept, Live, mutatorVars
<1>2. \A x \in Made \cap Live : refs[x] \subseteq Live
  BY <1>1 DEF Sound, Whole
<1>3. typeDefs \subseteq Live
  BY DEF Sound, Whole
<1> QED
  BY <1>1, <1>2, <1>3 DEF Whole, Sweeping

LEMMA EndPersistentWhole ==
  ASSUME Sound, EndPersistent
  PROVE  Whole'
<1>1. /\ unwalked = {} /\ Live' = Live /\ refs' = refs /\ typeDefs' = typeDefs
      /\ persistent' = persistent /\ pc' \in {"mutate", "dead"}
  BY DEF EndPersistent, Swept, Live, mutatorVars
<1>2. young = {}
  BY DEF EndPersistent, Swept, Sound, Books, Generational, InGc
<1>3. \A x \in Made \cap Live : refs[x] \subseteq Live
  BY <1>1 DEF Sound, Whole
<1>4. typeDefs \subseteq Live /\ persistent = Live
  BY <1>2 DEF Sound, Whole, Live
<1> QED
  BY <1>1, <1>3, <1>4 DEF Whole, Sweeping

LEMMA WholeStep ==
  ASSUME Sound, [Next]_vars, lapses' = {}, lapses = {}
  PROVE  Whole'
<1>a. TypeOK /\ young \cap persistent = {}
  BY DEF Sound, Books, Generational
<1>b. Mutating => /\ \A x \in Made \cap persistent : refs[x] \subseteq persistent
                  /\ \A x \in Made \cap Live : refs[x] \subseteq Live
                  /\ typeDefs \subseteq Live
                  /\ collecting = "Young"
  BY DEF Sound, Whole, Mutating, Sweeping, Books, Generational
<1>c. ASSUME pc' \in {"mutate", "mark"},
             \A x \in Made \cap persistent' : refs'[x] \subseteq persistent',
             \A x \in Made \cap Live' : refs'[x] \subseteq Live',
             typeDefs' \subseteq Live'
      PROVE  Whole'
  BY <1>c DEF Whole, Sweeping
<1>d. ASSUME Mutating, UNCHANGED <<young, persistent>>, pc' \in {"mutate", "mark"},
             NEW a \in Object, NEW S \in SUBSET Live, ~ Disturbs(a, S) \/ S = {} \/ a \in young,
             \A x \in Object \ {a} : refs'[x] = refs[x],
             refs'[a] \subseteq refs[a] \cup S,
             typeDefs' \subseteq Live
      PROVE  Whole'
  <2>1. Live' = Live
    BY <1>d DEF Live
  <2>2. ASSUME NEW x \in Made \cap persistent PROVE refs'[x] \subseteq persistent
    <3>1. CASE x = a
      BY <1>a, <1>b, <1>d, <2>2, <3>1 DEF Disturbs
    <3>2. CASE x # a
      BY <1>a, <1>b, <1>d, <2>2, <3>2 DEF TypeOK
    <3> QED
      BY <3>1, <3>2
  <2>3. ASSUME NEW x \in Made \cap Live PROVE refs'[x] \subseteq Live
    <3>1. CASE x = a
      BY <1>b, <1>d, <2>3, <3>1
    <3>2. CASE x # a
      BY <1>a, <1>b, <1>d, <2>3, <3>2 DEF TypeOK, Live
    <3> QED
      BY <3>1, <3>2
  <2> QED
    BY <1>c, <1>d, <2>1, <2>2, <2>3
<1>e. ASSUME Mutating, UNCHANGED <<young, persistent, refs, typeDefs>>, pc' \in {"mutate", "mark"}
      PROVE  Whole'
  BY <1>b, <1>c, <1>e DEF Live
<1>1. ASSUME NEW o \in Object, Alloc(o) PROVE Whole'
  <2>1. Mutating /\ persistent' = persistent /\ Live' = Live \cup {o} /\ o \notin Live
        /\ pc' = "mutate" /\ typeDefs' = typeDefs
    BY <1>1 DEF Alloc, Live, Mutating
  <2>2. refs'[o] = {} /\ \A x \in Object \ {o} : refs'[x] = refs[x]
    BY <1>1, <1>a DEF Alloc, TypeOK
  <2>3. \A x \in Made \cap persistent' : refs'[x] \subseteq persistent'
    BY <1>a, <1>b, <2>1, <2>2 DEF TypeOK
  <2>4. \A x \in Made \cap Live' : refs'[x] \subseteq Live'
    BY <1>a, <1>b, <2>1, <2>2 DEF TypeOK, Live
  <2> QED
    BY <1>b, <1>c, <2>1, <2>3, <2>4
<1>2. ASSUME NEW o \in Object,
             Pin(o) \/ Unpin(o) \/ EnterThread(o) \/ LeaveThread(o) \/ TakeLocal(o) \/ DropLocal(o)
      PROVE Whole'
  BY <1>2, <1>e DEF Pin, Unpin, EnterThread, LeaveThread, TakeLocal, DropLocal, heapVars, gcVars,
     Mutating
<1>3. ASSUME NEW o \in Object, NEW i \in Object, Instantiate(o, i) PROVE Whole'
  BY <1>3, <1>e DEF Instantiate, heapVars, gcVars, Mutating
<1>4. ASSUME NEW t \in Object, Register(t) PROVE Whole'
  <2>1. typeDefs' \subseteq Live
    BY <1>4, <1>b DEF Register, Usable
  <2> QED
    BY <1>4, <1>b, <1>c, <2>1 DEF Register, heapVars, gcVars, Mutating, Live
<1>5. ASSUME NEW a \in Object, NEW b \in Object, Link(a, b) PROVE Whole'
  <2>1. ~ Disturbs(a, {b}) /\ {b} \subseteq Live
    BY <1>5 DEF Link, Usable
  <2>2. refs'[a] = refs[a] \cup {b} /\ \A x \in Object \ {a} : refs'[x] = refs[x]
    BY <1>5, <1>a DEF Link, TypeOK
  <2>3. Mutating /\ UNCHANGED <<young, persistent, typeDefs>> /\ pc' = "mutate"
    BY <1>5 DEF Link, heapVars, gcVars, Mutating
  <2> QED
    BY <1>b, <1>d, <2>1, <2>2, <2>3
<1>6. ASSUME NEW a \in Object, NEW b \in Object, Unlink(a, b) PROVE Whole'
  <2>2. refs'[a] \subseteq refs[a] \cup {} /\ \A x \in Object \ {a} : refs'[x] = refs[x]
    BY <1>6, <1>a DEF Unlink, TypeOK
  <2>3. Mutating /\ UNCHANGED <<young, persistent, typeDefs>> /\ pc' = "mutate"
    BY <1>6 DEF Unlink, heapVars, gcVars, Mutating
  <2>4. {} \in SUBSET Live
    OBVIOUS
  <2> QED
    BY <1>b, <1>d, <2>2, <2>3, <2>4
<1>7. ASSUME NEW t \in Object, NEW u \in Object, NEW a \in Object, Reuse(t, u, a) PROVE Whole'
  <2>1. ~ Disturbs(a, {u}) /\ {u} \subseteq Live
    BY <1>7, ReuseLeads DEF Reuse
  <2>2. refs'[a] = refs[a] \cup {u} /\ \A x \in Object \ {a} : refs'[x] = refs[x]
    BY <1>7, <1>a DEF Reuse, TypeOK
  <2>3. Mutating /\ UNCHANGED <<young, persistent, typeDefs>> /\ pc' = "mutate"
    BY <1>7 DEF Reuse, heapVars, gcVars, Mutating
  <2> QED
    BY <1>b, <1>d, <2>1, <2>2, <2>3
<1>8. ASSUME NEW t \in Object, NEW b \in Object, Resolve(t, b) PROVE Whole'
  <2>1. t \in young /\ {b} \subseteq Live
    BY <1>8 DEF Resolve, Usable
  <2>2. refs'[t] \subseteq refs[t] \cup {b} /\ \A x \in Object \ {t} : refs'[x] = refs[x]
    BY <1>8, <1>a DEF Resolve, TypeOK
  <2>3. Mutating /\ UNCHANGED <<young, persistent>> /\ pc' = "mutate"
    BY <1>8 DEF Resolve, heapVars, gcVars, Mutating
  <2>4. typeDefs' \subseteq Live
    BY <1>8, <1>b, <2>1 DEF Resolve, Live
  <2> QED
    BY <1>d, <2>1, <2>2, <2>3, <2>4
<1>9. CASE StartGc
  BY <1>9, <1>e DEF StartGc, StartSerial, heapVars, mutatorVars
<1>10. CASE Deinit
  BY <1>10, <1>e DEF Deinit, StartSerial, heapVars
<1>11. ASSUME NEW o \in Object, Walk(o) \/ WalkLooped(o) PROVE Whole'
  BY <1>11 DEF Walk, WalkLooped, mutatorVars, heapVars, gcVars, Sound, Whole, Sweeping, Live
<1>12. CASE EndMark
  <2>1. UNCHANGED <<young, persistent, refs, typeDefs, collecting>> /\ ~ Sweeping
    BY <1>12 DEF EndMark, mutatorVars, heapVars, Sweeping
  <2>2. \A x \in Made \cap Live : refs[x] \subseteq Live
    BY <2>1 DEF Sound, Whole
  <2> QED
    BY <2>1, <2>2 DEF Sound, Whole, Live
<1>13. ASSUME NEW o \in Object, SweepTypeDef(o) PROVE Whole'
  BY <1>13, SweepTypeDefWhole
<1>14. CASE EndTypeDefs
  BY <1>14 DEF EndTypeDefs, mutatorVars, heapVars, Sound, Whole, Sweeping, Live
<1>15. ASSUME NEW o \in Object, Sweep(o) PROVE Whole'
  BY <1>15, SweepWhole
<1>16. CASE EndYoung
  BY <1>16, SpliceWhole DEF EndYoung
<1>17. CASE StartPersistent
  BY <1>17, SpliceWhole DEF StartPersistent, StartSerial
<1>18. CASE EndPersistent
  BY <1>18, EndPersistentWhole
<1>19. CASE UNCHANGED vars
  BY <1>19 DEF vars, mutatorVars, heapVars, gcVars, Sound, Whole, Sweeping, Live
<1> QED
  BY <1>1, <1>2, <1>3, <1>4, <1>5, <1>6, <1>7, <1>8, <1>9, <1>10, <1>11, <1>12, <1>13,
     <1>14, <1>15, <1>16, <1>17, <1>18, <1>19 DEF Next, Program, Collect

LEMMA InitReached == Init => Reached
<1> SUFFICES ASSUME Init PROVE Reached
  OBVIOUS
<1>1. Roots = {Root} /\ Pinned = {} /\ Live = {Root}
  BY GcAssumption DEF Init, Roots, Cached, Pinned, Live
<1>2. Closed(refs, {Root}) /\ {Root} \in SUBSET Object
  BY GcAssumption DEF Init, Closed
<1>3. Accessible \subseteq {Root}
  BY <1>1, <1>2, ReachLeast DEF Accessible
<1> QED
  BY <1>1, <1>3 DEF Init, Reached, Sweeping

LEMMA InitWhole == Init => Whole
BY GcAssumption DEF Init, Whole, Sweeping, Live

\* A lapse is not forgotten.
LEMMA LapsesStay == TypeOK /\ [Next]_vars => lapses \subseteq lapses'
BY DEF Next, Program, Collect, Alloc, Pin, Unpin, EnterThread, LeaveThread, TakeLocal, DropLocal,
   Register, Link, Unlink, Instantiate, Resolve, Reuse, StartGc, Deinit, Walk, WalkLooped,
   EndMark, SweepTypeDef, EndTypeDefs, Sweep, EndYoung, StartPersistent, EndPersistent, Splice,
   vars

LEMMA InvHolds == Spec => []Inv
<1>1. Init => Inv
  BY InitReached, InitBooks, InitWhole DEF Inv, Sound
<1>2. Inv /\ [Next]_vars => Inv'
  <2> SUFFICES ASSUME Inv, [Next]_vars PROVE Inv'
    OBVIOUS
  <2>1. Books'
    BY BooksStep DEF Inv
  <2>2. lapses \subseteq lapses'
    BY LapsesStay DEF Inv, Books
  <2>3. ASSUME lapses' = {} PROVE Sound'
    <3>1. lapses = {} /\ Sound
      BY <2>2, <2>3 DEF Inv
    <3> QED
      BY <2>1, <2>3, <3>1, ReachedStep, WholeStep DEF Sound
  <2> QED
    BY <2>1, <2>3 DEF Inv
<1> QED
  BY <1>1, <1>2, PTL DEF Spec

\* No pointer that the program, the walk or the comparator can follow leads to a
\* freed cell, in the middle of a collection either, and a definition that comes
\* back out of the interning table brings none along.
THEOREM NothingDangles == Spec => []NoDangling
<1>1. Inv => NoDangling
  BY DEF Inv, Sound, Reached, NoDangling
<1> QED
  BY <1>1, InvHolds, PTL

\* A comparison with the registered definitions never reads a freed cell, in the
\* middle of a sweep either: definitions are unregistered before they are freed and
\* freed before what they are made of, and an old one is made of nothing young.
THEOREM InternTableSafe == Spec => []InternTableLive
<1>1. Inv => InternTableLive
  <2> SUFFICES ASSUME Sound PROVE ReadBy(typeDefs) \subseteq Live
    BY DEF Inv, InternTableLive
  <2>1. {} \in SUBSET (TypeDefs \cap Live) /\ typeDefs \cup {} = typeDefs
    OBVIOUS
  <2>2. ReadBy(typeDefs \cup {}) \subseteq Live
    BY <2>1, TableIntact
  <2> QED
    BY <2>1, <2>2
<1> QED
  BY <1>1, InvHolds, PTL

\* A collection of both lists leaves exactly the accessible objects.
THEOREM FullGcPrecise == Spec => FullGcIsPrecise
<1>1. Inv => [EndPersistent /\ lapses = {} => Live = Accessible]_vars
  <2> SUFFICES ASSUME Sound, EndPersistent PROVE Live = Accessible
    BY DEF Inv
  <2>1. young = {} /\ persistent \ Marked \subseteq {}
    BY DEF EndPersistent, Swept, Sound, Books, Generational, Doomed, InGc, Listed
  <2>2. Marked = Accessible /\ Accessible \subseteq Live
    BY DEF EndPersistent, Swept, Sound, Reached, Reclaiming, Sweeping
  <2> QED
    BY <2>1, <2>2 DEF Live
<1> QED
  BY <1>1, InvHolds, PTL DEF FullGcIsPrecise

\* The comment on the sweeps, "Delete unreachable objects.", as long as there has
\* been no lapse.
THEOREM SweepsUnreachable == Spec => OnlyUnreachableDeleted
<1>1. Inv /\ [Next]_vars => [lapses = {} => Live \ Live' \subseteq Object \ Accessible]_vars
  <2> SUFFICES ASSUME Sound, [Next]_vars, NEW x \in Live \ Live'
               PROVE  x \in Object \ Accessible
    BY DEF Inv
  <2>1. ASSUME NEW o \in Object, SweepTypeDef(o) PROVE x \in Object \ Accessible
    BY <2>1, UnwalkedInaccessible DEF SweepTypeDef, Sweeping, Free, Live
  <2>2. ASSUME NEW o \in Object, Sweep(o) PROVE x \in Object \ Accessible
    <3>1. x = o
      BY <2>2 DEF Sweep, Free, Live, heapVars
    <3> QED
      BY <2>2, <3>1, UnwalkedInaccessible DEF Sweep, Sweeping
  <2> QED
    BY <2>1, <2>2 DEF Next, Program, Collect, Alloc, Pin, Unpin, EnterThread, LeaveThread,
       TakeLocal, DropLocal, Register, Link, Unlink, Instantiate, Resolve, Reuse, StartGc, Deinit,
       Walk, WalkLooped, EndMark, EndTypeDefs, EndYoung, StartPersistent, EndPersistent, Splice,
       StartSerial, heapVars, vars, Live
<1> QED
  BY <1>1, InvHolds, PTL DEF Spec, OnlyUnreachableDeleted

-----------------------------------------------------------------------------
(* Refinement.                                                             *)

LEMMA RefinementInit == Init => H!Init
<1> SUFFICES ASSUME Init PROVE H!Init
  OBVIOUS
<1>1. Roots = {Root} /\ Live = {Root}
  BY DEF Init, Roots, Cached, Live
<1> QED
  BY <1>1 DEF Init, H!Init

LEMMA SameAccessible == H!Accessible = Accessible
BY DEF H!Accessible, H!Pinned, H!Reach, H!Closed, Accessible, Pinned, Reach, Closed

\* Every step of the collector is a step of the abstract heap or none.
LEMMA RefinementStep ==
  ASSUME Sound, Books', [Next]_vars, lapses' = {}
  PROVE  [H!Next]_(H!vars)
<1>a. TypeOK /\ TypeOK' /\ Accessible \subseteq Live
  BY DEF Sound, Books, Reached
<1>b. Roots \cup Pinned \subseteq Accessible /\ Accessible \in SUBSET Object
  BY <1>a, AccessibleClosed
<1>c. ASSUME Live' = Live, refs' = refs, pins' = pins, Roots' \subseteq Accessible
      PROVE  H!Next
  BY <1>b, <1>c, SameAccessible DEF H!Next, H!Reroot
<1>d. ASSUME Live' = Live, refs' = refs, pins' = pins, Roots' = Roots
      PROVE  UNCHANGED H!vars
  BY <1>d DEF H!vars
<1>e. ASSUME Live' = Live, pins' = pins, Roots' = Roots, NEW a \in Accessible,
             NEW S \in SUBSET Accessible, refs' = [refs EXCEPT ![a] = S]
      PROVE  H!Relink
  BY <1>e, SameAccessible DEF H!Relink
<1>1. ASSUME NEW o \in Object, Alloc(o) PROVE H!Alloc(o)
  BY <1>1 DEF Alloc, H!Alloc, Live, Roots, Cached
<1>2. ASSUME NEW o \in Object, Pin(o) PROVE H!Pin(o)
  BY <1>2, SameAccessible DEF Pin, H!Pin, Usable, heapVars, Live, Roots, Cached
<1>3. ASSUME NEW o \in Object, Unpin(o) PROVE H!Unpin(o)
  BY <1>3 DEF Unpin, H!Unpin, heapVars, Live, Roots, Cached
<1>15. ASSUME NEW o \in Object, TakeLocal(o) \/ DropLocal(o) \/ WalkLooped(o) PROVE UNCHANGED H!vars
  BY <1>15, <1>d DEF TakeLocal, DropLocal, WalkLooped, mutatorVars, heapVars, Live, Roots, Cached
<1>16. ASSUME NEW t \in Object, NEW u \in Object, NEW a \in Object, Reuse(t, u, a) PROVE H!Revive
  <2>1. UNCHANGED <<Live, pins, Roots>>
    BY <1>16 DEF Reuse, heapVars, Live, Roots, Cached
  <2>2. a \in Accessible /\ u \in Live /\ refs' = [refs EXCEPT ![a] = @ \cup {u}]
    BY <1>16, ReuseLeads DEF Reuse
  <2> DEFINE A == Accessible \cup {u} \cup (refs[u] \cap Carriers)
  <2>3. A \in SUBSET Object /\ A \subseteq Live /\ \A x \in A : refs[x] \subseteq A
    BY <1>16, ReuseLeads
  <2>4. Closed(refs, A)
    BY <2>3 DEF Closed
  <2>5. Reach(refs, {u}) \subseteq Live
    BY <2>3, <2>4, ReachLeast
  <2>6. H!Reach(refs, {u}) \subseteq Live
    BY <2>5 DEF H!Reach, H!Closed, Reach, Closed
  <2> QED
    BY <2>1, <2>2, <2>6, SameAccessible DEF H!Revive
<1>17. ASSUME NEW t \in Object, NEW b \in Object, Resolve(t, b) PROVE H!Relink
  <2>1. Live' = Live /\ pins' = pins /\ Roots' = Roots
    BY <1>17 DEF Resolve, heapVars, Live, Roots, Cached
  <2>2. t \in Accessible /\ {b} \in SUBSET Accessible /\ refs' = [refs EXCEPT ![t] = {b}]
    BY <1>17 DEF Resolve, Usable
  <2> QED
    BY <1>e, <2>1, <2>2
<1>4. ASSUME NEW o \in Object, EnterThread(o) \/ LeaveThread(o) PROVE H!Next
  BY <1>4, <1>b, <1>c DEF EnterThread, LeaveThread, Usable, heapVars, Live, Roots, Cached
<1>5. ASSUME NEW o \in Object, Register(o) PROVE UNCHANGED H!vars
  BY <1>5, <1>d DEF Register, heapVars, Live, Roots, Cached
<1>6. ASSUME NEW a \in Object, NEW b \in Object, Link(a, b) \/ Unlink(a, b) PROVE H!Relink
  <2>1. Live' = Live /\ pins' = pins /\ Roots' = Roots
    BY <1>6 DEF Link, Unlink, heapVars, Live, Roots, Cached
  <2>2. a \in Accessible /\ refs[a] \subseteq Accessible
    BY <1>6, <1>a, AccessibleClosed DEF Link, Unlink, Usable
  <2>3. CASE Link(a, b)
    <3>1. refs' = [refs EXCEPT ![a] = refs[a] \cup {b}] /\ refs[a] \cup {b} \in SUBSET Accessible
      BY <2>2, <2>3 DEF Link, Usable
    <3> QED
      BY <1>e, <2>1, <2>2, <3>1
  <2>4. CASE Unlink(a, b)
    <3>1. refs' = [refs EXCEPT ![a] = refs[a] \ {b}] /\ refs[a] \ {b} \in SUBSET Accessible
      BY <2>2, <2>4 DEF Unlink
    <3> QED
      BY <1>e, <2>1, <2>2, <3>1
  <2> QED
    BY <1>6, <2>3, <2>4
<1>7. ASSUME NEW a \in Object, NEW b \in Object, Instantiate(a, b) PROVE H!Next
  BY <1>7, <1>b, <1>c DEF Instantiate, Usable, heapVars, Live, Roots, Cached
<1>8. CASE StartGc \/ EndMark \/ EndTypeDefs \/ EndPersistent
  BY <1>8, <1>d DEF StartGc, StartSerial, EndMark, EndTypeDefs, EndPersistent, mutatorVars,
     heapVars, Live, Roots, Cached
<1>9. CASE Deinit
  BY <1>9, <1>c DEF Deinit, heapVars, Live, Roots, Cached
<1>10. ASSUME NEW o \in Object, Walk(o) PROVE UNCHANGED H!vars
  BY <1>10, <1>d DEF Walk, mutatorVars, heapVars, Live, Roots, Cached
<1>11. ASSUME NEW o \in Object, SweepTypeDef(o) PROVE H!Free(o)
  <2>1. o \in Live \ Accessible /\ o \in Object \ Accessible
    BY <1>11, UnwalkedInaccessible DEF SweepTypeDef, Sweeping
  <2> QED
    BY <1>11, <1>a, <2>1, FreeAccessible, SameAccessible DEF SweepTypeDef, Free, H!Free
<1>12. ASSUME NEW o \in Object, Sweep(o) PROVE H!Free(o) \/ UNCHANGED H!vars
  <2>1. o \in Object \ Accessible
    BY <1>12, UnwalkedInaccessible DEF Sweep, Sweeping
  <2>2. CASE o \in Live
    BY <1>12, <1>a, <2>1, <2>2, FreeAccessible, SameAccessible DEF Sweep, Free, H!Free
  <2>3. CASE o \notin Live
    BY <1>12, <1>d, <2>3 DEF Sweep, heapVars, Live, Roots, Cached
  <2> QED
    BY <2>2, <2>3
<1>13. CASE EndYoung \/ StartPersistent
  BY <1>13, <1>d, SpliceReached DEF Sound, EndYoung, StartPersistent, Splice, mutatorVars
<1>14. CASE UNCHANGED vars
  BY <1>14, <1>d DEF vars, mutatorVars, heapVars, Live, Roots, Cached
<1> QED
  BY <1>1, <1>2, <1>3, <1>4, <1>5, <1>6, <1>7, <1>8, <1>9, <1>10, <1>11, <1>12, <1>13,
     <1>14, <1>15, <1>16, <1>17 DEF Next, Program, Collect, H!Next

\* The collector implements the abstract heap, until there is a lapse.
THEOREM Refinement == Spec => ImplementsHeap
<1>1. Inv /\ Inv' /\ [Next]_vars => [lapses' = {} => [H!Next]_(H!vars)]_vars
  <2> SUFFICES ASSUME Inv, Inv', [Next]_vars, lapses' = {} PROVE [H!Next]_(H!vars)
    OBVIOUS
  <2>1. Books /\ Books'
    BY DEF Inv
  <2>2. Sound
    BY <2>1, LapsesStay DEF Inv, Books
  <2> QED
    BY <2>1, <2>2, RefinementStep
<1> QED
  BY <1>1, InvHolds, RefinementInit, PTL DEF Spec, ImplementsHeap

-----------------------------------------------------------------------------
(* Progress: what GcEnds rests on besides fairness.  In every phase of a   *)
(* gc() some step is possible (the guards of its steps leave no case out), *)
(* and each of them makes what is left smaller.                            *)

Collecting == pc \in {"mark", "sweepTypeDefs", "sweepAll"}

\* The phases before the end of the gc(), at most: three for each list.
PhasesLeft ==
  (CASE pc = "mark" -> 3 [] pc = "sweepTypeDefs" -> 2 [] pc = "sweepAll" -> 1 [] OTHER -> 0)
  + (IF Collecting /\ collecting = "Young" THEN 3 ELSE 0)

\* What is left to do in the phase.
ToDo ==
  CASE pc = "mark"          -> {o \in Object : status[o] # "Walked"}
    [] pc = "sweepTypeDefs" -> unwalked \cap TypeDefs \cap Live
    [] OTHER                -> unwalked

\* Each step of a gc() ends its phase, or takes something off what is left to do in
\* it and adds nothing - marking, too, although it pushes objects while it walks -
\* as long as no context that may have to be walked refers to its own variables.
CollectionShrinks ==
  [][Collecting /\ looped = {} =>
                   \/ PhasesLeft \in 1..6 /\ PhasesLeft' \in 0 .. PhasesLeft - 1
                   \/ PhasesLeft' = PhasesLeft /\ ToDo' \subseteq ToDo /\ ToDo' # ToDo]_vars

\* A gc() of any number of objects gets on with every step and the program makes none
\* in between: with finitely many objects, it takes finitely many steps.
THEOREM CollectionsShrink == Spec => CollectionShrinks
<1> DEFINE Ends == PhasesLeft \in 1..6 /\ PhasesLeft' \in 0 .. PhasesLeft - 1
           Shrinks == PhasesLeft' = PhasesLeft /\ ToDo' \subseteq ToDo /\ ToDo' # ToDo
           Gets == Collecting /\ looped = {} => Ends \/ Shrinks
<1>1. ASSUME TypeOK, TypeOK', [Next]_vars, ~ UNCHANGED vars, Collecting, looped = {}
      PROVE Ends \/ Shrinks
  <2>a. pc \in Phases /\ collecting \in Generations /\ status \in [Object -> Statuses]
    BY <1>1 DEF TypeOK
  <2>1. ASSUME NEW o \in Object, Walk(o) PROVE Shrinks
    <3>1. pc = "mark" /\ pc' = "mark" /\ collecting' = collecting
      BY <2>1 DEF Walk
    <3>2. status'[o] = "Walked" /\ status[o] # "Walked"
      BY <2>1, <2>a DEF Walk, Push, Statuses
    <3>3. \A x \in Object : status[x] = "Walked" => status'[x] = "Walked"
      BY <2>1, <2>a DEF Walk, Push, Statuses
    <3>4. ToDo = {x \in Object : status[x] # "Walked"} /\ ToDo' = {x \in Object : status'[x] # "Walked"}
      BY <3>1 DEF ToDo
    <3>5. PhasesLeft' = PhasesLeft
      BY <3>1 DEF PhasesLeft, Collecting
    <3>6. o \in ToDo /\ o \notin ToDo' /\ ToDo' \subseteq ToDo
      BY <3>2, <3>3, <3>4
    <3> QED
      BY <3>5, <3>6
  <2>2. ASSUME NEW o \in Object, SweepTypeDef(o) PROVE Shrinks
    <3>1. pc = "sweepTypeDefs" /\ pc' = "sweepTypeDefs" /\ collecting' = collecting
      BY <2>2 DEF SweepTypeDef
    <3>2. PhasesLeft' = PhasesLeft
      BY <3>1 DEF PhasesLeft, Collecting
    <3>3. Live' = Live \ {o} /\ unwalked' \subseteq unwalked /\ o \in unwalked \cap TypeDefs \cap Live
      BY <2>2 DEF SweepTypeDef, Free, Live
    <3>4. ToDo = unwalked \cap TypeDefs \cap Live /\ ToDo' = unwalked' \cap TypeDefs \cap Live'
      BY <3>1 DEF ToDo
    <3>5. o \in ToDo /\ o \notin ToDo' /\ ToDo' \subseteq ToDo
      BY <3>3, <3>4
    <3> QED
      BY <3>2, <3>5
  <2>3. ASSUME NEW o \in Object, Sweep(o) PROVE Shrinks
    <3>1. pc = "sweepAll" /\ pc' = "sweepAll" /\ collecting' = collecting
      BY <2>3 DEF Sweep
    <3>2. PhasesLeft' = PhasesLeft
      BY <3>1 DEF PhasesLeft, Collecting
    <3>3. unwalked' = unwalked \ {o} /\ o \in unwalked
      BY <2>3 DEF Sweep
    <3>4. ToDo = unwalked /\ ToDo' = unwalked'
      BY <3>1 DEF ToDo
    <3> QED
      BY <3>2, <3>3, <3>4
  <2>4. CASE EndMark
    BY <2>4, <2>a DEF EndMark, PhasesLeft, Collecting
  <2>5. CASE EndTypeDefs
    BY <2>5, <2>a DEF EndTypeDefs, PhasesLeft, Collecting
  <2>6. CASE EndYoung
    BY <2>6, <2>a DEF EndYoung, Splice, Swept, PhasesLeft, Collecting
  <2>7. CASE StartPersistent
    BY <2>7, <2>a DEF StartPersistent, Splice, Swept, StartSerial, PhasesLeft, Collecting
  <2>8. CASE EndPersistent
    BY <2>8, <2>a DEF EndPersistent, Swept, PhasesLeft, Collecting
  <2>9. ~ (Program \/ StartGc \/ Deinit)
    BY <1>1 DEF Collecting, Program, StartGc, Deinit, Mutating, Alloc, Pin, Unpin, EnterThread,
       LeaveThread, TakeLocal, DropLocal, Register, Link, Unlink, Instantiate, Resolve, Reuse
  <2> QED
    BY <1>1, <2>1, <2>2, <2>3, <2>4, <2>5, <2>6, <2>7, <2>8, <2>9 DEF Next, Collect, WalkLooped
<1>2. TypeOK /\ TypeOK' /\ [Next]_vars => [Gets]_vars
  BY <1>1
<1> QED
  BY <1>2, TypeCorrect, PTL DEF Spec, CollectionShrinks
=============================================================================
