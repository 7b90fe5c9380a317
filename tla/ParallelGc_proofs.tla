------------------------- MODULE ParallelGc_proofs -------------------------
(***************************************************************************)
(* Proofs about the collector thread, for any number of requests and with  *)
(* or without spurious wake-ups.                                           *)
(***************************************************************************)
EXTENDS ParallelGc, TLAPS

\* What the two threads pass to each other.  A wake-up (a request, or the
\* call to terminate) is either still in is_active or in the hands of the
\* thread.
NotBegun == worker \in {"none", "created", "initial", "begin"}
Woken    == worker \in {"testEnd", "finish", "terminate"}
Resting  == ~is_active /\ ~is_done /\ ~Woken /\ worker # "clearActive"
Pending  == ~is_done /\ (is_active # Woken)
Answered == is_done /\ ~is_active /\ worker \in {"testAck", "notifyDone"}

States ==
  /\ thread_state = "Uninit" <=> NotBegun
  /\ thread_state = "Terminated" <=> worker \in {"unlock", "exited"}
  /\ thread_state = "NotifyTermination" => owner \in {"setActive", "notifyEnd", "awaitEnd"}
  /\ worker = "clearActive" => is_active
  /\ worker = "terminate" => thread_state = "NotifyTermination"

Handshake ==
  /\ owner \in {"construct", "crashed"} => Resting /\ worker = "none"
  /\ owner \in {"start", "idle", "release"} => Resting /\ thread_state # "Terminated"
  /\ owner \in {"notifyActive", "testDone", "waitDone", "waitingDone"} =>
       /\ thread_state \in {"Uninit", "Alive"}
       /\ \/ Pending /\ worker # "terminate" /\ served + 1 = requested
          \/ Answered /\ served = requested
  /\ owner = "clearDone" => Answered
  /\ owner = "setActive" => Resting /\ thread_state = "NotifyTermination"
  /\ owner \in {"notifyEnd", "awaitEnd"} =>
       \/ Pending /\ worker # "finish" /\ thread_state = "NotifyTermination"
       \/ Resting /\ thread_state = "Terminated"
  /\ owner \in {"freeRunnable", "freeThread", "gone"} => Resting
  /\ owner \notin {"notifyActive", "testDone", "waitDone", "waitingDone"} => served = requested

\* The runnable is there from construct_at() to the end of ~Runtime(), and
\* only an owner that overtook the thread gets there before it is through.
Lifetime ==
  /\ runnableLive <=> owner \notin {"construct", "crashed", "freeThread", "gone"}
  /\ owner \in {"setActive", "notifyEnd", "awaitEnd"} => ~NotBegun
  /\ ~overtaken /\ owner \in {"freeRunnable", "freeThread", "gone"} =>
       worker \in {"unlock", "exited"}

Types ==
  /\ owner \in OwnerAt /\ worker \in WorkerAt
  /\ thread_state \in {"Uninit", "Alive", "NotifyTermination", "Terminated"}
  /\ is_active \in BOOLEAN /\ is_done \in BOOLEAN
  /\ runnableLive \in BOOLEAN
  /\ requested \in 0 .. MaxRequests /\ served \in Nat

Inv == Types /\ States /\ Handshake /\ Lifetime

LEMMA InvStep == Inv /\ [Next]_vars => Inv'
<1> SUFFICES ASSUME Inv, [Next]_vars PROVE Inv'
  OBVIOUS
<1> USE ParallelGcAssumption DEF Inv, Types, States, Handshake, Lifetime, NotBegun, Woken,
        Resting, Pending, Answered, OwnerAt, WorkerAt, flags, memory, counts
<1>1. CASE Construct
  BY <1>1 DEF Construct
<1>2. CASE CreateFails
  BY <1>2 DEF CreateFails
<1>3. CASE AllocFails
  BY <1>3 DEF AllocFails
<1>4. CASE Start
  BY <1>4 DEF Start
<1>5. CASE Request
  <2>1. /\ served = requested /\ Resting /\ owner = "idle" /\ thread_state \in {"Uninit", "Alive"}
    BY <1>5 DEF Request
  <2>2. requested' \in 0 .. MaxRequests /\ served' + 1 = requested' /\ served' \in Nat
    BY <1>5, <2>1 DEF Request
  <2>3. Types' /\ States' /\ Lifetime'
    BY <1>5, <2>2 DEF Request
  <2>4. owner' = "notifyActive" /\ Pending' /\ worker' # "terminate"
    BY <1>5, <2>1 DEF Request
  <2> QED
    BY <1>5, <2>1, <2>2, <2>3, <2>4 DEF Request
<1>6. CASE NotifyRequest
  BY <1>6 DEF NotifyRequest, NotifyActive
<1>7. CASE TestDone
  BY <1>7 DEF TestDone
<1>8. CASE WaitDone
  BY <1>8 DEF WaitDone
<1>9. CASE ClearDone
  BY <1>9 DEF ClearDone
<1>10. CASE Release
  BY <1>10 DEF Release
<1>11. CASE TestState
  BY <1>11 DEF TestState
<1>12. CASE SetActive
  BY <1>12 DEF SetActive
<1>13. CASE NotifyEnd
  BY <1>13 DEF NotifyEnd, NotifyActive
<1>14. CASE AwaitEnd
  BY <1>14 DEF AwaitEnd
<1>15. CASE FreeRunnable
  BY <1>15 DEF FreeRunnable
<1>16. CASE FreeThread
  BY <1>16 DEF FreeThread
<1>17. CASE Enter
  BY <1>17 DEF Enter, Goto
<1>18. CASE Initial
  BY <1>18 DEF Initial, Goto
<1>19. CASE Begin
  BY <1>19 DEF Begin, Goto
<1>20. CASE TestActive
  BY <1>20 DEF TestActive, Goto
<1>21. CASE WaitActive
  BY <1>21 DEF WaitActive, Goto
<1>22. CASE ClearActive
  BY <1>22 DEF ClearActive, Goto
<1>23. CASE TestEnd
  BY <1>23 DEF TestEnd, Goto
<1>24. CASE Finish
  <2>1. owner \in {"notifyActive", "testDone", "waitDone", "waitingDone"}
    <3>1. ~Resting /\ ~Answered
      BY <1>24 DEF Finish, Goto
    <3>2. owner \notin {"construct", "crashed", "start", "idle", "release", "clearDone",
                        "setActive", "freeRunnable", "freeThread", "gone"}
      BY <3>1 DEF Inv, Handshake
    <3>3. owner \notin {"notifyEnd", "awaitEnd"}
      BY <1>24, <3>1 DEF Finish, Goto
    <3> QED
      BY <3>2, <3>3
  <2>2. Pending /\ served + 1 = requested
    BY <1>24, <2>1 DEF Finish, Goto
  <2>3. served' = requested' /\ served' \in Nat
    BY <1>24, <2>2 DEF Finish
  <2>4. Types' /\ States' /\ Lifetime'
    BY <1>24, <2>3 DEF Finish, Goto
  <2>5. Answered'
    BY <1>24, <2>2 DEF Finish, Goto
  <2> QED
    BY <1>24, <2>1, <2>3, <2>4, <2>5 DEF Finish
<1>25. CASE TestAck
  BY <1>25 DEF TestAck, Goto
<1>26. CASE NotifyDone
  BY <1>26 DEF NotifyDone, Goto
<1>27. CASE Terminate
  BY <1>27 DEF Terminate, Goto
<1>28. CASE Unlock
  BY <1>28 DEF Unlock, Goto
<1>29. CASE SpuriousWake
  BY <1>29 DEF SpuriousWake, Goto
<1>30. CASE UNCHANGED vars
  BY <1>30 DEF vars
<1> QED
  BY <1>1, <1>2, <1>3, <1>4, <1>5, <1>6, <1>7, <1>8, <1>9, <1>10, <1>11, <1>12, <1>13,
     <1>14, <1>15, <1>16, <1>17, <1>18, <1>19, <1>20, <1>21, <1>22, <1>23, <1>24, <1>25,
     <1>26, <1>27, <1>28, <1>29, <1>30 DEF Next, OwnerStep, WorkerStep

LEMMA InvHolds == Spec => []Inv
<1>1. Init => Inv
  <2> SUFFICES ASSUME Init PROVE Inv
    OBVIOUS
  <2>1. requested \in 0 .. MaxRequests /\ served \in Nat /\ served = requested
    BY ParallelGcAssumption DEF Init
  <2>2. Types
    BY <2>1 DEF Init, Types, OwnerAt, WorkerAt
  <2> QED
    BY <2>1, <2>2 DEF Init, Inv, States, Handshake, Lifetime, NotBegun, Woken, Resting
<1> QED
  BY <1>1, InvStep, PTL DEF Spec

\* The thread never serves more than it was asked for.
LEMMA ServedBounded == Inv => served \in 0 .. MaxRequests
<1> SUFFICES ASSUME Inv PROVE served \in 0 .. MaxRequests
  OBVIOUS
<1>1. requested \in 0 .. MaxRequests /\ served \in Nat /\ MaxRequests \in Nat
  BY ParallelGcAssumption DEF Inv, Types
<1>2. served + 1 = requested \/ served = requested
  BY DEF Inv, Handshake
<1> QED
  BY <1>1, <1>2

\* The flags that only the model or one thread keeps are Booleans after any step.
LEMMA FlagsStep ==
  ASSUME TypeOK, [Next]_vars
  PROVE  /\ threadLive' \in BOOLEAN /\ initialRun' \in BOOLEAN
         /\ missed' \in BOOLEAN /\ overtaken' \in BOOLEAN
<1> USE DEF TypeOK, flags, memory, counts
<1>1. CASE OwnerStep
  BY <1>1, Zenon DEF OwnerStep, Construct, CreateFails, AllocFails, Start, Request, NotifyRequest,
     NotifyActive, TestDone, WaitDone, ClearDone, Release, TestState, SetActive, NotifyEnd,
     AwaitEnd, FreeRunnable, FreeThread
<1>2. CASE WorkerStep
  BY <1>2 DEF WorkerStep, Enter, Initial, Begin, TestActive, WaitActive, ClearActive,
     TestEnd, Finish, TestAck, NotifyDone, Terminate, Unlock
<1>3. CASE SpuriousWake
  BY <1>3 DEF SpuriousWake
<1>4. CASE UNCHANGED vars
  BY <1>4 DEF vars
<1> QED
  BY <1>1, <1>2, <1>3, <1>4 DEF Next

\* The variables keep their types for any number of requests; that no more is
\* served than was requested is due to the handshake.
THEOREM ParallelTyped == Spec => []TypeOK
<1>1. Init => TypeOK
  <2> SUFFICES ASSUME Init PROVE TypeOK
    OBVIOUS
  <2>1. 0 \in 0 .. MaxRequests
    BY ParallelGcAssumption
  <2> QED
    BY <2>1 DEF Init, TypeOK, OwnerAt, WorkerAt
<1>2. Inv' /\ (served \in 0 .. MaxRequests)' /\ TypeOK /\ [Next]_vars => TypeOK'
  BY FlagsStep DEF Inv, Types, TypeOK
<1> QED
  BY <1>1, <1>2, InvHolds, ServedBounded, PTL DEF Spec

\* _release_parallel_gc_resources() frees the runnable only once run() has
\* made its last use of it, when the thread had begun.
THEOREM RunnableSafe == Spec => []RunnableOutlivesThread
<1>1. Inv => RunnableOutlivesThread
  BY DEF Inv, Types, Lifetime, NotBegun, RunnableOutlivesThread, UsesRunnable, OwnerAt, States,
     Handshake, Resting
<1> QED
  BY <1>1, InvHolds, PTL

\* _gc_parallel_heapless() never takes an old acknowledgement for its own.
THEOREM RequestsServed == Spec => []ReturnsServed
<1>1. Inv => ReturnsServed
  BY DEF Inv, Handshake, ReturnsServed
<1> QED
  BY <1>1, InvHolds, PTL

\* The thread's own writes never undo the call to terminate.
THEOREM TerminationKept == Spec => TerminationIsFinal
<1>1. Inv /\ [Next]_vars =>
        [/\ thread_state = "NotifyTermination" => thread_state' # "Alive"
         /\ thread_state = "Terminated" => thread_state' = "Terminated"]_vars
  BY DEF Inv, Types, States, Handshake, NotBegun, Resting, Next, OwnerStep, WorkerStep, Goto,
     Construct, CreateFails, AllocFails, Start, Request, NotifyRequest, NotifyActive,
     TestDone, WaitDone, ClearDone, Release, TestState, SetActive, NotifyEnd, AwaitEnd,
     FreeRunnable, FreeThread, Enter, Initial, Begin, TestActive, WaitActive, ClearActive,
     TestEnd, Finish, TestAck, NotifyDone, Terminate, Unlock, SpuriousWake, flags, vars
<1> QED
  BY <1>1, InvHolds, PTL DEF Spec, TerminationIsFinal

-----------------------------------------------------------------------------
(* Progress: what the liveness properties rest on besides fairness.  While *)
(* the owner waits there is always one thread whose next step can be taken *)
(* and brings the end of the wait nearer, and no step takes it farther     *)
(* away - unless a notification was lost.                                  *)

Waits == owner \in {"testDone", "waitDone", "waitingDone", "awaitEnd"} /\ ~missed

\* The thread is neither blocked nor gone.
Runs == worker \notin {"none", "waitingActive", "exited"} /\ (worker = "initial" => ~initialRun)

\* It is the thread's turn, not the owner's.
WorkerHelps ==
  IF owner = "awaitEnd" THEN thread_state = "NotifyTermination"
                        ELSE ~is_done \/ owner = "waitingDone"

\* The steps the thread takes before it has served the request or terminated
\* and, once it has served it, before it notifies the owner.
StepsLeft ==
  CASE worker = "terminate"   -> 1
    [] worker = "notifyDone"  -> IF is_done THEN 1 ELSE 6
    [] worker = "testAck"     -> IF is_done THEN 2 ELSE 5
    [] worker = "finish"      -> 1
    [] worker = "testEnd"     -> 2
    [] worker = "clearActive" -> 3
    [] worker = "testActive"  -> 4
    [] worker = "begin"       -> 5
    [] worker = "initial"     -> 6
    [] worker = "created"     -> 7
    [] OTHER -> 0

\* The length of the wait, in steps of the thread whose turn it is.
Distance ==
  IF owner = "awaitEnd" THEN IF thread_state = "NotifyTermination" THEN StepsLeft ELSE 0
  ELSE IF ~is_done THEN 4 + StepsLeft
  ELSE CASE owner = "waitDone" -> 4 [] owner = "waitingDone" -> 1 + StepsLeft [] OTHER -> 1

\* The thread whose turn it is can take a step. (The owner always can when it is its
\* turn: none of its steps is guarded then.)
HelperRuns == Waits /\ WorkerHelps => Runs

\* A step of the thread whose turn it is shortens the wait or ends it, any other step
\* leaves its length as it is.
NeverFarther ==
  [][Waits => \/ owner' \in {"clearDone", "freeRunnable"}
              \/ /\ Waits' /\ Distance \in Nat /\ Distance' \in Nat
                 /\ \/ Distance' < Distance
                    \/ /\ Distance' = Distance
                       /\ IF WorkerHelps THEN worker' = worker ELSE owner' = owner]_vars

\* Once the owner has notified it of a request, the thread is past its wait
\* or the notification is lost; and the owner waits for no thread that it has
\* not started.
Notified ==
  /\ is_active /\ owner \notin {"notifyActive", "notifyEnd"} /\ ~missed =>
       worker \notin {"waitActive", "waitingActive"}
  /\ initialRun => owner = "start"
  /\ worker = "none" =>
       owner \in {"construct", "crashed", "release", "freeRunnable", "freeThread", "gone"}

\* No step disturbs it.
LEMMA NotifiedStep == Inv /\ Notified /\ [Next]_vars => Notified'
<1> SUFFICES ASSUME Inv, Notified, [Next]_vars PROVE Notified'
  OBVIOUS
<1> USE DEF Notified, Inv, Types, States, Handshake, NotBegun, Woken, Resting, Pending, Answered,
        OwnerAt, WorkerAt, flags, memory, counts
<1>1. CASE OwnerStep
  BY <1>1 DEF OwnerStep, Construct, CreateFails, AllocFails, Start, Request, NotifyRequest,
     NotifyActive, TestDone, WaitDone, ClearDone, Release, TestState, SetActive, NotifyEnd,
     AwaitEnd, FreeRunnable, FreeThread
<1>2. CASE WorkerStep
  BY <1>2 DEF WorkerStep, Goto, Enter, Initial, Begin, TestActive, WaitActive, ClearActive,
     TestEnd, Finish, TestAck, NotifyDone, Terminate, Unlock
<1>3. CASE SpuriousWake
  BY <1>3 DEF SpuriousWake, Goto
<1>4. CASE UNCHANGED vars
  BY <1>4 DEF vars
<1> QED
  BY <1>1, <1>2, <1>3, <1>4 DEF Next

\* It is an invariant, together with that of the handshake.
LEMMA NotifiedHolds == Spec => [](Inv /\ Notified)
<1>1. Init => Notified
  BY DEF Init, Notified
<1> QED
  BY <1>1, InvHolds, NotifiedStep, PTL DEF Spec

\* While the owner waits for the thread - for a request to be served, or for it to
\* terminate - the thread is not itself waiting for the owner: no deadlock, unless a
\* notification was lost.
THEOREM NoMutualWait == Spec => []HelperRuns
<1>1. Inv /\ Notified => HelperRuns
  BY DEF Inv, Notified, Types, States, Handshake, NotBegun, Woken, Resting, Pending, Answered,
     OwnerAt, WorkerAt, HelperRuns, Waits, WorkerHelps, Runs
<1> QED
  BY <1>1, NotifiedHolds, PTL

\* Where the two threads are while the owner waits.
LEMMA Waiting ==
  ASSUME Inv, Notified, Waits
  PROVE  /\ owner = "awaitEnd" \/ thread_state \in {"Uninit", "Alive"}
         /\ owner = "awaitEnd" => ~is_done
         /\ WorkerHelps => worker \in {"created", "initial", "begin", "testActive", "clearActive",
                                      "testEnd", "finish", "testAck", "notifyDone", "terminate"}
         /\ worker = "terminate" => owner = "awaitEnd" /\ thread_state = "NotifyTermination"
         /\ worker = "finish" => owner # "awaitEnd" /\ ~is_done
         /\ worker = "testActive" /\ WorkerHelps => is_active
         /\ is_done => worker \in {"testAck", "notifyDone"}
BY DEF Inv, Notified, Types, States, Handshake, NotBegun, Woken, Resting, Pending, Answered,
   OwnerAt, WorkerAt, Waits, WorkerHelps

\* The steps left are a small number.
LEMMA StepsLeftIs == StepsLeft \in 0..7
BY DEF StepsLeft

\* The length of a wait is a number.
LEMMA DistanceIs == Distance \in Nat
<1> HIDE DEF StepsLeft
<1> QED
  BY StepsLeftIs DEF Distance

\* The waits end: a step of the thread whose turn it is shortens them, any other
\* step leaves their length as it is. With NoMutualWait, only fairness is missing
\* to RequestReturns and ReleaseReturns.
THEOREM WaitsShorten == Spec => NeverFarther
<1> DEFINE A == Waits => \/ owner' \in {"clearDone", "freeRunnable"}
              \/ /\ Waits' /\ Distance \in Nat /\ Distance' \in Nat
                 /\ \/ Distance' < Distance
                    \/ /\ Distance' = Distance
                       /\ IF WorkerHelps THEN worker' = worker ELSE owner' = owner
<1>1. ASSUME Inv, Notified, [Next]_vars, Waits PROVE A
  <2> USE <1>1, Waiting DEF flags, memory, counts, Waits, WorkerHelps, Distance, StepsLeft
  <2>1. CASE OwnerStep
    BY <2>1 DEF OwnerStep, Construct, CreateFails, AllocFails, Start, Request, NotifyRequest,
     NotifyActive, TestDone, WaitDone, ClearDone, Release, TestState, SetActive, NotifyEnd,
     AwaitEnd, FreeRunnable, FreeThread
  <2>2. CASE WorkerStep
    BY <2>2 DEF WorkerStep, Goto, Enter, Initial, Begin, TestActive, WaitActive, ClearActive,
     TestEnd, Finish, TestAck, NotifyDone, Terminate, Unlock
  <2>3. CASE SpuriousWake
    BY <2>3 DEF SpuriousWake, Goto
  <2>4. CASE UNCHANGED vars
    BY <2>4 DEF vars
  <2> QED
    BY <1>1, <2>1, <2>2, <2>3, <2>4 DEF Next
<1>2. Inv /\ Notified /\ [Next]_vars => [A]_vars
  BY <1>1
<1> QED
  BY <1>2, NotifiedHolds, PTL DEF Spec, NeverFarther

=============================================================================
