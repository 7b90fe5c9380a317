----------------------------- MODULE ParallelGc -----------------------------
(***************************************************************************)
(* The life of the collector thread that every runtime owns               *)
(* (src/slake/rt/gc_heapless.cc, src/slake/plat/unix/thread.cc): two       *)
(* threads that share plain flags and two condition variables.             *)
(*                                                                         *)
(* The owner allocates the runnable and the thread, starts it, hands it    *)
(* requests (_gc_parallel_heapless; what the thread would do with one is a *)
(* TODO in the code) and takes it down in ~Runtime().  Cond::wait() does   *)
(* not hold the mutex while the flag is tested, so a notification that     *)
(* comes between the test and the wait is lost: `missed' records that.     *)
(***************************************************************************)
EXTENDS Naturals

CONSTANTS
  MaxRequests,  \* bound on the requests of the owner
  Spurious      \* pthread_cond_wait() may return without a notification

ASSUME ParallelGcAssumption ==
  MaxRequests \in Nat /\ Spurious \in BOOLEAN

VARIABLES
  owner,         \* where the owner is
  worker,        \* where the thread is
  thread_state,  \* ParallelGcThreadRunnable::thread_state
  is_active, is_done,
  runnableLive,  \* the ParallelGcThreadRunnable is allocated
  threadLive,    \* the Thread is allocated
  initialRun,    \* Thread::_initial_run_mutex is locked by the owner
  requested,     \* the requests made so far
  served,        \* the requests the thread has finished
  missed,        \* a notification found the thread about to wait for it
  overtaken      \* the owner took the thread down before it had begun

flags    == <<thread_state, is_active, is_done>>
memory   == <<runnableLive, threadLive, initialRun>>
counts   == <<requested, served, missed, overtaken>>
vars     == <<owner, worker, flags, memory, counts>>

\* After "notifyActive" and "setActive" come the steps of _gc_parallel_heapless()
\* and of _release_parallel_gc_resources().
OwnerAt  == {"construct", "start", "idle", "notifyActive", "testDone", "waitDone",
             "waitingDone", "clearDone", "release", "setActive", "notifyEnd", "awaitEnd",
             "freeRunnable", "freeThread", "gone", "crashed"}
WorkerAt == {"none", "created", "initial", "begin", "testActive", "waitActive",
             "waitingActive", "clearActive", "testEnd", "finish", "testAck", "notifyDone",
             "terminate", "unlock", "exited"}

\* Where the next step of the thread uses the runnable.
UsesRunnable == {"begin", "testActive", "waitActive", "waitingActive", "clearActive",
                 "testEnd", "finish", "testAck", "notifyDone", "terminate"}

Init ==
  /\ owner = "construct" /\ worker = "none"
  /\ thread_state = "Uninit" /\ is_active = FALSE /\ is_done = FALSE
  /\ runnableLive = FALSE /\ threadLive = FALSE /\ initialRun = FALSE
  /\ requested = 0 /\ served = 0 /\ missed = FALSE /\ overtaken = FALSE

-----------------------------------------------------------------------------
(* The owner.                                                              *)

\* construct_at(), _alloc_parallel_gc_resources() and Thread::alloc() when
\* every allocation succeeds.
Construct ==
  /\ owner = "construct"
  /\ runnableLive' = TRUE /\ threadLive' = TRUE /\ initialRun' = TRUE
  /\ worker' = "created"
  /\ owner' = "start"
  /\ UNCHANGED <<flags, counts>>

\* pthread_create() fails: construct_at() destroys the runtime again.
CreateFails ==
  /\ owner = "construct"
  /\ runnableLive' = TRUE
  /\ owner' = "release"
  /\ UNCHANGED <<worker, flags, threadLive, initialRun, counts>>

\* An allocation fails: ~Runtime() reads the state of a runnable that is not
\* there, or Thread::alloc() locks the mutex of a thread that is not there.
AllocFails ==
  /\ owner = "construct"
  /\ owner' = "crashed"
  /\ UNCHANGED <<worker, flags, memory, counts>>

Start ==
  /\ owner = "start"
  /\ initialRun' = FALSE
  /\ owner' = "idle"
  /\ UNCHANGED <<worker, flags, runnableLive, threadLive, counts>>

\* A notification wakes the other thread when it is waiting.
NotifyActive ==
  /\ worker' = IF worker = "waitingActive" THEN "testActive" ELSE worker
  /\ missed' = (missed \/ worker = "waitActive")

Request ==
  /\ owner = "idle" /\ requested < MaxRequests
  /\ is_active' = TRUE
  /\ requested' = requested + 1
  /\ owner' = "notifyActive"
  /\ UNCHANGED <<worker, thread_state, is_done, memory, served, missed, overtaken>>

NotifyRequest ==
  /\ owner = "notifyActive"
  /\ NotifyActive
  /\ owner' = "testDone"
  /\ UNCHANGED <<flags, memory, requested, served, overtaken>>

TestDone ==
  /\ owner = "testDone"
  /\ owner' = IF is_done THEN "clearDone" ELSE "waitDone"
  /\ UNCHANGED <<worker, flags, memory, counts>>

WaitDone ==
  /\ owner = "waitDone"
  /\ owner' = "waitingDone"
  /\ UNCHANGED <<worker, flags, memory, counts>>

\* Mutant: is_done stays set.
ClearDoneForgotten ==
  /\ owner = "clearDone"
  /\ owner' = "idle"
  /\ UNCHANGED <<worker, flags, memory, counts>>

ClearDone ==
  /\ owner = "clearDone"
  /\ is_done' = FALSE
  /\ owner' = "idle"
  /\ UNCHANGED <<worker, thread_state, is_active, memory, counts>>

\* ~Runtime().
Release ==
  /\ owner = "idle"
  /\ owner' = "release"
  /\ UNCHANGED <<worker, flags, memory, counts>>

\* Mutant: the thread is told to terminate before it has begun, too.
TestStateAlways ==
  /\ owner = "release"
  /\ thread_state' = "NotifyTermination"
  /\ owner' = "setActive"
  /\ overtaken' = (thread_state = "Uninit")
  /\ UNCHANGED <<worker, is_active, is_done, memory, requested, served, missed>>

TestState ==
  /\ owner = "release"
  /\ IF thread_state = "Uninit"
     THEN owner' = "freeRunnable" /\ UNCHANGED flags
     ELSE /\ thread_state' = "NotifyTermination"
          /\ owner' = "setActive"
          /\ UNCHANGED <<is_active, is_done>>
  /\ overtaken' = (thread_state = "Uninit")
  /\ UNCHANGED <<worker, memory, requested, served, missed>>

\* Mutant: the thread is woken without a reason to leave its loop.
SetActiveForgotten ==
  /\ owner = "setActive"
  /\ owner' = "notifyEnd"
  /\ UNCHANGED <<worker, flags, memory, counts>>

SetActive ==
  /\ owner = "setActive"
  /\ is_active' = TRUE
  /\ owner' = "notifyEnd"
  /\ UNCHANGED <<worker, thread_state, is_done, memory, counts>>

NotifyEnd ==
  /\ owner = "notifyEnd"
  /\ NotifyActive
  /\ owner' = "awaitEnd"
  /\ UNCHANGED <<flags, memory, requested, served, overtaken>>

\* Mutant: the owner does not wait for the thread.
AwaitNothing ==
  /\ owner = "awaitEnd"
  /\ owner' = "freeRunnable"
  /\ UNCHANGED <<worker, flags, memory, counts>>

AwaitEnd ==
  /\ owner = "awaitEnd"
  /\ thread_state # "NotifyTermination"
  /\ owner' = "freeRunnable"
  /\ UNCHANGED <<worker, flags, memory, counts>>

FreeRunnable ==
  /\ owner = "freeRunnable"
  /\ runnableLive' = FALSE
  /\ owner' = "freeThread"
  /\ UNCHANGED <<worker, flags, threadLive, initialRun, counts>>

FreeThread ==
  /\ owner = "freeThread"
  /\ threadLive' = FALSE
  /\ owner' = "gone"
  /\ UNCHANGED <<worker, flags, runnableLive, initialRun, counts>>

-----------------------------------------------------------------------------
(* The thread.  A step from `here' to `there' that leaves the rest alone:  *)

Goto(here, there) == worker = here /\ worker' = there

\* _thread_wrapper_proc(): it takes its own _done_mutex, which nobody else
\* ever locks, and waits for start().
Enter ==
  /\ Goto("created", "initial")
  /\ UNCHANGED <<owner, flags, memory, counts>>

Initial ==
  /\ ~initialRun
  /\ Goto("initial", "begin")
  /\ UNCHANGED <<owner, flags, memory, counts>>

\* run().
Begin ==
  /\ Goto("begin", "testActive")
  /\ thread_state' = "Alive"
  /\ UNCHANGED <<owner, is_active, is_done, memory, counts>>

TestActive ==
  /\ Goto("testActive", IF is_active THEN "clearActive" ELSE "waitActive")
  /\ UNCHANGED <<owner, flags, memory, counts>>

WaitActive ==
  /\ Goto("waitActive", "waitingActive")
  /\ UNCHANGED <<owner, flags, memory, counts>>

\* Mutant: the request stays pending.
ClearActiveForgotten ==
  /\ Goto("clearActive", "testEnd")
  /\ UNCHANGED <<owner, flags, memory, counts>>

ClearActive ==
  /\ Goto("clearActive", "testEnd")
  /\ is_active' = FALSE
  /\ UNCHANGED <<owner, thread_state, is_done, memory, counts>>

TestEnd ==
  /\ Goto("testEnd", IF thread_state = "NotifyTermination" THEN "terminate" ELSE "finish")
  /\ UNCHANGED <<owner, flags, memory, counts>>

Finish ==
  /\ Goto("finish", "testAck")
  /\ is_done' = TRUE
  /\ served' = served + 1
  /\ UNCHANGED <<owner, thread_state, is_active, memory, requested, missed, overtaken>>

\* The notification is repeated until the owner has seen is_done.
TestAck ==
  /\ Goto("testAck", IF is_done THEN "notifyDone" ELSE "testActive")
  /\ UNCHANGED <<owner, flags, memory, counts>>

\* Mutant: one notification only.
NotifyDoneOnce ==
  /\ Goto("notifyDone", "testActive")
  /\ owner' = IF owner = "waitingDone" THEN "testDone" ELSE owner
  /\ UNCHANGED <<flags, memory, counts>>

NotifyDone ==
  /\ Goto("notifyDone", "testAck")
  /\ owner' = IF owner = "waitingDone" THEN "testDone" ELSE owner
  /\ UNCHANGED <<flags, memory, counts>>

Terminate ==
  /\ Goto("terminate", "unlock")
  /\ thread_state' = "Terminated"
  /\ UNCHANGED <<owner, is_active, is_done, memory, counts>>

\* The wrapper's guard unlocks _done_mutex.
Unlock ==
  /\ Goto("unlock", "exited")
  /\ UNCHANGED <<owner, flags, memory, counts>>

\* POSIX lets a wait return at any time.
SpuriousWake ==
  /\ Spurious
  /\ \/ Goto("waitingActive", "testActive") /\ UNCHANGED owner
     \/ owner = "waitingDone" /\ owner' = "testDone" /\ UNCHANGED worker
  /\ UNCHANGED <<flags, memory, counts>>

-----------------------------------------------------------------------------

OwnerStep ==
  \/ Construct \/ CreateFails \/ AllocFails \/ Start
  \/ Request \/ NotifyRequest \/ TestDone \/ WaitDone \/ ClearDone
  \/ Release \/ TestState \/ SetActive \/ NotifyEnd \/ AwaitEnd \/ FreeRunnable \/ FreeThread

WorkerStep ==
  \/ Enter \/ Initial \/ Begin \/ TestActive \/ WaitActive \/ ClearActive \/ TestEnd
  \/ Finish \/ TestAck \/ NotifyDone \/ Terminate \/ Unlock

Next == OwnerStep \/ WorkerStep \/ SpuriousWake

Spec == Init /\ [][Next]_vars

\* The scheduler runs both threads; nothing promises a spurious wake-up.
FairSpec == Spec /\ WF_vars(OwnerStep) /\ WF_vars(WorkerStep)

-----------------------------------------------------------------------------
(* Correctness.                                                            *)

TypeOK ==
  /\ owner \in OwnerAt /\ worker \in WorkerAt
  /\ thread_state \in {"Uninit", "Alive", "NotifyTermination", "Terminated"}
  /\ is_active \in BOOLEAN /\ is_done \in BOOLEAN
  /\ runnableLive \in BOOLEAN /\ threadLive \in BOOLEAN /\ initialRun \in BOOLEAN
  /\ requested \in 0 .. MaxRequests /\ served \in 0 .. MaxRequests
  /\ missed \in BOOLEAN /\ overtaken \in BOOLEAN

(***************************************************************************)
(* _release_parallel_gc_resources() frees the runnable only once run() has *)
(* made its last use of it - if the thread has begun by then: before that  *)
(* its state is still Uninit and the owner does not wait.                  *)
(***************************************************************************)
RunnableOutlivesThread ==
  ~overtaken /\ worker \in UsesRunnable => runnableLive

(***************************************************************************)
(* The request to terminate is never lost to the thread's own writes of    *)
(* thread_state, in whichever order the two threads run.                   *)
(***************************************************************************)
TerminationIsFinal ==
  [][/\ thread_state = "NotifyTermination" => thread_state' # "Alive"
     /\ thread_state = "Terminated" => thread_state' = "Terminated"]_vars

(***************************************************************************)
(* _gc_parallel_heapless() returns only after its own request was served:  *)
(* neither a late acknowledgement of the previous one nor a flag that was  *)
(* set twice is taken for it.                                              *)
(***************************************************************************)
ReturnsServed == owner \in {"idle", "clearDone"} => served = requested

(***************************************************************************)
(* A request returns, and ~Runtime() gets past the thread, unless the      *)
(* notification was lost between the thread's test and its wait.           *)
(***************************************************************************)
RequestReturns == (owner = "notifyActive") ~> (owner = "idle" \/ missed)
ReleaseReturns == (owner = "setActive") ~> (owner = "gone" \/ missed)

=============================================================================
