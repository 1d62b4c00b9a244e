------------------------------ MODULE AsyncTask ------------------------------
(***************************************************************************)
(* bmalloc's AsyncTask (bmalloc/AsyncTask.h), the thread that runs the     *)
(* scavenger: a detached pthread that sleeps after its work, exits after a *)
(* second of sleep and is created again by the next run().                 *)
(*                                                                         *)
(* Callers are the threads that free memory: they call run() while holding *)
(* the heap's lock (Heap.cpp), and m_function (Heap::concurrentScavenge)   *)
(* takes that lock too.  Every load, exchange and compare_exchange of      *)
(* m_state is a step of its own; the weak compare_exchange may fail        *)
(* although the expected value is there.                                   *)
(***************************************************************************)
EXTENDS Naturals, FiniteSets

CONSTANTS Callers,  \* threads that call run()
          Workers,  \* pthreads that entryPoint may run on
          None      \* no thread

ASSUME ThreadsAssumption ==
    /\ Callers \cap Workers = {}
    /\ None \notin Callers \cup Workers

VARIABLES m_state,
          m_conditionMutex, \* holder, or None
          m_thread,         \* the pthread created last
          heapLock,         \* holder of PerProcess<Heap>::mutex(), or None
          caller,           \* where each caller is
          worker,           \* where each pthread is
          created,          \* the pthread each caller has yet to detach
          detached          \* pthreads that were detached

vars == <<m_state, m_conditionMutex, m_thread, heapLock, caller, worker, created, detached>>

States == {"Exited", "Sleeping", "Running", "Signaled"}

CallerLocations ==
    {"idle", "run", "exchange", "lock", "notify", "create", "detach", "return"}

\* "none": no such thread; "done": returned, not detached yet.
WorkerLocations ==
    {"none", "start", "enter", "function", "finish", "wait", "predicate", "block",
     "blocked", "woken", "timedout", "exit", "done"}

TypeOK ==
    /\ m_state \in States
    /\ m_conditionMutex \in Workers \cup {None}
    /\ m_thread \in Workers \cup {None}
    /\ heapLock \in Callers \cup Workers \cup {None}
    /\ caller \in [Callers -> CallerLocations]
    /\ worker \in [Workers -> WorkerLocations]
    /\ created \in [Callers -> Workers \cup {None}]
    /\ detached \in SUBSET Workers

Init ==
    /\ m_state = "Exited"
    /\ m_conditionMutex = None
    /\ m_thread = None
    /\ heapLock = None
    /\ caller = [c \in Callers |-> "idle"]
    /\ worker = [w \in Workers |-> "none"]
    /\ created = [c \in Callers |-> None]
    /\ detached = {}

-----------------------------------------------------------------------------
(* run() and runSlowCase(), by a thread that holds the heap's lock.         *)

CallerGoes(c, from, to) ==
    /\ caller[c] = from
    /\ caller' = [caller EXCEPT ![c] = to]

\* Mutant: run() is called without the heap's lock.
LockForgotten(c) ==
    /\ CallerGoes(c, "idle", "run")
    /\ UNCHANGED <<m_state, m_conditionMutex, m_thread, heapLock, worker, created, detached>>

\* The caller (a deallocation) takes the heap's lock.
Lock(c) ==
    /\ CallerGoes(c, "idle", "run")
    /\ heapLock = None
    /\ heapLock' = c
    /\ UNCHANGED <<m_state, m_conditionMutex, m_thread, worker, created, detached>>

\* run(): the load of m_state.
Run(c) ==
    /\ CallerGoes(c, "run", IF m_state = "Signaled" THEN "return" ELSE "exchange")
    /\ UNCHANGED <<m_state, m_conditionMutex, m_thread, heapLock, worker, created, detached>>

\* Mutant: the thread that is still running is not recognised.
RunSlowCaseForgetsRunning(c) ==
    /\ CallerGoes(c, "exchange", IF m_state = "Sleeping" THEN "lock"
                                 ELSE IF m_state = "Signaled" THEN "return" ELSE "create")
    /\ m_state' = "Signaled"
    /\ UNCHANGED <<m_conditionMutex, m_thread, heapLock, worker, created, detached>>

\* runSlowCase(): the exchange, and what the old state asks for.
RunSlowCase(c) ==
    /\ CallerGoes(c, "exchange", IF m_state = "Sleeping" THEN "lock"
                                 ELSE IF m_state = "Exited" THEN "create" ELSE "return")
    /\ m_state' = "Signaled"
    /\ UNCHANGED <<m_conditionMutex, m_thread, heapLock, worker, created, detached>>

\* Mutant: the notifier does not pass through m_conditionMutex.
NotifyWithoutLock(c) ==
    /\ CallerGoes(c, "lock", "notify")
    /\ UNCHANGED <<m_state, m_conditionMutex, m_thread, heapLock, worker, created, detached>>

\* lock_guard of m_conditionMutex around nothing: it waits for a holder.
LockUnlockCondition(c) ==
    /\ CallerGoes(c, "lock", "notify")
    /\ m_conditionMutex = None
    /\ UNCHANGED <<m_state, m_conditionMutex, m_thread, heapLock, worker, created, detached>>

\* m_condition.notify_one().
NotifyOne(c) ==
    /\ CallerGoes(c, "notify", "return")
    /\ IF \E w \in Workers : worker[w] = "blocked"
         THEN \E w \in Workers : /\ worker[w] = "blocked"
                                 /\ worker' = [worker EXCEPT ![w] = "woken"]
         ELSE UNCHANGED worker
    /\ UNCHANGED <<m_state, m_conditionMutex, m_thread, heapLock, created, detached>>

\* pthread_create(&m_thread, ...).
PthreadCreate(c) ==
    /\ CallerGoes(c, "create", "detach")
    /\ \E w \in Workers :
          /\ worker[w] = "none"
          /\ worker' = [worker EXCEPT ![w] = "start"]
          /\ m_thread' = w
          /\ created' = [created EXCEPT ![c] = w]
    /\ UNCHANGED <<m_state, m_conditionMutex, heapLock, detached>>

\* pthread_detach(m_thread): a thread that has returned is then gone.
PthreadDetach(c) ==
    /\ CallerGoes(c, "detach", "return")
    /\ created' = [created EXCEPT ![c] = None]
    /\ IF worker[m_thread] = "done"
         THEN /\ worker' = [worker EXCEPT ![m_thread] = "none"]
              /\ UNCHANGED detached
         ELSE /\ detached' = detached \cup {m_thread}
              /\ UNCHANGED worker
    /\ UNCHANGED <<m_state, m_conditionMutex, m_thread, heapLock>>

\* The deallocation unlocks the heap.
Unlock(c) ==
    /\ CallerGoes(c, "return", "idle")
    /\ heapLock' = None
    /\ UNCHANGED <<m_state, m_conditionMutex, m_thread, worker, created, detached>>

-----------------------------------------------------------------------------
(* entryPoint().                                                            *)

WorkerGoes(w, from, to) ==
    /\ worker[w] = from
    /\ worker' = [worker EXCEPT ![w] = to]

\* compare_exchange_weak(expected, desired), then `yes' or `no'.
CompareExchangeWeak(w, at, expected, desired, yes, no) ==
    \/ /\ m_state = expected
       /\ m_state' = desired
       /\ WorkerGoes(w, at, yes)
    \/ /\ WorkerGoes(w, at, no)
       /\ UNCHANGED m_state

\* The top of the loop: a request is taken.
TakeRequest(w) ==
    /\ CompareExchangeWeak(w, "start", "Signaled", "Running", "enter", "finish")
    /\ UNCHANGED <<m_conditionMutex, m_thread, heapLock, caller, created, detached>>

\* m_function begins: concurrentScavenge takes the heap's lock.
EnterFunction(w) ==
    /\ WorkerGoes(w, "enter", "function")
    /\ heapLock = None
    /\ heapLock' = w
    /\ UNCHANGED <<m_state, m_conditionMutex, m_thread, caller, created, detached>>

\* concurrentScavenge gives the lock up around every madvise and sleep.
YieldHeapLock(w) ==
    /\ WorkerGoes(w, "function", "enter")
    /\ heapLock' = None
    /\ UNCHANGED <<m_state, m_conditionMutex, m_thread, caller, created, detached>>

\* m_function returns.
LeaveFunction(w) ==
    /\ WorkerGoes(w, "function", "finish")
    /\ heapLock' = None
    /\ UNCHANGED <<m_state, m_conditionMutex, m_thread, caller, created, detached>>

\* No request came meanwhile: go to sleep.
GoToSleep(w) ==
    /\ CompareExchangeWeak(w, "finish", "Running", "Sleeping", "wait", "exit")
    /\ UNCHANGED <<m_conditionMutex, m_thread, heapLock, caller, created, detached>>

\* unique_lock of m_conditionMutex, also when wait_for wakes up.
LockCondition(w) ==
    /\ \/ WorkerGoes(w, "wait", "predicate")
       \/ WorkerGoes(w, "woken", "predicate")
    /\ m_conditionMutex = None
    /\ m_conditionMutex' = w
    /\ UNCHANGED <<m_state, m_thread, heapLock, caller, created, detached>>

\* wait_for evaluates its predicate with the mutex held.
CheckPredicate(w) ==
    /\ WorkerGoes(w, "predicate", IF m_state # "Sleeping" THEN "exit" ELSE "block")
    /\ m_conditionMutex' = IF m_state # "Sleeping" THEN None ELSE w
    /\ UNCHANGED <<m_state, m_thread, heapLock, caller, created, detached>>

\* It releases the mutex and blocks, in one step.
Block(w) ==
    /\ WorkerGoes(w, "block", "blocked")
    /\ m_conditionMutex' = None
    /\ UNCHANGED <<m_state, m_thread, heapLock, caller, created, detached>>

\* A spurious wake-up, or the end of exitDelay.
WakeUnnotified(w) ==
    /\ WorkerGoes(w, "blocked", "woken")
    /\ UNCHANGED <<m_state, m_conditionMutex, m_thread, heapLock, caller, created, detached>>

ExitDelayPasses(w) ==
    /\ WorkerGoes(w, "blocked", "timedout")
    /\ UNCHANGED <<m_state, m_conditionMutex, m_thread, heapLock, caller, created, detached>>

\* After the delay wait_for returns whatever its predicate says.
LeaveWait(w) ==
    /\ WorkerGoes(w, "timedout", "exit")
    /\ m_conditionMutex = None
    /\ UNCHANGED <<m_state, m_conditionMutex, m_thread, heapLock, caller, created, detached>>

\* Mutant: expectedState is not reset, so the exchange never succeeds.
ExitExpectsRunning(w) ==
    /\ WorkerGoes(w, "exit", "start")
    /\ UNCHANGED <<m_state, m_conditionMutex, m_thread, heapLock, caller, created, detached>>

\* Mutant: the thread stores Exited without comparing.
ExitStores(w) ==
    /\ m_state' = "Exited"
    /\ WorkerGoes(w, "exit", IF w \in detached THEN "none" ELSE "done")
    /\ detached' = detached \ {w}
    /\ UNCHANGED <<m_conditionMutex, m_thread, heapLock, caller, created>>

\* The bottom of the loop: the thread returns if it is still asleep.
Exit(w) ==
    /\ \/ /\ m_state = "Sleeping"
          /\ m_state' = "Exited"
          /\ WorkerGoes(w, "exit", IF w \in detached THEN "none" ELSE "done")
          /\ detached' = detached \ {w}
       \/ /\ WorkerGoes(w, "exit", "start")
          /\ UNCHANGED <<m_state, detached>>
    /\ UNCHANGED <<m_conditionMutex, m_thread, heapLock, caller, created>>

-----------------------------------------------------------------------------
CallerNext(c) ==
    \/ Lock(c) \/ Run(c) \/ RunSlowCase(c) \/ LockUnlockCondition(c) \/ NotifyOne(c)
    \/ PthreadCreate(c) \/ PthreadDetach(c) \/ Unlock(c)

WorkerNext(w) ==
    \/ TakeRequest(w) \/ EnterFunction(w) \/ YieldHeapLock(w) \/ LeaveFunction(w)
    \/ GoToSleep(w) \/ LockCondition(w) \/ CheckPredicate(w) \/ Block(w)
    \/ WakeUnnotified(w) \/ ExitDelayPasses(w) \/ LeaveWait(w) \/ Exit(w)

Next == (\E c \in Callers : CallerNext(c)) \/ (\E w \in Workers : WorkerNext(w))

Spec == Init /\ [][Next]_vars

\* Threads that can move do; a lock that is free again and again is obtained;
\* a compare_exchange_weak does not fail spuriously for ever; m_function ends;
\* wait_for has an absolute deadline, so spurious wake-ups do not postpone it.
Fairness ==
    /\ \A c \in Callers : SF_vars(CallerNext(c) /\ caller[c] # "idle")
    /\ \A w \in Workers :
          /\ SF_vars(WorkerNext(w) /\ worker[w] # "blocked")
          /\ SF_vars(ExitDelayPasses(w))
          /\ SF_vars(LeaveFunction(w))
          /\ SF_vars((TakeRequest(w) \/ GoToSleep(w) \/ Exit(w)) /\ m_state' # m_state)

FairSpec == Spec /\ Fairness

-----------------------------------------------------------------------------
Alive(w) == worker[w] \notin {"none", "done"}

(* There is never more than one thread in entryPoint, and Exited means that  *)
(* there is none and none is being created, so that the next run() creates   *)
(* exactly one.                                                              *)
OneWorker ==
    /\ \A v, w \in Workers : Alive(v) /\ Alive(w) => v = w
    /\ m_state = "Exited" <=> /\ \A w \in Workers : ~Alive(w)
                             /\ \A c \in Callers : caller[c] # "create"

(* A request does not have to sit out exitDelay: while the thread is blocked *)
(* (or about to be) although a request was made, the requester is still on   *)
(* its way to notify it.                                                     *)
PromptWakeup ==
    (\E w \in Workers : worker[w] \in {"block", "blocked"}) /\ m_state = "Signaled"
        => \E c \in Callers : caller[c] \in {"lock", "notify"}

(* pthread_detach(m_thread) detaches the thread that this call created: the  *)
(* member was not overwritten by another run() in between.                   *)
DetachesOwnThread ==
    \A c \in Callers : caller[c] = "detach" => m_thread = created[c]

T == INSTANCE Task WITH
        requested <- m_state = "Signaled",
        executing <- \E w \in Workers : worker[w] \in {"enter", "function"}

(* The task serves its callers as Task promises: every request is followed  *)
(* by a start of the function, one at a time, despite spurious failures,    *)
(* time-outs and exits of the thread.                                       *)
ImplementsTask == T!Spec

(* When the requests cease, so does the thread.                             *)
IdleThreadExits ==
    <>[](\A c \in Callers : caller[c] = "idle") => <>[](m_state = "Exited")
=============================================================================
