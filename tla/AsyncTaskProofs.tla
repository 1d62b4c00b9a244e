--------------------------- MODULE AsyncTaskProofs ---------------------------
(***************************************************************************)
(* Proofs about AsyncTask, for any number of callers and pthreads.         *)
(***************************************************************************)
EXTENDS AsyncTask, TLAPS

\* A caller reaches pthread_detach only after its pthread_create, so that
\* m_thread names a thread.
DetachInv == \A c \in Callers : caller[c] = "detach" => m_thread \in Workers

\* Every step of callers and workers keeps the types.
LEMMA TypeStep ==
    ASSUME TypeOK /\ DetachInv, [Next]_vars
    PROVE  (TypeOK /\ DetachInv)'
<1> USE ThreadsAssumption DEF TypeOK, DetachInv, States, CallerLocations, WorkerLocations
<1>1. ASSUME NEW c \in Callers, Lock(c) PROVE (TypeOK /\ DetachInv)'
  BY <1>1 DEF Lock, CallerGoes
<1>2. ASSUME NEW c \in Callers, Run(c) PROVE (TypeOK /\ DetachInv)'
  BY <1>2 DEF Run, CallerGoes
<1>3. ASSUME NEW c \in Callers, RunSlowCase(c) PROVE (TypeOK /\ DetachInv)'
  BY <1>3 DEF RunSlowCase, CallerGoes
<1>4. ASSUME NEW c \in Callers, LockUnlockCondition(c) PROVE (TypeOK /\ DetachInv)'
  BY <1>4 DEF LockUnlockCondition, CallerGoes
<1>5. ASSUME NEW c \in Callers, NotifyOne(c) PROVE (TypeOK /\ DetachInv)'
  BY <1>5 DEF NotifyOne, CallerGoes
<1>6. ASSUME NEW c \in Callers, PthreadCreate(c) PROVE (TypeOK /\ DetachInv)'
  BY <1>6 DEF PthreadCreate, CallerGoes
<1>7. ASSUME NEW c \in Callers, PthreadDetach(c) PROVE (TypeOK /\ DetachInv)'
  BY <1>7 DEF PthreadDetach, CallerGoes
<1>8. ASSUME NEW c \in Callers, Unlock(c) PROVE (TypeOK /\ DetachInv)'
  BY <1>8 DEF Unlock, CallerGoes
<1>9. ASSUME NEW w \in Workers, TakeRequest(w) PROVE (TypeOK /\ DetachInv)'
  BY <1>9 DEF TakeRequest, WorkerGoes, CompareExchangeWeak
<1>10. ASSUME NEW w \in Workers, EnterFunction(w) PROVE (TypeOK /\ DetachInv)'
  BY <1>10 DEF EnterFunction, WorkerGoes
<1>11. ASSUME NEW w \in Workers, YieldHeapLock(w) PROVE (TypeOK /\ DetachInv)'
  BY <1>11 DEF YieldHeapLock, WorkerGoes
<1>12. ASSUME NEW w \in Workers, LeaveFunction(w) PROVE (TypeOK /\ DetachInv)'
  BY <1>12 DEF LeaveFunction, WorkerGoes
<1>13. ASSUME NEW w \in Workers, GoToSleep(w) PROVE (TypeOK /\ DetachInv)'
  BY <1>13 DEF GoToSleep, WorkerGoes, CompareExchangeWeak
<1>14. ASSUME NEW w \in Workers, LockCondition(w) PROVE (TypeOK /\ DetachInv)'
  BY <1>14 DEF LockCondition, WorkerGoes
<1>15. ASSUME NEW w \in Workers, CheckPredicate(w) PROVE (TypeOK /\ DetachInv)'
  BY <1>15 DEF CheckPredicate, WorkerGoes
<1>16. ASSUME NEW w \in Workers, Block(w) PROVE (TypeOK /\ DetachInv)'
  BY <1>16 DEF Block, WorkerGoes
<1>17. ASSUME NEW w \in Workers, WakeUnnotified(w) PROVE (TypeOK /\ DetachInv)'
  BY <1>17 DEF WakeUnnotified, WorkerGoes
<1>18. ASSUME NEW w \in Workers, ExitDelayPasses(w) PROVE (TypeOK /\ DetachInv)'
  BY <1>18 DEF ExitDelayPasses, WorkerGoes
<1>19. ASSUME NEW w \in Workers, LeaveWait(w) PROVE (TypeOK /\ DetachInv)'
  BY <1>19 DEF LeaveWait, WorkerGoes
<1>20. ASSUME NEW w \in Workers, Exit(w) PROVE (TypeOK /\ DetachInv)'
  BY <1>20 DEF Exit, WorkerGoes
<1>21. CASE UNCHANGED vars
  BY <1>21 DEF vars
<1> QED BY <1>1, <1>2, <1>3, <1>4, <1>5, <1>6, <1>7, <1>8, <1>9, <1>10, <1>11,
           <1>12, <1>13, <1>14, <1>15, <1>16, <1>17, <1>18, <1>19, <1>20,
           <1>21
           DEF Next, CallerNext, WorkerNext

\* The task's own state, the callers and the threads stay well-formed.
THEOREM TypeCorrect == Spec => [](TypeOK /\ DetachInv)
<1>1. Init => TypeOK /\ DetachInv
  BY DEF Init, TypeOK, DetachInv, States, CallerLocations, WorkerLocations
<1>2. (TypeOK /\ DetachInv) /\ [Next]_vars => (TypeOK /\ DetachInv)'
  BY TypeStep
<1> QED BY <1>1, <1>2, PTL DEF Spec

-----------------------------------------------------------------------------
\* The strengthening of OneWorker: the caller that is about to create a thread
\* is the only one, and there is no thread yet.
WorkerInv ==
    /\ OneWorker
    /\ \A c \in Callers : caller[c] = "create" =>
          /\ \A w \in Workers : ~Alive(w)
          /\ \A d \in Callers : caller[d] = "create" => d = c

\* Every step keeps one worker at most between its start and its exit.
LEMMA WorkerStep ==
    ASSUME TypeOK /\ DetachInv, WorkerInv, [Next]_vars
    PROVE  WorkerInv'
<1> USE DEF TypeOK, DetachInv, States, CallerLocations, WorkerLocations,
            WorkerInv, OneWorker, Alive
<1>1. ASSUME NEW c \in Callers, Lock(c) PROVE WorkerInv'
  BY <1>1 DEF Lock, CallerGoes
<1>2. ASSUME NEW c \in Callers, Run(c) PROVE WorkerInv'
  BY <1>2 DEF Run, CallerGoes
<1>3. ASSUME NEW c \in Callers, RunSlowCase(c) PROVE WorkerInv'
  BY <1>3 DEF RunSlowCase, CallerGoes
<1>4. ASSUME NEW c \in Callers, LockUnlockCondition(c) PROVE WorkerInv'
  BY <1>4 DEF LockUnlockCondition, CallerGoes
<1>5. ASSUME NEW c \in Callers, NotifyOne(c) PROVE WorkerInv'
  BY <1>5 DEF NotifyOne, CallerGoes
<1>6. ASSUME NEW c \in Callers, PthreadCreate(c) PROVE WorkerInv'
  BY <1>6 DEF PthreadCreate, CallerGoes
<1>7. ASSUME NEW c \in Callers, PthreadDetach(c) PROVE WorkerInv'
  BY <1>7 DEF PthreadDetach, CallerGoes
<1>8. ASSUME NEW c \in Callers, Unlock(c) PROVE WorkerInv'
  BY <1>8 DEF Unlock, CallerGoes
<1>9. ASSUME NEW w \in Workers, TakeRequest(w) PROVE WorkerInv'
  BY <1>9 DEF TakeRequest, WorkerGoes, CompareExchangeWeak
<1>10. ASSUME NEW w \in Workers, EnterFunction(w) PROVE WorkerInv'
  BY <1>10 DEF EnterFunction, WorkerGoes
<1>11. ASSUME NEW w \in Workers, YieldHeapLock(w) PROVE WorkerInv'
  BY <1>11 DEF YieldHeapLock, WorkerGoes
<1>12. ASSUME NEW w \in Workers, LeaveFunction(w) PROVE WorkerInv'
  BY <1>12 DEF LeaveFunction, WorkerGoes
<1>13. ASSUME NEW w \in Workers, GoToSleep(w) PROVE WorkerInv'
  BY <1>13 DEF GoToSleep, WorkerGoes, CompareExchangeWeak
<1>14. ASSUME NEW w \in Workers, LockCondition(w) PROVE WorkerInv'
  BY <1>14 DEF LockCondition, WorkerGoes
<1>15. ASSUME NEW w \in Workers, CheckPredicate(w) PROVE WorkerInv'
  BY <1>15 DEF CheckPredicate, WorkerGoes
<1>16. ASSUME NEW w \in Workers, Block(w) PROVE WorkerInv'
  BY <1>16 DEF Block, WorkerGoes
<1>17. ASSUME NEW w \in Workers, WakeUnnotified(w) PROVE WorkerInv'
  BY <1>17 DEF WakeUnnotified, WorkerGoes
<1>18. ASSUME NEW w \in Workers, ExitDelayPasses(w) PROVE WorkerInv'
  BY <1>18 DEF ExitDelayPasses, WorkerGoes
<1>19. ASSUME NEW w \in Workers, LeaveWait(w) PROVE WorkerInv'
  BY <1>19 DEF LeaveWait, WorkerGoes
<1>20. ASSUME NEW w \in Workers, Exit(w) PROVE WorkerInv'
  BY <1>20 DEF Exit, WorkerGoes
<1>21. CASE UNCHANGED vars
  BY <1>21 DEF vars
<1> QED BY <1>1, <1>2, <1>3, <1>4, <1>5, <1>6, <1>7, <1>8, <1>9, <1>10, <1>11,
           <1>12, <1>13, <1>14, <1>15, <1>16, <1>17, <1>18, <1>19, <1>20,
           <1>21
           DEF Next, CallerNext, WorkerNext

\* Hence it holds in every behaviour.
LEMMA WorkerInvariant == Spec => []WorkerInv
<1>1. Init => WorkerInv
  BY DEF Init, WorkerInv, OneWorker, Alive
<1>2. (TypeOK /\ DetachInv) /\ WorkerInv /\ [Next]_vars => WorkerInv'
  BY WorkerStep
<1> QED BY <1>1, <1>2, TypeCorrect, PTL DEF Spec

\* However run() and the thread's exits interleave, entryPoint runs on at most
\* one pthread, and Exited means that there is none.
THEOREM AtMostOneWorker == Spec => []OneWorker
<1>1. WorkerInv => OneWorker
  BY DEF WorkerInv
<1> QED BY <1>1, WorkerInvariant, PTL

-----------------------------------------------------------------------------
\* run() is called with the heap's lock held, from the load of m_state to
\* pthread_detach.
LockInv ==
    /\ \A c \in Callers : caller[c] # "idle" => heapLock = c
    /\ \A w \in Workers : worker[w] = "function" => heapLock = w
    /\ DetachesOwnThread

\* Every step keeps the heap's lock with the caller at work and with the
\* worker in its function.
LEMMA LockStep ==
    ASSUME TypeOK /\ DetachInv, LockInv, [Next]_vars
    PROVE  LockInv'
<1> USE ThreadsAssumption DEF TypeOK, DetachInv, States, CallerLocations, WorkerLocations,
            LockInv, DetachesOwnThread
<1>1. ASSUME NEW c \in Callers, Lock(c) PROVE LockInv'
  BY <1>1 DEF Lock, CallerGoes
<1>2. ASSUME NEW c \in Callers, Run(c) PROVE LockInv'
  BY <1>2 DEF Run, CallerGoes
<1>3. ASSUME NEW c \in Callers, RunSlowCase(c) PROVE LockInv'
  BY <1>3 DEF RunSlowCase, CallerGoes
<1>4. ASSUME NEW c \in Callers, LockUnlockCondition(c) PROVE LockInv'
  BY <1>4 DEF LockUnlockCondition, CallerGoes
<1>5. ASSUME NEW c \in Callers, NotifyOne(c) PROVE LockInv'
  BY <1>5 DEF NotifyOne, CallerGoes
<1>6. ASSUME NEW c \in Callers, PthreadCreate(c) PROVE LockInv'
  BY <1>6 DEF PthreadCreate, CallerGoes
<1>7. ASSUME NEW c \in Callers, PthreadDetach(c) PROVE LockInv'
  BY <1>7 DEF PthreadDetach, CallerGoes
<1>8. ASSUME NEW c \in Callers, Unlock(c) PROVE LockInv'
  BY <1>8 DEF Unlock, CallerGoes
<1>9. ASSUME NEW w \in Workers, TakeRequest(w) PROVE LockInv'
  BY <1>9 DEF TakeRequest, WorkerGoes, CompareExchangeWeak
<1>10. ASSUME NEW w \in Workers, EnterFunction(w) PROVE LockInv'
  BY <1>10 DEF EnterFunction, WorkerGoes
<1>11. ASSUME NEW w \in Workers, YieldHeapLock(w) PROVE LockInv'
  BY <1>11 DEF YieldHeapLock, WorkerGoes
<1>12. ASSUME NEW w \in Workers, LeaveFunction(w) PROVE LockInv'
  BY <1>12 DEF LeaveFunction, WorkerGoes
<1>13. ASSUME NEW w \in Workers, GoToSleep(w) PROVE LockInv'
  BY <1>13 DEF GoToSleep, WorkerGoes, CompareExchangeWeak
<1>14. ASSUME NEW w \in Workers, LockCondition(w) PROVE LockInv'
  BY <1>14 DEF LockCondition, WorkerGoes
<1>15. ASSUME NEW w \in Workers, CheckPredicate(w) PROVE LockInv'
  BY <1>15 DEF CheckPredicate, WorkerGoes
<1>16. ASSUME NEW w \in Workers, Block(w) PROVE LockInv'
  BY <1>16 DEF Block, WorkerGoes
<1>17. ASSUME NEW w \in Workers, WakeUnnotified(w) PROVE LockInv'
  BY <1>17 DEF WakeUnnotified, WorkerGoes
<1>18. ASSUME NEW w \in Workers, ExitDelayPasses(w) PROVE LockInv'
  BY <1>18 DEF ExitDelayPasses, WorkerGoes
<1>19. ASSUME NEW w \in Workers, LeaveWait(w) PROVE LockInv'
  BY <1>19 DEF LeaveWait, WorkerGoes
<1>20. ASSUME NEW w \in Workers, Exit(w) PROVE LockInv'
  BY <1>20 DEF Exit, WorkerGoes
<1>21. CASE UNCHANGED vars
  BY <1>21 DEF vars
<1> QED BY <1>1, <1>2, <1>3, <1>4, <1>5, <1>6, <1>7, <1>8, <1>9, <1>10, <1>11,
           <1>12, <1>13, <1>14, <1>15, <1>16, <1>17, <1>18, <1>19, <1>20,
           <1>21
           DEF Next, CallerNext, WorkerNext

\* pthread_detach detaches the thread created by the same call, because the
\* heap's lock is held from one to the other.
THEOREM DetachesOwn == Spec => []DetachesOwnThread
<1>1. Init => LockInv
  BY DEF Init, LockInv, DetachesOwnThread
<1>2. (TypeOK /\ DetachInv) /\ LockInv /\ [Next]_vars => LockInv'
  BY LockStep
<1>3. LockInv => DetachesOwnThread
  BY DEF LockInv
<1> QED BY <1>1, <1>2, <1>3, TypeCorrect, PTL DEF Spec

-----------------------------------------------------------------------------
\* The strengthening of PromptWakeup: between the evaluation of wait_for's
\* predicate and its blocking the thread holds m_conditionMutex, so a requester
\* that comes meanwhile is still in front of that mutex.
WaitInv ==
    /\ \A w \in Workers : worker[w] \in {"predicate", "block"} => m_conditionMutex = w
    /\ \A w \in Workers : worker[w] \in {"block", "blocked"} =>
                             m_state \in {"Sleeping", "Signaled"}
    /\ \A w \in Workers : worker[w] = "block" /\ m_state = "Signaled" =>
                             \E c \in Callers : caller[c] = "lock"
    /\ PromptWakeup

\* Every step keeps a wakeup for each worker that waits with work to do.
LEMMA WaitStep ==
    ASSUME TypeOK /\ DetachInv, WorkerInv, WaitInv, [Next]_vars
    PROVE  WaitInv'
<1> USE ThreadsAssumption
        DEF TypeOK, DetachInv, States, CallerLocations, WorkerLocations,
            WorkerInv, OneWorker, Alive, WaitInv, PromptWakeup
<1>1. ASSUME NEW c \in Callers, Lock(c) PROVE WaitInv'
  BY <1>1 DEF Lock, CallerGoes
<1>2. ASSUME NEW c \in Callers, Run(c) PROVE WaitInv'
  BY <1>2 DEF Run, CallerGoes
<1>3. ASSUME NEW c \in Callers, RunSlowCase(c) PROVE WaitInv'
  BY <1>3 DEF RunSlowCase, CallerGoes
<1>4. ASSUME NEW c \in Callers, LockUnlockCondition(c) PROVE WaitInv'
  BY <1>4 DEF LockUnlockCondition, CallerGoes
<1>5. ASSUME NEW c \in Callers, NotifyOne(c) PROVE WaitInv'
  BY <1>5 DEF NotifyOne, CallerGoes
<1>6. ASSUME NEW c \in Callers, PthreadCreate(c) PROVE WaitInv'
  BY <1>6 DEF PthreadCreate, CallerGoes
<1>7. ASSUME NEW c \in Callers, PthreadDetach(c) PROVE WaitInv'
  BY <1>7 DEF PthreadDetach, CallerGoes
<1>8. ASSUME NEW c \in Callers, Unlock(c) PROVE WaitInv'
  BY <1>8 DEF Unlock, CallerGoes
<1>9. ASSUME NEW w \in Workers, TakeRequest(w) PROVE WaitInv'
  BY <1>9 DEF TakeRequest, WorkerGoes, CompareExchangeWeak
<1>10. ASSUME NEW w \in Workers, EnterFunction(w) PROVE WaitInv'
  BY <1>10 DEF EnterFunction, WorkerGoes
<1>11. ASSUME NEW w \in Workers, YieldHeapLock(w) PROVE WaitInv'
  BY <1>11 DEF YieldHeapLock, WorkerGoes
<1>12. ASSUME NEW w \in Workers, LeaveFunction(w) PROVE WaitInv'
  BY <1>12 DEF LeaveFunction, WorkerGoes
<1>13. ASSUME NEW w \in Workers, GoToSleep(w) PROVE WaitInv'
  BY <1>13 DEF GoToSleep, WorkerGoes, CompareExchangeWeak
<1>14. ASSUME NEW w \in Workers, LockCondition(w) PROVE WaitInv'
  BY <1>14 DEF LockCondition, WorkerGoes
<1>15. ASSUME NEW w \in Workers, CheckPredicate(w) PROVE WaitInv'
  BY <1>15 DEF CheckPredicate, WorkerGoes
<1>16. ASSUME NEW w \in Workers, Block(w) PROVE WaitInv'
  BY <1>16 DEF Block, WorkerGoes
<1>17. ASSUME NEW w \in Workers, WakeUnnotified(w) PROVE WaitInv'
  BY <1>17 DEF WakeUnnotified, WorkerGoes
<1>18. ASSUME NEW w \in Workers, ExitDelayPasses(w) PROVE WaitInv'
  BY <1>18 DEF ExitDelayPasses, WorkerGoes
<1>19. ASSUME NEW w \in Workers, LeaveWait(w) PROVE WaitInv'
  BY <1>19 DEF LeaveWait, WorkerGoes
<1>20. ASSUME NEW w \in Workers, Exit(w) PROVE WaitInv'
  BY <1>20 DEF Exit, WorkerGoes
<1>21. CASE UNCHANGED vars
  BY <1>21 DEF vars
<1> QED BY <1>1, <1>2, <1>3, <1>4, <1>5, <1>6, <1>7, <1>8, <1>9, <1>10, <1>11,
           <1>12, <1>13, <1>14, <1>15, <1>16, <1>17, <1>18, <1>19, <1>20,
           <1>21
           DEF Next, CallerNext, WorkerNext

\* The thread never sleeps through a request: the requester will notify it.
THEOREM NoSleptThroughRequest == Spec => []PromptWakeup
<1>1. Init => WaitInv
  BY DEF Init, WaitInv, PromptWakeup
<1>2. (TypeOK /\ DetachInv) /\ WorkerInv /\ WaitInv /\ [Next]_vars => WaitInv'
  BY WaitStep
<1>3. WaitInv => PromptWakeup
  BY DEF WaitInv
<1> QED BY <1>1, <1>2, <1>3, TypeCorrect, WorkerInvariant, PTL DEF Spec

-----------------------------------------------------------------------------
\* Every step of the task is a request, a start or a finish of Task, or does
\* not show: compare_exchange_weak from Signaled is the start.
LEMMA RefinementStep ==
    ASSUME TypeOK /\ DetachInv, WorkerInv, [Next]_vars
    PROVE  [T!Next]_(T!vars)
<1> DEFINE requested == m_state = "Signaled"
           executing == \E w \in Workers : worker[w] \in {"enter", "function"}
<1> USE DEF TypeOK, DetachInv, States, CallerLocations, WorkerLocations,
            WorkerInv, OneWorker, Alive
<1>a. ASSUME requested' <=> requested, executing' <=> executing
      PROVE  [T!Next]_(T!vars)
  BY <1>a, Zenon DEF T!vars
<1>b. ASSUME requested', executing' <=> executing
      PROVE  [T!Next]_(T!vars)
  BY <1>b, Zenon DEF T!Next, T!Request
<1>c. ASSUME requested, ~executing, ~requested', executing'
      PROVE  [T!Next]_(T!vars)
  BY <1>c, Zenon DEF T!Next, T!Start
<1>d. ASSUME executing, ~executing', requested' <=> requested
      PROVE  [T!Next]_(T!vars)
  BY <1>d, Zenon DEF T!Next, T!Finish
<1> HIDE DEF T!Next, T!vars
<1>1. ASSUME NEW c \in Callers, Lock(c) PROVE [T!Next]_(T!vars)
  BY <1>a, <1>b, <1>c, <1>d, <1>1 DEF Lock, CallerGoes
<1>2. ASSUME NEW c \in Callers, Run(c) PROVE [T!Next]_(T!vars)
  BY <1>a, <1>b, <1>c, <1>d, <1>2 DEF Run, CallerGoes
<1>3. ASSUME NEW c \in Callers, RunSlowCase(c) PROVE [T!Next]_(T!vars)
  BY <1>a, <1>b, <1>c, <1>d, <1>3 DEF RunSlowCase, CallerGoes
<1>4. ASSUME NEW c \in Callers, LockUnlockCondition(c) PROVE [T!Next]_(T!vars)
  BY <1>a, <1>b, <1>c, <1>d, <1>4 DEF LockUnlockCondition, CallerGoes
<1>5. ASSUME NEW c \in Callers, NotifyOne(c) PROVE [T!Next]_(T!vars)
  BY <1>a, <1>b, <1>c, <1>d, <1>5 DEF NotifyOne, CallerGoes
<1>6. ASSUME NEW c \in Callers, PthreadCreate(c) PROVE [T!Next]_(T!vars)
  BY <1>a, <1>b, <1>c, <1>d, <1>6 DEF PthreadCreate, CallerGoes
<1>7. ASSUME NEW c \in Callers, PthreadDetach(c) PROVE [T!Next]_(T!vars)
  BY <1>a, <1>b, <1>c, <1>d, <1>7 DEF PthreadDetach, CallerGoes
<1>8. ASSUME NEW c \in Callers, Unlock(c) PROVE [T!Next]_(T!vars)
  BY <1>a, <1>b, <1>c, <1>d, <1>8 DEF Unlock, CallerGoes
<1>9. ASSUME NEW w \in Workers, TakeRequest(w) PROVE [T!Next]_(T!vars)
  BY <1>a, <1>b, <1>c, <1>d, <1>9 DEF TakeRequest, WorkerGoes, CompareExchangeWeak
<1>10. ASSUME NEW w \in Workers, EnterFunction(w) PROVE [T!Next]_(T!vars)
  BY <1>a, <1>b, <1>c, <1>d, <1>10 DEF EnterFunction, WorkerGoes
<1>11. ASSUME NEW w \in Workers, YieldHeapLock(w) PROVE [T!Next]_(T!vars)
  BY <1>a, <1>b, <1>c, <1>d, <1>11 DEF YieldHeapLock, WorkerGoes
<1>12. ASSUME NEW w \in Workers, LeaveFunction(w) PROVE [T!Next]_(T!vars)
  BY <1>a, <1>b, <1>c, <1>d, <1>12 DEF LeaveFunction, WorkerGoes
<1>13. ASSUME NEW w \in Workers, GoToSleep(w) PROVE [T!Next]_(T!vars)
  BY <1>a, <1>b, <1>c, <1>d, <1>13 DEF GoToSleep, WorkerGoes, CompareExchangeWeak
<1>14. ASSUME NEW w \in Workers, LockCondition(w) PROVE [T!Next]_(T!vars)
  BY <1>a, <1>b, <1>c, <1>d, <1>14 DEF LockCondition, WorkerGoes
<1>15. ASSUME NEW w \in Workers, CheckPredicate(w) PROVE [T!Next]_(T!vars)
  BY <1>a, <1>b, <1>c, <1>d, <1>15 DEF CheckPredicate, WorkerGoes
<1>16. ASSUME NEW w \in Workers, Block(w) PROVE [T!Next]_(T!vars)
  BY <1>a, <1>b, <1>c, <1>d, <1>16 DEF Block, WorkerGoes
<1>17. ASSUME NEW w \in Workers, WakeUnnotified(w) PROVE [T!Next]_(T!vars)
  BY <1>a, <1>b, <1>c, <1>d, <1>17 DEF WakeUnnotified, WorkerGoes
<1>18. ASSUME NEW w \in Workers, ExitDelayPasses(w) PROVE [T!Next]_(T!vars)
  BY <1>a, <1>b, <1>c, <1>d, <1>18 DEF ExitDelayPasses, WorkerGoes
<1>19. ASSUME NEW w \in Workers, LeaveWait(w) PROVE [T!Next]_(T!vars)
  BY <1>a, <1>b, <1>c, <1>d, <1>19 DEF LeaveWait, WorkerGoes
<1>20. ASSUME NEW w \in Workers, Exit(w) PROVE [T!Next]_(T!vars)
  BY <1>a, <1>b, <1>c, <1>d, <1>20 DEF Exit, WorkerGoes
<1>21. CASE UNCHANGED vars
  BY <1>a, <1>21 DEF vars
<1> QED BY <1>1, <1>2, <1>3, <1>4, <1>5, <1>6, <1>7, <1>8, <1>9, <1>10, <1>11,
           <1>12, <1>13, <1>14, <1>15, <1>16, <1>17, <1>18, <1>19, <1>20,
           <1>21
           DEF Next, CallerNext, WorkerNext

\* AsyncTask implements Task: the function starts only when a run() asked for
\* it, one execution at a time, and a request is not forgotten before it starts.
THEOREM ImplementsTaskSafety == Spec => T!Safety
<1>1. Init => T!Init
  <2> SUFFICES ASSUME Init PROVE T!Init
    OBVIOUS
  <2>1. ~(m_state = "Signaled") /\ ~(\E w \in Workers : worker[w] \in {"enter", "function"})
    BY DEF Init
  <2> QED BY <2>1, Zenon DEF T!Init
<1>2. (TypeOK /\ DetachInv) /\ WorkerInv /\ [Next]_vars => [T!Next]_(T!vars)
  BY RefinementStep
<1> QED BY <1>1, <1>2, TypeCorrect, WorkerInvariant, PTL DEF Spec, T!Safety
=============================================================================
