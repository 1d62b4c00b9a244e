--------------------- MODULE ResourceHandleManagerProofs ---------------------
(***************************************************************************)
(* Proofs about ResourceHandleManager, for any finite set of loads and any *)
(* number of slots.                                                        *)
(***************************************************************************)
EXTENDS ResourceHandleManager, ListTheorems, FiniteSetTheorems, TLAPS

\* The scheduled jobs as a set.
Scheduled == Listed(m_resourceHandleList)

\* Where a client callback is made from: curl_multi_perform, the loop over
\* curl's messages, or handleDataURL.
PerformSites == {"redirect", "challenge", "response", "localResponse", "data", "part", "nextPart"}
MessageSites == {"lateResponse", "lastPart", "finish", "fail"}
DataURLSites == {"dataResponse", "dataData", "dataFinish", "dataFail"}

Calling(sites) == call # NoCall /\ call.site \in sites

\* TypeOK without the bounds on the counters, which need the other parts.
Types ==
    /\ m_resourceHandleList \in Seq(Jobs)
    /\ m_runningJobs \in Int
    /\ timerActive \in BOOLEAN
    /\ refs \in [Jobs -> Int]
    /\ transfer \in [Jobs -> {"none", "running", "done", "failed", "refused"}]
    /\ paused \in [Jobs -> BOOLEAN]
    /\ m_cancelled \in [Jobs -> BOOLEAN]
    /\ m_defersLoading \in [Jobs -> BOOLEAN]
    /\ responseFired \in [Jobs -> BOOLEAN]
    /\ loader \in [Jobs -> {"unborn", "holds", "cancelled", "released"}]
    /\ pc \in {"idle", "start", "select", "perform", "messages", "client"}
    /\ call \in {NoCall} \cup [site : Sites, job : Jobs]
    /\ again \in BOOLEAN /\ started \in BOOLEAN /\ final \in BOOLEAN
    /\ runningHandles \in 0..Cardinality(Jobs)

\* A callback is in progress exactly while the client runs inside the
\* manager, and its job is where the site of the call says.
CallInv ==
    /\ pc = "client" <=> call # NoCall
    /\ Calling(PerformSites) => transfer[call.job] = "running"
    /\ Calling(MessageSites) => transfer[call.job] \in {"done", "failed"}
    /\ Calling(DataURLSites) =>
          /\ call.job \in DataJobs \ Scheduled
          /\ loader[call.job] \in {"holds", "cancelled"}
          /\ transfer[call.job] = "none"
    /\ Calling({"part", "nextPart", "lastPart"}) => call.job \in MultipartJobs

\* The life of a job: unborn, then scheduled, then with curl or with
\* handleDataURL, and in each of them what its loader may have done.
LifeInv ==
    /\ NoDuplicates(m_resourceHandleList)
    /\ \A j \in Jobs :
          /\ loader[j] = "unborn" => j \notin Scheduled /\ ~HasHandle(j) /\ ~m_cancelled[j]
          /\ j \in Scheduled => loader[j] = "holds" /\ ~HasHandle(j)
          /\ HasHandle(j) => loader[j] \in {"holds", "cancelled"} /\ j \notin DataJobs
          /\ loader[j] = "cancelled" => m_cancelled[j]

\* curl refuses an easy handle only where that failure is considered.
RefusedInv == \A j \in Jobs : transfer[j] = "refused" => "add" \in Features

Core == Types /\ CallInv /\ LifeInv /\ RefusedInv

Handles == {j \in Jobs : HasHandle(j)}
SlotInv == m_runningJobs = Cardinality(Handles) /\ m_runningJobs <= MaxRunningJobs

\* curl's count of running transfers still says so after the messages, and
\* what startScheduledJobs adds is remembered in started.
PollInv ==
    /\ WorkIsPolled
    /\ pc = "messages" \/ Calling(MessageSites) =>
          ((\E j \in Jobs : transfer[j] = "running") => runningHandles > 0)
    /\ pc = "start" /\ final /\ InCurl # {} => started \/ runningHandles > 0
    /\ Calling(DataURLSites) => started

\* The two copies of "deferred" agree for a job that has an easy handle.
PauseInv == \A j \in Jobs : HasHandle(j) /\ m_defersLoading[j] => paused[j]

\* What the three operations on the list do to the set of scheduled jobs.
LEMMA ScheduledByAdd ==
    ASSUME Core, NEW j \in Jobs, Add(j)
    PROVE  /\ m_resourceHandleList' \in Seq(Jobs)
           /\ NoDuplicates(m_resourceHandleList')
           /\ Scheduled' = Scheduled \cup {j}
BY ListAppend DEF Core, Types, LifeInv, Add, Scheduled

\* cancel() takes the job from the list, if it is there.
LEMMA ScheduledByCancel ==
    ASSUME Core, NEW j \in Jobs, Cancel(j)
    PROVE  /\ m_resourceHandleList' \in Seq(Jobs)
           /\ NoDuplicates(m_resourceHandleList')
           /\ Scheduled' = Scheduled \ {j}
<1> USE DEF Core, Types, LifeInv, Scheduled
<1>1. CASE ~IsScheduled(j) /\ UNCHANGED m_resourceHandleList
  <2>1. j \notin Scheduled
    BY <1>1 DEF IsScheduled, Listed
  <2> QED BY <1>1, <2>1
<1>2. ASSUME NEW i \in DOMAIN m_resourceHandleList, m_resourceHandleList[i] = j,
             m_resourceHandleList' =
                 SubSeq(m_resourceHandleList, 1, i - 1)
                     \o SubSeq(m_resourceHandleList, i + 1, Len(m_resourceHandleList))
      PROVE  /\ m_resourceHandleList' \in Seq(Jobs)
             /\ NoDuplicates(m_resourceHandleList')
             /\ Scheduled' = Scheduled \ {j}
  BY <1>2, ListRemove
<1> QED BY <1>1, <1>2 DEF Cancel, RemoveScheduledJob

\* startScheduledJobs takes the first.
LEMMA ScheduledByStart ==
    ASSUME Core, StartNetworkJob \/ StartDataJob
    PROVE  /\ Head(m_resourceHandleList) \in Jobs \cap Scheduled
           /\ m_resourceHandleList' \in Seq(Jobs)
           /\ NoDuplicates(m_resourceHandleList')
           /\ Scheduled' = Scheduled \ {Head(m_resourceHandleList)}
<1>1. /\ m_resourceHandleList \in Seq(Jobs) /\ NoDuplicates(m_resourceHandleList)
      /\ m_resourceHandleList # <<>> /\ m_resourceHandleList' = Tail(m_resourceHandleList)
  BY DEF Core, Types, LifeInv, StartNetworkJob, StartDataJob, CanStart
<1> QED BY <1>1, ListTail DEF Scheduled

\* curl's count of its running transfers is a count of jobs, and not zero
\* while one is running.
LEMMA RunningCount ==
    LET running == {j \in Jobs : transfer[j] = "running"} IN
    /\ Cardinality(running) \in 0..Cardinality(Jobs)
    /\ running # {} => Cardinality(running) > 0
<1> DEFINE running == {j \in Jobs : transfer[j] = "running"}
<1>1. running \subseteq Jobs /\ IsFiniteSet(Jobs)
  BY LoadsAssumption
<1>2. IsFiniteSet(running) /\ Cardinality(running) <= Cardinality(Jobs)
  BY <1>1, FS_Subset
<1>3. Cardinality(running) \in Nat /\ Cardinality(Jobs) \in Nat
  BY <1>1, <1>2, FS_CardinalityType
<1>4. running # {} => Cardinality(running) # 0
  BY <1>2, FS_EmptySet
<1> HIDE DEF running
<1>5. Cardinality(running) \in 0..Cardinality(Jobs) /\ (running # {} => Cardinality(running) > 0)
  BY <1>2, <1>3, <1>4
<1> QED BY <1>5 DEF running

\* Every action keeps the types, the place of the callback in progress and
\* the lives of the jobs.
LEMMA CoreStep ==
    ASSUME Core, [Next]_vars
    PROVE  Core'
<1> USE LoadsAssumption DEF Core, Types, CallInv, LifeInv, RefusedInv, Sites,
       PerformSites, MessageSites, DataURLSites, Calling, NoCall, HasHandle,
       Scheduled, ClientRuns, job, local
<1>1. ASSUME NEW j \in Jobs, Add(j) PROVE Core'
  <2>1. /\ m_resourceHandleList' \in Seq(Jobs)
        /\ NoDuplicates(m_resourceHandleList')
        /\ Scheduled' = Scheduled \cup {j}
    BY <1>1, ScheduledByAdd DEF Core
  <2>2. Types'
    BY <1>1, <2>1 DEF Add
  <2>3. CallInv'
    BY <1>1, <2>1 DEF Add
  <2>4. LifeInv'
    BY <1>1, <2>1 DEF Add
  <2>5. RefusedInv'
    BY <1>1, <2>1 DEF Add
  <2> QED BY <2>2, <2>3, <2>4, <2>5
<1>2. ASSUME NEW j \in Jobs, AddRefused(j) PROVE Core'
  BY <1>2 DEF AddRefused
<1>3. ASSUME NEW j \in Jobs, Cancel(j) PROVE Core'
  <2>1. /\ m_resourceHandleList' \in Seq(Jobs)
        /\ NoDuplicates(m_resourceHandleList')
        /\ Scheduled' = Scheduled \ {j}
    BY <1>3, ScheduledByCancel DEF Core
  <2>2. Types'
    BY <1>3, <2>1 DEF Cancel
  <2>3. CallInv'
    BY <1>3, <2>1 DEF Cancel
  <2>4. LifeInv'
    BY <1>3, <2>1 DEF Cancel
  <2>5. RefusedInv'
    BY <1>3, <2>1 DEF Cancel
  <2> QED BY <2>2, <2>3, <2>4, <2>5
<1>4. ASSUME NEW j \in Jobs, DeferLoading(j) PROVE Core'
  BY <1>4 DEF DeferLoading, Outcomes
<1>5. ASSUME NEW j \in Jobs, ResumeLoading(j) PROVE Core'
  BY <1>5 DEF ResumeLoading, Outcomes
<1>6. ASSUME NEW j \in Jobs, LoadSynchronously(j) PROVE Core'
  BY <1>6 DEF LoadSynchronously
<1>7. ASSUME NEW j \in Jobs, CallbackOfCancelledJob(j) PROVE Core'
  BY <1>7 DEF CallbackOfCancelledJob, CurlDelivers, CurlRuns
<1>8. ASSUME NEW j \in Jobs, HeaderCallback(j) PROVE Core'
  BY <1>8 DEF HeaderCallback, CurlDelivers, CurlRuns, ClientCalled
<1>9. ASSUME NEW j \in Jobs, WriteCallback(j) PROVE Core'
  BY <1>9 DEF WriteCallback, CurlDelivers, CurlRuns, ClientCalled, DataSite
<1>10. ASSUME NEW j \in Jobs, ReadCallbackFails(j) PROVE Core'
  BY <1>10 DEF ReadCallbackFails, CurlDelivers, CurlRuns
<1>11. ASSUME NEW j \in Jobs, NEW r \in {"done", "failed"}, TransferEnds(j, r) PROVE Core'
  BY <1>11 DEF TransferEnds, CurlRuns
<1>12. CASE PerformReturns
  <2>1. runningHandles' \in 0..Cardinality(Jobs)
    BY <1>12, RunningCount DEF PerformReturns
  <2> QED BY <1>12, <2>1 DEF PerformReturns
<1>13. CASE TimerFires
  BY <1>13 DEF TimerFires
<1>14. CASE StartNetworkJob
  <2>1. /\ Head(m_resourceHandleList) \in Jobs \cap Scheduled
        /\ m_resourceHandleList' \in Seq(Jobs)
        /\ NoDuplicates(m_resourceHandleList')
        /\ Scheduled' = Scheduled \ {Head(m_resourceHandleList)}
    BY <1>14, ScheduledByStart DEF Core
  <2>2. Types'
    BY <1>14, <2>1 DEF StartNetworkJob, InitializeHandle, Outcomes
  <2>3. CallInv'
    BY <1>14, <2>1 DEF StartNetworkJob, InitializeHandle, Outcomes
  <2>4. LifeInv'
    BY <1>14, <2>1 DEF StartNetworkJob, InitializeHandle, Outcomes
  <2>5. RefusedInv'
    BY <1>14, <2>1 DEF StartNetworkJob, InitializeHandle, Outcomes
  <2> QED BY <2>2, <2>3, <2>4, <2>5
<1>15. CASE StartDataJob
  <2>1. /\ Head(m_resourceHandleList) \in Jobs \cap Scheduled
        /\ m_resourceHandleList' \in Seq(Jobs)
        /\ NoDuplicates(m_resourceHandleList')
        /\ Scheduled' = Scheduled \ {Head(m_resourceHandleList)}
    BY <1>15, ScheduledByStart DEF Core
  <2>2. Types'
    BY <1>15, <2>1 DEF StartDataJob, ClientCalled
  <2>3. CallInv'
    BY <1>15, <2>1 DEF StartDataJob, ClientCalled
  <2>4. LifeInv'
    BY <1>15, <2>1 DEF StartDataJob, ClientCalled
  <2>5. RefusedInv'
    BY <1>15, <2>1 DEF StartDataJob, ClientCalled
  <2> QED BY <2>2, <2>3, <2>4, <2>5
<1>16. CASE StartedFirst
  BY <1>16 DEF StartedFirst
<1>17. CASE Rearm
  BY <1>17 DEF Rearm
<1>18. CASE Select
  BY <1>18 DEF Select, SelectResults
<1>19. CASE NoMessage
  BY <1>19 DEF NoMessage
<1>20. ASSUME NEW j \in Jobs, MessageOfCancelledJob(j) PROVE Core'
  BY <1>20 DEF MessageOfCancelledJob, HasMessage, RemoveFromCurl, Deref
<1>21. ASSUME NEW j \in Jobs, Message(j) PROVE Core'
  BY <1>21 DEF Message, HasMessage, ClientCalled, MessageFinishSite
<1>22. CASE ReturnToCurl
  BY <1>22 DEF ReturnToCurl, Returning, BackIn
<1>23. CASE AnotherPart
  BY <1>23 DEF AnotherPart, Returning, ClientCalled
<1>24. CASE ReturnFromResponse
  BY <1>24 DEF ReturnFromResponse, Returning, BackIn
<1>25. CASE ReturnFromLocalResponse
  <2>1. CASE m_cancelled[call.job]
    <3>1. /\ call.job \in Jobs /\ call # NoCall
          /\ transfer[call.job] = "running"
      BY <1>25, <2>1 DEF ReturnFromLocalResponse, Returning
    <3>2. Types'
      BY <1>25, <2>1, <3>1 DEF ReturnFromLocalResponse, LocalResponseFired, BackIn
    <3>3. CallInv'
      BY <1>25, <2>1, <3>1 DEF ReturnFromLocalResponse, LocalResponseFired, BackIn
    <3>4. LifeInv'
      BY <1>25, <2>1, <3>1 DEF ReturnFromLocalResponse, LocalResponseFired, BackIn
    <3>5. RefusedInv'
      BY <1>25, <2>1, <3>1 DEF ReturnFromLocalResponse
    <3> QED BY <3>2, <3>3, <3>4, <3>5
  <2>2. CASE ~m_cancelled[call.job]
    BY <1>25, <2>2 DEF ReturnFromLocalResponse, Returning, LocalResponseFired, ClientCalled, DataSite
  <2> QED BY <2>1, <2>2
<1>26. CASE ReturnFromLateResponse
  <2>1. CASE m_cancelled[call.job]
    <3>1. /\ call.job \in Jobs /\ call # NoCall
          /\ transfer[call.job] \in {"done", "failed"}
      BY <1>26, <2>1 DEF ReturnFromLateResponse, Returning
    <3>2. RemoveFromCurl(call.job, 1)
      BY <1>26, <2>1 DEF ReturnFromLateResponse
    <3>3. /\ m_runningJobs' \in Int
          /\ timerActive' \in BOOLEAN
          /\ refs' \in [Jobs -> Int]
          /\ transfer' \in [Jobs -> {"none", "running", "done", "failed", "refused"}]
          /\ paused' \in [Jobs -> BOOLEAN]
          /\ m_cancelled' \in [Jobs -> BOOLEAN]
      BY <3>1, <3>2 DEF RemoveFromCurl, Deref
    <3>4. Types'
      BY <1>26, <2>1, <3>1, <3>3 DEF ReturnFromLateResponse, LocalResponseFired, BackIn
    <3>5. CallInv'
      BY <1>26, <2>1, <3>1 DEF ReturnFromLateResponse, LocalResponseFired, BackIn, RemoveFromCurl, Deref
    <3>6. /\ UNCHANGED <<m_resourceHandleList, loader>>
          /\ transfer' = [transfer EXCEPT ![call.job] = "none"]
          /\ m_cancelled' = m_cancelled
      BY <1>26, <2>1, <3>1, <3>2 DEF ReturnFromLateResponse, RemoveFromCurl, Deref
    <3>7. LifeInv'
      BY <3>1, <3>6
    <3>8. RefusedInv'
      BY <3>1, <3>2 DEF RemoveFromCurl
    <3> QED BY <3>4, <3>5, <3>7, <3>8
  <2>2. CASE ~m_cancelled[call.job]
    BY <1>26, <2>2 DEF ReturnFromLateResponse, Returning, LocalResponseFired, ClientCalled,
                      MessageFinishSite
  <2> QED BY <2>1, <2>2
<1>27. CASE ReturnFromLastPart
  BY <1>27 DEF ReturnFromLastPart, Returning, ClientCalled
<1>28. CASE ReturnFromEnd
  BY <1>28 DEF ReturnFromEnd, Returning, RemoveFromCurl, Deref,
         LoaderReleases, LoaderRef, BackIn
<1>29. CASE ReturnInDataURL
  BY <1>29 DEF ReturnInDataURL, Returning, ClientCalled
<1>30. CASE ReturnFromDataURL
  BY <1>30 DEF ReturnFromDataURL, Returning, Deref, LoaderReleases, LoaderRef,
         BackIn
<1>31. CASE UNCHANGED vars
  BY <1>31 DEF vars
<1> HIDE DEF Core
<1> QED BY <1>1, <1>2, <1>3, <1>4, <1>5, <1>6, <1>7, <1>8, <1>9, <1>10, <1>11,
       <1>12, <1>13, <1>14, <1>15, <1>16, <1>17, <1>18, <1>19, <1>20, <1>21,
       <1>22, <1>23, <1>24, <1>25, <1>26, <1>27, <1>28, <1>29, <1>30, <1>31
       DEF Next, ClientStep, CallbackStep, Return, ManagerStep

\* Hence they hold in every behaviour.
LEMMA CoreInvariant == Spec => []Core
<1>1. Init => Core
  <2> SUFFICES ASSUME Init PROVE Core
    OBVIOUS
  <2>1. Cardinality(Jobs) \in Nat
    BY LoadsAssumption, FS_CardinalityType
  <2>2. Types
    <3>1. /\ m_resourceHandleList \in Seq(Jobs) /\ m_runningJobs \in Int
          /\ refs \in [Jobs -> Int] /\ runningHandles \in 0..Cardinality(Jobs)
      BY <2>1 DEF Init
    <3>2. /\ {paused, m_cancelled, m_defersLoading, responseFired} \subseteq [Jobs -> BOOLEAN]
          /\ {timerActive, again, started, final} \subseteq BOOLEAN
      BY DEF Init
    <3>3. /\ transfer \in [Jobs -> {"none", "running", "done", "failed", "refused"}]
          /\ loader \in [Jobs -> {"unborn", "holds", "cancelled", "released"}]
          /\ pc = "idle" /\ call = NoCall
      BY DEF Init
    <3> QED BY <3>1, <3>2, <3>3 DEF Types
  <2>3. CallInv
    BY DEF Init, CallInv, Calling
  <2>4. LifeInv
    BY DEF Init, LifeInv, NoDuplicates, HasHandle, Scheduled, Listed
  <2>5. RefusedInv
    BY DEF Init, RefusedInv
  <2> QED BY <2>2, <2>3, <2>4, <2>5 DEF Core
<1>2. Core /\ [Next]_vars => Core'
  BY CoreStep
<1> QED BY <1>1, <1>2, PTL DEF Spec

-----------------------------------------------------------------------------
(* Slots.                                                                  *)

SlotsKept == m_runningJobs' = m_runningJobs /\ Handles' = Handles
SlotTaken ==
    \E j \in Jobs : /\ j \notin Handles /\ Handles' = Handles \cup {j}
                    /\ m_runningJobs < MaxRunningJobs
                    /\ m_runningJobs' = m_runningJobs + 1
SlotFreed ==
    \E j \in Handles : Handles' = Handles \ {j} /\ m_runningJobs' = m_runningJobs - 1

\* A step takes a free slot for one new easy handle, gives one handle and its
\* slot back, or leaves both alone.
LEMMA SlotChange ==
    ASSUME Core, [Next]_vars
    PROVE  SlotsKept \/ SlotTaken \/ SlotFreed
<1> USE LoadsAssumption DEF Core, Types, CallInv, LifeInv, Sites,
       PerformSites, MessageSites, DataURLSites, Calling, NoCall, HasHandle,
       Handles, SlotsKept, SlotTaken, SlotFreed, job
<1>1. ASSUME NEW j \in Jobs, Add(j) PROVE SlotsKept \/ SlotTaken \/ SlotFreed
  BY <1>1 DEF Add
<1>2. ASSUME NEW j \in Jobs, AddRefused(j) PROVE SlotsKept \/ SlotTaken \/ SlotFreed
  BY <1>2 DEF AddRefused
<1>3. ASSUME NEW j \in Jobs, Cancel(j) PROVE SlotsKept \/ SlotTaken \/ SlotFreed
  BY <1>3 DEF Cancel, RemoveScheduledJob
<1>4. ASSUME NEW j \in Jobs, DeferLoading(j) PROVE SlotsKept \/ SlotTaken \/ SlotFreed
  BY <1>4 DEF DeferLoading, Outcomes
<1>5. ASSUME NEW j \in Jobs, ResumeLoading(j) PROVE SlotsKept \/ SlotTaken \/ SlotFreed
  BY <1>5 DEF ResumeLoading, Outcomes
<1>6. ASSUME NEW j \in Jobs, LoadSynchronously(j) PROVE SlotsKept \/ SlotTaken \/ SlotFreed
  BY <1>6 DEF LoadSynchronously
<1>7. ASSUME NEW j \in Jobs, CallbackOfCancelledJob(j) PROVE SlotsKept \/ SlotTaken \/ SlotFreed
  BY <1>7 DEF CallbackOfCancelledJob, CurlDelivers, CurlRuns
<1>8. ASSUME NEW j \in Jobs, HeaderCallback(j) PROVE SlotsKept \/ SlotTaken \/ SlotFreed
  BY <1>8 DEF HeaderCallback, CurlDelivers, CurlRuns, ClientCalled
<1>9. ASSUME NEW j \in Jobs, WriteCallback(j) PROVE SlotsKept \/ SlotTaken \/ SlotFreed
  BY <1>9 DEF WriteCallback, CurlDelivers, CurlRuns, ClientCalled, DataSite
<1>10. ASSUME NEW j \in Jobs, ReadCallbackFails(j) PROVE SlotsKept \/ SlotTaken \/ SlotFreed
  BY <1>10 DEF ReadCallbackFails, CurlDelivers, CurlRuns
<1>11. ASSUME NEW j \in Jobs, NEW r \in {"done", "failed"}, TransferEnds(j, r) PROVE SlotsKept \/ SlotTaken \/ SlotFreed
  BY <1>11 DEF TransferEnds, CurlRuns
<1>12. CASE PerformReturns
  BY <1>12 DEF PerformReturns
<1>13. CASE TimerFires
  BY <1>13 DEF TimerFires
<1>14. CASE StartNetworkJob
  <2>1. Head(m_resourceHandleList) \in Jobs \cap Scheduled
    BY <1>14, ScheduledByStart
  <2>2. Head(m_resourceHandleList) \notin Handles
    BY <2>1
  <2>3. Handles' = Handles \cup {Head(m_resourceHandleList)}
    BY <1>14, <2>1, <2>2 DEF StartNetworkJob
  <2>4. m_runningJobs < MaxRunningJobs /\ m_runningJobs' = m_runningJobs + 1
    BY <1>14 DEF StartNetworkJob, CanStart
  <2> QED BY <2>1, <2>2, <2>3, <2>4
<1>15. CASE StartDataJob
  BY <1>15 DEF StartDataJob, CanStart, ClientCalled
<1>16. CASE StartedFirst
  BY <1>16 DEF StartedFirst
<1>17. CASE Rearm
  BY <1>17 DEF Rearm
<1>18. CASE Select
  BY <1>18 DEF Select, SelectResults
<1>19. CASE NoMessage
  BY <1>19 DEF NoMessage
<1>20. ASSUME NEW j \in Jobs, MessageOfCancelledJob(j) PROVE SlotsKept \/ SlotTaken \/ SlotFreed
  <2>1. j \in Handles
    BY <1>20 DEF MessageOfCancelledJob, HasMessage
  <2>2. Handles' = Handles \ {j} /\ m_runningJobs' = m_runningJobs - 1
    BY <1>20, <2>1 DEF MessageOfCancelledJob, RemoveFromCurl
  <2> QED BY <2>1, <2>2
<1>21. ASSUME NEW j \in Jobs, Message(j) PROVE SlotsKept \/ SlotTaken \/ SlotFreed
  BY <1>21 DEF Message, HasMessage, ClientCalled, MessageFinishSite
<1>22. CASE ReturnToCurl
  BY <1>22 DEF ReturnToCurl, Returning, BackIn
<1>23. CASE AnotherPart
  BY <1>23 DEF AnotherPart, Returning, ClientCalled
<1>24. CASE ReturnFromResponse
  BY <1>24 DEF ReturnFromResponse, Returning, BackIn
<1>25. CASE ReturnFromLocalResponse
  <2>1. call.job \in Handles
    BY <1>25 DEF ReturnFromLocalResponse, Returning
  <2> QED BY <1>25, <2>1 DEF ReturnFromLocalResponse
<1>26. CASE ReturnFromLateResponse
  <2>1. call.job \in Handles
    BY <1>26 DEF ReturnFromLateResponse, Returning
  <2>2. CASE m_cancelled[call.job]
    <3>1. Handles' = Handles \ {call.job} /\ m_runningJobs' = m_runningJobs - 1
      BY <1>26, <2>1, <2>2 DEF ReturnFromLateResponse, RemoveFromCurl
    <3> QED BY <2>1, <3>1
  <2>3. CASE ~m_cancelled[call.job]
    BY <1>26, <2>3 DEF ReturnFromLateResponse
  <2> QED BY <2>2, <2>3
<1>27. CASE ReturnFromLastPart
  BY <1>27 DEF ReturnFromLastPart, Returning, ClientCalled
<1>28. CASE ReturnFromEnd
  <2>1. call.job \in Handles
    BY <1>28 DEF ReturnFromEnd, Returning
  <2>2. Handles' = Handles \ {call.job} /\ m_runningJobs' = m_runningJobs - 1
    BY <1>28, <2>1 DEF ReturnFromEnd, RemoveFromCurl
  <2> QED BY <2>1, <2>2
<1>29. CASE ReturnInDataURL
  BY <1>29 DEF ReturnInDataURL, Returning, ClientCalled
<1>30. CASE ReturnFromDataURL
  BY <1>30 DEF ReturnFromDataURL, Returning, Deref, LoaderReleases, LoaderRef,
         BackIn
<1>31. CASE UNCHANGED vars
  BY <1>31 DEF vars
<1> HIDE DEF SlotsKept, SlotTaken, SlotFreed
<1> QED BY <1>1, <1>2, <1>3, <1>4, <1>5, <1>6, <1>7, <1>8, <1>9, <1>10, <1>11,
       <1>12, <1>13, <1>14, <1>15, <1>16, <1>17, <1>18, <1>19, <1>20, <1>21,
       <1>22, <1>23, <1>24, <1>25, <1>26, <1>27, <1>28, <1>29, <1>30, <1>31
       DEF Next, ClientStep, CallbackStep, Return, ManagerStep

\* m_runningJobs is the number of easy handles in every behaviour.
LEMMA SlotInvariant == Spec => []SlotInv
<1>1. Init => SlotInv
  <2> SUFFICES ASSUME Init PROVE SlotInv
    OBVIOUS
  <2>1. Handles = {} /\ m_runningJobs = 0
    BY DEF Init, Handles, HasHandle
  <2>2. Cardinality({}) = 0
    BY FS_EmptySet
  <2> QED BY <2>1, <2>2, LoadsAssumption DEF SlotInv
<1>2. ASSUME Core, SlotInv, [Next]_vars PROVE SlotInv'
  <2>1. IsFiniteSet(Handles) /\ Cardinality(Handles) \in Nat
    BY LoadsAssumption, FS_Subset, FS_CardinalityType DEF Handles
  <2>2. CASE SlotsKept
    BY <1>2, <2>2 DEF SlotInv, SlotsKept
  <2>3. CASE SlotTaken
    <3>1. PICK j \in Jobs : /\ j \notin Handles /\ Handles' = Handles \cup {j}
                            /\ m_runningJobs < MaxRunningJobs
                            /\ m_runningJobs' = m_runningJobs + 1
      BY <2>3 DEF SlotTaken
    <3>2. Cardinality(Handles \cup {j}) = Cardinality(Handles) + 1
      BY <2>1, <3>1, FS_AddElement
    <3> QED BY <1>2, <2>1, <3>1, <3>2, LoadsAssumption DEF SlotInv
  <2>4. CASE SlotFreed
    <3>1. PICK j \in Handles : Handles' = Handles \ {j} /\ m_runningJobs' = m_runningJobs - 1
      BY <2>4 DEF SlotFreed
    <3>2. Cardinality(Handles \ {j}) = Cardinality(Handles) - 1
      BY <2>1, <3>1, FS_RemoveElement
    <3> QED BY <1>2, <2>1, <3>1, <3>2, LoadsAssumption DEF SlotInv
  <2> QED BY <1>2, <2>2, <2>3, <2>4, SlotChange
<1> QED BY <1>1, <1>2, CoreInvariant, PTL DEF Spec

\* The count that gates startScheduledJobs is the number of transfers curl
\* holds and never exceeds maxRunningJobs, if curl accepts every handle it is
\* given (a refused one stays counted, ResourceHandleManager.cpp:1036).
THEOREM SlotsAreCounted == "add" \notin Features => (Spec => []SlotsCounted)
<1> SUFFICES ASSUME "add" \notin Features PROVE Spec => []SlotsCounted
  OBVIOUS
<1>1. ASSUME Core, SlotInv PROVE SlotsCounted
  <2>1. InCurl = Handles
    BY <1>1 DEF Core, Types, RefusedInv, InCurl, Handles, HasHandle
  <2> QED BY <1>1, <2>1 DEF SlotInv, SlotsCounted
<1> QED BY <1>1, CoreInvariant, SlotInvariant, PTL

-----------------------------------------------------------------------------
(* References.                                                             *)

\* RefsBalanced, over the set of scheduled jobs.
Held(j) == j \in Scheduled \/ HasHandle(j) \/ (call # NoCall /\ call.job = j)
RefsInv == \A j \in Jobs : refs[j] = LoaderRef(j) + (IF Held(j) THEN 1 ELSE 0)

\* The invariant is RefsBalanced.
LEMMA RefsInvIsBalance == Types => (RefsInv <=> RefsBalanced)
<1> SUFFICES ASSUME Types PROVE RefsInv <=> RefsBalanced
  OBVIOUS
<1>1. \A j \in Jobs : Held(j) <=> ManagerHolds(j)
  BY DEF Types, Held, ManagerHolds, Scheduled, Listed, IsScheduled
<1> QED BY <1>1 DEF RefsInv, RefsBalanced

\* Every reference taken is given back once: in add, cancel, at the end of a
\* network load and of a data: load, and by the loader itself.
LEMMA RefsStep ==
    ASSUME Core, RefsInv, SyncJobs \cap DataJobs = {}, [Next]_vars
    PROVE  RefsInv'
<1> USE LoadsAssumption DEF Core, Types, CallInv, LifeInv, Sites,
       PerformSites, MessageSites, DataURLSites, Calling, NoCall, HasHandle,
       job, RefsInv, Held, LoaderRef
<1>1. ASSUME NEW j \in Jobs, Add(j) PROVE RefsInv'
  <2>1. Scheduled' = Scheduled \cup {j}
    BY <1>1, ScheduledByAdd
  <2> QED BY <1>1, <2>1 DEF Add
<1>2. ASSUME NEW j \in Jobs, AddRefused(j) PROVE RefsInv'
  BY <1>2 DEF AddRefused, Scheduled
<1>3. ASSUME NEW j \in Jobs, Cancel(j) PROVE RefsInv'
  <2>1. Scheduled' = Scheduled \ {j}
    BY <1>3, ScheduledByCancel
  <2>2. IsScheduled(j) <=> j \in Scheduled
    BY DEF IsScheduled, Scheduled, Listed
  <2> QED BY <1>3, <2>1, <2>2 DEF Cancel
<1>4. ASSUME NEW j \in Jobs, DeferLoading(j) PROVE RefsInv'
  BY <1>4 DEF DeferLoading, Outcomes, Scheduled
<1>5. ASSUME NEW j \in Jobs, ResumeLoading(j) PROVE RefsInv'
  BY <1>5 DEF ResumeLoading, Outcomes, Scheduled
<1>6. ASSUME NEW j \in Jobs, LoadSynchronously(j) PROVE RefsInv'
  BY <1>6 DEF LoadSynchronously, Scheduled
<1>7. ASSUME NEW j \in Jobs, CallbackOfCancelledJob(j) PROVE RefsInv'
  BY <1>7 DEF CallbackOfCancelledJob, CurlDelivers, CurlRuns, Scheduled
<1>8. ASSUME NEW j \in Jobs, HeaderCallback(j) PROVE RefsInv'
  BY <1>8 DEF HeaderCallback, CurlDelivers, CurlRuns, ClientCalled, Scheduled
<1>9. ASSUME NEW j \in Jobs, WriteCallback(j) PROVE RefsInv'
  BY <1>9 DEF WriteCallback, CurlDelivers, CurlRuns, ClientCalled, DataSite,
         Scheduled
<1>10. ASSUME NEW j \in Jobs, ReadCallbackFails(j) PROVE RefsInv'
  BY <1>10 DEF ReadCallbackFails, CurlDelivers, CurlRuns, Scheduled
<1>11. ASSUME NEW j \in Jobs, NEW r \in {"done", "failed"}, TransferEnds(j, r) PROVE RefsInv'
  BY <1>11 DEF TransferEnds, CurlRuns, Scheduled
<1>12. CASE PerformReturns
  BY <1>12 DEF PerformReturns, Scheduled
<1>13. CASE TimerFires
  BY <1>13 DEF TimerFires, Scheduled
<1>14. CASE StartNetworkJob
  <2>1. /\ Head(m_resourceHandleList) \in Jobs \cap Scheduled
        /\ Scheduled' = Scheduled \ {Head(m_resourceHandleList)}
    BY <1>14, ScheduledByStart
  <2> QED BY <1>14, <2>1 DEF StartNetworkJob
<1>15. CASE StartDataJob
  <2>1. /\ Head(m_resourceHandleList) \in Jobs \cap Scheduled
        /\ Scheduled' = Scheduled \ {Head(m_resourceHandleList)}
    BY <1>15, ScheduledByStart
  <2> QED BY <1>15, <2>1 DEF StartDataJob, ClientCalled
<1>16. CASE StartedFirst
  BY <1>16 DEF StartedFirst, Scheduled
<1>17. CASE Rearm
  BY <1>17 DEF Rearm, Scheduled
<1>18. CASE Select
  BY <1>18 DEF Select, SelectResults, Scheduled
<1>19. CASE NoMessage
  BY <1>19 DEF NoMessage, Scheduled
<1>20. ASSUME NEW j \in Jobs, MessageOfCancelledJob(j) PROVE RefsInv'
  BY <1>20 DEF MessageOfCancelledJob, HasMessage, RemoveFromCurl, Deref,
         Scheduled
<1>21. ASSUME NEW j \in Jobs, Message(j) PROVE RefsInv'
  BY <1>21 DEF Message, HasMessage, ClientCalled, MessageFinishSite, Scheduled
<1>22. CASE ReturnToCurl
  BY <1>22 DEF ReturnToCurl, Returning, BackIn, Scheduled
<1>23. CASE AnotherPart
  BY <1>23 DEF AnotherPart, Returning, ClientCalled, Scheduled
<1>24. CASE ReturnFromResponse
  BY <1>24 DEF ReturnFromResponse, Returning, BackIn, Scheduled
<1>25. CASE ReturnFromLocalResponse
  BY <1>25 DEF ReturnFromLocalResponse, Returning, LocalResponseFired, BackIn,
         ClientCalled, DataSite, Scheduled
<1>26. CASE ReturnFromLateResponse
  BY <1>26 DEF ReturnFromLateResponse, Returning, LocalResponseFired, BackIn,
         ClientCalled, MessageFinishSite, RemoveFromCurl, Deref, Scheduled
<1>27. CASE ReturnFromLastPart
  BY <1>27 DEF ReturnFromLastPart, Returning, ClientCalled, Scheduled
<1>28. CASE ReturnFromEnd
  BY <1>28 DEF ReturnFromEnd, Returning, RemoveFromCurl, Deref,
         LoaderReleases, LoaderRef, BackIn, Scheduled
<1>29. CASE ReturnInDataURL
  BY <1>29 DEF ReturnInDataURL, Returning, ClientCalled, Scheduled
<1>30. CASE ReturnFromDataURL
  BY <1>30 DEF ReturnFromDataURL, Returning, Deref, LoaderReleases, LoaderRef,
         BackIn, Scheduled
<1>31. CASE UNCHANGED vars
  BY <1>31 DEF vars, Scheduled
<1> HIDE DEF RefsInv
<1> QED BY <1>1, <1>2, <1>3, <1>4, <1>5, <1>6, <1>7, <1>8, <1>9, <1>10, <1>11,
       <1>12, <1>13, <1>14, <1>15, <1>16, <1>17, <1>18, <1>19, <1>20, <1>21,
       <1>22, <1>23, <1>24, <1>25, <1>26, <1>27, <1>28, <1>29, <1>30, <1>31
       DEF Next, ClientStep, CallbackStep, Return, ManagerStep

\* It holds in every behaviour unless a data: URL is loaded synchronously.
LEMMA RefsInvariant == SyncJobs \cap DataJobs = {} => (Spec => []RefsInv)
<1> SUFFICES ASSUME SyncJobs \cap DataJobs = {} PROVE Spec => []RefsInv
  OBVIOUS
<1>1. Init => RefsInv
  BY DEF Init, RefsInv, Held, LoaderRef, HasHandle, Scheduled, Listed
<1>2. Core /\ RefsInv /\ [Next]_vars => RefsInv'
  BY RefsStep
<1> QED BY <1>1, <1>2, CoreInvariant, PTL DEF Spec

\* A ResourceHandle's count is its loader's reference plus the manager's,
\* which lasts from add() until the load is removed from the list, from curl
\* or from handleDataURL; for loads that are not both synchronous and of a
\* data: URL, which dispatchSynchronousJob dereferences once too often.
THEOREM RefsAreBalanced == SyncJobs \cap DataJobs = {} => (Spec => []RefsBalanced)
<1> SUFFICES ASSUME SyncJobs \cap DataJobs = {} PROVE Spec => []RefsBalanced
  OBVIOUS
<1>1. Core /\ RefsInv => RefsBalanced
  BY RefsInvIsBalance DEF Core
<1> QED BY <1>1, CoreInvariant, RefsInvariant, PTL

\* Types and bounds: counters never go below zero, and no handle is ever
\* referenced more than twice.
THEOREM TypeCorrect == SyncJobs \cap DataJobs = {} => (Spec => []TypeOK)
<1> SUFFICES ASSUME SyncJobs \cap DataJobs = {} PROVE Spec => []TypeOK
  OBVIOUS
<1>1. ASSUME Core, SlotInv, RefsInv PROVE TypeOK
  <2>1. /\ Cardinality(Handles) \in Nat /\ Cardinality(Jobs) \in Nat
        /\ Cardinality(Handles) <= Cardinality(Jobs)
    BY LoadsAssumption, FS_Subset, FS_CardinalityType DEF Handles
  <2>2. m_runningJobs \in 0..Cardinality(Jobs)
    BY <1>1, <2>1 DEF SlotInv
  <2>3. refs \in [Jobs -> 0..2]
    <3>1. \A j \in Jobs : LoaderRef(j) \in 0..1
      BY DEF LoaderRef
    <3>2. \A j \in Jobs : refs[j] \in 0..2
      BY <1>1, <3>1 DEF RefsInv
    <3> QED BY <1>1, <3>2 DEF Core, Types
  <2> QED BY <1>1, <2>2, <2>3 DEF Core, Types, TypeOK
<1> QED BY <1>1, CoreInvariant, SlotInvariant, RefsInvariant, PTL

-----------------------------------------------------------------------------
(* Polling.                                                                *)

\* A slot is only missing while curl holds a transfer.
LEMMA FullMeansRunning ==
    ASSUME Core, SlotInv, "add" \notin Features, m_runningJobs > 0
    PROVE  InCurl # {}
<1>1. Cardinality({}) = 0
  BY FS_EmptySet
<1>2. Handles # {}
  BY <1>1 DEF SlotInv
<1>3. InCurl = Handles
  BY DEF Core, Types, RefusedInv, InCurl, Handles, HasHandle
<1> QED BY <1>2, <1>3

\* Every way out of the callback restarts the timer while there is work.
LEMMA PollStep ==
    ASSUME Core, SlotInv, PollInv, "add" \notin Features, "select" \notin Features, [Next]_vars
    PROVE  PollInv'
<1> USE LoadsAssumption DEF Core, Types, CallInv, LifeInv, Sites,
       PerformSites, MessageSites, DataURLSites, Calling, NoCall, HasHandle,
       job, PollInv, WorkIsPolled, InCurl, ClientRuns, local
<1>1. ASSUME NEW j \in Jobs, Add(j) PROVE PollInv'
  BY <1>1 DEF Add
<1>2. ASSUME NEW j \in Jobs, AddRefused(j) PROVE PollInv'
  BY <1>2 DEF AddRefused
<1>3. ASSUME NEW j \in Jobs, Cancel(j) PROVE PollInv'
  BY <1>3 DEF Cancel, RemoveScheduledJob
<1>4. ASSUME NEW j \in Jobs, DeferLoading(j) PROVE PollInv'
  BY <1>4 DEF DeferLoading, Outcomes
<1>5. ASSUME NEW j \in Jobs, ResumeLoading(j) PROVE PollInv'
  BY <1>5 DEF ResumeLoading, Outcomes
<1>6. ASSUME NEW j \in Jobs, LoadSynchronously(j) PROVE PollInv'
  BY <1>6 DEF LoadSynchronously
<1>7. ASSUME NEW j \in Jobs, CallbackOfCancelledJob(j) PROVE PollInv'
  BY <1>7 DEF CallbackOfCancelledJob, CurlDelivers, CurlRuns
<1>8. ASSUME NEW j \in Jobs, HeaderCallback(j) PROVE PollInv'
  BY <1>8 DEF HeaderCallback, CurlDelivers, CurlRuns, ClientCalled
<1>9. ASSUME NEW j \in Jobs, WriteCallback(j) PROVE PollInv'
  BY <1>9 DEF WriteCallback, CurlDelivers, CurlRuns, ClientCalled, DataSite
<1>10. ASSUME NEW j \in Jobs, ReadCallbackFails(j) PROVE PollInv'
  BY <1>10 DEF ReadCallbackFails, CurlDelivers, CurlRuns
<1>11. ASSUME NEW j \in Jobs, NEW r \in {"done", "failed"}, TransferEnds(j, r) PROVE PollInv'
  BY <1>11 DEF TransferEnds, CurlRuns
<1>12. CASE PerformReturns
  <2>1. (\E j \in Jobs : transfer[j] = "running") => runningHandles' > 0
    BY <1>12, RunningCount DEF PerformReturns
  <2> QED BY <1>12, <2>1 DEF PerformReturns
<1>13. CASE TimerFires
  BY <1>13 DEF TimerFires
<1>14. CASE StartNetworkJob
  BY <1>14 DEF StartNetworkJob, CanStart, InitializeHandle, Outcomes
<1>15. CASE StartDataJob
  <2>1. call' = [site |-> "dataResponse", job |-> Head(m_resourceHandleList)]
        \/ call' = [site |-> "dataFail", job |-> Head(m_resourceHandleList)]
    BY <1>15 DEF StartDataJob, ClientCalled
  <2> QED BY <1>15, <2>1 DEF StartDataJob, ClientCalled
<1>16. CASE StartedFirst
  BY <1>16 DEF StartedFirst
<1>17. CASE Rearm
  <2>1. m_resourceHandleList # <<>> => m_runningJobs > 0
    BY <1>17 DEF Rearm, CanStart, SlotInv
  <2>2. m_resourceHandleList # <<>> => InCurl # {}
    BY <2>1, FullMeansRunning
  <2> QED BY <1>17, <2>2 DEF Rearm
<1>18. CASE Select
  BY <1>18 DEF Select, SelectResults
<1>19. CASE NoMessage
  BY <1>19 DEF NoMessage
<1>20. ASSUME NEW j \in Jobs, MessageOfCancelledJob(j) PROVE PollInv'
  BY <1>20 DEF MessageOfCancelledJob, HasMessage, RemoveFromCurl, Deref
<1>21. ASSUME NEW j \in Jobs, Message(j) PROVE PollInv'
  BY <1>21 DEF Message, HasMessage, ClientCalled, MessageFinishSite
<1>22. CASE ReturnToCurl
  BY <1>22 DEF ReturnToCurl, Returning, BackIn
<1>23. CASE AnotherPart
  BY <1>23 DEF AnotherPart, Returning, ClientCalled
<1>24. CASE ReturnFromResponse
  BY <1>24 DEF ReturnFromResponse, Returning, BackIn
<1>25. CASE ReturnFromLocalResponse
  BY <1>25 DEF ReturnFromLocalResponse, Returning, LocalResponseFired, BackIn,
         ClientCalled, DataSite
<1>26. CASE ReturnFromLateResponse
  BY <1>26 DEF ReturnFromLateResponse, Returning, LocalResponseFired, BackIn,
         ClientCalled, MessageFinishSite, RemoveFromCurl, Deref
<1>27. CASE ReturnFromLastPart
  BY <1>27 DEF ReturnFromLastPart, Returning, ClientCalled
<1>28. CASE ReturnFromEnd
  BY <1>28 DEF ReturnFromEnd, Returning, RemoveFromCurl, Deref,
         LoaderReleases, LoaderRef, BackIn
<1>29. CASE ReturnInDataURL
  BY <1>29 DEF ReturnInDataURL, Returning, ClientCalled
<1>30. CASE ReturnFromDataURL
  BY <1>30 DEF ReturnFromDataURL, Returning, Deref, LoaderReleases, LoaderRef,
         BackIn
<1>31. CASE UNCHANGED vars
  BY <1>31 DEF vars
<1> HIDE DEF PollInv
<1> QED BY <1>1, <1>2, <1>3, <1>4, <1>5, <1>6, <1>7, <1>8, <1>9, <1>10, <1>11,
       <1>12, <1>13, <1>14, <1>15, <1>16, <1>17, <1>18, <1>19, <1>20, <1>21,
       <1>22, <1>23, <1>24, <1>25, <1>26, <1>27, <1>28, <1>29, <1>30, <1>31
       DEF Next, ClientStep, CallbackStep, Return, ManagerStep

\* It holds in every behaviour in which neither curl_multi_add_handle nor
\* select fails.
LEMMA PollInvariant == Features \cap {"add", "select"} = {} => (Spec => []PollInv)
<1> SUFFICES ASSUME "add" \notin Features, "select" \notin Features PROVE Spec => []PollInv
  BY Zenon
<1>1. Init => PollInv
  BY DEF Init, PollInv, WorkIsPolled, InCurl, Calling
<1>2. Core /\ SlotInv /\ PollInv /\ [Next]_vars => PollInv'
  BY PollStep
<1> QED BY <1>1, <1>2, CoreInvariant, SlotInvariant, PTL DEF Spec

\* The download timer runs whenever the event loop runs and a load is waiting
\* or with curl, for any number of loads and slots, if neither select() nor
\* curl_multi_add_handle() fails.
THEOREM WorkIsAlwaysPolled ==
    Features \cap {"add", "select"} = {} => (Spec => []WorkIsPolled)
<1> SUFFICES ASSUME Features \cap {"add", "select"} = {} PROVE Spec => []WorkIsPolled
  OBVIOUS
<1>1. PollInv => WorkIsPolled
  BY DEF PollInv
<1> QED BY <1>1, PollInvariant, PTL

-----------------------------------------------------------------------------
(* What clients hear.                                                      *)

\* No call with data or success is made for a job without a response.
LEMMA ResponseStep ==
    ASSUME Core, ResponseFirst, [Next]_vars
    PROVE  ResponseFirst'
<1> USE LoadsAssumption DEF Core, Types, CallInv, LifeInv, Sites,
       PerformSites, MessageSites, DataURLSites, Calling, NoCall, HasHandle,
       job, ResponseFirst
<1>1. ASSUME NEW j \in Jobs, Add(j) PROVE ResponseFirst'
  BY <1>1 DEF Add
<1>2. ASSUME NEW j \in Jobs, AddRefused(j) PROVE ResponseFirst'
  BY <1>2 DEF AddRefused
<1>3. ASSUME NEW j \in Jobs, Cancel(j) PROVE ResponseFirst'
  BY <1>3 DEF Cancel, RemoveScheduledJob
<1>4. ASSUME NEW j \in Jobs, DeferLoading(j) PROVE ResponseFirst'
  BY <1>4 DEF DeferLoading, Outcomes
<1>5. ASSUME NEW j \in Jobs, ResumeLoading(j) PROVE ResponseFirst'
  BY <1>5 DEF ResumeLoading, Outcomes
<1>6. ASSUME NEW j \in Jobs, LoadSynchronously(j) PROVE ResponseFirst'
  BY <1>6 DEF LoadSynchronously
<1>7. ASSUME NEW j \in Jobs, CallbackOfCancelledJob(j) PROVE ResponseFirst'
  BY <1>7 DEF CallbackOfCancelledJob, CurlDelivers, CurlRuns
<1>8. ASSUME NEW j \in Jobs, HeaderCallback(j) PROVE ResponseFirst'
  BY <1>8 DEF HeaderCallback, CurlDelivers, CurlRuns, ClientCalled
<1>9. ASSUME NEW j \in Jobs, WriteCallback(j) PROVE ResponseFirst'
  BY <1>9 DEF WriteCallback, CurlDelivers, CurlRuns, ClientCalled, DataSite
<1>10. ASSUME NEW j \in Jobs, ReadCallbackFails(j) PROVE ResponseFirst'
  BY <1>10 DEF ReadCallbackFails, CurlDelivers, CurlRuns
<1>11. ASSUME NEW j \in Jobs, NEW r \in {"done", "failed"}, TransferEnds(j, r) PROVE ResponseFirst'
  BY <1>11 DEF TransferEnds, CurlRuns
<1>12. CASE PerformReturns
  BY <1>12 DEF PerformReturns
<1>13. CASE TimerFires
  BY <1>13 DEF TimerFires
<1>14. CASE StartNetworkJob
  BY <1>14 DEF StartNetworkJob, CanStart, InitializeHandle, Outcomes
<1>15. CASE StartDataJob
  BY <1>15 DEF StartDataJob, CanStart, ClientCalled
<1>16. CASE StartedFirst
  BY <1>16 DEF StartedFirst
<1>17. CASE Rearm
  BY <1>17 DEF Rearm
<1>18. CASE Select
  BY <1>18 DEF Select, SelectResults
<1>19. CASE NoMessage
  BY <1>19 DEF NoMessage
<1>20. ASSUME NEW j \in Jobs, MessageOfCancelledJob(j) PROVE ResponseFirst'
  BY <1>20 DEF MessageOfCancelledJob, HasMessage, RemoveFromCurl, Deref
<1>21. ASSUME NEW j \in Jobs, Message(j) PROVE ResponseFirst'
  BY <1>21 DEF Message, HasMessage, ClientCalled, MessageFinishSite
<1>22. CASE ReturnToCurl
  BY <1>22 DEF ReturnToCurl, Returning, BackIn
<1>23. CASE AnotherPart
  BY <1>23 DEF AnotherPart, Returning, ClientCalled
<1>24. CASE ReturnFromResponse
  BY <1>24 DEF ReturnFromResponse, Returning, BackIn
<1>25. CASE ReturnFromLocalResponse
  BY <1>25 DEF ReturnFromLocalResponse, Returning, LocalResponseFired, BackIn,
         ClientCalled, DataSite
<1>26. CASE ReturnFromLateResponse
  BY <1>26 DEF ReturnFromLateResponse, Returning, LocalResponseFired, BackIn,
         ClientCalled, MessageFinishSite, RemoveFromCurl, Deref
<1>27. CASE ReturnFromLastPart
  BY <1>27 DEF ReturnFromLastPart, Returning, ClientCalled
<1>28. CASE ReturnFromEnd
  BY <1>28 DEF ReturnFromEnd, Returning, RemoveFromCurl, Deref,
         LoaderReleases, LoaderRef, BackIn
<1>29. CASE ReturnInDataURL
  BY <1>29 DEF ReturnInDataURL, Returning, ClientCalled
<1>30. CASE ReturnFromDataURL
  BY <1>30 DEF ReturnFromDataURL, Returning, Deref, LoaderReleases, LoaderRef,
         BackIn
<1>31. CASE UNCHANGED vars
  BY <1>31 DEF vars
<1> HIDE DEF ResponseFirst
<1> QED BY <1>1, <1>2, <1>3, <1>4, <1>5, <1>6, <1>7, <1>8, <1>9, <1>10, <1>11,
       <1>12, <1>13, <1>14, <1>15, <1>16, <1>17, <1>18, <1>19, <1>20, <1>21,
       <1>22, <1>23, <1>24, <1>25, <1>26, <1>27, <1>28, <1>29, <1>30, <1>31
       DEF Next, ClientStep, CallbackStep, Return, ManagerStep

\* A client hears of a response before any data and before success, for any
\* mix of protocols and whatever it does in between.
THEOREM ResponseComesFirst == Spec => []ResponseFirst
<1>1. Init => ResponseFirst
  BY DEF Init, ResponseFirst
<1>2. Core /\ ResponseFirst /\ [Next]_vars => ResponseFirst'
  BY ResponseStep
<1> QED BY <1>1, <1>2, CoreInvariant, PTL DEF Spec

\* setDefersLoading and initializeHandle keep curl's pause flag in step.
LEMMA PauseStep ==
    ASSUME Core, PauseInv, "pause" \notin Features, [Next]_vars
    PROVE  PauseInv'
<1> USE LoadsAssumption DEF Core, Types, CallInv, LifeInv, Sites,
       PerformSites, MessageSites, DataURLSites, Calling, NoCall, HasHandle,
       job, PauseInv
<1>1. ASSUME NEW j \in Jobs, Add(j) PROVE PauseInv'
  BY <1>1 DEF Add
<1>2. ASSUME NEW j \in Jobs, AddRefused(j) PROVE PauseInv'
  BY <1>2 DEF AddRefused
<1>3. ASSUME NEW j \in Jobs, Cancel(j) PROVE PauseInv'
  BY <1>3 DEF Cancel, RemoveScheduledJob
<1>4. ASSUME NEW j \in Jobs, DeferLoading(j) PROVE PauseInv'
  <2>1. /\ paused' = [paused EXCEPT ![j] = @ \/ HasHandle(j)]
        /\ m_defersLoading' = [m_defersLoading EXCEPT ![j] = TRUE]
        /\ transfer' = transfer
    BY <1>4 DEF DeferLoading, Outcomes
  <2> QED BY <2>1
<1>5. ASSUME NEW j \in Jobs, ResumeLoading(j) PROVE PauseInv'
  BY <1>5 DEF ResumeLoading, Outcomes
<1>6. ASSUME NEW j \in Jobs, LoadSynchronously(j) PROVE PauseInv'
  BY <1>6 DEF LoadSynchronously
<1>7. ASSUME NEW j \in Jobs, CallbackOfCancelledJob(j) PROVE PauseInv'
  BY <1>7 DEF CallbackOfCancelledJob, CurlDelivers, CurlRuns
<1>8. ASSUME NEW j \in Jobs, HeaderCallback(j) PROVE PauseInv'
  BY <1>8 DEF HeaderCallback, CurlDelivers, CurlRuns, ClientCalled
<1>9. ASSUME NEW j \in Jobs, WriteCallback(j) PROVE PauseInv'
  BY <1>9 DEF WriteCallback, CurlDelivers, CurlRuns, ClientCalled, DataSite
<1>10. ASSUME NEW j \in Jobs, ReadCallbackFails(j) PROVE PauseInv'
  BY <1>10 DEF ReadCallbackFails, CurlDelivers, CurlRuns
<1>11. ASSUME NEW j \in Jobs, NEW r \in {"done", "failed"}, TransferEnds(j, r) PROVE PauseInv'
  BY <1>11 DEF TransferEnds, CurlRuns
<1>12. CASE PerformReturns
  BY <1>12 DEF PerformReturns
<1>13. CASE TimerFires
  BY <1>13 DEF TimerFires
<1>14. CASE StartNetworkJob
  <2>1. Head(m_resourceHandleList) \in Jobs
    BY <1>14, ScheduledByStart
  <2> QED BY <1>14, <2>1 DEF StartNetworkJob, InitializeHandle
<1>15. CASE StartDataJob
  BY <1>15 DEF StartDataJob, CanStart, ClientCalled
<1>16. CASE StartedFirst
  BY <1>16 DEF StartedFirst
<1>17. CASE Rearm
  BY <1>17 DEF Rearm
<1>18. CASE Select
  BY <1>18 DEF Select, SelectResults
<1>19. CASE NoMessage
  BY <1>19 DEF NoMessage
<1>20. ASSUME NEW j \in Jobs, MessageOfCancelledJob(j) PROVE PauseInv'
  BY <1>20 DEF MessageOfCancelledJob, HasMessage, RemoveFromCurl, Deref
<1>21. ASSUME NEW j \in Jobs, Message(j) PROVE PauseInv'
  BY <1>21 DEF Message, HasMessage, ClientCalled, MessageFinishSite
<1>22. CASE ReturnToCurl
  BY <1>22 DEF ReturnToCurl, Returning, BackIn
<1>23. CASE AnotherPart
  BY <1>23 DEF AnotherPart, Returning, ClientCalled
<1>24. CASE ReturnFromResponse
  BY <1>24 DEF ReturnFromResponse, Returning, BackIn
<1>25. CASE ReturnFromLocalResponse
  BY <1>25 DEF ReturnFromLocalResponse, Returning, LocalResponseFired, BackIn,
         ClientCalled, DataSite
<1>26. CASE ReturnFromLateResponse
  <2>1. call.job \in Jobs
    BY <1>26 DEF ReturnFromLateResponse, Returning
  <2>2. CASE m_cancelled[call.job]
    <3>1. /\ paused' = [paused EXCEPT ![call.job] = FALSE]
          /\ transfer' = [transfer EXCEPT ![call.job] = "none"]
          /\ UNCHANGED m_defersLoading
      BY <1>26, <2>2 DEF ReturnFromLateResponse, RemoveFromCurl
    <3> QED BY <2>1, <3>1
  <2>3. CASE ~m_cancelled[call.job]
    BY <1>26, <2>1, <2>3 DEF ReturnFromLateResponse
  <2> QED BY <2>2, <2>3
<1>27. CASE ReturnFromLastPart
  BY <1>27 DEF ReturnFromLastPart, Returning, ClientCalled
<1>28. CASE ReturnFromEnd
  BY <1>28 DEF ReturnFromEnd, Returning, RemoveFromCurl, Deref,
         LoaderReleases, LoaderRef, BackIn
<1>29. CASE ReturnInDataURL
  BY <1>29 DEF ReturnInDataURL, Returning, ClientCalled
<1>30. CASE ReturnFromDataURL
  BY <1>30 DEF ReturnFromDataURL, Returning, Deref, LoaderReleases, LoaderRef,
         BackIn
<1>31. CASE UNCHANGED vars
  BY <1>31 DEF vars
<1> HIDE DEF PauseInv
<1> QED BY <1>1, <1>2, <1>3, <1>4, <1>5, <1>6, <1>7, <1>8, <1>9, <1>10, <1>11,
       <1>12, <1>13, <1>14, <1>15, <1>16, <1>17, <1>18, <1>19, <1>20, <1>21,
       <1>22, <1>23, <1>24, <1>25, <1>26, <1>27, <1>28, <1>29, <1>30, <1>31
       DEF Next, ClientStep, CallbackStep, Return, ManagerStep

\* It holds in every behaviour in which curl_easy_pause does not fail.
LEMMA PauseInvariant == "pause" \notin Features => (Spec => []PauseInv)
<1> SUFFICES ASSUME "pause" \notin Features PROVE Spec => []PauseInv
  OBVIOUS
<1>1. Init => PauseInv
  BY DEF Init, PauseInv, HasHandle
<1>2. Core /\ PauseInv /\ [Next]_vars => PauseInv'
  BY PauseStep
<1> QED BY <1>1, <1>2, CoreInvariant, PTL DEF Spec

\* curl calls back only for a transfer that is not paused.
LEMMA DeferredStep ==
    ASSUME Core, PauseInv, [Next]_vars
    PROVE  (pc = "perform" /\ pc' = "client" => ~m_defersLoading[call'.job])
<1> USE LoadsAssumption DEF Core, Types, CallInv, LifeInv, Sites,
       PerformSites, MessageSites, DataURLSites, Calling, NoCall, HasHandle,
       job, PauseInv
<1>1. ASSUME NEW j \in Jobs, Add(j) PROVE (pc = "perform" /\ pc' = "client" => ~m_defersLoading[call'.job])
  BY <1>1 DEF Add
<1>2. ASSUME NEW j \in Jobs, AddRefused(j) PROVE (pc = "perform" /\ pc' = "client" => ~m_defersLoading[call'.job])
  BY <1>2 DEF AddRefused
<1>3. ASSUME NEW j \in Jobs, Cancel(j) PROVE (pc = "perform" /\ pc' = "client" => ~m_defersLoading[call'.job])
  BY <1>3 DEF Cancel, RemoveScheduledJob
<1>4. ASSUME NEW j \in Jobs, DeferLoading(j) PROVE (pc = "perform" /\ pc' = "client" => ~m_defersLoading[call'.job])
  BY <1>4 DEF DeferLoading, Outcomes
<1>5. ASSUME NEW j \in Jobs, ResumeLoading(j) PROVE (pc = "perform" /\ pc' = "client" => ~m_defersLoading[call'.job])
  BY <1>5 DEF ResumeLoading, Outcomes
<1>6. ASSUME NEW j \in Jobs, LoadSynchronously(j) PROVE (pc = "perform" /\ pc' = "client" => ~m_defersLoading[call'.job])
  BY <1>6 DEF LoadSynchronously
<1>7. ASSUME NEW j \in Jobs, CallbackOfCancelledJob(j) PROVE (pc = "perform" /\ pc' = "client" => ~m_defersLoading[call'.job])
  BY <1>7 DEF CallbackOfCancelledJob, CurlDelivers, CurlRuns
<1>8. ASSUME NEW j \in Jobs, HeaderCallback(j) PROVE (pc = "perform" /\ pc' = "client" => ~m_defersLoading[call'.job])
  BY <1>8 DEF HeaderCallback, CurlDelivers, CurlRuns, ClientCalled
<1>9. ASSUME NEW j \in Jobs, WriteCallback(j) PROVE (pc = "perform" /\ pc' = "client" => ~m_defersLoading[call'.job])
  BY <1>9 DEF WriteCallback, CurlDelivers, CurlRuns, ClientCalled, DataSite
<1>10. ASSUME NEW j \in Jobs, ReadCallbackFails(j) PROVE (pc = "perform" /\ pc' = "client" => ~m_defersLoading[call'.job])
  BY <1>10 DEF ReadCallbackFails, CurlDelivers, CurlRuns
<1>11. ASSUME NEW j \in Jobs, NEW r \in {"done", "failed"}, TransferEnds(j, r) PROVE (pc = "perform" /\ pc' = "client" => ~m_defersLoading[call'.job])
  BY <1>11 DEF TransferEnds, CurlRuns
<1>12. CASE PerformReturns
  BY <1>12 DEF PerformReturns
<1>13. CASE TimerFires
  BY <1>13 DEF TimerFires
<1>14. CASE StartNetworkJob
  BY <1>14 DEF StartNetworkJob, CanStart, InitializeHandle, Outcomes
<1>15. CASE StartDataJob
  BY <1>15 DEF StartDataJob, CanStart, ClientCalled
<1>16. CASE StartedFirst
  BY <1>16 DEF StartedFirst
<1>17. CASE Rearm
  BY <1>17 DEF Rearm
<1>18. CASE Select
  BY <1>18 DEF Select, SelectResults
<1>19. CASE NoMessage
  BY <1>19 DEF NoMessage
<1>20. ASSUME NEW j \in Jobs, MessageOfCancelledJob(j) PROVE (pc = "perform" /\ pc' = "client" => ~m_defersLoading[call'.job])
  BY <1>20 DEF MessageOfCancelledJob, HasMessage, RemoveFromCurl, Deref
<1>21. ASSUME NEW j \in Jobs, Message(j) PROVE (pc = "perform" /\ pc' = "client" => ~m_defersLoading[call'.job])
  BY <1>21 DEF Message, HasMessage, ClientCalled, MessageFinishSite
<1>22. CASE ReturnToCurl
  BY <1>22 DEF ReturnToCurl, Returning, BackIn
<1>23. CASE AnotherPart
  BY <1>23 DEF AnotherPart, Returning, ClientCalled
<1>24. CASE ReturnFromResponse
  BY <1>24 DEF ReturnFromResponse, Returning, BackIn
<1>25. CASE ReturnFromLocalResponse
  BY <1>25 DEF ReturnFromLocalResponse, Returning, LocalResponseFired, BackIn,
         ClientCalled, DataSite
<1>26. CASE ReturnFromLateResponse
  BY <1>26 DEF ReturnFromLateResponse, Returning, LocalResponseFired, BackIn,
         ClientCalled, MessageFinishSite, RemoveFromCurl, Deref
<1>27. CASE ReturnFromLastPart
  BY <1>27 DEF ReturnFromLastPart, Returning, ClientCalled
<1>28. CASE ReturnFromEnd
  BY <1>28 DEF ReturnFromEnd, Returning, RemoveFromCurl, Deref,
         LoaderReleases, LoaderRef, BackIn
<1>29. CASE ReturnInDataURL
  BY <1>29 DEF ReturnInDataURL, Returning, ClientCalled
<1>30. CASE ReturnFromDataURL
  BY <1>30 DEF ReturnFromDataURL, Returning, Deref, LoaderReleases, LoaderRef,
         BackIn
<1>31. CASE UNCHANGED vars
  BY <1>31 DEF vars
<1> QED BY <1>1, <1>2, <1>3, <1>4, <1>5, <1>6, <1>7, <1>8, <1>9, <1>10, <1>11,
       <1>12, <1>13, <1>14, <1>15, <1>16, <1>17, <1>18, <1>19, <1>20, <1>21,
       <1>22, <1>23, <1>24, <1>25, <1>26, <1>27, <1>28, <1>29, <1>30, <1>31
       DEF Next, ClientStep, CallbackStep, Return, ManagerStep

\* The assertions of writeCallback and headerCallback: no client whose load is
\* deferred is called from curl, if curl_easy_pause(CURLPAUSE_ALL) never fails.
THEOREM DeferredNotCalled == "pause" \notin Features => (Spec => NotCalledWhileDeferred)
<1> SUFFICES ASSUME "pause" \notin Features PROVE Spec => NotCalledWhileDeferred
  OBVIOUS
<1>1. Core /\ PauseInv /\ [Next]_vars
        => [pc = "perform" /\ pc' = "client" => ~m_defersLoading[call'.job]]_vars
  BY DeferredStep
<1> QED BY <1>1, CoreInvariant, PauseInvariant, PTL DEF Spec, NotCalledWhileDeferred

\* A call that needs a look at m_cancelled finds a loader that wants the load.
CheckedCall ==
    CallIsMade /\ call'.job \notin DataJobs /\ ~UncheckedForMultipart
      => CallsLoaderThatHolds

\* Every call made for a network load comes after a look at m_cancelled, but for
\* the two of multipart loads.
LEMMA NetworkCallStep ==
    ASSUME Core, [Next]_vars
    PROVE  CheckedCall
<1> USE LoadsAssumption DEF Core, Types, CallInv, LifeInv, Sites,
       PerformSites, MessageSites, DataURLSites, Calling, NoCall, HasHandle,
       job, CheckedCall, CallIsMade, CallsLoaderThatHolds
<1>1. ASSUME NEW j \in Jobs, Add(j) PROVE CheckedCall
  BY <1>1 DEF Add
<1>2. ASSUME NEW j \in Jobs, AddRefused(j) PROVE CheckedCall
  BY <1>2 DEF AddRefused
<1>3. ASSUME NEW j \in Jobs, Cancel(j) PROVE CheckedCall
  BY <1>3 DEF Cancel, RemoveScheduledJob
<1>4. ASSUME NEW j \in Jobs, DeferLoading(j) PROVE CheckedCall
  BY <1>4 DEF DeferLoading, Outcomes
<1>5. ASSUME NEW j \in Jobs, ResumeLoading(j) PROVE CheckedCall
  BY <1>5 DEF ResumeLoading, Outcomes
<1>6. ASSUME NEW j \in Jobs, LoadSynchronously(j) PROVE CheckedCall
  BY <1>6 DEF LoadSynchronously
<1>7. ASSUME NEW j \in Jobs, CallbackOfCancelledJob(j) PROVE CheckedCall
  BY <1>7 DEF CallbackOfCancelledJob, CurlDelivers, CurlRuns
<1>8. ASSUME NEW j \in Jobs, HeaderCallback(j) PROVE CheckedCall
  BY <1>8 DEF HeaderCallback, CurlDelivers, CurlRuns, ClientCalled
<1>9. ASSUME NEW j \in Jobs, WriteCallback(j) PROVE CheckedCall
  BY <1>9 DEF WriteCallback, CurlDelivers, CurlRuns, ClientCalled, DataSite
<1>10. ASSUME NEW j \in Jobs, ReadCallbackFails(j) PROVE CheckedCall
  BY <1>10 DEF ReadCallbackFails, CurlDelivers, CurlRuns
<1>11. ASSUME NEW j \in Jobs, NEW r \in {"done", "failed"}, TransferEnds(j, r) PROVE CheckedCall
  BY <1>11 DEF TransferEnds, CurlRuns
<1>12. CASE PerformReturns
  BY <1>12 DEF PerformReturns
<1>13. CASE TimerFires
  BY <1>13 DEF TimerFires
<1>14. CASE StartNetworkJob
  BY <1>14 DEF StartNetworkJob, CanStart, InitializeHandle, Outcomes
<1>15. CASE StartDataJob
  <2>1. call'.job \in DataJobs
    BY <1>15 DEF StartDataJob, ClientCalled
  <2> QED BY <2>1
<1>16. CASE StartedFirst
  BY <1>16 DEF StartedFirst
<1>17. CASE Rearm
  BY <1>17 DEF Rearm
<1>18. CASE Select
  BY <1>18 DEF Select, SelectResults
<1>19. CASE NoMessage
  BY <1>19 DEF NoMessage
<1>20. ASSUME NEW j \in Jobs, MessageOfCancelledJob(j) PROVE CheckedCall
  BY <1>20 DEF MessageOfCancelledJob, HasMessage, RemoveFromCurl, Deref
<1>21. ASSUME NEW j \in Jobs, Message(j) PROVE CheckedCall
  BY <1>21 DEF Message, HasMessage, ClientCalled, MessageFinishSite
<1>22. CASE ReturnToCurl
  BY <1>22 DEF ReturnToCurl, Returning, BackIn
<1>23. CASE AnotherPart
  BY <1>23 DEF AnotherPart, Returning, ClientCalled, UncheckedForMultipart
<1>24. CASE ReturnFromResponse
  BY <1>24 DEF ReturnFromResponse, Returning, BackIn
<1>25. CASE ReturnFromLocalResponse
  BY <1>25 DEF ReturnFromLocalResponse, Returning, LocalResponseFired, BackIn,
         ClientCalled, DataSite
<1>26. CASE ReturnFromLateResponse
  BY <1>26 DEF ReturnFromLateResponse, Returning, LocalResponseFired, BackIn,
         ClientCalled, MessageFinishSite, RemoveFromCurl, Deref
<1>27. CASE ReturnFromLastPart
  BY <1>27 DEF ReturnFromLastPart, Returning, ClientCalled, UncheckedForMultipart
<1>28. CASE ReturnFromEnd
  BY <1>28 DEF ReturnFromEnd, Returning, RemoveFromCurl, Deref,
         LoaderReleases, LoaderRef, BackIn
<1>29. CASE ReturnInDataURL
  BY <1>29 DEF ReturnInDataURL, Returning, ClientCalled
<1>30. CASE ReturnFromDataURL
  BY <1>30 DEF ReturnFromDataURL, Returning, Deref, LoaderReleases, LoaderRef,
         BackIn
<1>31. CASE UNCHANGED vars
  BY <1>31 DEF vars
<1> QED BY <1>1, <1>2, <1>3, <1>4, <1>5, <1>6, <1>7, <1>8, <1>9, <1>10, <1>11,
       <1>12, <1>13, <1>14, <1>15, <1>16, <1>17, <1>18, <1>19, <1>20, <1>21,
       <1>22, <1>23, <1>24, <1>25, <1>26, <1>27, <1>28, <1>29, <1>30, <1>31
       DEF Next, ClientStep, CallbackStep, Return, ManagerStep

\* A loader that cancelled or released a load that curl serves, multipart or
\* not, is not called for it again, whichever callback it did that in, but by
\* the two calls that MultipartHandle and downloadTimerCallback make without a
\* look at m_cancelled: the response of another part, and the end after the
\* last part.
THEOREM CancelledNotCalled == Spec => NoNetworkCallAfterCancel
<1>1. Core /\ [Next]_vars
        => [CallIsMade /\ call'.job \notin DataJobs /\ ~UncheckedForMultipart
               => CallsLoaderThatHolds]_vars
  BY NetworkCallStep DEF CheckedCall
<1> QED BY <1>1, CoreInvariant, PTL DEF Spec, NoNetworkCallAfterCancel
=============================================================================
