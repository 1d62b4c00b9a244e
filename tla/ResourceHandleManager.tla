------------------------ MODULE ResourceHandleManager ------------------------
(***************************************************************************)
(* The loader of the curl back end: ResourceHandleManager runs every page  *)
(* load of the process on the main thread, out of one timer callback that  *)
(* polls a curl multi handle.  A job is a ResourceHandle, its client is    *)
(* the ResourceLoader that created it.  The hard part is re-entrancy: curl *)
(* calls back into the manager, the manager calls the client, and the      *)
(* client may add, cancel or defer any job before it returns.              *)
(***************************************************************************)
EXTENDS Integers, Sequences, FiniteSets

CONSTANTS
    Jobs,            \* the ResourceHandles of the behaviour
    DataJobs,        \* those with a data: URL, served without curl
    MultipartJobs,   \* those answered by a multipart response
    SyncJobs,        \* those loaded by platformLoadResourceSynchronously
    MaxRunningJobs,  \* maxRunningJobs (128 in the code)
    Features         \* what the clients and curl may do, a subset of:
                     \*   "defer"  clients defer and resume their loads
                     \*   "read"   an upload's form data cannot be read
                     \*   "resume" curl_easy_pause(CURLPAUSE_CONT) may fail
                     \*   "pause"  curl_easy_pause(CURLPAUSE_ALL) may fail
                     \*   "add"    curl_multi_add_handle may fail
                     \*   "select" select() may fail

ASSUME LoadsAssumption ==
    /\ IsFiniteSet(Jobs)
    /\ MaxRunningJobs \in Nat \ {0}

NoCall == [site |-> "none"]

VARIABLES
    m_resourceHandleList,  \* scheduled jobs, in order
    m_runningJobs,         \* how many jobs the manager believes curl runs
    timerActive,           \* m_downloadTimer.isActive()
    refs,                  \* reference count of each ResourceHandle
    transfer,              \* what curl holds of a job: "none", "running",
                           \* "done"/"failed" (message queued), "refused"
    paused,                \* curl_easy_pause state of the easy handle
    m_cancelled, m_defersLoading, responseFired,
    loader,                \* the client's side of each job
    pc,                    \* where downloadTimerCallback is
    call,                  \* the client callback in progress
    again, started, final, runningHandles    \* its local variables

job == <<refs, transfer, paused, m_cancelled, m_defersLoading, responseFired, loader>>
local == <<again, started, final, runningHandles>>
vars == <<m_resourceHandleList, m_runningJobs, timerActive, job, pc, call, local>>

Sites == {"redirect", "challenge", "response", "localResponse", "data", "part", "nextPart",
          "lateResponse", "lastPart", "finish", "fail",
          "dataResponse", "dataData", "dataFinish", "dataFail"}

TypeOK ==
    /\ m_resourceHandleList \in Seq(Jobs)
    /\ m_runningJobs \in 0..Cardinality(Jobs)
    /\ timerActive \in BOOLEAN
    /\ refs \in [Jobs -> 0..2]
    /\ transfer \in [Jobs -> {"none", "running", "done", "failed", "refused"}]
    /\ {paused, m_cancelled, m_defersLoading, responseFired} \subseteq [Jobs -> BOOLEAN]
    /\ loader \in [Jobs -> {"unborn", "holds", "cancelled", "released"}]
    /\ pc \in {"idle", "start", "select", "perform", "messages", "client"}
    /\ call \in {NoCall} \cup [site : Sites, job : Jobs]
    /\ {again, started, final} \subseteq BOOLEAN
    /\ runningHandles \in 0..Cardinality(Jobs)

Init ==
    /\ m_resourceHandleList = <<>>
    /\ m_runningJobs = 0
    /\ timerActive = FALSE
    /\ refs = [j \in Jobs |-> 0]
    /\ transfer = [j \in Jobs |-> "none"]
    /\ paused = [j \in Jobs |-> FALSE]
    /\ m_cancelled = [j \in Jobs |-> FALSE]
    /\ m_defersLoading = [j \in Jobs |-> FALSE]
    /\ responseFired = [j \in Jobs |-> FALSE]
    /\ loader = [j \in Jobs |-> "unborn"]
    /\ pc = "idle"
    /\ call = NoCall
    /\ again = FALSE /\ started = FALSE /\ final = FALSE /\ runningHandles = 0

-----------------------------------------------------------------------------
(* Helpers.                                                                *)

(* The results a call that may fail can have.                              *)
Outcomes(failure) == IF failure \in Features THEN BOOLEAN ELSE {TRUE}

(* A ResourceHandle is destroyed when its last reference goes; its         *)
(* destructor cancels it, which marks it and starts the timer.             *)
Deref(j, n) ==
    /\ refs' = [refs EXCEPT ![j] = @ - n]
    /\ m_cancelled' = [m_cancelled EXCEPT ![j] = @ \/ refs[j] = n]
    /\ timerActive' = (timerActive \/ refs[j] = n)

ClientCalled(site, j) ==
    /\ pc' = "client"
    /\ call' = [site |-> site, job |-> j]

BackIn(where) ==
    /\ pc' = where
    /\ call' = NoCall

(* Mutants of removeFromCurl: the count or the reference goes wrong.       *)
RemoveFromCurlForgetsCount(j, n) ==
    /\ m_runningJobs' = m_runningJobs
    /\ transfer' = [transfer EXCEPT ![j] = "none"]
    /\ paused' = [paused EXCEPT ![j] = FALSE]
    /\ Deref(j, n)

RemoveFromCurlForgetsDeref(j, n) ==
    /\ m_runningJobs' = m_runningJobs - 1
    /\ transfer' = [transfer EXCEPT ![j] = "none"]
    /\ paused' = [paused EXCEPT ![j] = FALSE]
    /\ Deref(j, n - 1)

RemoveFromCurlCountsTwice(j, n) ==
    /\ m_runningJobs' = m_runningJobs - 2
    /\ transfer' = [transfer EXCEPT ![j] = "none"]
    /\ paused' = [paused EXCEPT ![j] = FALSE]
    /\ Deref(j, n)

(* removeFromCurl, entered with n references of the job about to go.       *)
RemoveFromCurl(j, n) ==
    /\ m_runningJobs' = m_runningJobs - 1
    /\ transfer' = [transfer EXCEPT ![j] = "none"]
    /\ paused' = [paused EXCEPT ![j] = FALSE]
    /\ Deref(j, n)

-----------------------------------------------------------------------------
(* The client: page script between two timer callbacks, or a callback in   *)
(* progress.                                                               *)

ClientRuns == pc \in {"idle", "client"}

(* ResourceHandle::create and start, ResourceHandleManager::add.           *)
Add(j) ==
    /\ ClientRuns
    /\ loader[j] = "unborn" /\ j \notin SyncJobs
    /\ loader' = [loader EXCEPT ![j] = "holds"]
    /\ refs' = [refs EXCEPT ![j] = 2]
    /\ m_resourceHandleList' = Append(m_resourceHandleList, j)
    /\ timerActive' = TRUE
    /\ UNCHANGED <<m_runningJobs, transfer, paused, m_cancelled, m_defersLoading,
                   responseFired, pc, call, local>>

(* start() refuses a load without a valid context: create drops the handle.*)
AddRefused(j) ==
    /\ ClientRuns
    /\ loader[j] = "unborn" /\ j \notin SyncJobs
    /\ loader' = [loader EXCEPT ![j] = "released"]
    /\ m_cancelled' = [m_cancelled EXCEPT ![j] = TRUE]
    /\ timerActive' = TRUE
    /\ UNCHANGED <<m_resourceHandleList, m_runningJobs, refs, transfer, paused,
                   m_defersLoading, responseFired, pc, call, local>>

IsScheduled(j) == \E i \in DOMAIN m_resourceHandleList : m_resourceHandleList[i] = j

(* removeScheduledJob: the first entry of the list that is the job goes.   *)
RemoveScheduledJob(j) ==
    \/ ~IsScheduled(j) /\ UNCHANGED m_resourceHandleList
    \/ \E i \in DOMAIN m_resourceHandleList :
          /\ m_resourceHandleList[i] = j
          /\ \A k \in 1..(i - 1) : m_resourceHandleList[k] # j
          /\ m_resourceHandleList' =
                SubSeq(m_resourceHandleList, 1, i - 1)
                    \o SubSeq(m_resourceHandleList, i + 1, Len(m_resourceHandleList))

(* ResourceLoader::cancel: the handle is cancelled and let go of.  A       *)
(* scheduled job leaves the list; a running one is only marked, and stays  *)
(* with curl until curl reports it.  The handle keeps its client pointer.  *)
Cancel(j) ==
    /\ ClientRuns
    /\ loader[j] = "holds"
    /\ loader' = [loader EXCEPT ![j] = "cancelled"]
    /\ RemoveScheduledJob(j)
    /\ refs' = [refs EXCEPT ![j] = @ - (IF IsScheduled(j) THEN 2 ELSE 1)]
    /\ m_cancelled' = [m_cancelled EXCEPT ![j] = TRUE]
    /\ timerActive' = TRUE
    /\ UNCHANGED <<m_runningJobs, transfer, paused, m_defersLoading, responseFired,
                   pc, call, local>>

HasHandle(j) == transfer[j] # "none"

(* setDefersLoading(true) and platformSetDefersLoading: the flag is set    *)
(* even if curl refuses to pause.                                          *)
DeferLoading(j) ==
    /\ ClientRuns /\ "defer" \in Features
    /\ loader[j] = "holds" /\ ~m_defersLoading[j]
    /\ m_defersLoading' = [m_defersLoading EXCEPT ![j] = TRUE]
    /\ \E ok \in Outcomes("pause") :
          paused' = [paused EXCEPT ![j] = @ \/ (HasHandle(j) /\ ok)]
    /\ UNCHANGED <<m_resourceHandleList, m_runningJobs, timerActive, refs, transfer,
                   m_cancelled, responseFired, loader, pc, call, local>>

(* setDefersLoading(false): a transfer that curl cannot resume is          *)
(* cancelled by the handle itself.                                         *)
ResumeLoading(j) ==
    /\ ClientRuns
    /\ loader[j] = "holds" /\ m_defersLoading[j]
    /\ m_defersLoading' = [m_defersLoading EXCEPT ![j] = FALSE]
    /\ paused' = [paused EXCEPT ![j] = FALSE]
    /\ \E ok \in Outcomes("resume") :
          /\ m_cancelled' = [m_cancelled EXCEPT ![j] = @ \/ (HasHandle(j) /\ ~ok)]
          /\ timerActive' = (timerActive \/ (HasHandle(j) /\ ~ok))
    /\ UNCHANGED <<m_resourceHandleList, m_runningJobs, refs, transfer,
                   responseFired, loader, pc, call, local>>

(* platformLoadResourceSynchronously and dispatchSynchronousJob: the whole *)
(* load runs inside the call.  A data: job is dereferenced by the manager, *)
(* which never referenced it, and again by the caller's RefPtr.            *)
LoadSynchronously(j) ==
    /\ ClientRuns
    /\ loader[j] = "unborn" /\ j \in SyncJobs
    /\ loader' = [loader EXCEPT ![j] = "released"]
    /\ refs' = [refs EXCEPT ![j] = 1 - (IF j \in DataJobs THEN 2 ELSE 1)]
    /\ m_cancelled' = [m_cancelled EXCEPT ![j] = TRUE]
    /\ timerActive' = TRUE
    /\ UNCHANGED <<m_resourceHandleList, m_runningJobs, transfer, paused,
                   m_defersLoading, responseFired, pc, call, local>>

-----------------------------------------------------------------------------
(* downloadTimerCallback: startScheduledJobs, select, perform, messages,   *)
(* then again from the start or a last startScheduledJobs.                 *)

TimerFires ==
    /\ pc = "idle" /\ timerActive
    /\ timerActive' = FALSE
    /\ pc' = "start"
    /\ final' = FALSE /\ started' = FALSE
    /\ UNCHANGED <<m_resourceHandleList, m_runningJobs, job, call, again, runningHandles>>

CanStart == m_resourceHandleList # <<>> /\ m_runningJobs < MaxRunningJobs

(* initializeHandle: the new easy handle of a deferred job is paused.      *)
InitializeHandle(j) == paused' = [paused EXCEPT ![j] = m_defersLoading[j]]

(* Mutant: the handle of a deferred job is started without being paused.   *)
StartNetworkJobUnpaused ==
    /\ pc = "start" /\ CanStart
    /\ LET j == Head(m_resourceHandleList) IN
          /\ j \notin DataJobs
          /\ transfer' = [transfer EXCEPT ![j] = "running"]
    /\ m_resourceHandleList' = Tail(m_resourceHandleList)
    /\ m_runningJobs' = m_runningJobs + 1
    /\ started' = TRUE
    /\ UNCHANGED <<timerActive, refs, paused, m_cancelled, m_defersLoading, responseFired, loader,
                   pc, call, again, final, runningHandles>>

(* startJob for a network job.  If curl refuses the handle the job is      *)
(* cancelled, but it stays counted and referenced.                         *)
StartNetworkJob ==
    /\ pc = "start" /\ CanStart
    /\ LET j == Head(m_resourceHandleList) IN
          /\ j \notin DataJobs
          /\ \E ok \in Outcomes("add") :
                /\ transfer' = [transfer EXCEPT ![j] = IF ok THEN "running" ELSE "refused"]
                /\ m_cancelled' = [m_cancelled EXCEPT ![j] = @ \/ ~ok]
                /\ timerActive' = (timerActive \/ ~ok)
          /\ InitializeHandle(j)
    /\ m_resourceHandleList' = Tail(m_resourceHandleList)
    /\ m_runningJobs' = m_runningJobs + 1
    /\ started' = TRUE
    /\ UNCHANGED <<refs, m_defersLoading, responseFired, loader, pc, call, again, final,
                   runningHandles>>

(* startJob for a data: URL: handleDataURL calls the client at once.       *)
StartDataJob ==
    /\ pc = "start" /\ CanStart
    /\ Head(m_resourceHandleList) \in DataJobs
    /\ \E site \in {"dataResponse", "dataFail"} :
          ClientCalled(site, Head(m_resourceHandleList))
    /\ m_resourceHandleList' = Tail(m_resourceHandleList)
    /\ started' = TRUE
    /\ UNCHANGED <<m_runningJobs, timerActive, job, again, final, runningHandles>>

StartedFirst ==
    /\ pc = "start" /\ ~CanStart /\ ~final
    /\ pc' = "select"
    /\ UNCHANGED <<m_resourceHandleList, m_runningJobs, timerActive, job, call, local>>

(* Mutants: the timer is restarted only for transfers that were already    *)
(* running, or only for jobs just started.                                 *)
RearmForgetsStarted ==
    /\ pc = "start" /\ ~CanStart /\ final
    /\ timerActive' = (timerActive \/ runningHandles > 0)
    /\ pc' = "idle"
    /\ UNCHANGED <<m_resourceHandleList, m_runningJobs, job, call, local>>

RearmForgetsRunning ==
    /\ pc = "start" /\ ~CanStart /\ final
    /\ timerActive' = (timerActive \/ started)
    /\ pc' = "idle"
    /\ UNCHANGED <<m_resourceHandleList, m_runningJobs, job, call, local>>

(* The end of the callback: poll again while curl runs or a job started.   *)
Rearm ==
    /\ pc = "start" /\ ~CanStart /\ final
    /\ timerActive' = (timerActive \/ started \/ runningHandles > 0)
    /\ pc' = "idle"
    /\ UNCHANGED <<m_resourceHandleList, m_runningJobs, job, call, local>>

InCurl == {j \in Jobs : transfer[j] \in {"running", "done", "failed"}}

(* select() with a zero timeout finds activity or not; if it fails the     *)
(* callback returns without restarting the timer.                          *)
SelectResults ==
    IF InCurl = {} THEN {0} ELSE {0, 1} \cup (IF "select" \in Features THEN {-1} ELSE {})

Select ==
    /\ pc = "select"
    /\ \E rc \in SelectResults :
          /\ again' = (rc = 1)
          /\ pc' = IF rc = -1 THEN "idle" ELSE "perform"
    /\ UNCHANGED <<m_resourceHandleList, m_runningJobs, timerActive, job, call, started,
                   final, runningHandles>>

-----------------------------------------------------------------------------
(* curl_multi_perform: any sequence of callbacks for running transfers.    *)

CurlRuns(j) == pc = "perform" /\ transfer[j] = "running"
CurlDelivers(j) == CurlRuns(j) /\ ~paused[j]

(* A header or write callback of a cancelled job returns 0, which makes    *)
(* curl fail the transfer.                                                 *)
CallbackOfCancelledJob(j) ==
    /\ CurlDelivers(j) /\ m_cancelled[j]
    /\ transfer' = [transfer EXCEPT ![j] = "failed"]
    /\ UNCHANGED <<m_resourceHandleList, m_runningJobs, timerActive, refs, paused, m_cancelled,
                   m_defersLoading, responseFired, loader, pc, call, local>>

(* headerCallback at the empty line that ends a header block: a redirect,  *)
(* an authentication challenge or the response.                            *)
HeaderCallback(j) ==
    /\ CurlDelivers(j) /\ ~m_cancelled[j]
    /\ \E site \in {"redirect", "challenge", "response"} : ClientCalled(site, j)
    /\ UNCHANGED <<m_resourceHandleList, m_runningJobs, timerActive, job, local>>

(* writeCallback: without a response so far it first fires one, as for     *)
(* local files; then the data goes to the client or the multipart parser.  *)
DataSite(j) == IF j \in MultipartJobs THEN "part" ELSE "data"

\* Mutant: data first, response never.
WriteCallbackDataFirst(j) ==
    /\ CurlDelivers(j) /\ ~m_cancelled[j]
    /\ ClientCalled(DataSite(j), j)
    /\ UNCHANGED <<m_resourceHandleList, m_runningJobs, timerActive, job, local>>

WriteCallback(j) ==
    /\ CurlDelivers(j) /\ ~m_cancelled[j]
    /\ ClientCalled(IF responseFired[j] THEN DataSite(j) ELSE "localResponse", j)
    /\ UNCHANGED <<m_resourceHandleList, m_runningJobs, timerActive, job, local>>

(* readCallback when the form data cannot be read: the job cancels itself. *)
ReadCallbackFails(j) ==
    /\ CurlDelivers(j) /\ ~m_cancelled[j] /\ "read" \in Features
    /\ m_cancelled' = [m_cancelled EXCEPT ![j] = TRUE]
    /\ timerActive' = TRUE
    /\ UNCHANGED <<m_resourceHandleList, m_runningJobs, refs, transfer, paused,
                   m_defersLoading, responseFired, loader, pc, call, local>>

(* The transfer ends and curl queues its message; only one that is not     *)
(* paused can succeed.                                                     *)
TransferEnds(j, result) ==
    /\ CurlRuns(j)
    /\ result = "done" => ~paused[j]
    /\ transfer' = [transfer EXCEPT ![j] = result]
    /\ UNCHANGED <<m_resourceHandleList, m_runningJobs, timerActive, refs, paused, m_cancelled,
                   m_defersLoading, responseFired, loader, pc, call, local>>

PerformReturns ==
    /\ pc = "perform"
    /\ runningHandles' = Cardinality({j \in Jobs : transfer[j] = "running"})
    /\ pc' = "messages"
    /\ UNCHANGED <<m_resourceHandleList, m_runningJobs, timerActive, job, call, again,
                   started, final>>

-----------------------------------------------------------------------------
(* curl_multi_info_read: the messages of the transfers that ended.         *)

HasMessage(j) == pc = "messages" /\ transfer[j] \in {"done", "failed"}

MessageOfCancelledJob(j) ==
    /\ HasMessage(j) /\ m_cancelled[j]
    /\ RemoveFromCurl(j, 1)
    /\ UNCHANGED <<m_resourceHandleList, m_defersLoading, responseFired, loader,
                   pc, call, local>>

MessageFinishSite(j) == IF j \in MultipartJobs THEN "lastPart" ELSE "finish"

Message(j) ==
    /\ HasMessage(j) /\ ~m_cancelled[j]
    /\ ClientCalled(IF transfer[j] = "failed" THEN "fail"
                    ELSE IF responseFired[j] THEN MessageFinishSite(j)
                    ELSE "lateResponse", j)
    /\ UNCHANGED <<m_resourceHandleList, m_runningJobs, timerActive, job, local>>

NoMessage ==
    /\ pc = "messages"
    /\ \A j \in Jobs : transfer[j] \notin {"done", "failed"}
    /\ pc' = "start"
    /\ final' = ~again
    /\ started' = FALSE
    /\ UNCHANGED <<m_resourceHandleList, m_runningJobs, timerActive, job, call, again,
                   runningHandles>>

-----------------------------------------------------------------------------
(* The client's callback returns to the code that made it.                 *)

Returning(sites) == pc = "client" /\ call.site \in sites

(* redirect, challenge and data callbacks go straight back into curl.      *)
ReturnToCurl ==
    /\ Returning({"redirect", "challenge", "data", "part", "nextPart"})
    /\ BackIn("perform")
    /\ UNCHANGED <<m_resourceHandleList, m_runningJobs, timerActive, job, local>>

(* processContent meets another part: its response goes to the client      *)
(* whatever happened to the job during the previous one, its data only if  *)
(* the job is not cancelled.  (The responses of yet more parts of a        *)
(* cancelled job repeat the call and leave the state as it is.)            *)
AnotherPart ==
    /\ Returning({"part", "nextPart"})
    /\ \/ call.site = "part" /\ ClientCalled("nextPart", call.job)
       \/ /\ call.site = "nextPart" /\ ~m_cancelled[call.job]
          /\ ClientCalled("part", call.job)
    /\ UNCHANGED <<m_resourceHandleList, m_runningJobs, timerActive, job, local>>

ReturnFromResponse ==
    /\ Returning({"response"})
    /\ responseFired' = [responseFired EXCEPT ![call.job] = TRUE]
    /\ BackIn("perform")
    /\ UNCHANGED <<m_resourceHandleList, m_runningJobs, timerActive, refs, transfer, paused,
                   m_cancelled, m_defersLoading, loader, local>>

(* The end of handleLocalReceiveResponse.                                  *)
LocalResponseFired(j) == responseFired' = [responseFired EXCEPT ![j] = TRUE]

(* Mutant: the data follows without a look at m_cancelled.                 *)
ReturnFromLocalResponseUnchecked ==
    /\ Returning({"localResponse"})
    /\ LocalResponseFired(call.job)
    /\ ClientCalled(DataSite(call.job), call.job)
    /\ UNCHANGED <<m_resourceHandleList, m_runningJobs, timerActive, refs, transfer, paused,
                   m_cancelled, m_defersLoading, loader, local>>

(* writeCallback after handleLocalReceiveResponse: a client that cancelled *)
(* gets no data, and curl is told to stop.                                 *)
ReturnFromLocalResponse ==
    /\ Returning({"localResponse"})
    /\ LocalResponseFired(call.job)
    /\ IF m_cancelled[call.job]
       THEN /\ transfer' = [transfer EXCEPT ![call.job] = "failed"]
            /\ BackIn("perform")
       ELSE /\ ClientCalled(DataSite(call.job), call.job)
            /\ UNCHANGED transfer
    /\ UNCHANGED <<m_resourceHandleList, m_runningJobs, timerActive, refs, paused,
                   m_cancelled, m_defersLoading, loader, local>>

(* downloadTimerCallback after firing a response for a finished transfer.  *)
ReturnFromLateResponse ==
    /\ Returning({"lateResponse"})
    /\ LocalResponseFired(call.job)
    /\ IF m_cancelled[call.job]
       THEN RemoveFromCurl(call.job, 1) /\ BackIn("messages")
       ELSE /\ ClientCalled(MessageFinishSite(call.job), call.job)
            /\ UNCHANGED <<m_runningJobs, transfer, paused, refs, m_cancelled, timerActive>>
    /\ UNCHANGED <<m_resourceHandleList, m_defersLoading, loader, local>>

(* contentEnded returns: didFinishLoading follows without a check.         *)
ReturnFromLastPart ==
    /\ Returning({"lastPart"})
    /\ ClientCalled("finish", call.job)
    /\ UNCHANGED <<m_resourceHandleList, m_runningJobs, timerActive, job, local>>

(* didFinishLoading and didFail: the loader releases the handle, unless it *)
(* was cancelled meanwhile, and the manager removes the job.               *)
LoaderRef(j) == IF loader[j] = "holds" THEN 1 ELSE 0
LoaderReleases(j) ==
    loader' = [loader EXCEPT ![j] = IF @ = "holds" THEN "released" ELSE @]

ReturnFromEnd ==
    /\ Returning({"finish", "fail"})
    /\ RemoveFromCurl(call.job, 1 + LoaderRef(call.job))
    /\ LoaderReleases(call.job)
    /\ BackIn("messages")
    /\ UNCHANGED <<m_resourceHandleList, m_defersLoading, responseFired, local>>

(* handleDataURL, one client call after the other.  The client pointer is  *)
(* tested after the first, m_cancelled never.                              *)
ReturnInDataURL ==
    /\ Returning({"dataResponse", "dataData"})
    /\ \E site \in {"dataData", "dataFinish"} :
          /\ site # call.site
          /\ ClientCalled(site, call.job)
    /\ UNCHANGED <<m_resourceHandleList, m_runningJobs, timerActive, job, local>>

ReturnFromDataURL ==
    /\ Returning({"dataFinish", "dataFail"})
    /\ Deref(call.job, 1 + LoaderRef(call.job))
    /\ LoaderReleases(call.job)
    /\ BackIn("start")
    /\ UNCHANGED <<m_resourceHandleList, m_runningJobs, transfer, paused, m_defersLoading,
                   responseFired, local>>

-----------------------------------------------------------------------------
ClientStep(j) ==
    Add(j) \/ AddRefused(j) \/ Cancel(j) \/ DeferLoading(j) \/ ResumeLoading(j)
        \/ LoadSynchronously(j)

CallbackStep(j) ==
    \/ CallbackOfCancelledJob(j) \/ HeaderCallback(j) \/ WriteCallback(j)
    \/ ReadCallbackFails(j)

Return ==
    \/ ReturnToCurl \/ ReturnFromResponse \/ ReturnFromLocalResponse
    \/ ReturnFromLateResponse \/ ReturnFromLastPart \/ ReturnFromEnd
    \/ ReturnInDataURL \/ ReturnFromDataURL

ManagerStep ==
    \/ TimerFires \/ StartNetworkJob \/ StartDataJob \/ StartedFirst \/ Rearm
    \/ Select \/ NoMessage
    \/ \E j \in Jobs : MessageOfCancelledJob(j) \/ Message(j)

Next ==
    \/ \E j \in Jobs : ClientStep(j) \/ CallbackStep(j)
    \/ \E j \in Jobs, result \in {"done", "failed"} : TransferEnds(j, result)
    \/ PerformReturns
    \/ ManagerStep
    \/ Return \/ AnotherPart

Spec == Init /\ [][Next]_vars

(* The event loop fires a due timer and callbacks return, curl_multi_perform *)
(* does not block, a chunk holds finitely many parts, and a server that is   *)
(* read from ends its answer.  Nothing is assumed of a paused transfer or of *)
(* what clients choose to do.                                                *)
FairSpec ==
    /\ Spec
    /\ WF_vars(ManagerStep)
    /\ WF_vars(Return)
    /\ SF_vars(PerformReturns)
    /\ \A j \in Jobs :
          SF_vars(~paused[j] /\ \E result \in {"done", "failed"} : TransferEnds(j, result))

-----------------------------------------------------------------------------
(* Whenever the main thread is back in its event loop with a job scheduled *)
(* or held by curl, the download timer is running: otherwise nothing would *)
(* ever look at those jobs again (add, cancel and the last lines of        *)
(* downloadTimerCallback together).                                        *)
WorkIsPolled ==
    pc = "idle" /\ (m_resourceHandleList # <<>> \/ InCurl # {}) => timerActive

(* m_runningJobs, which gates startScheduledJobs, counts the transfers curl *)
(* holds, whatever order jobs are started, cancelled and removed in, and   *)
(* never passes maxRunningJobs.                                            *)
SlotsCounted ==
    m_runningJobs = Cardinality(InCurl) /\ m_runningJobs <= MaxRunningJobs

(* A ResourceHandle that the list, curl or a callback in progress points   *)
(* to is alive, and one that nobody needs is not kept: its count is the    *)
(* loader's reference plus the manager's.                                  *)
ManagerHolds(j) ==
    \/ IsScheduled(j) \/ HasHandle(j)
    \/ call # NoCall /\ call.job = j
RefsBalanced ==
    \A j \in Jobs : refs[j] = LoaderRef(j) + (IF ManagerHolds(j) THEN 1 ELSE 0)

(* The client hears of a response before any data and before the load's    *)
(* success, also for the protocols whose headers curl does not report      *)
(* (handleLocalReceiveResponse).                                           *)
ResponseFirst ==
    call # NoCall /\ call.site \in {"data", "part", "nextPart", "lastPart", "finish"}
        => responseFired[call.job]

(* A client call is made on a loader that still wants the load.            *)
CallsLoaderThatHolds == loader[call'.job] = "holds"
CallIsMade == pc' = "client" /\ call' # call

(* A loader that has cancelled or released its handle is never called      *)
(* again for it: it may be gone, and the handle still points to it.        *)
NoCallAfterCancel == [][CallIsMade => CallsLoaderThatHolds]_vars

(* The two calls of a multipart load that are made without a look at       *)
(* m_cancelled: MultipartHandle's didReceiveResponse for another part, and *)
(* didFinishLoading after contentEnded.                                    *)
UncheckedForMultipart == call'.site = "nextPart" \/ (call # NoCall /\ call.site = "lastPart")

(* The same for the loads that curl serves, multipart ones included, but   *)
(* for those two calls: everywhere else m_cancelled is looked at between a *)
(* call in which the client may have cancelled and the next one.           *)
NoNetworkCallAfterCancel ==
    [][CallIsMade /\ call'.job \notin DataJobs /\ ~UncheckedForMultipart
          => CallsLoaderThatHolds]_vars

(* curl's callbacks reach the client only while its load is not deferred,  *)
(* as the assertions in writeCallback and headerCallback say.  These hold  *)
(* when curl calls; the data after a local response and further parts of   *)
(* the same chunk follow without another look, and are not meant.          *)
NotCalledWhileDeferred ==
    [][pc = "perform" /\ pc' = "client" => ~m_defersLoading[call'.job]]_vars

(* If clients stop deferring, every load ends although slots are scarce:   *)
(* its loader hears of success or failure or cancels it, or the network    *)
(* layer has cancelled it itself (without telling anyone).                 *)
LoadsEnd ==
    <>[](\A j \in Jobs : ~m_defersLoading[j])
        => \A j \in Jobs : loader[j] = "holds" ~> loader[j] # "holds" \/ m_cancelled[j]

(* A cancelled transfer is eventually taken out of curl and frees its      *)
(* slot, unless it is paused: curl makes no callback for a paused transfer,*)
(* and only a callback or a message ends it.                               *)
CancelledLeavesCurl ==
    \A j \in Jobs : m_cancelled[j] /\ j \in InCurl ~> j \notin InCurl \/ paused[j]
=============================================================================
