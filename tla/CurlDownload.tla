----------------------------- MODULE CurlDownload -----------------------------
(***************************************************************************)
(* File downloads: the download objects of the FLTK port                   *)
(* (WebKit/fltk/download.cpp, webview.cpp), their CurlDownload, and the    *)
(* CurlDownloadManager with its download thread                            *)
(* (WebCore/platform/network/curl/CurlDownload.cpp).                       *)
(*                                                                         *)
(* The main thread starts, stops and deletes downloads and runs the        *)
(* callbacks the download thread posts.  The manager's three handle lists  *)
(* are guarded by its m_mutex, whose critical sections are single steps,   *)
(* except that startThreadIfNeeded joins the old thread while holding it.  *)
(* A CURL* is an address: `owner' says which download the easy handle that *)
(* lives there now belongs to (CURLINFO_PRIVATE).                          *)
(***************************************************************************)
EXTENDS Naturals, Sequences, SequencesExt, FiniteSets

CONSTANTS Downloads,        \* download objects
          Handles,          \* addresses of curl easy handles
          None,
          MaxTasks,         \* bound: progress callbacks are posted up to here
          MaxRemoved,       \* bound: entries in m_removedHandleList
          DeletesPending,   \* the user may remove a download not yet picked up
          AddMayFail,       \* curl_multi_add_handle may fail
          ReusesAddresses   \* the allocator hands out a cleaned-up handle's address

ASSUME DownloadsAssumption == None \notin Downloads \cup Handles

VARIABLES phase,      \* of each download object
          curlHandle, \* its m_curlHandle, never reset
          owner,      \* download whose easy handle lives at an address
          used,       \* addresses handed out so far
          pending,    \* m_pendingHandleList
          removed,    \* m_removedHandleList
          active,     \* m_activeHandleList: the handles in the multi handle
          transfer,   \* of an active handle: running, or its DONE message
          m_runThread,
          thread,     \* where the download thread is
          message,    \* the handle whose message it is treating
          tasks,      \* its functions in the main-thread queue
          main,       \* where the main thread is
          current,    \* the download it is starting or deleting
          finished,   \* downloads told didFinish
          failed      \* downloads told didFail, or stopped

vars == <<phase, curlHandle, owner, used, pending, removed, active, transfer, m_runThread,
          thread, message, tasks, main, current, finished, failed>>

TypeOK ==
    /\ phase \in [Downloads -> {"none", "live", "deleted"}]
    /\ curlHandle \in [Downloads -> Handles \cup {None}]
    /\ owner \in [Handles -> Downloads \cup {None}]
    /\ used \in SUBSET Handles
    /\ pending \in Seq(Handles) /\ removed \in Seq(Handles) /\ active \in Seq(Handles)
    /\ transfer \in [Handles -> {"running", "ok", "error"}]
    /\ m_runThread \in BOOLEAN
    /\ thread \in {"none", "check", "update", "perform", "read", "remove", "idle", "exited"}
    /\ message \in Handles \cup {None}
    /\ tasks \in Seq([call : {"progress", "didFinish", "didFail"}, to : Downloads])
    /\ main \in {"loop", "join", "delete"}
    /\ current \in Downloads \cup {None}
    /\ finished \in SUBSET Downloads /\ failed \in SUBSET Downloads

Init ==
    /\ phase = [d \in Downloads |-> "none"]
    /\ curlHandle = [d \in Downloads |-> None]
    /\ owner = [h \in Handles |-> None]
    /\ used = {}
    /\ pending = <<>> /\ removed = <<>> /\ active = <<>>
    /\ transfer = [h \in Handles |-> "running"]
    /\ m_runThread = FALSE
    /\ thread = "none"
    /\ message = None
    /\ tasks = <<>>
    /\ main = "loop" /\ current = None
    /\ finished = {} /\ failed = {}

manager == <<pending, removed, active, transfer, m_runThread>>
objects == <<phase, curlHandle, owner, used>>
outcome == <<finished, failed>>

\* startThreadIfNeeded joins the old thread with m_mutex held.
MutexFree == main # "join"

-----------------------------------------------------------------------------
(* The main thread.                                                         *)

\* CurlDownload::init: an easy handle is made that points back to the download.
InitHandle(d, h) ==
    /\ used' = used \cup {h}
    /\ owner' = [owner EXCEPT ![h] = d]
    /\ curlHandle' = [curlHandle EXCEPT ![d] = h]

\* startThreadIfNeeded, on behalf of download d: with a thread that has been
\* told to stop the main thread first waits for its end.
StartThreadIfNeeded(d) ==
    \/ /\ m_runThread
       /\ UNCHANGED <<m_runThread, thread, main, current>>
    \/ /\ ~m_runThread /\ thread = "none"
       /\ m_runThread' = TRUE
       /\ thread' = "check"
       /\ UNCHANGED <<main, current>>
    \/ /\ ~m_runThread /\ thread # "none"
       /\ main' = "join"
       /\ current' = d
       /\ UNCHANGED <<m_runThread, thread>>

\* CurlDownloadManager::add.
AddHandle(d, h) ==
    /\ pending' = Append(pending, h)
    /\ StartThreadIfNeeded(d)

\* webview::download and the download constructor.
StartDownload(d) ==
    /\ main = "loop"
    /\ phase[d] = "none"
    /\ phase' = [phase EXCEPT ![d] = "live"]
    /\ \E h \in {a \in Handles : owner[a] = None /\ (a \in used => ReusesAddresses)} :
          InitHandle(d, h) /\ AddHandle(d, h)
    /\ UNCHANGED <<removed, active, transfer, message, tasks, outcome>>

\* waitForThreadCompletion returns; the new thread is created.
JoinAndRestart ==
    /\ main = "join"
    /\ thread = "exited"
    /\ m_runThread' = TRUE
    /\ thread' = "check"
    /\ main' = "loop" /\ current' = None
    /\ UNCHANGED <<objects, pending, removed, active, transfer, message, tasks, outcome>>

\* CurlDownload::cancel and CurlDownloadManager::remove.
RemoveHandle(h) == removed' = Append(removed, h)

\* download::stop.
StopDownload(d) ==
    /\ main = "loop"
    /\ phase[d] = "live"
    /\ Len(removed) < MaxRemoved
    /\ RemoveHandle(curlHandle[d])
    /\ failed' = failed \cup {d}
    /\ UNCHANGED <<objects, pending, active, transfer, m_runThread, thread, message, tasks,
                   main, current, finished>>

\* What isActive(h) may answer.  It searches the list under m_mutex, but the
\* download thread takes a finished handle out of the list without it: while
\* the later entries are being moved down, the search can step over them.
IsActive(h) ==
    {Contains(active, h)} \cup
    (IF thread = "remove" /\ \E i, j \in DOMAIN active : i <= j /\ active[i] = message /\ active[j] = h
       THEN {FALSE} ELSE {})

\* ~CurlDownload, first part: cancel if active, then wait.
BeginDelete(d) ==
    /\ main = "loop"
    /\ phase[d] = "live"
    /\ DeletesPending \/ ~Contains(pending, curlHandle[d])
    /\ \E answer \in IsActive(curlHandle[d]) :
          IF answer THEN RemoveHandle(curlHandle[d]) ELSE UNCHANGED removed
    /\ main' = "delete" /\ current' = d
    /\ UNCHANGED <<objects, pending, active, transfer, m_runThread, thread, message, tasks, outcome>>

\* The loop over isActive and usleep ends; the object's memory is released.
EndDelete ==
    /\ main = "delete"
    /\ FALSE \in IsActive(curlHandle[current])
    /\ phase' = [phase EXCEPT ![current] = "deleted"]
    /\ main' = "loop" /\ current' = None
    /\ UNCHANGED <<curlHandle, owner, used, manager, thread, message, tasks, outcome>>

\* didFinish and didFail tell the listener, the download object.
DidFinish(d) ==
    /\ finished' = IF phase[d] = "live" THEN finished \cup {d} ELSE finished
    /\ UNCHANGED failed

DidFail(d) ==
    /\ failed' = IF phase[d] = "live" THEN failed \cup {d} ELSE failed
    /\ UNCHANGED finished

\* The event loop runs the next function the download thread posted; those that
\* report a response or data change nothing that is modelled.
RunTask ==
    /\ main = "loop"
    /\ tasks # <<>>
    /\ \/ Head(tasks).call = "didFinish" /\ DidFinish(Head(tasks).to)
       \/ Head(tasks).call = "didFail" /\ DidFail(Head(tasks).to)
       \/ Head(tasks).call = "progress" /\ UNCHANGED outcome
    /\ tasks' = Tail(tasks)
    /\ UNCHANGED <<objects, manager, thread, message, main, current>>

-----------------------------------------------------------------------------
(* The download thread.                                                     *)

\* while (downloadManager->runThread())
CheckRunThread ==
    /\ thread = "check"
    /\ thread' = IF m_runThread THEN "update" ELSE "exited"
    /\ UNCHANGED <<objects, manager, message, tasks, main, current, outcome>>

\* A handle list after the handles in X have been taken out.
Without(s, X) ==
    LET kept[i \in 0..Len(s)] ==
          IF i = 0 THEN <<>>
          ELSE IF s[i] \notin X THEN Append(kept[i - 1], s[i]) ELSE kept[i - 1]
    IN  kept[Len(s)]

\* Mutant: a cancelled handle stays in the multi handle.
UpdateHandleListKeepsRemoved ==
    /\ thread = "update" /\ MutexFree
    /\ removed' = <<>>
    /\ pending' = <<>>
    /\ active' = active \o pending
    /\ transfer' = [h \in Handles |-> IF Contains(pending, h) THEN "running" ELSE transfer[h]]
    /\ thread' = "perform"
    /\ UNCHANGED <<objects, m_runThread, message, tasks, main, current, outcome>>

\* updateHandleList: first the cancelled handles that are active are taken out
\* and cleaned up, then the pending ones are added.
UpdateHandleList ==
    /\ thread = "update" /\ MutexFree
    /\ LET cancelled == {h \in ToSet(removed) : Contains(active, h)}
       IN  \E refused \in SUBSET ToSet(pending) :
             /\ refused # {} => AddMayFail
             /\ active' = Without(active, cancelled) \o Without(pending, refused)
             /\ owner' = [h \in Handles |-> IF h \in cancelled THEN None ELSE owner[h]]
    /\ transfer' = [h \in Handles |-> IF Contains(pending, h) THEN "running" ELSE transfer[h]]
    /\ removed' = <<>>
    /\ pending' = <<>>
    /\ thread' = "perform"
    /\ UNCHANGED <<phase, curlHandle, used, m_runThread, message, tasks, main, current, outcome>>

\* didReceiveHeader and didReceiveData, called by curl on the download thread.
PostProgress(d) ==
    /\ Len(tasks) < MaxTasks
    /\ tasks' = Append(tasks, [call |-> "progress", to |-> d])

\* curl_multi_perform: a transfer delivers a header or data (the callbacks post
\* didReceiveResponse or didReceiveDataOfLength), ends, or nothing happens.
Perform ==
    /\ thread = "perform"
    /\ thread' = "read"
    /\ \/ UNCHANGED <<transfer, tasks>>
       \/ \E h \in ToSet(active) :
             /\ transfer[h] = "running"
             /\ \/ PostProgress(owner[h]) /\ UNCHANGED transfer
                \/ /\ transfer' \in {[transfer EXCEPT ![h] = r] : r \in {"ok", "error"}}
                   /\ UNCHANGED tasks
    /\ UNCHANGED <<objects, pending, removed, active, m_runThread, message, main, current, outcome>>

\* curl_multi_info_read finds no message.
NoMessage ==
    /\ thread = "read"
    /\ \A h \in ToSet(active) : transfer[h] = "running"
    /\ thread' = "idle"
    /\ UNCHANGED <<objects, manager, message, tasks, main, current, outcome>>

\* A CURLMSG_DONE: the outcome is posted to the download, then removeFromCurl.
ReadMessage ==
    /\ thread = "read"
    /\ \E h \in ToSet(active) :
          /\ transfer[h] # "running"
          /\ message' = h
          /\ tasks' = Append(tasks, [call |-> IF transfer[h] = "ok" THEN "didFinish" ELSE "didFail",
                                     to |-> owner[h]])
    /\ thread' = "remove"
    /\ UNCHANGED <<objects, manager, main, current, outcome>>

\* Mutant: the handle is cleaned up but stays in the list.
RemoveFromCurlKeepsEntry ==
    /\ thread = "remove"
    /\ owner' = [owner EXCEPT ![message] = None]
    /\ message' = None
    /\ thread' = "idle"
    /\ UNCHANGED <<phase, curlHandle, used, manager, tasks, main, current, outcome>>

\* removeFromCurl ends: the handle is out of the list and cleaned up.  (Its
\* failing branch is left out: curl_multi_remove_handle refuses a handle that
\* is not in the multi handle, and calls from its own callbacks.)
RemoveFromCurl ==
    /\ thread = "remove"
    /\ active' = Without(active, {message})
    /\ owner' = [owner EXCEPT ![message] = None]
    /\ message' = None
    /\ thread' = "idle"
    /\ UNCHANGED <<phase, curlHandle, used, pending, removed, transfer, m_runThread, tasks,
                   main, current, outcome>>

\* Mutant: the thread goes away although downloads are waiting for it.
StopThreadIgnoresPending ==
    /\ thread = "idle" /\ MutexFree
    /\ m_runThread' = (active # <<>>)
    /\ thread' = "check"
    /\ UNCHANGED <<objects, pending, removed, active, transfer, message, tasks, main, current, outcome>>

\* Mutant: the thread goes away although transfers are under way.
StopThreadIgnoresActive ==
    /\ thread = "idle" /\ MutexFree
    /\ m_runThread' = (pending # <<>>)
    /\ thread' = "check"
    /\ UNCHANGED <<objects, pending, removed, active, transfer, message, tasks, main, current, outcome>>

\* stopThreadIfIdle.
StopThreadIfIdle ==
    /\ thread = "idle" /\ MutexFree
    /\ m_runThread' = (active # <<>> \/ pending # <<>>)
    /\ thread' = "check"
    /\ UNCHANGED <<objects, pending, removed, active, transfer, message, tasks, main, current, outcome>>

-----------------------------------------------------------------------------
Main == JoinAndRestart \/ EndDelete \/ RunTask
User == \E d \in Downloads : StartDownload(d) \/ StopDownload(d) \/ BeginDelete(d)
Thread == CheckRunThread \/ UpdateHandleList \/ Perform \/ NoMessage \/ ReadMessage
          \/ RemoveFromCurl \/ StopThreadIfIdle

Next == Main \/ User \/ Thread

Spec == Init /\ [][Next]_vars

\* Both threads run.
FairSpec ==
    /\ Spec
    /\ WF_vars(JoinAndRestart)
    /\ WF_vars(EndDelete)
    /\ SF_vars(RunTask)
    /\ WF_vars(Thread)

\* Servers answer or time out: a transfer performed for ever ends.
ServersAnswer ==
    \A h \in Handles : SF_vars(Perform /\ transfer[h] = "running" /\ transfer'[h] # "running")

-----------------------------------------------------------------------------
(* A handle that waits or is being transferred has a thread: the thread's    *)
(* decision to stop and the main thread's decision not to start another one  *)
(* cannot both be taken on the same stale lists.                             *)
NoStrandedDownload ==
    pending # <<>> \/ active # <<>> => m_runThread \/ main = "join"

(* curl never works on a handle that was cleaned up.                         *)
ActiveHandlesExist == \A i \in DOMAIN active : owner[active[i]] # None

(* ~CurlDownload waits "for the download thread to release us. Otherwise the *)
(* memory for this object could be freed while the thread still tries to     *)
(* access it": no handle the thread will pick up or works on leads to a      *)
(* deleted download, apart from the one it is just taking out, whose         *)
(* callbacks are over.                                                       *)
NotFreedWhileInUse ==
    \A h \in (ToSet(active) \cup ToSet(pending)) \ {message} :
        owner[h] # None => phase[owner[h]] # "deleted"

(* If servers answer or time out, a download that was started is eventually  *)
(* finished, failed or removed, whatever happens to the thread meanwhile.    *)
DownloadsEnd ==
    ServersAnswer => \A d \in Downloads :
        phase[d] = "live" ~> d \in finished \cup failed \/ phase[d] = "deleted"

(* If servers answer or time out, the UI thread does not wait for ever:      *)
(* neither in the destructor's loop, nor joining the old download thread     *)
(* with the manager's mutex held.  (It does wait for a server: a download    *)
(* picked up between the destructor's two calls of isActive is not cancelled.)*)
MainThreadReturns == ServersAnswer => (main # "loop" ~> main = "loop")

(* Cancelling a transfer that is under way ends it, even if its server never *)
(* answers.                                                                  *)
CancelEndsTransfer ==
    \A h \in Handles : Contains(removed, h) /\ Contains(active, h) ~> ~Contains(active, h)
=============================================================================
