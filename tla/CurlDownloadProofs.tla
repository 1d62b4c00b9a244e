------------------------- MODULE CurlDownloadProofs -------------------------
(***************************************************************************)
(* Proofs about CurlDownload, for any set of downloads and handles.        *)
(***************************************************************************)
EXTENDS CurlDownload, ListTheorems, TLAPS

\* What taking handles out of a list leaves.
LEMMA WithoutKeeps ==
    ASSUME NEW S, NEW s \in Seq(S), NoDuplicates(s), NEW X
    PROVE  /\ Without(s, X) \in Seq(S)
           /\ NoDuplicates(Without(s, X))
           /\ Listed(Without(s, X)) = Listed(s) \ X
<1> DEFINE F == CHOOSE G : Filters(G, s, X, Len(s))
<1>1. Len(s) \in Nat /\ Len(s) <= Len(s)
  OBVIOUS
<1>2. \E G : Filters(G, s, X, Len(s))
  BY <1>1, FilterExists
<1>3. Filters(F, s, X, Len(s))
  BY <1>2
<1>4. Without(s, X) = F[Len(s)]
  BY DEF Without, Filters
<1> HIDE DEF F
<1> QED BY <1>3, <1>4, FilterKeeps

Waiting == Listed(pending)
InCurl == Listed(active)

\* The thread has been told to stop only with nothing in the multi handle,
\* and then it does nothing but leave; the main thread joins only such a one.
RunInv ==
    /\ ~m_runThread => active = <<>> /\ thread \in {"none", "check", "exited"}
    /\ m_runThread => thread \notin {"none", "exited"}
    /\ main = "join" => ~m_runThread

\* A handle waits or is with curl once and not both, and is somebody's.
ListsInv ==
    /\ NoDuplicates(pending) /\ NoDuplicates(active)
    /\ Waiting \cap InCurl = {}
    /\ \A h \in Waiting \cup InCurl : owner[h] # None

\* What the locals of the two threads point to.
LocalsInv ==
    /\ thread = "remove" => message \in InCurl
    /\ main = "delete" => current \in Downloads /\ phase[current] = "live"
    /\ \A d \in Downloads : phase[d] # "none" => curlHandle[d] \in Handles

DownloadInv == TypeOK /\ RunInv /\ NoStrandedDownload /\ ListsInv /\ LocalsInv

\* Every step of the two threads keeps the invariant.
LEMMA DownloadStep ==
    ASSUME DownloadInv, [Next]_vars
    PROVE  DownloadInv'
<1> USE DownloadsAssumption DEF DownloadInv, TypeOK, RunInv,
       NoStrandedDownload, LocalsInv, ListsInv, manager, objects, outcome
<1>1. ASSUME NEW d \in Downloads, StartDownload(d) PROVE DownloadInv'
  <2> USE DEF StartDownload, InitHandle, AddHandle, StartThreadIfNeeded
  <2>1. PICK h \in Handles : owner[h] = None /\ InitHandle(d, h) /\ AddHandle(d, h)
    BY <1>1
  <2>2. /\ pending' \in Seq(Handles) /\ pending' # <<>>
        /\ Waiting' = Waiting \cup {h}
        /\ NoDuplicates(pending')
    BY <2>1, ListAppend DEF Waiting
  <2>3. InCurl' = InCurl
    BY <1>1 DEF InCurl
  <2>4. TypeOK'
    <3>1. /\ phase' \in [Downloads -> {"none", "live", "deleted"}]
          /\ curlHandle' \in [Downloads -> Handles \cup {None}]
          /\ owner' \in [Handles -> Downloads \cup {None}]
          /\ used' \in SUBSET Handles
      BY <1>1, <2>1
    <3>2. /\ m_runThread' \in BOOLEAN
          /\ thread' \in {"none", "check", "update", "perform", "read", "remove", "idle", "exited"}
          /\ main' \in {"loop", "join", "delete"}
          /\ current' \in Downloads \cup {None}
      BY <2>1
    <3> QED BY <1>1, <2>2, <3>1, <3>2
  <2>5. RunInv' /\ NoStrandedDownload'
    BY <1>1, <2>1, <2>2
  <2>6. ListsInv'
    BY <1>1, <2>1, <2>2, <2>3
  <2>7. LocalsInv'
    BY <1>1, <2>1, <2>3
  <2> QED BY <2>4, <2>5, <2>6, <2>7
<1>2. ASSUME NEW d \in Downloads, StopDownload(d) PROVE DownloadInv'
  <2>1. curlHandle[d] \in Handles /\ removed' \in Seq(Handles)
    BY <1>2 DEF StopDownload, RemoveHandle
  <2> QED BY <1>2, <2>1 DEF StopDownload, Waiting, InCurl
<1>3. ASSUME NEW d \in Downloads, BeginDelete(d) PROVE DownloadInv'
  <2>1. removed' \in Seq(Handles)
    <3>1. curlHandle[d] \in Handles
      BY <1>3 DEF BeginDelete
    <3>2. Append(removed, curlHandle[d]) \in Seq(Handles)
      BY <3>1
    <3>3. removed' = Append(removed, curlHandle[d]) \/ removed' = removed
      BY <1>3 DEF BeginDelete, RemoveHandle
    <3> QED BY <3>2, <3>3
  <2> QED BY <1>3, <2>1 DEF BeginDelete, Waiting, InCurl
<1>4. CASE JoinAndRestart
  BY <1>4 DEF JoinAndRestart, Waiting, InCurl
<1>5. CASE EndDelete
  BY <1>5 DEF EndDelete, Waiting, InCurl
<1>6. CASE RunTask
  <2>1. tasks' \in Seq([call : {"progress", "didFinish", "didFail"}, to : Downloads])
    BY <1>6 DEF RunTask
  <2>2. Head(tasks).to \in Downloads
    <3>1. PICK T : T = [call : {"progress", "didFinish", "didFail"}, to : Downloads]
      OBVIOUS
    <3>2. tasks \in Seq(T) /\ tasks # <<>>
      BY <1>6, <3>1 DEF RunTask
    <3>3. Head(tasks) \in T
      BY <3>2, HeadTailProperties
    <3> QED BY <3>1, <3>3
  <2>3. finished' \in SUBSET Downloads /\ failed' \in SUBSET Downloads
    BY <1>6, <2>2 DEF RunTask, DidFinish, DidFail
  <2> QED BY <1>6, <2>1, <2>3 DEF RunTask, Waiting, InCurl
<1>7. CASE CheckRunThread
  BY <1>7 DEF CheckRunThread, Waiting, InCurl
<1>8. CASE UpdateHandleList
  <2> DEFINE cancelled == {h \in ToSet(removed) : Contains(active, h)}
  <2>1. PICK refused \in SUBSET ToSet(pending) :
          /\ active' = Without(active, cancelled) \o Without(pending, refused)
          /\ owner' = [h \in Handles |-> IF h \in cancelled THEN None ELSE owner[h]]
    BY <1>8 DEF UpdateHandleList
  <2>2. cancelled \subseteq InCurl
    BY DEF InCurl, Listed, Contains
  <2> HIDE DEF cancelled
  <2>3. /\ active' \in Seq(Handles)
        /\ NoDuplicates(active')
        /\ InCurl' = (InCurl \ cancelled) \cup (Waiting \ refused)
    <3>1. /\ Without(active, cancelled) \in Seq(Handles)
          /\ NoDuplicates(Without(active, cancelled))
          /\ Listed(Without(active, cancelled)) = InCurl \ cancelled
      BY WithoutKeeps DEF InCurl
    <3>2. /\ Without(pending, refused) \in Seq(Handles)
          /\ NoDuplicates(Without(pending, refused))
          /\ Listed(Without(pending, refused)) = Waiting \ refused
      BY WithoutKeeps DEF Waiting
    <3>3. (InCurl \ cancelled) \cap (Waiting \ refused) = {}
      OBVIOUS
    <3> QED BY <2>1, <3>1, <3>2, <3>3, ListConcat DEF InCurl
  <2>4. Waiting' = {} /\ NoDuplicates(pending')
    BY <1>8 DEF UpdateHandleList, Waiting, Listed, NoDuplicates
  <2>5. InCurl \subseteq Handles /\ Waiting \subseteq Handles
    BY DEF InCurl, Waiting, Listed
  <2>6. TypeOK'
    BY <1>8, <2>1, <2>3 DEF UpdateHandleList
  <2>7. RunInv' /\ NoStrandedDownload'
    BY <1>8 DEF UpdateHandleList
  <2>8. ListsInv'
    BY <2>1, <2>2, <2>3, <2>4, <2>5
  <2>9. LocalsInv'
    BY <1>8 DEF UpdateHandleList
  <2> QED BY <2>6, <2>7, <2>8, <2>9
<1>9. CASE Perform
  <2>1. tasks' \in Seq([call : {"progress", "didFinish", "didFail"}, to : Downloads])
    <3>1. CASE UNCHANGED tasks
      BY <3>1
    <3>2. ASSUME NEW h \in ToSet(active), PostProgress(owner[h])
          PROVE  tasks' \in Seq([call : {"progress", "didFinish", "didFail"}, to : Downloads])
      <4>1. h \in InCurl /\ h \in Handles
        BY DEF ToSet, InCurl, Listed
      <4>2. owner[h] \in Downloads
        BY <4>1
      <4> QED BY <3>2, <4>2 DEF PostProgress
    <3> QED BY <1>9, <3>1, <3>2 DEF Perform
  <2>2. transfer' \in [Handles -> {"running", "ok", "error"}]
    BY <1>9 DEF Perform
  <2> QED BY <1>9, <2>1, <2>2 DEF Perform, Waiting, InCurl
<1>10. CASE NoMessage
  BY <1>10 DEF NoMessage, Waiting, InCurl
<1>11. CASE ReadMessage
  <2>1. PICK h \in ToSet(active) :
          /\ message' = h
          /\ tasks' = Append(tasks, [call |-> IF transfer[h] = "ok" THEN "didFinish" ELSE "didFail",
                                     to |-> owner[h]])
    BY <1>11 DEF ReadMessage
  <2>2. h \in InCurl /\ h \in Handles
    BY DEF ToSet, InCurl, Listed
  <2>3. owner[h] \in Downloads
    BY <2>2
  <2>4. tasks' \in Seq([call : {"progress", "didFinish", "didFail"}, to : Downloads])
    BY <2>1, <2>3
  <2> QED BY <1>11, <2>1, <2>2, <2>4 DEF ReadMessage, Waiting, InCurl
<1>12. CASE RemoveFromCurl
  <2>1. message \in InCurl /\ message \in Handles
    BY <1>12 DEF RemoveFromCurl, InCurl, Listed
  <2>2. /\ active' \in Seq(Handles) /\ NoDuplicates(active')
        /\ InCurl' = InCurl \ {message}
    BY <1>12, WithoutKeeps DEF RemoveFromCurl, InCurl
  <2>3. InCurl \subseteq Handles /\ Waiting \subseteq Handles
    BY DEF InCurl, Waiting, Listed
  <2>4. TypeOK'
    BY <1>12, <2>1, <2>2 DEF RemoveFromCurl
  <2>5. RunInv' /\ NoStrandedDownload'
    BY <1>12, <2>2 DEF RemoveFromCurl
  <2>6. ListsInv'
    BY <1>12, <2>1, <2>2, <2>3 DEF RemoveFromCurl, Waiting
  <2>7. LocalsInv'
    BY <1>12 DEF RemoveFromCurl
  <2> QED BY <2>4, <2>5, <2>6, <2>7
<1>13. CASE StopThreadIfIdle
  BY <1>13 DEF StopThreadIfIdle, Waiting, InCurl
<1>14. CASE UNCHANGED vars
  BY <1>14 DEF vars, Waiting, InCurl
<1> HIDE DEF DownloadInv
<1> QED BY <1>1, <1>2, <1>3, <1>4, <1>5, <1>6, <1>7, <1>8, <1>9, <1>10, <1>11,
       <1>12, <1>13, <1>14 DEF Next, Main, User, Thread

\* Hence it holds in every behaviour.
LEMMA DownloadInvariant == Spec => []DownloadInv
<1>1. Init => DownloadInv
  <2> SUFFICES ASSUME Init PROVE DownloadInv
    OBVIOUS
  <2>1. TypeOK
    <3>1. /\ phase \in [Downloads -> {"none", "live", "deleted"}]
          /\ curlHandle \in [Downloads -> Handles \cup {None}]
          /\ owner \in [Handles -> Downloads \cup {None}]
          /\ transfer \in [Handles -> {"running", "ok", "error"}]
      BY DEF Init
    <3>2. /\ pending \in Seq(Handles) /\ removed \in Seq(Handles) /\ active \in Seq(Handles)
          /\ tasks \in Seq([call : {"progress", "didFinish", "didFail"}, to : Downloads])
      BY DEF Init
    <3> QED BY <3>1, <3>2 DEF Init, TypeOK
  <2>2. RunInv /\ NoStrandedDownload /\ LocalsInv
    BY DEF Init, RunInv, NoStrandedDownload, LocalsInv
  <2>3. ListsInv
    BY DEF Init, ListsInv, Waiting, InCurl, Listed, NoDuplicates
  <2> QED BY <2>1, <2>2, <2>3 DEF DownloadInv
<1>2. DownloadInv /\ [Next]_vars => DownloadInv'
  BY DownloadStep
<1> QED BY <1>1, <1>2, PTL DEF Spec

\* Types: what the download thread posts to the main thread names a download,
\* although it reads the name out of handles the main thread made.
THEOREM TypeCorrect == Spec => []TypeOK
<1>1. DownloadInv => TypeOK
  BY DEF DownloadInv
<1> QED BY <1>1, DownloadInvariant, PTL

\* A download that waits or is under way has a thread, whatever order
\* startThreadIfNeeded and stopThreadIfIdle come in.
THEOREM NoDownloadStranded == Spec => []NoStrandedDownload
<1>1. DownloadInv => NoStrandedDownload
  BY DEF DownloadInv
<1> QED BY <1>1, DownloadInvariant, PTL

\* curl never works on a handle that was cleaned up, also if addresses of
\* easy handles are reused and curl refuses some of them.
THEOREM ActiveHandlesAreAlive == Spec => []ActiveHandlesExist
<1>1. DownloadInv => ActiveHandlesExist
  BY DEF DownloadInv, ListsInv, InCurl, Listed, ActiveHandlesExist
<1> QED BY <1>1, DownloadInvariant, PTL
=============================================================================
