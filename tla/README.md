# A TLA+ verification of webkitfltk

webkitfltk is a port of WebKit to the FLTK toolkit. Most of the repository is upstream WebKit:
the JavaScript engine, the DOM, style and layout. What is particular to this program, and what
decides whether its window stays responsive and its pages load, is a small amount of concurrent
and re-entrant code: the queue through which other threads reach the UI thread, the curl back end
that serves page loads, downloads and web sockets, the timers that share one FLTK timeout, the
two halves of a Web SQL transaction, and the allocator's background thread. These parts are
modelled here, model-checked with TLC on small instances and, where possible, proved with TLAPS
for every value of the constants.

`PROJECT.json` is the index: components, runs, the source lines behind every definition ("map"),
the mutants that show each property can fail, findings, hazards, theorems.

## 1. Inventory

Paths are relative to `src/Source/`.

| Component | State | Operations | Interacts with | What is hard | What makes it correct |
|---|---|---|---|---|---|
| Main-thread queue (`WTF/wtf/MainThread.cpp`, `WTF/wtf/fltk/MainThreadFLTK.cpp`) | `functionQueue`, `callbacksPaused`, bytes in a pipe | `callOnMainThread`, `cancelCallOnMainThread`, `setMainThreadCallbacksPaused`, `handler` | every thread posts to it; FLTK's event loop calls it | one byte stands for many functions; blocking `read()` and `write()` on the UI thread; dialogs run an event loop inside a dispatched function | a posted function runs; the UI thread returns to its loop |
| `AsyncTask` (`bmalloc/bmalloc/AsyncTask.h`) | an atomic state, a mutex and condition, a pthread | `run`, `entryPoint` | freeing threads call `run()` under the heap lock; `Heap::concurrentScavenge` runs in it | weak compare-exchange, time-outs racing requests, spurious wake-ups, re-creation of the thread | one thread at most; a request is served, at once, and the idle thread exits |
| Downloads (`WebCore/platform/network/curl/CurlDownload.cpp`, `WebKit/fltk/download.cpp`) | pending, removed and active handle lists, `m_runThread`, the thread | start, stop, delete; the thread's loop | posts to the main-thread queue; the UI thread joins and polls it | a thread that stops itself while work arrives; objects freed while it uses them | no download is stranded; nothing freed is used; the UI thread does not wait for ever |
| Page loads (`WebCore/platform/network/curl/ResourceHandleManager.cpp`, `ResourceHandleCurl.cpp`, `DataURL.cpp`) | scheduled jobs, `m_runningJobs`, a one-shot timer, per job: reference count, cancelled, deferred, response fired | `add`, `cancel`, `setDefersLoading`, `downloadTimerCallback`, curl's callbacks | curl calls it, it calls `ResourceLoader`, which calls it back | re-entrancy: the client adds, cancels or defers any job in any callback | jobs are polled until they end; slots and references balance; no call after cancel |
| Timers (`WebCore/platform/fltk/SharedTimerFLTK.cpp`, `ThreadTimers.cpp`, `Timer.cpp`) | a heap of timers, `m_firingTimers`, one FLTK timeout | start, stop, fire, nested loops | drives page loads, script and layout | timers changed while they fire; dialogs from a timer | each due timer fires once, in order |
| Multipart parser (`MultipartHandle.cpp`) | a buffer and a parser state | `contentReceived`, `contentEnded` | between curl's write callback and the client | chunk boundaries; cancellation in the middle | the same parts for every chunking |
| Web sockets (`SocketStreamHandleCurl.cpp`, `SocketStreamHandleBase.cpp`, `WebCore/Modules/websockets/WebSocketChannel.cpp`, `WebSocket.cpp`) | send and receive queues, a thread and its stop flag; the channel's buffer, handshake, closing flags and two timers; three reference counts | connect, send, close, stop, suspend and resume; the thread's loop; posted `didOpenSocket` and `didReceiveData` | posts to the main thread; calls the page's handlers | close while connecting, in a handler, under a dialog; callbacks after the end; partial sends; the main thread joins the worker | data and events in order, one close event, nobody called after deletion, nothing left behind |
| Disk cache (`CurlCacheManager.cpp`, `CurlCacheEntry.cpp`) | index, LRU list, size | headers, data, finish, fail per job | called by page loads | two loads of one URL; a load that fails half-way | size and index agree; only complete entries are served |
| bmalloc heap (`Heap.cpp`, `VMHeap.h`, allocators) | line and page counts, free lists, large-object ranges | allocate, free, scavenge | all threads; the scavenger unlocks while it works | state changes in the unlocked windows | no overlap, nothing lost |
| Loader scheduling, memory cache (`WebCore/loader/`) | queues by host and priority, LRU lists | schedule, serve, prune | clients of page loads | pruning while a client iterates | every request is served, sizes agree |
| Workers (`WebCore/workers/`) | run loop, proxy flags, early tasks | start, post, terminate | main-thread queue | termination from both sides | no task after termination |
| Web SQL (`WebCore/Modules/webdatabase/`) | a state machine in each half of a transaction, a queue per database, the database thread's queue, lock queues, the origin's mutex | open, run, deliver callbacks, close, delete, shut down | database thread and main thread send each other state requests; the main thread waits for tasks | clean-up in five places with steps still queued; shutdown with waiters; quota retries | one step at a time; isolation; the page is told what the database holds; locks come back |
| JavaScriptCore, DOM/CSS/rendering, FLTK view and theme, inspector | - | - | - | compilers and sequential transformations; glue; data | not the subject of a protocol model (section 9) |

## 2. Plan

Order of work, most important behaviour first. Done: 1 to 8.

1. `MainThread`, `MainThreadProofs`: everything asynchronous in the program ends up here.
2. `Task`, `AsyncTask`, `AsyncTaskProofs`: an abstract specification and a lock-free implementation.
3. `CurlDownload`: two threads over shared lists.
4. `ResourceHandleManager`: re-entrancy on one thread.
5. `TimerHeap`, `ThreadTimers`: the shared timer, its heap, the re-entrancy guard and
   `fireTimersInNestedEventLoop`.
6. `SQLTransactionCoordinator`, `WebDatabase`: two state machines that pass a transaction to and
   fro between two threads.
7. `SocketStreamHandle`, composed with its client in `WebSocket`.
8. Proofs of the safety properties of 3 to 7: `CurlDownloadProofs`,
   `ResourceHandleManagerProofs`, `ThreadTimersProofs`, `WebDatabaseProofs`, `WebSocketProofs`, over
   the lemmas of `ListTheorems`.
9. `MultipartHandle`: the parser over small alphabets, every chunking compared with a reference
   parse; `CurlCacheManager`; bmalloc's small-object pages and the scavenger's unlocked windows.
10. Candidates after that: `ResourceLoadScheduler` and `MemoryCache`, workers, the DFG worklist.

Runs are kept few and one per question; proofs are kept one module per component.

## 3. The modules and the code

### MainThread

The main thread's control stack has a fixed shape - each nested event loop was entered from a
running function of an outer `handler()` - so `depth` and `pc` describe it completely. `pc` is
"wait" in `Fl::wait`, "take" at the top of the dispatch loop, "run" inside a dispatched function,
"read" at the final `read()`. The critical section of `callOnMainThread` is one step
(`ThreadPost`, `MainPost`); the `write()` that follows it outside the lock is another
(`ThreadWrite`, `MainWrite`), because the interesting interleavings lie between the two.
`FunctionReturns` contains the 50 ms test, the rescheduling and the `break`. `overdue` counts the
dispatches that began more than 50 ms ago; outer ones began earlier, so it is always the outermost
ones that are late, and `Elapse` may make one more of them late at any time, also while a dialog is
open. Cancelling matches on the function and context pair, which is an element of `Functions`. The
dialogs of `chromeclient.cpp` are `EnterNestedLoop` and `LeaveNestedLoop`. With `QuickLoops = FALSE`
a nested loop ends only when the dispatch it was opened from is late, as it is after any dialog that
was open for 50 ms; with TRUE it may end sooner.

### Task and AsyncTask

`Task` says what a caller may rely on: requests set a flag, a start consumes it, executions do not
overlap, a request is followed by a start. `AsyncTask` has one step per load, exchange and
compare-exchange of `m_state`, per lock operation and per pthread call. `CompareExchangeWeak` may
fail although the value matches; `wait_for` may wake for no reason or time out. Callers hold the
heap's lock from before `run()` until after it (`Deallocator.cpp`, `Heap.cpp`), the function takes
the same lock and gives it up in windows (`YieldHeapLock`). `ImplementsTask` is the refinement:
`requested` is `m_state = Signaled`, `executing` that some thread is between taking a request and
leaving `m_function`.

### CurlDownload

The main thread (`main`) starts, stops and deletes downloads and runs posted functions; the
download thread (`thread`) loops through `downloadThread`. Critical sections of the manager's
mutex are single steps, except that `startThreadIfNeeded` joins the old thread with the mutex
held ("join"). A `CURL*` is an address, `owner` the download whose handle lives there.
`removeFromCurl` is called without the mutex (`CurlDownload.cpp:240`): that data race is the
set-valued `IsActive`, which may answer FALSE for a handle behind the one being taken out.
`Without` is the removal of handles from one of the lists. curl (what a transfer does) is external.

### ResourceHandleManager

All of it runs on the main thread, so `pc` says where `downloadTimerCallback` is: "start"
(`startScheduledJobs`), "select", "perform" (inside `curl_multi_perform`), "messages"
(`curl_multi_info_read`), "client" (inside the client's callback recorded in `call`), "idle" (in
the event loop). In "idle" and "client" any client may add, cancel, defer or resume any job:
that is the re-entrancy. Each `Return...` action is the code between the return of one client call
and the next client call or return, with the checks of `m_cancelled` that the code makes there,
and only those. `refs` counts the loader's and the manager's references; the destructor's
`cancel()` is part of `Deref`. What requests, responses and headers contain is abstracted away;
which of the three things a header block leads to (redirect, challenge, response) is
nondeterministic. The pause state is curl's, as the code uses it: a paused handle makes no
callbacks, including one paused before it is added. `RemoveScheduledJob` is the loop of
`removeScheduledJob`: it takes out the first entry of the list that is the job. `AnotherPart` is a
chunk with more than one part of a multipart answer: `MultipartHandle` makes the next part's
`didReceiveResponse` without a look at `m_cancelled`, and its `didReceiveData` with one.

`Features` switches on what clients and curl may do. "defer", "read" and "resume" are on in the
runs. "add", "select" and "pause" model failures the code does not recover from; they are in the
model but in no run, see section 7.

### TimerHeap and ThreadTimers

`TimerHeap` has the binary heap as functions on sequences: rising and sinking as
`std::push_heap` and `pop_heap` do, removal of any element by giving it the least key first, and
`hasValidHeapPosition`, by which a timer may be changed in place. `push_heap` is stated by its
effect: `Ancestors` are the places from an element up to the root, `RisesTo` is the last of them that
it reaches by passing those it precedes, and the ones it passed move down by one. `pop_heap` is
its mirror image along `SinkPath`, the way down from the root over the earlier of two children. `ThreadTimers` keeps one record
per activation of `sharedTimerFiredInternal` on `stack`; each of them remembers the `fireTime` with
which it began. `Callback` is FLTK's timeout with `callback()` of `SharedTimerFLTK.cpp`, which
repeats itself after the timer function returns, whatever that function did to the shared timer:
`shared.timeouts` lists the FLTK timeouts by their moment, as FLTK's own list does. A timer's `fired()` may start and stop
any timer, open a dialog, or pause in the debugger, which calls `fireTimersInNestedEventLoop`.
The 50 ms limit of the loop is the flag `timeUp`.

### SQLTransactionCoordinator and WebDatabase

One action is one task of the database thread, one state function of the back end, or one posted
function of the front end; `next`, `requested` and `frontend` of a transaction are the code's
`m_nextState` and `m_requestedState` on both sides. What is posted, queued or pending at the
coordinator is kept as the code keeps it, so `Tokens` can count in how many hands a transaction is.
`Unqueued` is what `unscheduleDatabaseTasks` leaves of the thread's queue.
SQLite's answers, the page's callbacks (do they throw?) and the user's answer to a request for more
quota are choices, switched on per transaction by `Faulty`, `OverQuota` and `Handled`. Writers of
other documents of the origin share the `OriginLock` and are one more holder, `Other`. The places
"spinning" (the loop in the coordinator's `shutdown`) and "selfLocked" (a task destroyed under the
queue's mutex that appends to the same queue) are where the code gets stuck; they are states of the
model, not deadlocks of it. `PostflightFails` is `changeVersion` failing to write the version, before
COMMIT and with the `OriginLock` kept.

### SocketStreamHandle and WebSocket

`SocketStreamHandle` is the worker thread: it connects, posts `didOpenSocket`, then sends from
`m_sendData`, waits, reads into `m_receiveData` and posts `didReceiveData`, a reference to the handle
with each. `m_stopThread` is looked at with the step before, since nothing else that the step does
depends on it. The other end follows one of `Scripts`, sequences of `Frames`, as far and as early as
it likes: frames, the end of the connection, or its loss. `server.early` is a history variable: the
server spoke or ended before the handshake was sent.

`WebSocket` composes it with its client. Everything on the main thread is a nest of calls, so
`stack` holds what callers have left to do, innermost first: the rest of `fail()` after the error
event, of `didClose()` after the close event, of `disconnect()` (with its protecting reference), of
the loops over `m_buffer` and over the received chunks. A handler of the page runs wherever the code
dispatches an event and may send, close, be stopped, or open a dialog; a dialog suspends the channel
and its event loop runs posted functions and timers above all that is on the stack. `Join` is
`waitForThreadCompletion`: the main thread does nothing else until the worker has returned. `Stop` may
come from any handler and under any dialog; `ws.cutShort` remembers that it came while the channel
was suspended, or between the end of the connection and `resumeTimerFired`.

## 4. Runs

Sizes are distinct states.

| Run | Instance | Shows |
|---|---|---|
| `mainthread` | 2 threads, 2 functions, queue of 3, event loops nested two deep that take 50 ms or more, fair (38,570) | `TypeOK`, `NoLostWakeup`, `ReadNeverBlocks`, `SelfWakeupsBounded` (the dispatcher adds at most one wake-up of its own); live: `PostedFunctionsRun`, `ReturnsToEventLoop` |
| `mainthread_dialog` | 1 thread, one nested event loop that may end within 50 ms, fair | **violated**: `ReturnsToEventLoop` (section 7) |
| `asynctask` | 3 callers, 2 pthreads, fair (472) | `OneWorker`, `PromptWakeup`, `DetachesOwnThread`; live: `ImplementsTask`, `IdleThreadExits` |
| `timers` | 3 timers, one of them repeating, 2 activations, fair (111,209) | `HeapConsistent` (with types), `TimerArmed`, `TimeoutsBounded`; live: `DueTimersFire` |
| `download` | 2 downloads, 1 progress callback in the queue, fair (112,105) | `TypeOK`, `NoStrandedDownload`, `ActiveHandlesExist`; live: `DownloadsEnd`, `MainThreadReturns`, `CancelEndsTransfer` |
| `download_pending` | 1 download | **violated**: `NotFreedWhileInUse` |
| `loads_safety` | a plain, a multipart, a data: and a synchronous load over one slot (573,976) | `TypeOK`, `WorkIsPolled`, `SlotsCounted`, `RefsBalanced`, `ResponseFirst`, `NoNetworkCallAfterCancel`, `NotCalledWhileDeferred` |
| `loads_live` | 2 network loads over one slot, fair (35,052) | live: `LoadsEnd`, `CancelledLeavesCurl` |
| `websql` | 2 databases, 3 transactions (a reader, a writer in which everything may fail), page stopped and database deleted at any time, fair (406,153) | `TypeOK`, `OneStepAtATime`, `NoStepAfterCleanup`, `Isolation`, `OutcomeMatchesDatabase`, `LocksReleased`; live: `TransactionsEnd` |
| `websql_stop` | 2 databases, a writer of each, fair | **violated**: `ThreadStops` |
| `websocket` | 10 scripts of the server, 2 posted functions, 2 frames, 1 dialog, fair (574,767) | `Lifetimes` (with types), `StreamsInOrder`; live: `CloseReported` |
| `websocket_early` | as `websocket` | **violated**: `NotCalledAfterDeletion` |

Every property of a passing run has a mutant: a plausible mistake in one mapped definition (a
dropped guard, a missing reset, a forgotten count) under which TLC finds the property violated.

To run one: `tlc -config MainThread.cfg MCMainThread`; the proofs: `tlapm MainThreadProofs.tla`.

## 5. Bounds, and why they are enough

- `MaxQueue` 3, two functions: a queue can be empty, hold one or several, and hold a function
  twice, which is what cancelling distinguishes. Two threads can each be between unlock and
  write while the main thread posts too.
- `MaxWakeups` 4, `PipeCapacity` 5: several bytes in flight, more than one per thread. The code
  itself bounds neither; a pipe holds 65536 bytes, and nothing stops functions that post
  functions from filling it. The liveness results are for a pipe that does not fill.
- `MaxNesting` 2: an inner loop within a loop, so that a `handler()` in the middle both takes
  another one's byte and has its own taken. `QuickLoops = FALSE` in `mainthread` is a condition, not
  a bound: the properties about wake-ups fail when a nested loop ends within 50 ms, and `mainthread_dialog`
  shows how. The theorems about them carry the same condition; `TypeOK` and `SelfWakeupsBounded` need
  no condition, and their theorems have none.
- `AsyncTask`: the heap lock admits one caller at a time into `run()`; three callers cover one
  inside and others at both ends, two pthreads one leaving and one being created. The theorems
  remove these bounds.
- `CurlDownload`: two downloads let one be active while another is started, finishes or is
  deleted. `MaxTasks` and `MaxRemoved` cap queues whose contents beyond the first entry change
  nothing. Fresh handle addresses; with `ReusesAddresses` the invariants were checked too and hold.
- `ResourceHandleManager`: `MaxRunningJobs` is 1 instead of 128, so that loads compete for slots.
  `loads_safety` has one job of each kind, which meet in the list, in curl and in each other's
  callbacks; each job lives once.
- `ThreadTimers`: three timers are a heap with two children, the least in which checking one child
  only goes unnoticed for a while; delays of 0 and 1 give equal and different fire times. Two
  activations are an outer one and one in a dialog. The clock stops at `MaxTime`, which only
  means that timers set for later are not watched further; `MaxDelay` is the longest interval a timer
  may be given. Heaps with more than three timers, where a sifted timer passes several others, are
  left to the proofs of section 8, which hold for any set of timers.
- `WebDatabase`: two transactions of one database queue behind each other in `m_transactionQueue`,
  the third, of another database, behind them at the coordinator. One statement and one granted
  increase distinguish first, retried and last statements.
- `WebSocket`: two posted functions let one overtake, two written frames (and closing frames and
  pongs beyond them) let one be split while the next is queued. The scripts have two messages
  in a row, a fragmented one, a ping, a closing frame, a frame that breaks the protocol, and every
  kind of end; a server may begin with them before it is asked. One dialog, which may be opened at
  any point; it nests over everything there is to nest over. At `MaxPosted` the worker reads
  nothing for a round, as if the data had not arrived yet.

`CHECK_DEADLOCK FALSE` is used where all work may be over: downloads, loads, Web SQL and web
sockets.

## 6. Fairness

- `MainThread`: the kernel runs every thread (weak fairness of writes); FLTK serves every ready
  descriptor, so a readable pipe is served even if other callbacks intervene (strong fairness of
  `EnterHandler`); dispatched functions return, time passes, users close dialogs.
- `AsyncTask`: threads that can move do; a lock that is free again and again is obtained; a weak
  compare-exchange does not fail spuriously for ever; the scavenger's work ends; `wait_for` has an
  absolute deadline, so spurious wake-ups cannot postpone the time-out. No fairness of new requests.
- `CurlDownload`: both threads run. That servers answer or time out is not part of the
  specification but a hypothesis (`ServersAnswer`) of the two properties that need it;
  `CancelEndsTransfer` does without.
- `ResourceHandleManager`: a due timer fires, callbacks return, `curl_multi_perform` returns, and a
  transfer that is not paused ends. Nothing is assumed of paused transfers or of what clients do;
  `LoadsEnd` has "clients stop deferring" as its hypothesis.
- `ThreadTimers`: FLTK runs a timeout that is due, callbacks return, dialogs and pauses end.
- `WebDatabase`: the main thread runs what is posted, the database thread runs when it can, a mutex
  that is free again and again is obtained. `TransactionsEnd` has as its hypothesis that the main
  thread keeps coming back from its own waits for the database thread (`Database.cpp:259`), which
  the code does not ensure: the thread may wait for an `OriginLock` whose holder needs the main
  thread.
- `WebSocket`: the worker runs, calls return, handlers end and dialogs are answered (weak fairness);
  an event loop entered again and again gets round to posted functions and due timers (strong
  fairness: a handler may be in the way). Nothing is assumed of the page, the server or the network.

## 7. What was found

The findings of `PROJECT.json` are runs that violate something the repository's own comments say:

1. **A dialog inside a dispatched function blocks the UI thread** (`MainThreadFLTK.cpp:43`).
   `handler()` dispatches first and reads its byte afterwards. A function that opens an alert runs
   `Fl::wait` while the byte is unread, and the inner `handler()` reads it. If the function returns
   within 50 ms of the start of the outer dispatch (a dialog that is answered at once, by a key that
   was pressed before it appeared), the dispatcher leaves without a byte of its own, and the outer
   `read()` waits until some other thread posts. After a longer dialog the dispatcher is late and
   writes another byte (`MainThread.cpp:171-173`), which the outer `read()` finds: `mainthread` shows
   that nothing goes wrong then.
2. **A download deleted while still pending is freed under the thread** (`CurlDownload.cpp:265`).
   The destructor cancels and waits only for active handles.
3. **Shutting the coordinator down never ends with a waiting transaction**
   (`SQLTransactionCoordinator.cpp:141`): the loop runs while the queue of pending transactions is
   not empty and never takes anything off it, so the database thread spins and closes no database.
4. **A late `didOpenSocket` can still reach a deleted channel** (`SocketStreamHandleCurl.cpp:240`).
   The comment above the check says it keeps the call from a client that is already deleted, by
   asking whether anybody else has a reference. A `didReceiveData` posted behind it has one. The
   page must be stopped while both are in the queue, which needs a server that sends something, or
   closes, without waiting for the handshake. `websocket_early` has the trace.

Others show with different constants, or are what a property names as its exception, and are kept
as descriptions:

5. **The thread edits the active list without the mutex** (`CurlDownload.cpp:240`), so a scan by
   the destructor of another download can miss its handle and stop waiting. `CurlDownload` with two
   downloads, `DeletesPending = FALSE`, `MaxTasks = MaxRemoved = 2`: `NotFreedWhileInUse`.
6. **A data: load calls its loader after the loader cancelled** (`DataURL.cpp:75`): the three
   client calls are made in a row and only the client pointer is tested, which `ResourceLoader::cancel`
   leaves in place, against `ResourceLoader.cpp:104`. `ResourceHandleManager` with a single job, a
   data: job: `NoCallAfterCancel`. A multipart load makes two calls without a look at `m_cancelled`:
   `didReceiveResponse` of another part (`MultipartHandle.cpp:252`, reached again after `:273`) and
   `didFinishLoading` after `contentEnded` (`ResourceHandleManager.cpp:762-765`).
   `NoNetworkCallAfterCancel` leaves these out, and nothing else of the loads that curl serves.
7. **A handled quota error is reported for ever** (`SQLTransactionBackend.cpp:652`):
   `lastExecutionFailedDueToQuota()` stays true after the statement's error callback handled the
   error, so `runStatements` returns to the same statement, and the two halves pass the transaction to
   and fro with its locks held. `WebDatabase` with one database and one transaction t1,
   `OverQuota = Handled = Watched = {t1}`, `MaxRetries = 0`: `TransactionsEnd`.
8. **A web socket stopped while it is suspended is never freed** (`WebSocketChannel.cpp:273`).
   `didCloseSocketStream` returns half-way under a dialog and leaves the rest to `resumeTimerFired`.
   When `stop()` comes first (under the dialog, so that its own `disconnect` ends in that return, or
   between the dialog and the timer), nothing gives back the reference between the channel and its
   handle. `Lifetimes` names it as an exception, `ws.cutShort`; without it the property is false.
9. **Received chunks overtake each other under a dialog** (`SocketStreamHandleCurl.cpp:288`); this is
   the exception that `StreamsInOrder` names.
10. **A failed connection is not reported** (`SocketStreamHandleCurl.cpp:231`), nor is a lost one
   (`:251` ignores `readData`, `:183` only stops the thread): the page hears nothing until it closes
   the socket itself. And the answer to the server's closing frame is queued and the thread stopped
   at once (`WebSocketChannel.cpp:769`), so it may never be sent.

Behaviours that contradict no statement of the repository are hazards in `PROJECT.json`, not
findings. With the corresponding switch on, TLC shows: "add" (curl refuses a handle) falsifies
`SlotsCounted`, since the slot and the reference are never given back, and `WorkIsPolled`, since a job
that waits for that slot is left with the timer stopped; "select" (`select()` fails)
falsifies `WorkIsPolled`, since the timer is not restarted; "pause" (curl refuses to pause)
falsifies `NotCalledWhileDeferred`; a synchronous data: job drops one reference too many, so
`TypeOK` and `RefsBalanced` fail; a multipart job falsifies `NoCallAfterCancel` like a data: job;
with `AddMayFail` a download is dropped without anyone being told.

## 8. Proofs

Eight modules hold proofs; all of their obligations are discharged by Z3, Zenon and, for the last,
temporal step of each theorem, LS4.

| Module | Obligations | Theorems |
|---|---|---|
| `MainThreadProofs` | 360 | `TypeCorrect`, `WakeupNeverLost`, `HandlerNeverBlocks`, `OneSelfWakeup` |
| `AsyncTaskProofs` | 470 | `TypeCorrect`, `AtMostOneWorker`, `DetachesOwn`, `NoSleptThroughRequest`, `ImplementsTaskSafety` |
| `ListTheorems` | 430 | lemmas only |
| `CurlDownloadProofs` | 235 | `TypeCorrect`, `NoDownloadStranded`, `ActiveHandlesAreAlive` |
| `ResourceHandleManagerProofs` | 1220 | `TypeCorrect`, `SlotsAreCounted`, `RefsAreBalanced`, `WorkIsAlwaysPolled`, `ResponseComesFirst`, `DeferredNotCalled`, `CancelledNotCalled` |
| `ThreadTimersProofs` | 3988 | `TimersInvariance`, `HeapIsConsistent`, `PositionsStayValid`, `RejectedTimersMove`, `AlwaysArmed`, `TimeoutsStayBounded` |
| `WebDatabaseProofs` | 3886 | `Invariance`, `TypeCorrect`, `NeverInTwoHands`, `CleanedIsNotRun`, `TransactionsAreIsolated`, `PageIsToldTheTruth`, `CleanupReleasesLocks` |
| `WebSocketProofs` | 4879 | `NobodyIsLeftBehind`, `StreamsStayInOrder` |

Nothing is assumed but the named assumptions of the modules, which every run of the same module
evaluates: `ConstantsAssumption` (finitely many threads, positive queue and pipe bounds),
`ThreadsAssumption` (callers, workers and None are different), `DownloadsAssumption` (None is neither
a download nor a handle), `LoadsAssumption` (finitely many jobs, at least one slot), `TimersAssumption` (no interval is longer
than `MaxDelay`, a repeat interval is at least a tick, bounds are positive),
`WebDatabaseAssumption` (transactions belong to databases, kinds of transactions are sets of them,
bounds are naturals; `NoTransaction` and `Other` are no transactions),
`ScriptsAssumption` (scripts are made of frames) and `WebSocketAssumption` (bounds are naturals,
`MayStop` is Boolean). Where a theorem has a hypothesis of its own, the property is false without it,
and section 7 or the hazards say how.

Each proof has the shape `Init => IInv`, `IInv /\ [Next]_vars => IInv'`, `IInv => Inv`, with the
step split by action. Every inductive invariant was checked by TLC on the run's instance before
it was proved. What an action does to lists, sets and counts is proved once, as lemmas about the
operators, and cited.

`MainThreadProofs`

- `TypeCorrect`. The only hard step is `Cancel`: that `Without` yields a sequence of functions.
  `Without` is a recursive function; `FilterExists` shows that a function satisfying its recursion
  exists and `FilterType` that its values are sequences, both by taking a minimal counterexample.
- `WakeupNeverLost` and `HandlerNeverBlocks`, when nested event loops take 50 ms or more, or there
  are none (`MaxNesting = 0 \/ ~QuickLoops`; section 7 shows that the condition is needed).
  `NoLostWakeup` is not inductive: at "read" one byte is about to be swallowed, so one must know
  that the byte that woke the loop is still in the pipe. `WakeupInv` says so from the moment
  `handler()` is entered: there is a byte, or the `handler()` of a nested loop has read it; then the
  running dispatch is late, and will write another one before its `read()`.
- `OneSelfWakeup`, at any nesting: `Wakeups` stays within `MaxWakeups`, plus one between the
  return of a late function and the `read()` that follows. It is inductive together with types.
  It bounds the dispatcher's own contribution; `MaxWakeups` is the model's bound on everybody else.

`AsyncTaskProofs`, for any number of callers and pthreads

- `TypeCorrect`, with `DetachInv` (a caller at `pthread_detach` has set `m_thread`).
- `AtMostOneWorker`: `WorkerInv` adds that a caller about to create a thread is alone and that no
  thread lives. The exchange of `m_state` is what elects the creator, not the heap lock.
- `DetachesOwn`: `LockInv`, the heap lock is held from the load of `m_state` to the detach.
- `NoSleptThroughRequest`: `WaitInv` adds that the mutex is held from the predicate to the block,
  so a requester that arrives meanwhile is still in front of it. This is why `runSlowCase` locks
  and unlocks the mutex around nothing.
- `ImplementsTaskSafety`: every step maps to a step of `Task` or a stutter.

`ListTheorems` has what `Vector`s of handles, jobs and tasks need: the elements, and the absence of
duplicates, after append, taking the first, removal at an index, concatenation, splitting and
filtering. A filter is a recursive function, and the facts about it are proved by minimal
counterexample, since the library's induction schemes are out of the provers' reach.

`CurlDownloadProofs`, for any number of downloads and handles

- `NoDownloadStranded`: when a handle waits or is with curl, the thread has not been told to stop, or
  the main thread is about to start another one. `DownloadInv` adds `RunInv`: the thread is told to
  stop only with nothing in the multi handle and then does nothing but leave, and the main thread
  joins only such a thread.
- `ActiveHandlesAreAlive`: curl works only on handles that were not cleaned up. `ListsInv` says that
  a handle waits or is with curl, once and not both, and has an owner; `LocalsInv` that the handle
  the thread took from a message is still with curl, and what the main thread is deleting.

`ResourceHandleManagerProofs`, for any jobs and any number of slots

- `Core` has types, the place at which a callback in progress was called, and the life of a job
  (unborn, scheduled, in curl, over), which exclude each other.
- `SlotsAreCounted`, unless `curl_multi_add_handle` fails (the slot is then never given
  back, see section 7): every step takes a slot with a new easy handle, gives both back, or leaves
  both alone (`SlotChange`); this covers cancellation from inside any of curl's callbacks.
- `RefsAreBalanced` and `TypeCorrect`, unless a `data:` URL is loaded synchronously (`SyncJobs \cap DataJobs = {}`;
  the manager's reference is then dropped twice, see the hazards).
- `WorkIsAlwaysPolled`, unless `curl_multi_add_handle` or `select` fails (then the timer is not
  restarted): `PollInv` says which step of the callback owes the restart.
- `ResponseComesFirst`: data and success come after the response. `DeferredNotCalled`, unless
  `curl_easy_pause` fails: curl's flag follows `setDefersLoading`. `CancelledNotCalled`: every call
  to the client of a load that curl serves comes after a look at `m_cancelled`, but for the two calls
  of multipart loads that section 7 names. The last two are action properties.

`ThreadTimersProofs`, for any timers, intervals and nesting

- The heap. `Ordered` says that every timer follows its parent. `PushKeeps` and `PopKeeps` show that
  `push_heap` and `pop_heap` keep it and lose nobody, from two facts about places: the ancestors of a
  place are a chain (`AncestorsChain`, by induction over the recursion of `Ancestors`, as the minimum
  of its counterexamples), and so is the way down (`SinkChain`). They ask of `Before` only that it
  orders the timers of the heap strictly and totally (`Precedence`); `BeforeOrders` shows that it does
  when at most one of them has no insertion number. `DecreaseKeeps`, `InsertKeeps` and `RemoveKeeps`
  follow, and `UpdateKeeps` puts them together for the five ways through `updateHeapIfNeeded`; what
  the new number of one timer leaves of the order of the others is `NewKey`.
- `HeapIsConsistent` (`HeapConsistent`) needs all of `Ordered`, since the first timer being first
  is not inductive: when it leaves, the next one must be among its two children. It needs as
  well that the timers with a number are those with a fire time. `PositionsStayValid` has no run of
  its own: it is the assertion `!inHeap() || hasValidHeapPosition()` of `updateHeapIfNeeded`, of every
  timer in every state.
- `RejectedTimersMove` is the other assertion there, `m_heapIndex != oldHeapIndex`, as an action
  property. The hard case is `heapIncreaseKey`, which pops the timer from place i and pushes it again.
  Were it to come back to i, the last place would lie below i; then the pop changes nothing outside
  of what is below i (`PoppedIs`: the last timer sinks past every ancestor of i, because it follows
  them all), nor does the push, so the child that the timer no longer precedes is still below it
  (`IncreaseMoves`). No run has it; TLC checked it on the instance of `timers` before it was proved.
- `AlwaysArmed` (`TimerArmed`). `ArmedInv` adds what the early return of `updateSharedTimer` trusts:
  a pending fire time other than 0 has a timeout that comes no later, and there is none while timers
  are being fired. `setNextFireTime` calls `updateSharedTimer` only if the timer was or is first;
  `FirstStays` shows that otherwise the first timer and its fire time are the same as before.
- `TimeoutsStayBounded` (`TimeoutsBounded`). `CountInv` counts a timeout for each activation
  that has yet to repeat itself, and one for a shared timer that is stopped: setting
  it then adds a timeout without removing the left-over ones.
- `StackInv`: only the innermost activation runs, and one at the test of its loop is firing timers,
  so that the first timer leaves the heap with `m_firingTimers` set.

`WebDatabaseProofs`, for any databases, transactions and statements

- `WebDatabaseInv`, proved in `Invariance`, is one invariant for all properties, since each needs
  the others: `ListsInv` (no list names anybody twice), `TasksInv` (a queued open or close is the one
  the main thread waits for), `PlacesInv` (a transaction is in one place at most: its database's
  queue, the thread's queue, the thread, the coordinator's queue, the functions posted to the main
  thread; a live one is in none only when the thread is to stop or has locked itself out),
  `ThreadInv` (how far a stop has come, and what the thread is running), `RecordsInv` (what a
  transaction's own fields say together: its state, what was requested, whether it was told,
  committed, cleaned), `LocksInv` (who holds coordinator and `OriginLock`) and `TurnsInv` (a database
  runs its transactions one after the other).
- One lemma per state function of the back end and of the front end, all through a few that say
  what a change of one transaction leaves alone. The coordinator's grants and the five ways to
  clean up are proved as lemmas about their operators.
- `NeverInTwoHands`, `CleanedIsNotRun`, `TransactionsAreIsolated`, `PageIsToldTheTruth` and
  `CleanupReleasesLocks` follow from it without another induction.

`WebSocketProofs`, for any scripts, dialogs, frames and posted functions

- `NobodyIsLeftBehind` (`Lifetimes`), as long as the server has neither spoken nor ended before the
  handshake was sent and no `stop()` has cut the channel short (`~server.early`, `~ws.cutShort`: both
  are about what has happened in the behaviour so far, and section 7 shows that both are needed).
  The counts alone are not inductive: when a call returns one must know what was below it.
  `LifetimesInv` adds `StackInv` (which calls may be on which: a `disconnect` is under a join or a
  `didClose`, no event is delivered under a dialog as long as the WebSocket has its channel),
  `OpeningInv` (before `didOpenSocket` ran nothing was sent, received or asked for, so that its
  look at the reference count decides correctly), `ClosingInv` (who may still find the handle
  open, and that a handle that `didOpenSocket` opened after its end stays unused), `HoldersInv` and
  `HandleRefsInv` (the counts, entry by entry).
- `StreamsStayInOrder` (`StreamsInOrder`), without hypotheses. `OrderInv` has three parts that do
  not need each other. `StreamInv`: a chunk goes from script to socket, `m_receiveData`, a call of
  `didReceiveData` and the channel's buffer; each place is in order, and before the places behind
  it; only `overtaken` may break it. `HeardInv`: what the page may still hear, by the client, the
  discard flag and the mode of the channel. `WireInv`: what the worker holds follows what is on the
  wire, behind it all frames are whole, without it all but the first.
- Each action has a lemma that says what it does to the fields (`...Effect`), one for each of the
  two invariants (`...Lives`, `...Order`), most of them instances of a few shapes of step
  (`Ordinary`, `Closes`, `Ends`; `Steady` with `Writes` and `Unheard`).

Only model-checked: every liveness property (`PostedFunctionsRun`, `ReturnsToEventLoop`,
`IdleThreadExits`, `DueTimersFire`, `DownloadsEnd`, `MainThreadReturns`, `CancelEndsTransfer`,
`LoadsEnd`, `CancelledLeavesCurl`, `TransactionsEnd`, `CloseReported`), since they rest on fairness,
which the prover does not treat, including the liveness half of `ImplementsTask`. Every invariant
that a passing run checks is stated by a theorem.

## 9. Not modelled

- Planned components of section 2 (multipart parser, disk cache, bmalloc heap, loader scheduling,
  workers).
- Timers of worker contexts and the throttling of DOM timers in hidden pages.
- In Web SQL: what statements say, what versions say (`changeVersion`'s preflight counts as
  a failing begin; that its postflight may fail is modelled), table names, the tracker's files, iOS code.
- In web sockets: blobs and their loader, the page cache (this port does not use it), compression,
  frames split over chunks, `bufferedAmount`, validation of URLs and protocols, the bridge of worker
  contexts. The queue of delayed events (`m_pendingEvents`) stays empty in this port: a suspended
  channel makes no events.
- In modelled components: file I/O, headers, credentials, cookies, proxies, form data, web timing,
  the disk cache calls made by page loads; `data:` downloads, which involve no thread; the download
  manager's static destruction at exit. `CurlDownloadManager`'s branch for a failing
  `curl_multi_remove_handle` (`CurlDownload.cpp:172`) is left out: curl refuses only a handle that is
  not in the multi handle, and calls made from its own callbacks. Callbacks posted to a deleted download are ignored in the model
  (`RunTask`); in the code they touch freed memory, which is listed as a hazard.
- The JavaScript engine's compilers, DOM, style, layout, rendering, painting, the FLTK theme and the
  inspector's front end: sequential transformations of data, or glue, and far beyond what a
  model checker can enumerate.
