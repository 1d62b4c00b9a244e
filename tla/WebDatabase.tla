----------------------------- MODULE WebDatabase -----------------------------
(***************************************************************************)
(* Web SQL: SQLTransaction (the front end, on the main thread),            *)
(* SQLTransactionBackend with its state machine on the context's database  *)
(* thread, Database, DatabaseThread and SQLTransactionCoordinator          *)
(* (WebCore/Modules/webdatabase).                                          *)
(*                                                                         *)
(* The module models one document and its databases, all of one origin,    *)
(* with the database thread they share.  OriginLock is a mutex that they   *)
(* share with the writers of other documents of that origin, which live on *)
(* the same main thread and appear here as Other.  The two halves of a     *)
(* transaction send each other state requests: a task in the database      *)
(* thread's queue, a function posted to the main thread.                   *)
(*                                                                         *)
(* One action is one task, one state function or one posted function.      *)
(* What SQLite does is a choice; what a statement says is left out.        *)
(***************************************************************************)
EXTENDS SQLTransactionCoordinator

CONSTANTS Databases, Transactions,
          DatabaseOf,        \* the database of each transaction
          ErrorCallback,     \* the transactions that have an error callback
          MayStop,           \* does the page go away?
          Deletable,         \* the databases that are deleted while open
          Faulty,            \* the transactions in which something fails
          OverQuota,         \* the writers with a statement over the quota
          Handled,           \* those whose statement has an error callback
          Watched,           \* the transactions whose liveness is checked
          MaxStatements,     \* bound: statements a transaction executes
          MaxRetries,        \* bound: quota increases granted to a transaction
          NoTransaction,
          Other              \* a writer of another document

ASSUME WebDatabaseAssumption ==
    /\ DatabaseOf \in [Transactions -> Databases]
    /\ ReadOnly \subseteq Transactions /\ ErrorCallback \subseteq Transactions
    /\ MayStop \in BOOLEAN /\ Deletable \subseteq Databases
    /\ Faulty \subseteq Transactions /\ Watched \subseteq Transactions
    /\ OverQuota \subseteq Transactions \ ReadOnly /\ Handled \subseteq OverQuota
    /\ MaxStatements \in Nat /\ MaxRetries \in Nat
    /\ {NoTransaction, Other} \cap Transactions = {}
    /\ NoTransaction # Other

VARIABLES tx,           \* the transactions, front end and back end
          db,           \* the Database objects
          queue,        \* m_queue of the database thread
          killed,       \* its m_killed
          thread,       \* where the database thread is
          running,      \* the transaction whose state machine it runs
          coordinator,  \* its SQLTransactionCoordinator
          originLock,   \* the writer that holds the OriginLock
          posted,       \* functions posted to the main thread
          awaited       \* the task the main thread waits for, or <<>>

vars == <<tx, db, queue, killed, thread, running, coordinator, originLock,
          posted, awaited>>

States == {"End", "Idle", "AcquireLock", "OpenTransactionAndPreflight",
           "RunStatements", "PostflightAndCommit", "CleanupAndTerminate",
           "CleanupAfterTransactionErrorCallback",
           "DeliverTransactionCallback", "DeliverTransactionErrorCallback",
           "DeliverStatementCallback", "DeliverQuotaIncreaseCallback",
           "DeliverSuccessCallback"}

\* sqlite is m_sqliteTransaction: rolledBack when SQLite has rolled it back by
\* itself, failed after a COMMIT that did not succeed.  current is
\* m_currentStatementBackend, handler its error callback (used: unwrapped).
\* committed and told are what the database and the page have seen.
Transaction ==
    [born : BOOLEAN, next : States, requested : States, frontend : States,
     cleaned : BOOLEAN, locked : BOOLEAN,
     sqlite : {"none", "open", "rolledBack", "failed"},
     statements : 0 .. MaxStatements, issued : 0 .. MaxStatements,
     current : {"none", "ran", "quota"}, handler : {"none", "set", "used"},
     retry : BOOLEAN, retries : 0 .. MaxRetries,
     committed : BOOLEAN, told : {"nothing", "success", "error"}]

\* One Database object, made by one call of openDatabase.
Database ==
    [asked : BOOLEAN,         \* openDatabase was called
     created : BOOLEAN, opened : BOOLEAN, deleted : BOOLEAN,
     enabled : BOOLEAN,       \* m_isTransactionQueueEnabled
     inProgress : BOOLEAN,    \* m_transactionInProgress
     waiting : Seq(Transactions)]   \* m_transactionQueue

Tasks == ({"open", "close"} \X Databases) \cup ({"step"} \X Transactions)

TypeOK ==
    /\ tx \in [Transactions -> Transaction]
    /\ db \in [Databases -> Database]
    /\ queue \in Seq(Tasks)
    /\ killed \in BOOLEAN
    /\ thread \in {"waiting", "running", "spinning", "selfLocked", "closing",
                  "ended"}
    /\ running \in Transactions \cup {NoTransaction}
    /\ thread = "running" <=> running # NoTransaction
    /\ coordinator.readers \subseteq ReadOnly
    /\ coordinator.writers \subseteq Transactions \ ReadOnly
    /\ originLock \in (Transactions \ ReadOnly) \cup {NoTransaction, Other}
    /\ posted \in Seq({"callback", "refusal"} \X Transactions)
    /\ awaited \in Tasks \cup {<<>>}

Init ==
    /\ tx = [t \in Transactions |->
                [born |-> FALSE, next |-> "Idle", requested |-> "Idle",
                 frontend |-> "Idle", cleaned |-> FALSE, locked |-> FALSE,
                 sqlite |-> "none", statements |-> 0, issued |-> 0,
                 current |-> "none", handler |-> "none", retry |-> FALSE,
                 retries |-> 0, committed |-> FALSE, told |-> "nothing"]]
    /\ db = [d \in Databases |->
                [asked |-> FALSE, created |-> FALSE, opened |-> FALSE,
                 deleted |-> FALSE, enabled |-> TRUE, inProgress |-> FALSE,
                 waiting |-> <<>>]]
    /\ queue = <<>>
    /\ killed = FALSE
    /\ thread = "waiting"
    /\ running = NoTransaction
    /\ coordinator = NewCoordinator
    /\ originLock = NoTransaction
    /\ posted = <<>>
    /\ awaited = <<>>

MainIdle == awaited = <<>>

Step(t) == <<"step", t>>
Steps(ts) == [i \in DOMAIN ts |-> Step(ts[i])]

-----------------------------------------------------------------------------
(* Parts of a step, as functions of the records they change.                *)

\* SQLTransactionBackend::requestTransitToState, but for the task it queues.
Requested(tr, state) == [tr EXCEPT !.requested = state]

\* lockAcquired(), for every transaction that a coordinator lets through.
LocksGranted(txs, info) ==
    [t \in Transactions |->
        IF t \in ToSet(Granted(info))
        THEN [Requested(txs[t], "OpenTransactionAndPreflight")
                 EXCEPT !.locked = TRUE]
        ELSE txs[t]]

\* doCleanup on the transaction itself; it does nothing the second time.
Cleaned(tr) ==
    IF tr.cleaned THEN tr
    ELSE [tr EXCEPT !.cleaned = TRUE, !.statements = 0, !.sqlite = "none"]

\* The coordinator after doCleanup of t gave its lock back.
Released(t) ==
    IF tx[t].locked /\ ~tx[t].cleaned
    THEN Without(coordinator, t)
    ELSE coordinator

CleanupKeepsOriginLock(t, txs) ==
    /\ tx' = [LocksGranted(txs, Released(t)) EXCEPT ![t] = Cleaned(@)]
    /\ coordinator' = ProcessPendingTransactions(Released(t))
    /\ UNCHANGED originLock

\* doCleanup; the tasks of the transactions it lets through are queued by the
\* action it is part of.
DoCleanup(t, txs) ==
    /\ tx' = [LocksGranted(txs, Released(t)) EXCEPT ![t] = Cleaned(@)]
    /\ coordinator' = ProcessPendingTransactions(Released(t))
    /\ originLock' = IF originLock = t THEN NoTransaction ELSE originLock

\* scheduleTransaction: what becomes of the database, and the task it queues.
ScheduleTransaction(d) ==
    IF d.enabled /\ d.waiting # <<>>
    THEN [d EXCEPT !.waiting = Tail(@), !.inProgress = TRUE]
    ELSE [d EXCEPT !.inProgress = FALSE]

NextTransaction(d) ==
    IF d.enabled /\ d.waiting # <<>> THEN <<Step(Head(d.waiting))>> ELSE <<>>

-----------------------------------------------------------------------------
(* Scripts, the user and the loader, on the main thread.                    *)

\* openDatabase: openAndVerifyVersion waits for a DatabaseOpenTask.
OpenDatabase(d) ==
    /\ MainIdle
    /\ ~db[d].asked
    /\ ~killed
    /\ db' = [db EXCEPT ![d].asked = TRUE]
    /\ queue' = <<<<"open", d>>>> \o queue
    /\ awaited' = <<"open", d>>
    /\ UNCHANGED <<tx, killed, thread, running, coordinator, originLock, posted>>

\* Database::runTransaction of an open database's queue, or of a closed one's:
\* then only the error callback is posted.
RunTransaction(t) ==
    LET d == DatabaseOf[t]
        appended == [db[d] EXCEPT !.waiting = Append(@, t)]
    IN  /\ MainIdle
        /\ db[d].created
        /\ ~tx[t].born
        /\ \/ /\ db[d].enabled
              /\ tx' = [tx EXCEPT ![t].born = TRUE, ![t].requested = "AcquireLock"]
              /\ \/ /\ db[d].inProgress
                    /\ db' = [db EXCEPT ![d] = appended]
                    /\ UNCHANGED queue
                 \/ /\ ~db[d].inProgress
                    /\ db' = [db EXCEPT ![d] = ScheduleTransaction(appended)]
                    /\ queue' = queue \o NextTransaction(appended)
              /\ UNCHANGED posted
           \/ /\ ~db[d].enabled
              /\ tx' = [tx EXCEPT ![t].born = TRUE, ![t].next = "End",
                                  ![t].cleaned = TRUE]
              /\ posted' = IF t \in ErrorCallback
                           THEN Append(posted, <<"refusal", t>>) ELSE posted
              /\ UNCHANGED <<db, queue>>
        /\ UNCHANGED <<killed, thread, running, coordinator, originLock, awaited>>

\* DatabaseContext::stopDatabases: m_queue.kill().
StopDatabases ==
    /\ MayStop
    /\ MainIdle
    /\ ~killed
    /\ \E d \in Databases : db[d].created
    /\ killed' = TRUE
    /\ UNCHANGED <<tx, db, queue, thread, running, coordinator, originLock,
                   posted, awaited>>

\* Database::markAsDeletedAndClose waits for a DatabaseCloseTask.
MarkAsDeletedAndClose(d) ==
    /\ d \in Deletable
    /\ MainIdle
    /\ db[d].created
    /\ db[d].opened
    /\ ~db[d].deleted
    /\ db' = [db EXCEPT ![d].deleted = TRUE]
    /\ \/ /\ killed
          /\ UNCHANGED <<queue, awaited>>
       \/ /\ ~killed
          /\ queue' = <<<<"close", d>>>> \o queue
          /\ awaited' = <<"close", d>>
    /\ UNCHANGED <<tx, killed, thread, running, coordinator, originLock, posted>>

-----------------------------------------------------------------------------
(* The front end: SQLTransaction::performPendingCallback, posted to the     *)
(* main thread.                                                             *)

\* The front end of the first posted callback, asked for one of the states.
Delivers(t, states) ==
    /\ MainIdle
    /\ posted # <<>> /\ posted[1] = <<"callback", t>>
    /\ db[DatabaseOf[t]].opened
    /\ tx[t].frontend \in states

\* sendToBackendState: tr is the transaction after its callback ran.
SendToBackend(t, tr, state) ==
    /\ tx' = [tx EXCEPT ![t] = [Requested(tr, state) EXCEPT !.frontend = "Idle"]]
    /\ queue' = Append(queue, Step(t))
    /\ posted' = Tail(posted)
    /\ UNCHANGED <<db, killed, thread, running, coordinator, originLock, awaited>>

\* executeSQL, called n times by a callback.
Executed(tr, n) ==
    [tr EXCEPT !.statements = @ + n, !.issued = @ + n]

MayExecute(t) == 0 .. MaxStatements - tx[t].issued

\* The error callback, if there is one.
ToldOfError(t, tr) ==
    IF t \in ErrorCallback THEN [tr EXCEPT !.told = "error"] ELSE tr

\* deliverTransactionCallback; when it raises an exception,
\* deliverTransactionErrorCallback follows at once.
DeliverTransactionCallback(t, raises) ==
    /\ Delivers(t, {"DeliverTransactionCallback"})
    /\ raises => t \in Faulty
    /\ \E n \in MayExecute(t) :
           IF raises
           THEN SendToBackend(t, ToldOfError(t, Executed(tx[t], n)),
                              "CleanupAfterTransactionErrorCallback")
           ELSE SendToBackend(t, Executed(tx[t], n), "RunStatements")

\* deliverTransactionErrorCallback
DeliverTransactionErrorCallback(t) ==
    /\ Delivers(t, {"DeliverTransactionErrorCallback"})
    /\ SendToBackend(t, ToldOfError(t, tx[t]),
                     "CleanupAfterTransactionErrorCallback")

\* deliverStatementCallback: performCallback unwraps the callback it calls, so
\* an error reported twice finds none and passes for handled.
DeliverStatementCallback(t, fails) ==
    /\ Delivers(t, {"DeliverStatementCallback"})
    /\ fails => t \in Faulty /\ tx[t].handler # "used"
    /\ \E n \in MayExecute(t) :
           LET tr == [Executed(tx[t], n) EXCEPT
                         !.handler = IF @ = "set" THEN "used" ELSE @]
           IN  /\ n > 0 => tx[t].handler # "used"
               /\ IF fails
                  THEN SendToBackend(t, ToldOfError(t, tr),
                                     "CleanupAfterTransactionErrorCallback")
                  ELSE SendToBackend(t, tr, "RunStatements")

\* deliverQuotaIncreaseCallback: the client may or may not raise the quota.
DeliverQuotaIncreaseCallback(t, raised) ==
    /\ Delivers(t, {"DeliverQuotaIncreaseCallback"})
    /\ raised => tx[t].retries < MaxRetries
    /\ SendToBackend(t, [tx[t] EXCEPT !.retry = raised,
                                      !.retries = IF raised THEN @ + 1 ELSE @],
                     "RunStatements")

\* deliverSuccessCallback
DeliverSuccessCallback(t) ==
    /\ Delivers(t, {"DeliverSuccessCallback"})
    /\ SendToBackend(t, [tx[t] EXCEPT !.told = "success"], "CleanupAndTerminate")

\* The database was closed meanwhile: no callback, only the clean-up request.
DeliverToClosed(t) ==
    /\ MainIdle
    /\ posted # <<>> /\ posted[1] = <<"callback", t>>
    /\ ~db[DatabaseOf[t]].opened
    /\ SendToBackend(t, tx[t], "CleanupAndTerminate")

\* The posted error callback of a transaction that a closed database refused.
DeliverRefusal(t) ==
    /\ MainIdle
    /\ posted # <<>> /\ posted[1] = <<"refusal", t>>
    /\ tx' = [tx EXCEPT ![t] = ToldOfError(t, @)]
    /\ posted' = Tail(posted)
    /\ UNCHANGED <<db, queue, killed, thread, running, coordinator, originLock,
                   awaited>>

\* The document is gone: Document::postTask drops what is posted for it.
DropPosted(t) ==
    /\ MainIdle
    /\ killed
    /\ posted # <<>> /\ posted[1][2] = t
    /\ posted' = Tail(posted)
    /\ UNCHANGED <<tx, db, queue, killed, thread, running, coordinator,
                   originLock, awaited>>
-----------------------------------------------------------------------------
(* The database thread: its loop and its tasks.                             *)

Takes(task) ==
    /\ thread = "waiting"
    /\ ~killed
    /\ queue # <<>> /\ queue[1] = task

\* DatabaseOpenTask
PerformOpen(d, succeeds) ==
    /\ Takes(<<"open", d>>)
    /\ db' = [db EXCEPT ![d].created = succeeds, ![d].opened = succeeds]
    /\ queue' = Tail(queue)
    /\ awaited' = <<>>
    /\ UNCHANGED <<tx, killed, thread, running, coordinator, originLock, posted>>

\* The queued steps of d's transactions, which unscheduleDatabaseTasks drops.
Unscheduled(d) ==
    {t \in Transactions : DatabaseOf[t] = d /\ Contains(queue, Step(t))}

\* What removeIf leaves of a queue.
Unqueued(s, tasks) ==
    LET kept[i \in 0 .. Len(s)] ==
          IF i = 0 THEN <<>>
          ELSE IF s[i] \notin tasks THEN Append(kept[i - 1], s[i])
               ELSE kept[i - 1]
    IN  kept[Len(s)]

CloseForgetsTasks(d) ==
    /\ tx' = [t \in Transactions |->
                 IF t \in ToSet(db[d].waiting) THEN Cleaned(tx[t]) ELSE tx[t]]
    /\ db' = [db EXCEPT ![d].waiting = <<>>, ![d].enabled = FALSE,
                        ![d].inProgress = FALSE, ![d].opened = FALSE]
    /\ queue' = Unqueued(Tail(queue), {Step(t) : t \in Unscheduled(d)})
    /\ UNCHANGED <<thread, coordinator, originLock>>

\* Database::close: the transactions that wait in the database or in the queue
\* are cleaned up.  The queue's mutex is held while its tasks are destroyed, so
\* a lock that is passed on by one of them blocks the thread on that mutex.
Close(d) ==
    LET dropped == Unscheduled(d)
        holders == {t \in dropped : tx[t].locked /\ ~tx[t].cleaned}
        info == IF holders = {} THEN coordinator
                ELSE Without(coordinator, CHOOSE t \in holders : TRUE)
        granting == LocksGranted(tx, info)
    IN  /\ tx' = [t \in Transactions |->
                     IF t \in dropped \cup ToSet(db[d].waiting)
                     THEN Cleaned(tx[t]) ELSE granting[t]]
        /\ db' = [db EXCEPT ![d].waiting = <<>>, ![d].enabled = FALSE,
                            ![d].inProgress = FALSE, ![d].opened = FALSE]
        /\ queue' = Unqueued(queue, {<<"close", d>>} \cup {Step(t) : t \in dropped})
        /\ thread' = IF Granted(info) # <<>> THEN "selfLocked" ELSE thread
        /\ coordinator' = ProcessPendingTransactions(info)
        /\ originLock' = IF originLock \in dropped THEN NoTransaction
                         ELSE originLock

\* DatabaseCloseTask
PerformClose(d) ==
    /\ Takes(<<"close", d>>)
    /\ Close(d)
    /\ awaited' = IF thread' = "selfLocked" THEN awaited ELSE <<>>
    /\ UNCHANGED <<killed, running, posted>>

\* DatabaseTransactionTask: performNextStep takes the requested state.
PerformNextStep(t) ==
    /\ Takes(Step(t))
    /\ db[DatabaseOf[t]].opened
    /\ tx' = [tx EXCEPT ![t].next = tx[t].requested, ![t].requested = "Idle"]
    /\ queue' = Tail(queue)
    /\ thread' = "running"
    /\ running' = t
    /\ UNCHANGED <<db, killed, coordinator, originLock, posted, awaited>>

CancelledStaysIdle(tr) == [tr EXCEPT !.sqlite = "none", !.frontend = "End"]

\* computeNextStateAndCleanupIfNeeded after the database was closed: the front
\* end is asked to end too.
Cancelled(tr) == [tr EXCEPT !.next = "End", !.sqlite = "none", !.frontend = "End"]

\* performNextStep of a transaction whose database was closed.
CancelStep(t) ==
    /\ Takes(Step(t))
    /\ ~db[DatabaseOf[t]].opened
    /\ \/ /\ tx[t].next = "End"
          /\ queue' = Tail(queue)
          /\ UNCHANGED <<tx, coordinator, originLock, posted>>
       \/ /\ tx[t].next # "End"
          /\ DoCleanup(t, [tx EXCEPT ![t] = Cancelled(@)])
          /\ queue' = Tail(queue) \o Steps(Granted(Released(t)))
          /\ posted' = Append(posted, <<"callback", t>>)
    /\ UNCHANGED <<db, killed, thread, running, awaited>>

\* The queue was killed: waitForMessage returns nothing and the coordinator is
\* shut down.  The active transactions are cleaned up; the loop over the
\* pending ones cleans up the first and never takes it off the queue.
Shutdown ==
    LET info == coordinator
        pending == IF info.pending = <<>> THEN {} ELSE {info.pending[1]}
        notified == Active(info) \cup pending
    IN  /\ thread = "waiting"
        /\ killed
        /\ tx' = [t \in Transactions |->
                     IF t \in notified THEN Cleaned(tx[t]) ELSE tx[t]]
        /\ originLock' = IF originLock \in notified THEN NoTransaction
                         ELSE originLock
        /\ coordinator' = IF pending = {} THEN ShutDown
                          ELSE [info EXCEPT !.shuttingDown = TRUE]
        /\ thread' = IF pending = {} THEN "closing" ELSE "spinning"
        /\ UNCHANGED <<db, queue, killed, running, posted, awaited>>

\* The end of databaseThread(): every open database is closed.
CloseAtShutdown(d) ==
    /\ thread = "closing"
    /\ db[d].opened
    /\ Close(d)
    /\ UNCHANGED <<killed, running, posted, awaited>>

EndThread ==
    /\ thread = "closing"
    /\ \A d \in Databases : ~db[d].opened
    /\ thread' = "ended"
    /\ UNCHANGED <<tx, db, queue, killed, running, coordinator, originLock,
                   posted, awaited>>

-----------------------------------------------------------------------------
(* The back end's state functions, run by runStateMachine.                  *)

Runs(t, states) ==
    /\ thread = "running"
    /\ running = t
    /\ tx[t].next \in states

\* A state function returned another state to run.
Continue(t, tr, state) ==
    /\ tx' = [tx EXCEPT ![t] = [tr EXCEPT !.next = state]]
    /\ UNCHANGED <<db, queue, killed, thread, running, coordinator, posted, awaited>>

\* It returned Idle or End: the task is done.
TaskDone ==
    /\ thread' = "waiting"
    /\ running' = NoTransaction

\* nextStateForTransactionError
StateForError(t) ==
    IF t \in ErrorCallback THEN "DeliverTransactionErrorCallback"
    ELSE "CleanupAfterTransactionErrorCallback"

\* acquireLock
AcquireLock(t) ==
    LET info == Asking(coordinator, t)
    IN  /\ Runs(t, {"AcquireLock"})
        /\ tx' = LocksGranted([tx EXCEPT ![t].next = "Idle"], info)
        /\ coordinator' = ProcessPendingTransactions(info)
        /\ queue' = queue \o Steps(Granted(info))
        /\ TaskDone
        /\ UNCHANGED <<db, killed, originLock, posted, awaited>>

EveryoneTakesOriginLock(t) ==
    originLock = NoTransaction /\ originLock' = t

\* acquireOriginLock: a writer blocks its thread until the mutex is free.
AcquireOriginLock(t) ==
    IF t \in ReadOnly THEN UNCHANGED originLock
    ELSE originLock = NoTransaction /\ originLock' = t

\* openTransactionAndPreflight
OpenTransactionAndPreflight(t, begins) ==
    /\ Runs(t, {"OpenTransactionAndPreflight"})
    /\ \/ /\ db[DatabaseOf[t]].deleted
          /\ ~begins
          /\ Continue(t, tx[t], StateForError(t))
          /\ UNCHANGED originLock
       \/ /\ ~db[DatabaseOf[t]].deleted
          /\ begins
          /\ AcquireOriginLock(t)
          /\ Continue(t, [tx[t] EXCEPT !.sqlite = "open"],
                      "DeliverTransactionCallback")
       \/ /\ ~db[DatabaseOf[t]].deleted
          /\ ~begins /\ t \in Faulty
          /\ AcquireOriginLock(t)
          /\ Continue(t, tx[t], StateForError(t))

\* nextStateForCurrentStatementError
StateForStatementError(t, tr) ==
    IF tr.handler # "none" /\ tr.sqlite # "rolledBack"
    THEN "DeliverStatementCallback"
    ELSE StateForError(t)

\* The outcomes of runCurrentStatementAndGetNextState: the statement succeeds
\* and has a callback or not, or it fails.
StatementSucceeds(t, tr) ==
    \E state \in {"RunStatements", "DeliverStatementCallback"} :
        Continue(t, [tr EXCEPT !.current = "ran", !.handler = "none"], state)

\* SQLite may roll the transaction back by itself when a statement fails.
Outcomes == {"open", "rolledBack"}
Failed(tr, current, handler, sqlite) ==
    [tr EXCEPT !.current = current, !.handler = handler, !.sqlite = sqlite]

StatementFails(t, tr, handlers) ==
    /\ t \in Faulty
    /\ \E h \in handlers, s \in Outcomes :
           LET failed == Failed(tr, "ran", h, s)
           IN  Continue(t, failed, StateForStatementError(t, failed))

StatementExceedsQuota(t, tr, handlers) ==
    /\ t \in OverQuota
    /\ \E h \in handlers, s \in Outcomes :
           /\ h # "none" => t \in Handled
           /\ s = "rolledBack" => t \in Faulty
           /\ Continue(t, Failed(tr, "quota", h, s), "DeliverQuotaIncreaseCallback")

RunStatement(t, tr, handlers) ==
    \/ StatementSucceeds(t, tr)
    \/ StatementFails(t, tr, handlers)
    \/ StatementExceedsQuota(t, tr, handlers)

\* One round of runStatements: the current statement is retried, or its quota
\* error handled, or the next one run.
RetryStatement(t) ==
    /\ Runs(t, {"RunStatements"})
    /\ tx[t].retry /\ tx[t].sqlite # "rolledBack"
    /\ RunStatement(t, [tx[t] EXCEPT !.retry = FALSE], {tx[t].handler})
    /\ UNCHANGED originLock

HandleQuotaError(t) ==
    /\ Runs(t, {"RunStatements"})
    /\ ~tx[t].retry \/ tx[t].sqlite = "rolledBack"
    /\ tx[t].current = "quota"
    /\ Continue(t, tx[t], StateForStatementError(t, tx[t]))
    /\ UNCHANGED originLock

RunNextStatement(t) ==
    /\ Runs(t, {"RunStatements"})
    /\ ~tx[t].retry \/ tx[t].sqlite = "rolledBack"
    /\ tx[t].current # "quota"
    /\ \/ /\ tx[t].statements = 0
          /\ Continue(t, [tx[t] EXCEPT !.current = "none"], "PostflightAndCommit")
       \/ /\ tx[t].statements > 0
          /\ RunStatement(t, [tx[t] EXCEPT !.statements = @ - 1], {"none", "set"})
    /\ UNCHANGED originLock

\* releaseOriginLockIfNeeded
ReleaseOriginLock(t) ==
    originLock' = IF originLock = t THEN NoTransaction ELSE originLock

CommitsBlindly(t, succeeds) ==
    /\ Runs(t, {"PostflightAndCommit"})
    /\ ReleaseOriginLock(t)
    /\ Continue(t, [tx[t] EXCEPT !.committed = succeeds,
                      !.sqlite = IF succeeds THEN "none" ELSE "failed"],
                "DeliverSuccessCallback")

\* changeVersion's writing of the version fails, before the commit: the
\* OriginLock is kept.
PostflightFails(t) ==
    /\ t \in Faulty \ ReadOnly
    /\ \E s \in Outcomes : Continue(t, [tx[t] EXCEPT !.sqlite = s], StateForError(t))
    /\ UNCHANGED originLock

\* postflightAndCommit
PostflightAndCommit(t, succeeds) ==
    /\ Runs(t, {"PostflightAndCommit"})
    /\ \/ /\ succeeds
          /\ tx[t].sqlite = "open"
          /\ ReleaseOriginLock(t)
          /\ Continue(t, [tx[t] EXCEPT !.committed = TRUE, !.sqlite = "none"],
                      "DeliverSuccessCallback")
       \/ /\ ~succeeds /\ t \in Faulty
          /\ ReleaseOriginLock(t)
          /\ Continue(t, [tx[t] EXCEPT !.sqlite = "failed"], StateForError(t))
       \/ ~succeeds /\ PostflightFails(t)

\* cleanupAfterTransactionErrorCallback
CleanupAfterTransactionErrorCallback(t) ==
    /\ Runs(t, {"CleanupAfterTransactionErrorCallback"})
    /\ ReleaseOriginLock(t)
    /\ Continue(t, [tx[t] EXCEPT !.sqlite = "none"], "CleanupAndTerminate")

CompletedWithoutNext(d, granted) ==
    /\ db' = [db EXCEPT ![d].inProgress = FALSE]
    /\ queue' = queue \o granted

\* inProgressTransactionCompleted, after the tasks that doCleanup queued.
InProgressTransactionCompleted(d, granted) ==
    /\ db' = [db EXCEPT ![d] = ScheduleTransaction(@)]
    /\ queue' = queue \o granted \o NextTransaction(db[d])

\* cleanupAndTerminate
CleanupAndTerminate(t) ==
    /\ Runs(t, {"CleanupAndTerminate"})
    /\ DoCleanup(t, [tx EXCEPT ![t].next = "End"])
    /\ InProgressTransactionCompleted(DatabaseOf[t],
                                      Steps(Granted(Released(t))))
    /\ TaskDone
    /\ UNCHANGED <<killed, posted, awaited>>

\* sendToFrontendState
SendToFrontend(t) ==
    /\ Runs(t, {"DeliverTransactionCallback", "DeliverTransactionErrorCallback",
                   "DeliverStatementCallback", "DeliverQuotaIncreaseCallback",
                   "DeliverSuccessCallback"})
    /\ tx' = [tx EXCEPT ![t].frontend = tx[t].next, ![t].next = "Idle"]
    /\ posted' = Append(posted, <<"callback", t>>)
    /\ TaskDone
    /\ UNCHANGED <<db, queue, killed, coordinator, originLock, awaited>>

-----------------------------------------------------------------------------
(* Another document of the origin: its writer takes the OriginLock, and can *)
(* only give it back when the main thread has run its callbacks.            *)

OtherLocks ==
    /\ originLock = NoTransaction
    /\ originLock' = Other
    /\ UNCHANGED <<tx, db, queue, killed, thread, running, coordinator, posted,
                   awaited>>

OtherUnlocks ==
    /\ originLock = Other
    /\ MainIdle
    /\ originLock' = NoTransaction
    /\ UNCHANGED <<tx, db, queue, killed, thread, running, coordinator, posted,
                   awaited>>

-----------------------------------------------------------------------------
Script ==
    \/ \E d \in Databases : OpenDatabase(d) \/ MarkAsDeletedAndClose(d)
    \/ \E t \in Transactions : RunTransaction(t)
    \/ StopDatabases

Callbacks ==
    \E t \in Transactions :
        \/ \E raises \in BOOLEAN : DeliverTransactionCallback(t, raises)
        \/ \E fails \in BOOLEAN : DeliverStatementCallback(t, fails)
        \/ \E raised \in BOOLEAN : DeliverQuotaIncreaseCallback(t, raised)
        \/ DeliverTransactionErrorCallback(t)
        \/ DeliverSuccessCallback(t)
        \/ DeliverToClosed(t)
        \/ DeliverRefusal(t)
        \/ DropPosted(t)

StateFunctions ==
    \E t \in Transactions :
        \/ AcquireLock(t)
        \/ \E begins \in BOOLEAN : OpenTransactionAndPreflight(t, begins)
        \/ RetryStatement(t)
        \/ HandleQuotaError(t)
        \/ RunNextStatement(t)
        \/ \E succeeds \in BOOLEAN : PostflightAndCommit(t, succeeds)
        \/ CleanupAfterTransactionErrorCallback(t)
        \/ CleanupAndTerminate(t)
        \/ SendToFrontend(t)

DatabaseThread ==
    \/ \E d \in Databases, succeeds \in BOOLEAN : PerformOpen(d, succeeds)
    \/ \E d \in Databases : PerformClose(d) \/ CloseAtShutdown(d)
    \/ \E t \in Transactions : PerformNextStep(t) \/ CancelStep(t)
    \/ Shutdown
    \/ EndThread
    \/ StateFunctions

Next == Script \/ Callbacks \/ DatabaseThread \/ OtherLocks \/ OtherUnlocks

Spec == Init /\ [][Next]_vars

\* The main thread runs what is posted to it, and the database thread runs
\* when it can; a mutex that is free again and again is got some time, and
\* other documents' transactions go on when the main thread does.  Nothing is
\* assumed of pages or of the user.
Fairness ==
    /\ WF_vars(Callbacks)
    /\ SF_vars(DatabaseThread)
    /\ SF_vars(OtherUnlocks)

FairSpec == Spec /\ Fairness
-----------------------------------------------------------------------------
(* Properties                                                               *)

Occurrences(s, x) == Cardinality({i \in DOMAIN s : s[i] = x})

Live(t) == tx[t].born /\ ~tx[t].cleaned

\* Who may act on a transaction next: its database's queue, the thread's
\* queue, the thread itself, the coordinator or the main thread.
Tokens(t) ==
    Occurrences(db[DatabaseOf[t]].waiting, t)
    + Occurrences(queue, Step(t))
    + (IF running = t THEN 1 ELSE 0)
    + Occurrences(coordinator.pending, t)
    + Occurrences(posted, <<"callback", t>>)

\* A transaction is never lost and never in two hands: what the assertions of
\* setStateToRequestedState rely on, through grants, closing and cancelling.
OneStepAtATime ==
    \A t \in Transactions :
        Live(t) => \/ Tokens(t) = 1
                   \/ Tokens(t) = 0 /\ (\/ killed
                                        \/ thread = "selfLocked")

\* A step that will still run never finds its transaction cleaned up, unless
\* it has also ended: doCleanup has cleared m_frontend, which
\* computeNextStateAndCleanupIfNeeded and sendToFrontendState use.
NoStepAfterCleanup ==
    \A t \in Transactions : tx[t].cleaned =>
        /\ running # t
        /\ Contains(queue, Step(t)) /\ ~killed =>
               tx[t].next = "End" /\ ~db[DatabaseOf[t]].opened

\* Transactions that are open in SQLite at the same time are readers, and a
\* writer that can still commit holds the origin's lock against the writers
\* of other documents: the coordinator and the OriginLock together.
Isolation ==
    /\ \A t, u \in Transactions :
           t # u /\ tx[t].sqlite # "none" /\ tx[u].sqlite # "none" =>
               t \in ReadOnly /\ u \in ReadOnly
    /\ \A t \in Transactions \ ReadOnly :
           tx[t].sqlite = "open" => originLock = t

\* What the page is told is what the database holds: the success callback
\* only after a commit of every statement, the error callback never after one.
OutcomeMatchesDatabase ==
    \A t \in Transactions :
        /\ tx[t].told = "success" => tx[t].committed
        /\ tx[t].committed => tx[t].told # "error" /\ tx[t].statements = 0

\* A transaction that was cleaned up, by whichever of the five phases, holds
\* no lock; and a thread that ended left none that was not.
LocksReleased ==
    \A t \in Transactions :
        /\ tx[t].cleaned =>
               /\ originLock # t
               /\ t \in Active(coordinator) => coordinator.shuttingDown
        /\ thread = "ended" /\ tx[t].born => tx[t].cleaned

Stuck == thread \in {"spinning", "selfLocked"}

\* As long as the main thread comes back from its waits, every transaction
\* runs to its end and gives its locks back.
TransactionsEnd ==
    []<>MainIdle => \A t \in Watched : Live(t) ~> ~Live(t) \/ Stuck

\* A database thread that was asked to terminate does.
ThreadStops == killed ~> thread = "ended"
=============================================================================
