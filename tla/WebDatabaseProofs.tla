-------------------------- MODULE WebDatabaseProofs --------------------------
(***************************************************************************)
(* Proofs about WebDatabase, for any databases and transactions.           *)
(***************************************************************************)
EXTENDS WebDatabase, ListTheorems, FiniteSetTheorems, TLAPS

\* Where a transaction may be: the five places that Tokens counts.
Waits(t) == t \in Listed(db[DatabaseOf[t]].waiting)
Queued(t) == Step(t) \in Listed(queue)
Pends(t) == t \in Listed(coordinator.pending)
Calls(t) == <<"callback", t>> \in Listed(posted)
Refused(t) == <<"refusal", t>> \in Listed(posted)

Down == coordinator.shuttingDown

Coordinator ==
    [pending : Seq(Transactions), readers : SUBSET ReadOnly,
     writers : SUBSET (Transactions \ ReadOnly), shuttingDown : BOOLEAN]

\* Many readers or one writer.
Exclusive(info) ==
    /\ \A t, u \in info.writers : t = u
    /\ info.writers # {} => info.readers = {}

\* The lists name nobody twice, and a transaction waits in its own database.
ListsInv ==
    /\ NoDuplicates(queue)
    /\ NoDuplicates(posted)
    /\ coordinator \in Coordinator /\ NoDuplicates(coordinator.pending)
    /\ \A d \in Databases :
           /\ NoDuplicates(db[d].waiting)
           /\ \A t \in Listed(db[d].waiting) : DatabaseOf[t] = d

\* The main thread waits for the one task of a database that is queued, and a
\* database is opened before anything else is done with it.
TaskInv(d) ==
    /\ <<"open", d>> \in Listed(queue) =>
           awaited = <<"open", d>> /\ ~db[d].created /\ db[d].asked
    /\ <<"close", d>> \in Listed(queue) =>
           awaited = <<"close", d>> /\ db[d].created
    /\ db[d].created /\ db[d].enabled => db[d].opened
    /\ db[d].created => db[d].asked

TasksInv == \A d \in Databases : TaskInv(d)

\* A transaction is in one place at most, and a live one is in none only when
\* the thread is to stop or has locked itself out.
PlaceInv(t) ==
    /\ Waits(t) => ~Queued(t) /\ running # t /\ ~Pends(t) /\ ~Calls(t)
    /\ Queued(t) => running # t /\ ~Pends(t) /\ ~Calls(t)
    /\ running = t => ~Pends(t) /\ ~Calls(t)
    /\ Pends(t) => ~Calls(t)
    /\ Refused(t) => ~(Waits(t) \/ Queued(t) \/ Pends(t) \/ Calls(t))
    /\ Live(t) => \/ Waits(t) \/ Queued(t) \/ running = t \/ Pends(t)
                  \/ Calls(t)
                  \/ tx[t].locked /\ (killed \/ thread = "selfLocked")
    /\ Waits(t) => Live(t) /\ db[DatabaseOf[t]].enabled

PlacesInv == \A t \in Transactions : PlaceInv(t)

\* What the thread is doing.
ControlInv(t) ==
    /\ tx[t].next \notin {"Idle", "End"} <=> running = t
    /\ running = t => Live(t) /\ db[DatabaseOf[t]].opened
    /\ tx[t].cleaned /\ ~Down /\ (Queued(t) \/ Calls(t)) =>
           tx[t].next = "End" /\ ~db[DatabaseOf[t]].opened
    /\ thread = "closing" /\ Live(t) =>
           (Waits(t) \/ Queued(t)) /\ db[DatabaseOf[t]].opened
    /\ thread = "ended" => ~Live(t)

ThreadInv ==
    /\ Down => killed
    /\ Down <=> thread \in {"spinning", "closing", "ended"}
    /\ thread \in {"closing", "ended"} =>
           coordinator.pending = <<>> /\ Active(coordinator) = {}
    /\ thread = "ended" => \A d \in Databases : ~db[d].opened
    /\ \A t \in Transactions : ControlInv(t)

\* A transaction that has not been let through has done nothing.
Fresh(tr) ==
    /\ ~tr.locked /\ tr.sqlite = "none" /\ tr.statements = 0 /\ tr.issued = 0
    /\ ~tr.committed /\ tr.told = "nothing" /\ tr.frontend \in {"Idle", "End"}

Working == {"RunStatements", "DeliverTransactionCallback",
            "DeliverStatementCallback", "DeliverQuotaIncreaseCallback"}

Ending == {"Idle", "CleanupAfterTransactionErrorCallback", "CleanupAndTerminate",
           "End"}

\* What a transaction's own fields say together.
Coherent(tr) ==
    /\ tr.statements <= tr.issued
    /\ tr.requested \in {"Idle", "AcquireLock", "OpenTransactionAndPreflight",
           "RunStatements", "CleanupAfterTransactionErrorCallback",
           "CleanupAndTerminate"}
    /\ "AcquireLock" \in {tr.next, tr.requested} => Fresh(tr)
    /\ "OpenTransactionAndPreflight" \in {tr.next, tr.requested} =>
           /\ tr.locked
           /\ Fresh([tr EXCEPT !.locked = FALSE])
    /\ tr.next \in Working \/ tr.requested \in Working \/ tr.frontend \in Working =>
           \/ tr.cleaned
           \/ tr.sqlite = "open"
           \/ tr.sqlite = "rolledBack" /\ tr.current = "quota"
    /\ tr.next = "PostflightAndCommit" => tr.statements = 0 /\ tr.sqlite = "open"
    /\ "DeliverSuccessCallback" \in {tr.next, tr.frontend} => tr.committed
    /\ tr.next \in {"DeliverTransactionErrorCallback", "DeliverSuccessCallback"} => tr.locked
    /\ tr.told = "success" => tr.committed
    /\ tr.committed =>
           /\ tr.told # "error" /\ tr.statements = 0 /\ tr.sqlite = "none"
           /\ tr.next \in Ending \cup {"DeliverSuccessCallback"}
           /\ tr.requested \in Ending
           /\ tr.frontend \in Ending \cup {"DeliverSuccessCallback"}
    /\ tr.told = "error" => {tr.next, tr.requested, tr.frontend} \subseteq Ending
    /\ tr.sqlite # "none" => tr.locked /\ ~tr.cleaned
    /\ tr.next = "End" => tr.cleaned

\* What they say with the place it is in.
RecordInv(t) ==
    /\ Coherent(tx[t])
    /\ tx[t].born => db[DatabaseOf[t]].created
    /\ ~tx[t].born =>
           /\ Fresh(tx[t]) /\ ~tx[t].cleaned
           /\ tx[t].next = "Idle" /\ tx[t].requested = "Idle"
           /\ ~(Waits(t) \/ Queued(t) \/ Pends(t) \/ Calls(t) \/ Refused(t))
    /\ Waits(t) => tx[t].requested = "AcquireLock"
    /\ Queued(t) => tx[t].requested # "Idle"
    /\ running = t => tx[t].requested = "Idle"
    /\ Queued(t) \/ running = t => tx[t].frontend \in {"Idle", "End"}
    /\ Queued(t) /\ Live(t) /\ ~tx[t].locked => db[DatabaseOf[t]].opened
    /\ Pends(t) => Fresh(tx[t]) /\ tx[t].requested = "Idle" /\ (tx[t].cleaned => Down)
    /\ Calls(t) => tx[t].locked \/ tx[t].cleaned
    /\ Refused(t) => /\ tx[t].cleaned /\ tx[t].next = "End"
                     /\ Fresh([tx[t] EXCEPT !.told = "nothing"])
                     /\ tx[t].requested = "Idle"

RecordsInv == \A t \in Transactions : RecordInv(t)

\* The coordinator and the OriginLock.
LockInv(t) ==
    /\ tx[t].locked /\ ~tx[t].cleaned => t \in Active(coordinator)
    /\ t \in Active(coordinator) => tx[t].born /\ tx[t].locked /\ (tx[t].cleaned => Down)
    /\ originLock = t => tx[t].locked /\ ~tx[t].cleaned
    /\ t \notin ReadOnly /\ tx[t].sqlite = "open" => originLock = t

LocksInv == Exclusive(coordinator) /\ \A t \in Transactions : LockInv(t)

\* A database runs its transactions one after the other.
TurnsInv ==
    /\ \A d \in Databases :
           db[d].waiting # <<>> => db[d].inProgress /\ db[d].enabled
    /\ \A t \in Transactions : Live(t) /\ ~Waits(t) =>
           db[DatabaseOf[t]].inProgress \/ ~db[DatabaseOf[t]].enabled
    /\ \A t, u \in Transactions :
           Live(t) /\ ~Waits(t) /\ Live(u) /\ ~Waits(u)
           /\ DatabaseOf[t] = DatabaseOf[u] => t = u

WebDatabaseInv ==
    TypeOK /\ ListsInv /\ TasksInv /\ PlacesInv /\ ThreadInv /\ RecordsInv
    /\ LocksInv /\ TurnsInv
-----------------------------------------------------------------------------
(* The operators that the steps are made of.                                *)

\* What dropping tasks leaves of a queue.
LEMMA UnqueuedKeeps ==
    ASSUME NEW S, NEW s \in Seq(S), NoDuplicates(s), NEW X
    PROVE  /\ Unqueued(s, X) \in Seq(S)
           /\ NoDuplicates(Unqueued(s, X))
           /\ Listed(Unqueued(s, X)) = Listed(s) \ X
<1> DEFINE F == CHOOSE G : Filters(G, s, X, Len(s))
<1>1. Len(s) \in Nat /\ Len(s) <= Len(s)
  OBVIOUS
<1>2. \E G : Filters(G, s, X, Len(s))
  BY <1>1, FilterExists
<1>3. Filters(F, s, X, Len(s))
  BY <1>2
<1>4. Unqueued(s, X) = F[Len(s)]
  BY DEF Unqueued, Filters
<1> HIDE DEF F
<1> QED BY <1>3, <1>4, FilterKeeps

\* How many readers are in front of the first writer.
LEMMA ReadersInFront ==
    ASSUME NEW S, NEW p \in Seq(S)
    PROVE  \E n \in 0..Len(p) : /\ \A i \in 1..n : p[i] \in ReadOnly
                                /\ n < Len(p) => p[n + 1] \notin ReadOnly
<1> DEFINE B == {n \in 0..Len(p) : n < Len(p) => p[n + 1] \notin ReadOnly}
<1>1. Len(p) \in Nat
  OBVIOUS
<1>2. PICK n \in B : \A m \in B : ~(m < n)
  <2>1. B \subseteq Nat
    OBVIOUS
  <2>2. Len(p) \in B
    <3>1. Len(p) \in 0..Len(p) /\ ~(Len(p) < Len(p))
      BY <1>1
    <3> QED BY <3>1
  <2> HIDE DEF B
  <2> QED BY <2>1, <2>2, Minimum
<1>3. n \in 0..Len(p) /\ (n < Len(p) => p[n + 1] \notin ReadOnly)
  BY <1>1, <1>2
<1>4. ASSUME NEW i \in 1..n PROVE p[i] \in ReadOnly
  <2>1. i - 1 \in Nat /\ i - 1 < n /\ i - 1 < Len(p) /\ (i - 1) + 1 = i
    BY <1>1, <1>3
  <2>2. i - 1 \notin B
    BY <1>2, <2>1
  <2> QED BY <2>1, <2>2
<1> QED BY <1>3, <1>4

\* Whom processPendingTransactions lets through: nobody, readers when no writer
\* is active, or one writer when nobody is.
LEMMA GrantedWho ==
    ASSUME NEW info \in Coordinator, NoDuplicates(info.pending)
    PROVE  \E n \in 0..Len(info.pending) :
             /\ Granted(info) = SubSeq(info.pending, 1, n)
             /\ n > 0 => info.writers = {}
             /\ \/ \A i \in 1..n : info.pending[i] \in ReadOnly
                \/ n = 1 /\ info.pending[1] \notin ReadOnly /\ info.readers = {}
<1> DEFINE p == info.pending
           Fits(n) == /\ \A i \in 1 .. n : p[i] \in ReadOnly
                      /\ n < Len(p) => p[n + 1] \notin ReadOnly
           readers == CHOOSE n \in 0 .. Len(p) : Fits(n)
<1>1. p \in Seq(Transactions) /\ Len(p) \in Nat
  BY DEF Coordinator
<1>2. \E n \in 0 .. Len(p) : Fits(n)
  BY <1>1, ReadersInFront
<1>3. readers \in 0 .. Len(p) /\ Fits(readers)
  BY <1>2
<1>4. Granted(info) = IF info.writers # {} \/ p = <<>> THEN <<>>
                      ELSE IF readers > 0 THEN SubSeq(p, 1, readers)
                      ELSE IF info.readers = {} THEN <<p[1]>> ELSE <<>>
  BY DEF Granted
<1> HIDE DEF readers
<1>5. SubSeq(p, 1, 0) = <<>>
  BY <1>1
<1>6. CASE info.writers # {} \/ p = <<>>
  <2>1. 0 \in 0..Len(p) /\ Granted(info) = SubSeq(p, 1, 0)
    BY <1>1, <1>4, <1>5, <1>6
  <2> QED BY <2>1
<1>7. CASE ~(info.writers # {} \/ p = <<>>) /\ readers > 0
  BY <1>3, <1>4, <1>7
<1>8. CASE ~(info.writers # {} \/ p = <<>>) /\ ~(readers > 0) /\ info.readers = {}
  <2>1. readers = 0 /\ 1 \in 0..Len(p)
    BY <1>1, <1>3, <1>8
  <2>2. p[1] \notin ReadOnly
    BY <1>1, <1>3, <2>1
  <2>3. SubSeq(p, 1, 1) = <<p[1]>>
    <3>1. PICK q : q = SubSeq(p, 1, 1)
      OBVIOUS
    <3>2. q \in Seq(Transactions) /\ Len(q) = 1 /\ q[1] = p[1]
      BY <1>1, <2>1, <3>1
    <3>3. q = <<p[1]>>
      BY <3>2
    <3> QED BY <3>1, <3>3
  <2> QED BY <1>4, <1>8, <2>1, <2>2, <2>3
<1>9. CASE ~(info.writers # {} \/ p = <<>>) /\ ~(readers > 0) /\ info.readers # {}
  <2>1. 0 \in 0..Len(p) /\ Granted(info) = SubSeq(p, 1, 0)
    BY <1>1, <1>4, <1>5, <1>9
  <2> QED BY <2>1
<1> QED BY <1>6, <1>7, <1>8, <1>9

\* What processPendingTransactions does to a coordinator.
LEMMA Grants ==
    ASSUME NEW info \in Coordinator, NoDuplicates(info.pending), Exclusive(info)
    PROVE  /\ Granted(info) \in Seq(Transactions) /\ NoDuplicates(Granted(info))
           /\ Listed(Granted(info)) \subseteq Listed(info.pending)
           /\ ProcessPendingTransactions(info) \in Coordinator
           /\ NoDuplicates(ProcessPendingTransactions(info).pending)
           /\ Listed(ProcessPendingTransactions(info).pending)
                = Listed(info.pending) \ Listed(Granted(info))
           /\ Active(ProcessPendingTransactions(info)) = Active(info) \cup Listed(Granted(info))
           /\ ProcessPendingTransactions(info).shuttingDown = info.shuttingDown
           /\ Exclusive(ProcessPendingTransactions(info))
<1> DEFINE p == info.pending
           g == Granted(info)
           next == ProcessPendingTransactions(info)
<1>1. p \in Seq(Transactions) /\ Len(p) \in Nat
  BY DEF Coordinator
<1>2. PICK n \in 0..Len(p) :
             /\ g = SubSeq(p, 1, n)
             /\ n > 0 => info.writers = {}
             /\ \/ \A i \in 1..n : p[i] \in ReadOnly
                \/ n = 1 /\ p[1] \notin ReadOnly /\ info.readers = {}
  BY GrantedWho
<1>3. /\ g \in Seq(Transactions) /\ NoDuplicates(g) /\ Len(g) = n
      /\ Listed(g) = {p[i] : i \in 1..n} /\ Listed(g) \subseteq Listed(p)
      /\ SubSeq(p, n + 1, Len(p)) \in Seq(Transactions)
      /\ NoDuplicates(SubSeq(p, n + 1, Len(p)))
      /\ Listed(SubSeq(p, n + 1, Len(p))) = Listed(p) \ Listed(g)
  BY <1>1, <1>2, ListSplit
<1>4. Listed(g) \subseteq Transactions
  BY <1>3 DEF Listed
<1>5. /\ next \in Coordinator
      /\ next.pending = SubSeq(p, n + 1, Len(p))
      /\ next.readers = info.readers \cup (Listed(g) \cap ReadOnly)
      /\ next.writers = info.writers \cup (Listed(g) \ ReadOnly)
      /\ next.shuttingDown = info.shuttingDown
  <2>1. next = [info EXCEPT !.pending = SubSeq(p, n + 1, Len(p)),
                            !.readers = info.readers \cup (Listed(g) \cap ReadOnly),
                            !.writers = info.writers \cup (Listed(g) \ ReadOnly)]
    BY <1>3 DEF ProcessPendingTransactions, ToSet, Listed
  <2> HIDE DEF g, next
  <2> QED BY <1>3, <1>4, <2>1 DEF Coordinator
<1> HIDE DEF g, next
<1>6. Active(next) = Active(info) \cup Listed(g)
  BY <1>5 DEF Active
<1>7. Exclusive(next)
  <2>1. CASE n = 0
    BY <1>3, <1>5, <2>1 DEF Exclusive
  <2>2. CASE n > 0 /\ \A i \in 1..n : p[i] \in ReadOnly
    BY <1>2, <1>3, <1>5, <2>2 DEF Exclusive
  <2>3. CASE n = 1 /\ p[1] \notin ReadOnly /\ info.readers = {}
    <3>1. Listed(g) = {p[1]} /\ info.writers = {}
      BY <1>2, <1>3, <2>3
    <3> QED BY <1>5, <2>3, <3>1 DEF Exclusive
  <2> QED BY <1>2, <2>1, <2>2, <2>3
<1> QED BY <1>3, <1>5, <1>6, <1>7 DEF g, next

\* The tasks that let transactions go on.
LEMMA StepsKeep ==
    ASSUME NEW ts \in Seq(Transactions), NoDuplicates(ts)
    PROVE  /\ Steps(ts) \in Seq(Tasks)
           /\ NoDuplicates(Steps(ts))
           /\ Listed(Steps(ts)) = {Step(u) : u \in Listed(ts)}
<1>1. DOMAIN ts = 1..Len(ts) /\ Len(ts) \in Nat /\ \A i \in DOMAIN ts : ts[i] \in Transactions
  OBVIOUS
<1>2. \A i \in DOMAIN ts : Step(ts[i]) \in Tasks
  BY <1>1 DEF Step, Tasks
<1>3. Steps(ts) \in Seq(Tasks) /\ DOMAIN Steps(ts) = DOMAIN ts
      /\ \A i \in DOMAIN ts : Steps(ts)[i] = Step(ts[i])
  <2>1. PICK q : q = Steps(ts)
    OBVIOUS
  <2>2. q = [i \in 1..Len(ts) |-> Step(ts[i])]
    BY <1>1, <2>1 DEF Steps
  <2>3. q \in [1..Len(ts) -> Tasks]
    BY <1>1, <1>2, <2>2
  <2>4. q \in Seq(Tasks)
    BY <1>1, <2>3
  <2> QED BY <1>1, <2>1, <2>2, <2>3, <2>4
<1>4. NoDuplicates(Steps(ts))
  BY <1>3 DEF NoDuplicates, Step
<1>5. Listed(Steps(ts)) = {Step(u) : u \in Listed(ts)}
  BY <1>3 DEF Listed
<1> QED BY <1>3, <1>4, <1>5

\* A queue that grows by the steps of transactions that were not in it.
LEMMA QueueGrows ==
    ASSUME NEW q \in Seq(Tasks), NoDuplicates(q),
           NEW ts \in Seq(Transactions), NoDuplicates(ts),
           \A u \in Listed(ts) : Step(u) \notin Listed(q)
    PROVE  /\ q \o Steps(ts) \in Seq(Tasks)
           /\ NoDuplicates(q \o Steps(ts))
           /\ Listed(q \o Steps(ts)) = Listed(q) \cup {Step(u) : u \in Listed(ts)}
<1>1. PICK r : r = Steps(ts)
  OBVIOUS
<1>2. r \in Seq(Tasks) /\ NoDuplicates(r) /\ Listed(r) = {Step(u) : u \in Listed(ts)}
  BY <1>1, StepsKeep
<1>3. Listed(q) \cap Listed(r) = {}
  BY <1>2
<1> QED BY <1>1, <1>2, <1>3, ListConcat

-----------------------------------------------------------------------------
(* What keeps the invariant: a callback that sends its transaction back.     *)

\* The fields that say where a transaction stands are the same.
SameStanding(r, tr) ==
    /\ r.born = tr.born /\ r.cleaned = tr.cleaned /\ r.locked = tr.locked
    /\ r.sqlite = tr.sqlite

\* sendToBackendState, when the callback leaves a coherent transaction.
LEMMA SendStep ==
    ASSUME WebDatabaseInv, NEW t \in Transactions,
           posted # <<>>, posted[1] = <<"callback", t>>,
           NEW r \in Transaction, Coherent(r), r.requested # "Idle",
           SameStanding(r, tx[t]), r.next = tx[t].next, r.frontend = "Idle",
           tx' = [tx EXCEPT ![t] = r], queue' = Append(queue, Step(t)),
           posted' = Tail(posted),
           UNCHANGED <<db, killed, thread, running, coordinator, originLock, awaited>>
    PROVE  WebDatabaseInv'
<1> USE WebDatabaseAssumption
<1>1. /\ posted' \in Seq({"callback", "refusal"} \X Transactions)
      /\ NoDuplicates(posted') /\ Calls(t)
      /\ Listed(posted') = Listed(posted) \ {<<"callback", t>>}
  <2>1. PICK C : C = {"callback", "refusal"} \X Transactions
    OBVIOUS
  <2>2. posted \in Seq(C) /\ NoDuplicates(posted)
    BY <2>1 DEF WebDatabaseInv, TypeOK, ListsInv
  <2>3. Head(posted) = <<"callback", t>>
    BY <2>2
  <2>4. /\ Head(posted) \in Listed(posted) /\ Tail(posted) \in Seq(C)
        /\ NoDuplicates(Tail(posted))
        /\ Listed(Tail(posted)) = Listed(posted) \ {Head(posted)}
    BY <2>2, ListTail
  <2> QED BY <2>1, <2>3, <2>4 DEF Calls
<1>2. ~Waits(t) /\ ~Queued(t) /\ running # t /\ ~Pends(t) /\ ~Refused(t)
  BY <1>1 DEF WebDatabaseInv, PlacesInv, PlaceInv
<1>3. /\ queue' \in Seq(Tasks) /\ NoDuplicates(queue')
      /\ Listed(queue') = Listed(queue) \cup {Step(t)}
  <2>1. queue \in Seq(Tasks) /\ NoDuplicates(queue) /\ Step(t) \in Tasks
    BY DEF WebDatabaseInv, TypeOK, ListsInv, Step, Tasks
  <2>2. Step(t) \notin Listed(queue)
    BY <1>2 DEF Queued
  <2> QED BY <2>1, <2>2, ListAppend
<1>4. ASSUME NEW u \in Transactions
      PROVE  /\ Waits(u)' <=> Waits(u)
             /\ Queued(u)' <=> (Queued(u) \/ u = t)
             /\ Pends(u)' <=> Pends(u)
             /\ Calls(u)' <=> (Calls(u) /\ u # t)
             /\ Refused(u)' <=> Refused(u)
  BY <1>1, <1>3 DEF Waits, Queued, Pends, Calls, Refused, Step
<1>5. tx \in [Transactions -> Transaction]
  BY DEF WebDatabaseInv, TypeOK
<1>6. tx'[t] = r /\ \A u \in Transactions : u # t => tx'[u] = tx[u]
  BY <1>5
<1>7. TypeOK'
  BY <1>1, <1>3, <1>5 DEF WebDatabaseInv, TypeOK
<1>8. ListsInv'
  BY <1>1, <1>3 DEF WebDatabaseInv, ListsInv
<1>9. TasksInv'
  BY <1>3 DEF WebDatabaseInv, TasksInv, TaskInv, Step
<1>10. PlacesInv'
  BY <1>1, <1>2, <1>4, <1>6 DEF WebDatabaseInv, PlacesInv, PlaceInv, Live, SameStanding
<1>11. ThreadInv'
  BY <1>1, <1>2, <1>4, <1>6 DEF WebDatabaseInv, ThreadInv, ControlInv, Live, SameStanding, Down
<1>12. RecordsInv'
  <2>1. RecordInv(t)
    BY DEF WebDatabaseInv, RecordsInv
  <2>2. RecordInv(t)'
    BY <1>1, <1>2, <1>4, <1>6, <2>1 DEF RecordInv, Live, SameStanding, Down
  <2>3. ASSUME NEW u \in Transactions, u # t PROVE RecordInv(u)'
    <3>1. RecordInv(u)
      BY DEF WebDatabaseInv, RecordsInv
    <3> QED BY <1>4, <1>6, <2>3, <3>1 DEF RecordInv, Live, Down
  <2> QED BY <2>2, <2>3 DEF RecordsInv
<1>13. LocksInv'
  BY <1>6 DEF WebDatabaseInv, LocksInv, LockInv, SameStanding, Down
<1>14. TurnsInv'
  BY <1>2, <1>4, <1>6 DEF WebDatabaseInv, TurnsInv, Live, SameStanding
<1> QED BY <1>7, <1>8, <1>9, <1>10, <1>11, <1>12, <1>13, <1>14 DEF WebDatabaseInv

\* What a state function does with the OriginLock: it takes it or gives it back
\* for its own transaction t, whose record becomes r.
OriginStep(t, r) ==
    /\ originLock' \in (Transactions \ ReadOnly) \cup {NoTransaction, Other}
    /\ \A u \in Transactions \ {t} : originLock' = u <=> originLock = u
    /\ originLock' = t => r.locked
    /\ t \notin ReadOnly /\ r.sqlite = "open" => originLock' = t

\* A state function that continues with another, when it leaves a coherent
\* transaction.
LEMMA ContinueStep ==
    ASSUME WebDatabaseInv, NEW t \in Transactions, running = t,
           NEW r \in Transaction, Coherent(r), r.next \notin {"Idle", "End"},
           r.born = tx[t].born, r.cleaned = tx[t].cleaned, r.locked = tx[t].locked,
           r.requested = tx[t].requested, r.frontend = tx[t].frontend,
           tx' = [tx EXCEPT ![t] = r], OriginStep(t, r),
           UNCHANGED <<db, queue, killed, thread, running, coordinator, posted, awaited>>
    PROVE  WebDatabaseInv'
<1> USE WebDatabaseAssumption
<1>1. ~Waits(t) /\ ~Queued(t) /\ ~Pends(t) /\ ~Calls(t)
  BY DEF WebDatabaseInv, PlacesInv, PlaceInv
<1>2. Live(t)
  BY DEF WebDatabaseInv, ThreadInv, ControlInv
<1>3. ~Refused(t)
  BY <1>2 DEF WebDatabaseInv, RecordsInv, RecordInv, Live
<1>4. ASSUME NEW u \in Transactions
      PROVE  /\ Waits(u)' <=> Waits(u)
             /\ Queued(u)' <=> Queued(u)
             /\ Pends(u)' <=> Pends(u)
             /\ Calls(u)' <=> Calls(u)
             /\ Refused(u)' <=> Refused(u)
  BY DEF Waits, Queued, Pends, Calls, Refused
<1>5. tx \in [Transactions -> Transaction]
  BY DEF WebDatabaseInv, TypeOK
<1>6. tx'[t] = r /\ \A u \in Transactions : u # t => tx'[u] = tx[u]
  BY <1>5
<1>7. TypeOK'
  BY <1>5 DEF WebDatabaseInv, TypeOK, OriginStep
<1>8. ListsInv'
  BY DEF WebDatabaseInv, ListsInv
<1>9. TasksInv'
  BY DEF WebDatabaseInv, TasksInv, TaskInv
<1>10. PlacesInv'
  BY <1>1, <1>4, <1>6 DEF WebDatabaseInv, PlacesInv, PlaceInv, Live
<1>11. ThreadInv'
  BY <1>1, <1>4, <1>6 DEF WebDatabaseInv, ThreadInv, ControlInv, Live, Down
<1>12. RecordsInv'
  <2>1. RecordInv(t)
    BY DEF WebDatabaseInv, RecordsInv
  <2>2. RecordInv(t)'
    BY <1>1, <1>2, <1>3, <1>4, <1>6, <2>1 DEF RecordInv, Live, Down
  <2>3. ASSUME NEW u \in Transactions, u # t PROVE RecordInv(u)'
    <3>1. RecordInv(u)
      BY DEF WebDatabaseInv, RecordsInv
    <3> QED BY <1>4, <1>6, <2>3, <3>1 DEF RecordInv, Live, Down
  <2> QED BY <2>2, <2>3 DEF RecordsInv
<1>13. LocksInv'
  BY <1>2, <1>6 DEF WebDatabaseInv, LocksInv, LockInv, OriginStep, Live, Down
<1>14. TurnsInv'
  BY <1>2, <1>4, <1>6 DEF WebDatabaseInv, TurnsInv, Live
<1> QED BY <1>7, <1>8, <1>9, <1>10, <1>11, <1>12, <1>13, <1>14 DEF WebDatabaseInv

-----------------------------------------------------------------------------
(* The callbacks that send a transaction back.                              *)

\* The record that sendToBackendState leaves after a callback made tr.
Sent(tr, state) == [Requested(tr, state) EXCEPT !.frontend = "Idle"]

\* A callback of t is under way: nobody else acts on t.
LEMMA Delivering ==
    ASSUME WebDatabaseInv, NEW t \in Transactions,
           posted # <<>>, posted[1] = <<"callback", t>>
    PROVE  /\ tx[t] \in Transaction /\ Coherent(tx[t]) /\ tx[t].next \in {"Idle", "End"}
           /\ db[DatabaseOf[t]].opened /\ ~Down => ~tx[t].cleaned
<1>1. Calls(t)
  <2>1. Len(posted) \in Nat /\ DOMAIN posted = 1..Len(posted) /\ 1 \in DOMAIN posted
    BY DEF WebDatabaseInv, TypeOK
  <2> QED BY <2>1 DEF Calls, Listed
<1>2. running # t
  BY <1>1 DEF WebDatabaseInv, PlacesInv, PlaceInv
<1> QED BY <1>1, <1>2 DEF WebDatabaseInv, TypeOK, RecordsInv, RecordInv, ThreadInv, ControlInv

\* sendToBackendState after a callback that made tr of the transaction.
LEMMA Callback ==
    ASSUME WebDatabaseInv, NEW t \in Transactions,
           posted # <<>>, posted[1] = <<"callback", t>>,
           NEW tr \in Transaction, NEW state \in States, SendToBackend(t, tr, state),
           SameStanding(tr, tx[t]), tr.next = tx[t].next,
           Coherent(Sent(tr, state)), state # "Idle"
    PROVE  WebDatabaseInv'
<1>1. PICK r : r = Sent(tr, state)
  OBVIOUS
<1>2. /\ r \in Transaction /\ r.requested = state /\ r.frontend = "Idle"
      /\ r.born = tr.born /\ r.cleaned = tr.cleaned /\ r.locked = tr.locked
      /\ r.sqlite = tr.sqlite /\ r.next = tr.next
  BY <1>1 DEF Sent, Requested, Transaction, States
<1>3. /\ tx' = [tx EXCEPT ![t] = r] /\ queue' = Append(queue, Step(t))
      /\ posted' = Tail(posted)
      /\ UNCHANGED <<db, killed, thread, running, coordinator, originLock, awaited>>
  BY <1>1 DEF SendToBackend, Sent
<1>4. Coherent(r) /\ SameStanding(r, tx[t])
  BY <1>1, <1>2 DEF SameStanding
<1> QED BY <1>2, <1>3, <1>4, SendStep

\* Reporting an error for a transaction that has not been committed.
LEMMA Reporting ==
    ASSUME NEW t \in Transactions, NEW tr \in Transaction, tr.next \in {"Idle", "End"},
           ~tr.committed, tr.statements <= tr.issued, tr.told # "success",
           tr.sqlite # "none" => tr.locked /\ ~tr.cleaned, tr.next = "End" => tr.cleaned
    PROVE  /\ ToldOfError(t, tr) \in Transaction
           /\ SameStanding(ToldOfError(t, tr), tr) /\ ToldOfError(t, tr).next = tr.next
           /\ Coherent(Sent(ToldOfError(t, tr), "CleanupAfterTransactionErrorCallback"))
<1>1. PICK tt : tt = ToldOfError(t, tr)
  OBVIOUS
<1>2. /\ tt \in Transaction /\ SameStanding(tt, tr) /\ tt.next = tr.next
      /\ tt.committed = tr.committed /\ tt.statements = tr.statements
      /\ tt.issued = tr.issued /\ tt.told # "success"
  <2>1. CASE tt = tr
    BY <2>1 DEF SameStanding
  <2>2. CASE tt = [tr EXCEPT !.told = "error"]
    BY <2>2 DEF Transaction, SameStanding
  <2> QED BY <1>1, <2>1, <2>2 DEF ToldOfError
<1>3. Coherent(Sent(tt, "CleanupAfterTransactionErrorCallback"))
  BY <1>2 DEF Coherent, Fresh, Working, Ending, Transaction, Sent, Requested, SameStanding
<1> QED BY <1>1, <1>2, <1>3

\* What a callback that calls executeSQL leaves of its transaction tr.
Ran(r, tr) ==
    /\ r \in Transaction /\ SameStanding(r, tr)
    /\ r.next = tr.next /\ r.current = tr.current
    /\ r.committed = tr.committed /\ r.told = tr.told
    /\ r.statements <= r.issued

\* A callback that may have run statements sends the transaction on, or reports
\* an error.
LEMMA Executing ==
    ASSUME WebDatabaseInv, NEW t \in Transactions,
           Delivers(t, {"DeliverTransactionCallback", "DeliverStatementCallback"}),
           NEW tr, Ran(tr, tx[t])
    PROVE  /\ SendToBackend(t, tr, "RunStatements") => WebDatabaseInv'
           /\ SendToBackend(t, ToldOfError(t, tr), "CleanupAfterTransactionErrorCallback")
                => WebDatabaseInv'
<1>1. posted # <<>> /\ posted[1] = <<"callback", t>>
      /\ tx[t].frontend \in {"DeliverTransactionCallback", "DeliverStatementCallback"}
  BY DEF Delivers
<1>2. tx[t] \in Transaction /\ Coherent(tx[t]) /\ tx[t].next \in {"Idle", "End"}
  BY <1>1, Delivering
<1>3. /\ tr \in Transaction /\ SameStanding(tr, tx[t]) /\ tr.next = tx[t].next
      /\ tr.next \in {"Idle", "End"} /\ ~tr.committed /\ tr.statements <= tr.issued
      /\ tr.told \notin {"success", "error"}
      /\ tr.sqlite # "none" => tr.locked /\ ~tr.cleaned
      /\ tr.next = "End" => tr.cleaned
      /\ \/ tr.cleaned
         \/ tr.sqlite = "open"
         \/ tr.sqlite = "rolledBack" /\ tr.current = "quota"
  BY <1>1, <1>2 DEF Ran, SameStanding, Coherent, Working, Ending
<1>4. ASSUME SendToBackend(t, tr, "RunStatements") PROVE WebDatabaseInv'
  <2>1. Coherent(Sent(tr, "RunStatements"))
    BY <1>3 DEF Coherent, Fresh, Working, Ending, Transaction, Sent, Requested
  <2> QED BY <1>1, <1>3, <1>4, <2>1, Callback DEF States
<1>5. ASSUME SendToBackend(t, ToldOfError(t, tr), "CleanupAfterTransactionErrorCallback")
      PROVE  WebDatabaseInv'
  <2>1. PICK tt : tt = ToldOfError(t, tr)
    OBVIOUS
  <2>2. /\ tt \in Transaction /\ SameStanding(tt, tr) /\ tt.next = tr.next
        /\ Coherent(Sent(tt, "CleanupAfterTransactionErrorCallback"))
    BY <1>3, <2>1, Reporting
  <2>3. SameStanding(tt, tx[t]) /\ tt.next = tx[t].next
    BY <1>3, <2>2 DEF SameStanding
  <2> QED BY <1>1, <1>5, <2>1, <2>2, <2>3, Callback DEF States
<1> QED BY <1>4, <1>5

\* Statements that a callback adds stay within the bound.
LEMMA Executes ==
    ASSUME NEW t \in Transactions, tx[t] \in Transaction, Coherent(tx[t]),
           NEW n \in MayExecute(t)
    PROVE  Ran(Executed(tx[t], n), tx[t])
<1>1. /\ MaxStatements \in Nat /\ tx[t].issued \in 0 .. MaxStatements
      /\ tx[t].statements \in 0 .. MaxStatements /\ tx[t].statements <= tx[t].issued
  BY WebDatabaseAssumption DEF Transaction, Coherent
<1>2. /\ tx[t].statements + n \in 0 .. MaxStatements /\ tx[t].issued + n \in 0 .. MaxStatements
      /\ tx[t].statements + n <= tx[t].issued + n
  BY <1>1 DEF MayExecute
<1> QED BY <1>2 DEF Executed, Transaction, Ran, SameStanding

\* Every callback that the front end delivers.
LEMMA CallbackStep ==
    ASSUME WebDatabaseInv, NEW t \in Transactions,
           \/ \E raises \in BOOLEAN : DeliverTransactionCallback(t, raises)
           \/ \E fails \in BOOLEAN : DeliverStatementCallback(t, fails)
           \/ \E raised \in BOOLEAN : DeliverQuotaIncreaseCallback(t, raised)
           \/ DeliverTransactionErrorCallback(t)
           \/ DeliverSuccessCallback(t)
           \/ DeliverToClosed(t)
    PROVE  WebDatabaseInv'
<1>1. posted # <<>> /\ posted[1] = <<"callback", t>>
  BY DEF DeliverTransactionCallback, DeliverStatementCallback, DeliverToClosed,
         DeliverQuotaIncreaseCallback, DeliverTransactionErrorCallback,
         DeliverSuccessCallback, Delivers
<1>2. tx[t] \in Transaction /\ Coherent(tx[t]) /\ tx[t].next \in {"Idle", "End"}
  BY <1>1, Delivering
<1>3. ASSUME NEW raises \in BOOLEAN, DeliverTransactionCallback(t, raises)
      PROVE  WebDatabaseInv'
  <2>1. Delivers(t, {"DeliverTransactionCallback", "DeliverStatementCallback"})
    BY <1>3 DEF DeliverTransactionCallback, Delivers
  <2>2. PICK n, tr :
          /\ n \in MayExecute(t) /\ tr = Executed(tx[t], n)
          /\ \/ SendToBackend(t, tr, "RunStatements")
             \/ SendToBackend(t, ToldOfError(t, tr), "CleanupAfterTransactionErrorCallback")
    BY <1>3 DEF DeliverTransactionCallback
  <2>3. Ran(tr, tx[t])
    BY <1>2, <2>2, Executes
  <2> QED BY <2>1, <2>2, <2>3, Executing
<1>4. ASSUME NEW fails \in BOOLEAN, DeliverStatementCallback(t, fails)
      PROVE  WebDatabaseInv'
  <2>1. Delivers(t, {"DeliverTransactionCallback", "DeliverStatementCallback"})
    BY <1>4 DEF DeliverStatementCallback, Delivers
  <2>2. PICK n, ex, tr :
          /\ n \in MayExecute(t) /\ ex = Executed(tx[t], n)
          /\ tr = [ex EXCEPT !.handler = IF ex.handler = "set" THEN "used" ELSE ex.handler]
          /\ \/ SendToBackend(t, tr, "RunStatements")
             \/ SendToBackend(t, ToldOfError(t, tr), "CleanupAfterTransactionErrorCallback")
    BY <1>4 DEF DeliverStatementCallback
  <2>3. Ran(ex, tx[t])
    BY <1>2, <2>2, Executes
  <2>4. Ran(tr, tx[t])
    <3>1. PICK h : h = IF ex.handler = "set" THEN "used" ELSE ex.handler
      OBVIOUS
    <3>2. ex \in Transaction /\ h \in {"none", "set", "used"}
      BY <2>3, <3>1 DEF Ran, Transaction
    <3>3. tr = [ex EXCEPT !.handler = h]
      BY <2>2, <3>1
    <3> QED BY <2>3, <3>2, <3>3 DEF Ran, Transaction, SameStanding
  <2> QED BY <2>1, <2>2, <2>4, Executing
<1>5. ASSUME NEW raised \in BOOLEAN, DeliverQuotaIncreaseCallback(t, raised)
      PROVE  WebDatabaseInv'
  <2>1. PICK k, tr :
          /\ k = IF raised THEN tx[t].retries + 1 ELSE tx[t].retries
          /\ tr = [tx[t] EXCEPT !.retry = raised, !.retries = k]
          /\ SendToBackend(t, tr, "RunStatements")
          /\ tx[t].frontend = "DeliverQuotaIncreaseCallback"
          /\ raised => tx[t].retries < MaxRetries
    BY <1>5 DEF DeliverQuotaIncreaseCallback, Delivers
  <2>2. k \in 0 .. MaxRetries
    BY <1>2, <2>1, WebDatabaseAssumption DEF Transaction
  <2>3. tr \in Transaction /\ SameStanding(tr, tx[t]) /\ tr.next = tx[t].next
    BY <1>2, <2>1, <2>2 DEF Transaction, SameStanding
  <2>4. Coherent(Sent(tr, "RunStatements"))
    BY <1>2, <2>1, <2>2
       DEF Coherent, Fresh, Working, Ending, Transaction, Sent, Requested
  <2> QED BY <1>1, <2>1, <2>3, <2>4, Callback DEF States
<1>6. CASE DeliverTransactionErrorCallback(t)
  <2>1. /\ SendToBackend(t, ToldOfError(t, tx[t]), "CleanupAfterTransactionErrorCallback")
        /\ tx[t].frontend = "DeliverTransactionErrorCallback"
    BY <1>6 DEF DeliverTransactionErrorCallback, Delivers
  <2>2. /\ ~tx[t].committed /\ tx[t].statements <= tx[t].issued /\ tx[t].told # "success"
        /\ tx[t].sqlite # "none" => tx[t].locked /\ ~tx[t].cleaned
        /\ tx[t].next = "End" => tx[t].cleaned
    BY <1>2, <2>1 DEF Coherent, Ending
  <2>3. PICK tt : tt = ToldOfError(t, tx[t])
    OBVIOUS
  <2>4. /\ tt \in Transaction /\ SameStanding(tt, tx[t]) /\ tt.next = tx[t].next
        /\ Coherent(Sent(tt, "CleanupAfterTransactionErrorCallback"))
    BY <1>2, <2>2, <2>3, Reporting
  <2> QED BY <1>1, <2>1, <2>3, <2>4, Callback DEF States
<1>7. CASE DeliverSuccessCallback(t)
  <2>1. PICK tr : /\ tr = [tx[t] EXCEPT !.told = "success"]
                  /\ SendToBackend(t, tr, "CleanupAndTerminate")
                  /\ tx[t].frontend = "DeliverSuccessCallback"
    BY <1>7 DEF DeliverSuccessCallback, Delivers
  <2>2. tr \in Transaction /\ SameStanding(tr, tx[t]) /\ tr.next = tx[t].next
    BY <1>2, <2>1 DEF Transaction, SameStanding
  <2>3. Coherent(Sent(tr, "CleanupAndTerminate"))
    BY <1>2, <2>1 DEF Coherent, Fresh, Working, Ending, Transaction, Sent, Requested
  <2> QED BY <1>1, <2>1, <2>2, <2>3, Callback DEF States
<1>8. CASE DeliverToClosed(t)
  <2>1. SendToBackend(t, tx[t], "CleanupAndTerminate")
    BY <1>8 DEF DeliverToClosed
  <2>2. Coherent(Sent(tx[t], "CleanupAndTerminate")) /\ SameStanding(tx[t], tx[t])
    BY <1>2 DEF Coherent, Fresh, Working, Ending, Transaction, Sent, Requested, SameStanding
  <2> QED BY <1>1, <1>2, <2>1, <2>2, Callback DEF States
<1> QED BY <1>3, <1>4, <1>5, <1>6, <1>7, <1>8

-----------------------------------------------------------------------------
(* The state functions that continue with another one.                      *)

\* The record after a state function made tr and returned a state.
Went(tr, state) == [tr EXCEPT !.next = state]

\* What a state function never changes by itself.
SameTurn(r, tr) ==
    /\ r.born = tr.born /\ r.cleaned = tr.cleaned /\ r.locked = tr.locked
    /\ r.requested = tr.requested /\ r.frontend = tr.frontend

\* A state function that made tr of the transaction and returned a state.
LEMMA Continuing ==
    ASSUME WebDatabaseInv, NEW t \in Transactions, running = t,
           NEW tr \in Transaction, NEW state \in States, Continue(t, tr, state),
           SameTurn(tr, tx[t]), state \notin {"Idle", "End"},
           Coherent(Went(tr, state)), OriginStep(t, tr)
    PROVE  WebDatabaseInv'
<1>1. PICK r : r = Went(tr, state)
  OBVIOUS
<1>2. /\ r \in Transaction /\ r.next = state /\ SameTurn(r, tr) /\ r.sqlite = tr.sqlite
  BY <1>1 DEF Went, Transaction, States, SameTurn
<1>3. /\ tx' = [tx EXCEPT ![t] = r]
      /\ UNCHANGED <<db, queue, killed, thread, running, coordinator, posted, awaited>>
  BY <1>1 DEF Continue, Went
<1>4. Coherent(r) /\ OriginStep(t, r)
  BY <1>1, <1>2 DEF OriginStep, SameTurn
<1> QED BY <1>2, <1>3, <1>4, ContinueStep DEF SameTurn

\* What the state functions find.
LEMMA Running ==
    ASSUME WebDatabaseInv, NEW t \in Transactions, running = t
    PROVE  /\ tx[t] \in Transaction /\ Coherent(tx[t]) /\ Live(t)
           /\ tx[t].requested = "Idle" /\ tx[t].frontend \in {"Idle", "End"}
           /\ originLock \in (Transactions \ ReadOnly) \cup {NoTransaction, Other}
           /\ originLock = t => tx[t].locked
           /\ t \notin ReadOnly /\ tx[t].sqlite = "open" => originLock = t
<1> QED BY DEF WebDatabaseInv, TypeOK, ThreadInv, ControlInv, RecordsInv, RecordInv, LocksInv, LockInv

\* The three things a state function does with the OriginLock.
LEMMA OriginKept ==
    ASSUME WebDatabaseInv, NEW t \in Transactions, running = t, UNCHANGED originLock,
           NEW tr, tr.locked = tx[t].locked, tr.sqlite = "open" => tx[t].sqlite = "open"
    PROVE  OriginStep(t, tr)
BY Running DEF OriginStep

\* It is given back, by a transaction that cannot commit any more.
LEMMA OriginReleased ==
    ASSUME WebDatabaseInv, NEW t \in Transactions, running = t, ReleaseOriginLock(t),
           NEW tr, tr.sqlite # "open"
    PROVE  OriginStep(t, tr)
BY Running, WebDatabaseAssumption DEF OriginStep, ReleaseOriginLock

\* It is taken, by a transaction that the coordinator let through.
LEMMA OriginTaken ==
    ASSUME WebDatabaseInv, NEW t \in Transactions, running = t, AcquireOriginLock(t),
           NEW tr, tr.locked
    PROVE  OriginStep(t, tr)
BY Running, WebDatabaseAssumption DEF OriginStep, AcquireOriginLock, WebDatabaseInv, TypeOK

\* After an error the callback is next, or the cleanup.
LEMMA ErrorStates ==
    ASSUME NEW t
    PROVE  StateForError(t) \in {"DeliverTransactionErrorCallback",
                                 "CleanupAfterTransactionErrorCallback"}
BY DEF StateForError

\* A state function that failed goes on with the error callback or without it.
LEMMA Failing ==
    ASSUME WebDatabaseInv, NEW t \in Transactions, running = t,
           NEW tr \in Transaction, SameTurn(tr, tx[t]), ~tr.committed,
           tr.told \notin {"success", "error"}, tr.statements <= tr.issued,
           tr.locked, Continue(t, tr, StateForError(t)), OriginStep(t, tr)
    PROVE  WebDatabaseInv'
<1>1. PICK state : state = StateForError(t)
  OBVIOUS
<1>2. state \in {"DeliverTransactionErrorCallback", "CleanupAfterTransactionErrorCallback"}
  BY <1>1, ErrorStates
<1>3. Live(t) /\ tr.requested = "Idle" /\ tr.frontend \in {"Idle", "End"}
  BY Running DEF SameTurn
<1>4. Coherent(Went(tr, state))
  BY <1>2, <1>3 DEF Coherent, Fresh, Working, Ending, Transaction, Went, Live, SameTurn
<1> QED BY <1>1, <1>2, <1>4, Continuing DEF States

\* A transaction whose statements run: tr is t's record as the round found it.
InRound(t, tr) ==
    /\ tr \in Transaction /\ SameTurn(tr, tx[t]) /\ tr.statements <= tr.issued
    /\ ~tr.committed /\ tr.told \notin {"success", "error"}
    /\ tr.locked /\ tr.sqlite = "open" /\ tx[t].sqlite = "open"

\* A statement succeeds, fails or exceeds the quota.
LEMMA StatementStep ==
    ASSUME WebDatabaseInv, NEW t \in Transactions, running = t,
           NEW tr, InRound(t, tr), NEW handlers \in SUBSET {"none", "set", "used"},
           RunStatement(t, tr, handlers), UNCHANGED originLock
    PROVE  WebDatabaseInv'
<1>1. tr.requested = "Idle" /\ tr.frontend \in {"Idle", "End"} /\ ~tr.cleaned
  BY Running DEF InRound, SameTurn, Live
<1>2. ASSUME NEW r \in Transaction, SameTurn(r, tx[t]), r.statements = tr.statements,
             r.issued = tr.issued, r.committed = tr.committed, r.told = tr.told,
             NEW state \in Working, Continue(t, r, state),
             r.sqlite = "open" \/ (r.sqlite = "rolledBack" /\ r.current = "quota")
      PROVE  WebDatabaseInv'
  <2>1. Coherent(Went(r, state))
    BY <1>1, <1>2 DEF Coherent, Fresh, Working, Ending, Transaction, Went, InRound, SameTurn
  <2>2. OriginStep(t, r)
    BY <1>2, OriginKept DEF SameTurn, InRound
  <2> QED BY <1>2, <2>1, <2>2, Continuing DEF Working, States
<1>3. CASE StatementSucceeds(t, tr)
  <2>1. PICK state, r : /\ state \in {"RunStatements", "DeliverStatementCallback"}
                        /\ r = [tr EXCEPT !.current = "ran", !.handler = "none"]
                        /\ Continue(t, r, state)
    BY <1>3 DEF StatementSucceeds
  <2>2. /\ r \in Transaction /\ SameTurn(r, tx[t]) /\ r.statements = tr.statements
        /\ r.issued = tr.issued /\ r.committed = tr.committed /\ r.told = tr.told
        /\ r.sqlite = "open"
    BY <2>1 DEF InRound, SameTurn, Transaction
  <2>3. state \in Working
    BY <2>1 DEF Working
  <2> QED BY <1>2, <2>1, <2>2, <2>3
<1>4. ASSUME NEW c \in {"ran", "quota"}, NEW h \in handlers, NEW s \in Outcomes,
             NEW r, r = Failed(tr, c, h, s)
      PROVE  /\ r \in Transaction /\ SameTurn(r, tx[t]) /\ r.statements = tr.statements
             /\ r.issued = tr.issued /\ r.committed = tr.committed /\ r.told = tr.told
             /\ r.sqlite \in {"open", "rolledBack"} /\ r.current = c
  <2>1. h \in {"none", "set", "used"}
    OBVIOUS
  <2> QED BY <1>4, <2>1 DEF InRound, SameTurn, Transaction, Outcomes, Failed
<1>5. CASE StatementFails(t, tr, handlers)
  <2>1. PICK h, s, r :
             /\ h \in handlers /\ s \in Outcomes /\ r = Failed(tr, "ran", h, s)
             /\ Continue(t, r, StateForStatementError(t, r))
    BY <1>5 DEF StatementFails
  <2>2. /\ r \in Transaction /\ SameTurn(r, tx[t]) /\ r.statements = tr.statements
        /\ r.issued = tr.issued /\ r.committed = tr.committed /\ r.told = tr.told
        /\ r.sqlite \in {"open", "rolledBack"}
    BY <1>4, <2>1
  <2>3. CASE r.handler # "none" /\ r.sqlite # "rolledBack"
    <3>1. Continue(t, r, "DeliverStatementCallback")
      BY <2>1, <2>3 DEF StateForStatementError
    <3> QED BY <1>2, <2>2, <2>3, <3>1 DEF Working
  <2>4. CASE ~(r.handler # "none" /\ r.sqlite # "rolledBack")
    <3>1. Continue(t, r, StateForError(t))
      BY <2>1, <2>4 DEF StateForStatementError
    <3>2. OriginStep(t, r)
      BY <2>2, OriginKept DEF SameTurn, InRound
    <3>3. /\ ~r.committed /\ r.told \notin {"success", "error"}
          /\ r.statements <= r.issued /\ r.locked
      BY <2>2 DEF InRound, SameTurn
    <3> QED BY <2>2, <3>1, <3>2, <3>3, Failing
  <2> QED BY <2>3, <2>4
<1>6. CASE StatementExceedsQuota(t, tr, handlers)
  <2>1. PICK h, s, r :
             /\ h \in handlers /\ s \in Outcomes /\ r = Failed(tr, "quota", h, s)
             /\ Continue(t, r, "DeliverQuotaIncreaseCallback")
    BY <1>6 DEF StatementExceedsQuota
  <2>2. /\ r \in Transaction /\ SameTurn(r, tx[t]) /\ r.statements = tr.statements
        /\ r.issued = tr.issued /\ r.committed = tr.committed /\ r.told = tr.told
        /\ r.sqlite \in {"open", "rolledBack"} /\ r.current = "quota"
    BY <1>4, <2>1
  <2> QED BY <1>2, <2>1, <2>2 DEF Working
<1> QED BY <1>3, <1>5, <1>6 DEF RunStatement

\* One round of runStatements.
LEMMA RoundStep ==
    ASSUME WebDatabaseInv, NEW t \in Transactions,
           RetryStatement(t) \/ HandleQuotaError(t) \/ RunNextStatement(t)
    PROVE  WebDatabaseInv'
<1>1. running = t /\ tx[t].next = "RunStatements" /\ UNCHANGED originLock
  BY DEF RetryStatement, HandleQuotaError, RunNextStatement, Runs
<1>2. /\ tx[t] \in Transaction /\ Coherent(tx[t]) /\ Live(t)
      /\ tx[t].requested = "Idle" /\ tx[t].frontend \in {"Idle", "End"}
  BY <1>1, Running
<1>3. /\ ~tx[t].committed /\ tx[t].told \notin {"success", "error"}
      /\ tx[t].statements <= tx[t].issued /\ tx[t].locked /\ ~tx[t].cleaned
      /\ tx[t].sqlite = "open" \/ (tx[t].sqlite = "rolledBack" /\ tx[t].current = "quota")
  BY <1>1, <1>2 DEF Coherent, Working, Ending, Live
<1>4. CASE RetryStatement(t)
  <2>1. PICK tr : /\ tr = [tx[t] EXCEPT !.retry = FALSE]
                  /\ RunStatement(t, tr, {tx[t].handler}) /\ tx[t].sqlite # "rolledBack"
    BY <1>4 DEF RetryStatement
  <2>2. InRound(t, tr) /\ {tx[t].handler} \in SUBSET {"none", "set", "used"}
    BY <1>2, <1>3, <2>1 DEF InRound, SameTurn, Transaction
  <2> QED BY <1>1, <2>1, <2>2, StatementStep
<1>5. CASE HandleQuotaError(t)
  <2>1. Continue(t, tx[t], StateForStatementError(t, tx[t])) /\ SameTurn(tx[t], tx[t])
    BY <1>5 DEF HandleQuotaError, SameTurn
  <2>2. OriginStep(t, tx[t])
    BY <1>1, OriginKept
  <2>3. CASE tx[t].handler # "none" /\ tx[t].sqlite # "rolledBack"
    <3>1. Continue(t, tx[t], "DeliverStatementCallback")
      BY <2>1, <2>3 DEF StateForStatementError
    <3>2. Coherent(Went(tx[t], "DeliverStatementCallback"))
      BY <1>2, <1>3 DEF Coherent, Fresh, Working, Ending, Transaction, Went
    <3> QED BY <1>1, <1>2, <2>1, <2>2, <3>1, <3>2, Continuing DEF States
  <2>4. CASE ~(tx[t].handler # "none" /\ tx[t].sqlite # "rolledBack")
    <3>1. Continue(t, tx[t], StateForError(t))
      BY <2>1, <2>4 DEF StateForStatementError
    <3> QED BY <1>1, <1>2, <1>3, <2>1, <2>2, <3>1, Failing
  <2> QED BY <2>3, <2>4
<1>6. CASE RunNextStatement(t)
  <2>1. tx[t].sqlite = "open"
    BY <1>3, <1>6 DEF RunNextStatement
  <2>2. CASE tx[t].statements = 0
    <3>1. PICK r : /\ r = [tx[t] EXCEPT !.current = "none"]
                   /\ Continue(t, r, "PostflightAndCommit")
      BY <1>6, <2>2 DEF RunNextStatement
    <3>2. r \in Transaction /\ SameTurn(r, tx[t]) /\ r.sqlite = "open"
      BY <1>2, <2>1, <3>1 DEF Transaction, SameTurn
    <3>3. Coherent(Went(r, "PostflightAndCommit"))
      BY <1>2, <1>3, <2>1, <2>2, <3>1 DEF Coherent, Fresh, Working, Ending, Transaction, Went
    <3>4. OriginStep(t, r)
      BY <1>1, <2>1, <3>2, OriginKept DEF SameTurn
    <3> QED BY <1>1, <3>1, <3>2, <3>3, <3>4, Continuing DEF States
  <2>3. CASE tx[t].statements # 0
    <3>1. PICK r : /\ r = [tx[t] EXCEPT !.statements = tx[t].statements - 1]
                   /\ RunStatement(t, r, {"none", "set"})
      BY <1>6, <2>3 DEF RunNextStatement
    <3>2. /\ tx[t].statements - 1 \in 0 .. MaxStatements
          /\ tx[t].statements - 1 <= tx[t].issued
      BY <1>2, <1>3, <2>3, WebDatabaseAssumption DEF Transaction
    <3>3. InRound(t, r)
      BY <1>2, <1>3, <2>1, <3>1, <3>2 DEF InRound, SameTurn, Transaction
    <3> QED BY <1>1, <3>1, <3>3, StatementStep
  <2> QED BY <2>2, <2>3
<1> QED BY <1>4, <1>5, <1>6

\* The state functions that begin and end a transaction in SQLite.
LEMMA OpenAndCommitStep ==
    ASSUME WebDatabaseInv, NEW t \in Transactions,
           \/ \E begins \in BOOLEAN : OpenTransactionAndPreflight(t, begins)
           \/ \E succeeds \in BOOLEAN : PostflightAndCommit(t, succeeds)
           \/ CleanupAfterTransactionErrorCallback(t)
    PROVE  WebDatabaseInv'
<1>1. running = t
  BY DEF OpenTransactionAndPreflight, PostflightAndCommit,
         CleanupAfterTransactionErrorCallback, Runs
<1>2. /\ tx[t] \in Transaction /\ Coherent(tx[t]) /\ Live(t)
      /\ tx[t].requested = "Idle" /\ tx[t].frontend \in {"Idle", "End"}
  BY <1>1, Running
<1>3. ASSUME NEW begins \in BOOLEAN, OpenTransactionAndPreflight(t, begins)
      PROVE  WebDatabaseInv'
  <2>1. tx[t].next = "OpenTransactionAndPreflight"
    BY <1>3 DEF OpenTransactionAndPreflight, Runs
  <2>2. /\ tx[t].locked /\ tx[t].sqlite = "none" /\ ~tx[t].committed /\ ~tx[t].cleaned
        /\ tx[t].told = "nothing" /\ tx[t].statements <= tx[t].issued
    BY <1>2, <2>1 DEF Coherent, Fresh, Transaction, Live
  <2>3. CASE Continue(t, tx[t], StateForError(t)) /\ (UNCHANGED originLock \/ AcquireOriginLock(t))
    <3>1. OriginStep(t, tx[t])
      BY <1>1, <2>2, <2>3, OriginKept, OriginTaken
    <3>2. SameTurn(tx[t], tx[t])
      BY DEF SameTurn
    <3> QED BY <1>1, <1>2, <2>2, <2>3, <3>1, <3>2, Failing
  <2>4. CASE /\ Continue(t, [tx[t] EXCEPT !.sqlite = "open"], "DeliverTransactionCallback")
             /\ AcquireOriginLock(t)
    <3>1. PICK r : r = [tx[t] EXCEPT !.sqlite = "open"]
      OBVIOUS
    <3>2. r \in Transaction /\ SameTurn(r, tx[t])
      BY <1>2, <3>1 DEF Transaction, SameTurn
    <3>3. Coherent(Went(r, "DeliverTransactionCallback"))
      BY <1>2, <2>1, <2>2, <3>1 DEF Coherent, Fresh, Working, Ending, Transaction, Went
    <3>4. OriginStep(t, r)
      BY <1>1, <2>2, <2>4, <3>2, OriginTaken DEF SameTurn
    <3> QED BY <1>1, <2>4, <3>1, <3>2, <3>3, <3>4, Continuing DEF States
  <2> QED BY <1>3, <2>3, <2>4 DEF OpenTransactionAndPreflight
<1>4. ASSUME NEW succeeds \in BOOLEAN, PostflightAndCommit(t, succeeds)
      PROVE  WebDatabaseInv'
  <2>1. tx[t].next = "PostflightAndCommit" /\ tx[t].sqlite = "open"
    BY <1>2, <1>4 DEF PostflightAndCommit, Runs, Coherent
  <2>2. /\ ~tx[t].committed /\ tx[t].told = "nothing" /\ tx[t].statements <= tx[t].issued
        /\ tx[t].statements = 0 /\ ~tx[t].cleaned /\ tx[t].locked
    BY <1>2, <2>1 DEF Coherent, Ending, Transaction, Live
  <2>3. CASE succeeds
    <3>1. PICK r : /\ r = [tx[t] EXCEPT !.committed = TRUE, !.sqlite = "none"]
                   /\ ReleaseOriginLock(t)
                   /\ Continue(t, r, "DeliverSuccessCallback")
      BY <1>4, <2>3 DEF PostflightAndCommit
    <3>2. r \in Transaction /\ SameTurn(r, tx[t]) /\ r.sqlite # "open"
      BY <1>2, <3>1 DEF Transaction, SameTurn
    <3>3. Coherent(Went(r, "DeliverSuccessCallback"))
      BY <1>2, <2>2, <3>1 DEF Coherent, Fresh, Working, Ending, Transaction, Went
    <3>4. OriginStep(t, r)
      BY <1>1, <3>1, <3>2, OriginReleased
    <3> QED BY <1>1, <3>1, <3>2, <3>3, <3>4, Continuing DEF States
  <2>4. CASE ~succeeds
    <3>1. PICK s \in {"open", "rolledBack", "failed"} :
                /\ Continue(t, [tx[t] EXCEPT !.sqlite = s], StateForError(t))
                /\ s = "failed" => ReleaseOriginLock(t)
                /\ s # "failed" => UNCHANGED originLock
      BY <1>4, <2>4 DEF PostflightAndCommit, PostflightFails, Outcomes
    <3>2. PICK r : r = [tx[t] EXCEPT !.sqlite = s]
      OBVIOUS
    <3>3. r \in Transaction /\ SameTurn(r, tx[t]) /\ r.sqlite = s
      BY <1>2, <3>2 DEF Transaction, SameTurn
    <3>4. OriginStep(t, r)
      <4>1. CASE s = "failed"
        BY <1>1, <3>1, <3>3, <4>1, OriginReleased
      <4>2. CASE s # "failed"
        BY <1>1, <2>1, <3>1, <3>3, <4>2, OriginKept DEF SameTurn
      <4> QED BY <4>1, <4>2
    <3>5. /\ ~r.committed /\ r.told \notin {"success", "error"} /\ r.statements <= r.issued
          /\ r.locked
      BY <1>2, <2>2, <3>2 DEF Transaction
    <3> QED BY <1>1, <3>1, <3>2, <3>3, <3>4, <3>5, Failing
  <2> QED BY <2>3, <2>4
<1>5. CASE CleanupAfterTransactionErrorCallback(t)
  <2>1. PICK r : /\ r = [tx[t] EXCEPT !.sqlite = "none"]
                 /\ Continue(t, r, "CleanupAndTerminate")
                 /\ tx[t].next = "CleanupAfterTransactionErrorCallback"
                 /\ ReleaseOriginLock(t)
    BY <1>5 DEF CleanupAfterTransactionErrorCallback, Runs
  <2>2. r \in Transaction /\ SameTurn(r, tx[t]) /\ r.sqlite # "open"
    BY <1>2, <2>1 DEF Transaction, SameTurn
  <2>3. Coherent(Went(r, "CleanupAndTerminate"))
    BY <1>2, <2>1 DEF Coherent, Fresh, Working, Ending, Transaction, Went
  <2>4. OriginStep(t, r)
    BY <1>1, <2>1, <2>2, OriginReleased
  <2> QED BY <1>1, <2>1, <2>2, <2>3, <2>4, Continuing DEF States
<1> QED BY <1>3, <1>4, <1>5

-----------------------------------------------------------------------------
(* The steps that leave every transaction where it is.                      *)

\* A thread that is told to stop, and the end of one; the other documents.
LEMMA QuietStep ==
    ASSUME WebDatabaseInv, StopDatabases \/ EndThread \/ OtherLocks \/ OtherUnlocks
    PROVE  WebDatabaseInv'
<1> USE WebDatabaseAssumption
<1>1. UNCHANGED <<tx, db, queue, running, coordinator, posted, awaited>>
  BY DEF StopDatabases, EndThread, OtherLocks, OtherUnlocks
<1>2. ASSUME NEW u
      PROVE  /\ Waits(u)' <=> Waits(u)
             /\ Queued(u)' <=> Queued(u)
             /\ Pends(u)' <=> Pends(u)
             /\ Calls(u)' <=> Calls(u)
             /\ Refused(u)' <=> Refused(u)
  BY <1>1 DEF Waits, Queued, Pends, Calls, Refused
<1>3. /\ killed' \in BOOLEAN /\ (killed => killed')
      /\ thread' = thread \/ (thread = "closing" /\ thread' = "ended")
      /\ originLock' \in {originLock, NoTransaction, Other}
      /\ originLock' # originLock => originLock \notin Transactions
  BY DEF StopDatabases, EndThread, OtherLocks, OtherUnlocks, WebDatabaseInv, TypeOK
<1>4. TypeOK'
  BY <1>1, <1>3 DEF WebDatabaseInv, TypeOK
<1>5. ListsInv' /\ TasksInv'
  BY <1>1 DEF WebDatabaseInv, ListsInv, TasksInv, TaskInv
<1>6. PlacesInv'
  BY <1>1, <1>2, <1>3 DEF WebDatabaseInv, PlacesInv, PlaceInv, Live
<1>7. ThreadInv'
  <2>1. CASE thread' = thread
    BY <1>1, <1>2, <1>3, <2>1 DEF WebDatabaseInv, ThreadInv, ControlInv, Live, Down
  <2>2. CASE thread = "closing" /\ thread' = "ended"
    <3>1. \A d \in Databases : ~db[d].opened
      BY <2>2 DEF StopDatabases, EndThread, OtherLocks, OtherUnlocks
    <3>2. \A u \in Transactions : ~Live(u)
      BY <2>2, <3>1 DEF WebDatabaseInv, ThreadInv, ControlInv
    <3> QED BY <1>1, <1>2, <1>3, <2>2, <3>1, <3>2 DEF WebDatabaseInv, ThreadInv, ControlInv, Live, Down
  <2> QED BY <1>3, <2>1, <2>2
<1>8. RecordsInv'
  BY <1>1, <1>2 DEF WebDatabaseInv, RecordsInv, RecordInv, Live, Down
<1>9. LocksInv'
  BY <1>1, <1>3 DEF WebDatabaseInv, LocksInv, LockInv, Down
<1>10. TurnsInv'
  BY <1>1, <1>2 DEF WebDatabaseInv, TurnsInv, Live
<1> QED BY <1>4, <1>5, <1>6, <1>7, <1>8, <1>9, <1>10 DEF WebDatabaseInv

\* openDatabase and markAsDeletedAndClose queue a task and wait for it.
LEMMA AwaitStep ==
    ASSUME WebDatabaseInv, NEW d \in Databases, OpenDatabase(d) \/ MarkAsDeletedAndClose(d)
    PROVE  WebDatabaseInv'
<1> USE WebDatabaseAssumption
<1>1. /\ UNCHANGED <<tx, killed, thread, running, coordinator, originLock, posted>>
      /\ awaited = <<>>
  BY DEF OpenDatabase, MarkAsDeletedAndClose, MainIdle
<1>2. db \in [Databases -> Database]
  BY DEF WebDatabaseInv, TypeOK
<1>3. /\ db' \in [Databases -> Database]
      /\ \A e \in Databases :
             /\ db'[e].created = db[e].created /\ db'[e].opened = db[e].opened
             /\ db'[e].enabled = db[e].enabled /\ db'[e].inProgress = db[e].inProgress
             /\ db'[e].waiting = db[e].waiting
             /\ db[e].asked => db'[e].asked
  <2>1. PICK r : /\ r \in {[db[d] EXCEPT !.asked = TRUE], [db[d] EXCEPT !.deleted = TRUE]}
                 /\ db' = [db EXCEPT ![d] = r]
    BY DEF OpenDatabase, MarkAsDeletedAndClose
  <2>2. db[d] \in Database
    BY <1>2
  <2>3. /\ r \in Database
        /\ r.created = db[d].created /\ r.opened = db[d].opened
        /\ r.enabled = db[d].enabled /\ r.inProgress = db[d].inProgress
        /\ r.waiting = db[d].waiting
        /\ db[d].asked => r.asked
    BY <2>1, <2>2 DEF Database
  <2>4. db' \in [Databases -> Database] /\ db'[d] = r /\ \A e \in Databases \ {d} : db'[e] = db[e]
    BY <1>2, <2>1, <2>3
  <2> QED BY <2>3, <2>4
<1>4. \A e \in Databases : <<"open", e>> \notin Listed(queue) /\ <<"close", e>> \notin Listed(queue)
  BY <1>1 DEF WebDatabaseInv, TasksInv, TaskInv
<1>5. \/ queue' = queue /\ awaited' = awaited
      \/ queue' = <<<<"open", d>>>> \o queue /\ awaited' = <<"open", d>>
         /\ ~db[d].created /\ db'[d].asked
      \/ queue' = <<<<"close", d>>>> \o queue /\ awaited' = <<"close", d>>
         /\ db[d].created
  <2>1. CASE OpenDatabase(d)
    <3>1. ~db[d].created
      BY <2>1 DEF OpenDatabase, WebDatabaseInv, TasksInv, TaskInv
    <3>2. db'[d].asked
      BY <1>2, <2>1 DEF OpenDatabase, Database
    <3> QED BY <2>1, <3>1, <3>2 DEF OpenDatabase
  <2>2. CASE MarkAsDeletedAndClose(d)
    BY <2>2 DEF MarkAsDeletedAndClose
  <2> QED BY <2>1, <2>2
<1>6. PICK more : /\ more \in SUBSET {<<"open", d>>, <<"close", d>>}
                  /\ queue' \in Seq(Tasks) /\ NoDuplicates(queue')
                  /\ Listed(queue') = Listed(queue) \cup more
                  /\ awaited' \in Tasks \cup {<<>>}
                  /\ <<"open", d>> \in more =>
                        awaited' = <<"open", d>> /\ ~db[d].created /\ db'[d].asked
                  /\ <<"close", d>> \in more => awaited' = <<"close", d>> /\ db[d].created
  <2>1. queue \in Seq(Tasks) /\ NoDuplicates(queue) /\ awaited \in Tasks \cup {<<>>}
        /\ <<"open", d>> \in Tasks /\ <<"close", d>> \in Tasks
    BY DEF WebDatabaseInv, TypeOK, ListsInv, Tasks
  <2>2. CASE queue' = queue /\ awaited' = awaited
    <3> WITNESS {}
    <3> QED BY <2>1, <2>2
  <2>3. CASE queue' = <<<<"open", d>>>> \o queue /\ awaited' = <<"open", d>>
             /\ ~db[d].created /\ db'[d].asked
    <3> WITNESS {<<"open", d>>}
    <3> QED BY <1>4, <2>1, <2>3, ListPrepend
  <2>4. CASE queue' = <<<<"close", d>>>> \o queue /\ awaited' = <<"close", d>>
             /\ db[d].created
    <3> WITNESS {<<"close", d>>}
    <3> QED BY <1>4, <2>1, <2>4, ListPrepend
  <2> QED BY <1>5, <2>2, <2>3, <2>4
<1>7. ASSUME NEW u \in Transactions
      PROVE  /\ Waits(u)' <=> Waits(u)
             /\ Queued(u)' <=> Queued(u)
             /\ Pends(u)' <=> Pends(u)
             /\ Calls(u)' <=> Calls(u)
             /\ Refused(u)' <=> Refused(u)
             /\ DatabaseOf[u] \in Databases
  BY <1>1, <1>3, <1>6 DEF Waits, Queued, Pends, Calls, Refused, Step
<1>8. TypeOK'
  BY <1>1, <1>3, <1>6 DEF WebDatabaseInv, TypeOK
<1>9. ListsInv'
  BY <1>1, <1>3, <1>6 DEF WebDatabaseInv, ListsInv
<1>10. TasksInv'
  BY <1>1, <1>3, <1>4, <1>6 DEF WebDatabaseInv, TasksInv, TaskInv
<1>11. PlacesInv'
  BY <1>1, <1>3, <1>7 DEF WebDatabaseInv, PlacesInv, PlaceInv, Live
<1>12. ThreadInv'
  BY <1>1, <1>3, <1>7 DEF WebDatabaseInv, ThreadInv, ControlInv, Live, Down
<1>13. RecordsInv'
  BY <1>1, <1>3, <1>7 DEF WebDatabaseInv, RecordsInv, RecordInv, Live, Down
<1>14. LocksInv'
  BY <1>1 DEF WebDatabaseInv, LocksInv, LockInv, Down
<1>15. TurnsInv'
  BY <1>1, <1>3, <1>7 DEF WebDatabaseInv, TurnsInv, Live
<1> QED BY <1>8, <1>9, <1>10, <1>11, <1>12, <1>13, <1>14, <1>15 DEF WebDatabaseInv

-----------------------------------------------------------------------------
(* The steps that take one task or one posted function.                     *)

\* The database thread takes the first task of its queue.
LEMMA TaskTaken ==
    ASSUME WebDatabaseInv, NEW task, Takes(task)
    PROVE  /\ task \in Listed(queue) /\ Tail(queue) \in Seq(Tasks)
           /\ NoDuplicates(Tail(queue))
           /\ Listed(Tail(queue)) = Listed(queue) \ {task}
           /\ thread = "waiting" /\ running = NoTransaction /\ ~Down /\ ~killed
<1>1. queue \in Seq(Tasks) /\ NoDuplicates(queue) /\ queue # <<>> /\ queue[1] = task
  BY DEF WebDatabaseInv, TypeOK, ListsInv, Takes
<1>2. Head(queue) = task
  BY <1>1
<1>3. /\ Head(queue) \in Listed(queue) /\ Tail(queue) \in Seq(Tasks)
      /\ NoDuplicates(Tail(queue))
      /\ Listed(Tail(queue)) = Listed(queue) \ {Head(queue)}
  BY <1>1, ListTail
<1>4. thread = "waiting" /\ running = NoTransaction /\ ~Down /\ ~killed
  BY DEF WebDatabaseInv, TypeOK, ThreadInv, ControlInv, Takes
<1> QED BY <1>2, <1>3, <1>4

\* The main thread takes the first function that was posted to it.
LEMMA PostedTaken ==
    ASSUME WebDatabaseInv, posted # <<>>
    PROVE  /\ posted[1] \in Listed(posted)
           /\ posted[1] \in {"callback", "refusal"} \X Transactions
           /\ Tail(posted) \in Seq({"callback", "refusal"} \X Transactions)
           /\ NoDuplicates(Tail(posted))
           /\ Listed(Tail(posted)) = Listed(posted) \ {posted[1]}
<1>1. PICK C : C = {"callback", "refusal"} \X Transactions
  OBVIOUS
<1>2. posted \in Seq(C) /\ NoDuplicates(posted)
  BY <1>1 DEF WebDatabaseInv, TypeOK, ListsInv
<1>3. Head(posted) = posted[1] /\ Head(posted) \in C
  BY <1>2
<1>4. /\ Head(posted) \in Listed(posted) /\ Tail(posted) \in Seq(C)
      /\ NoDuplicates(Tail(posted))
      /\ Listed(Tail(posted)) = Listed(posted) \ {Head(posted)}
  BY <1>2, ListTail
<1> QED BY <1>1, <1>3, <1>4

\* A function is posted to the main thread.
LEMMA PostedGrows ==
    ASSUME WebDatabaseInv, NEW x \in {"callback", "refusal"} \X Transactions,
           x \notin Listed(posted)
    PROVE  /\ Append(posted, x) \in Seq({"callback", "refusal"} \X Transactions)
           /\ NoDuplicates(Append(posted, x))
           /\ Listed(Append(posted, x)) = Listed(posted) \cup {x}
<1>1. PICK C : C = {"callback", "refusal"} \X Transactions
  OBVIOUS
<1>2. posted \in Seq(C) /\ NoDuplicates(posted) /\ x \in C
  BY <1>1 DEF WebDatabaseInv, TypeOK, ListsInv
<1> QED BY <1>1, <1>2, ListAppend

\* DatabaseOpenTask: the database is new, so nothing depends on it yet.
LEMMA OpenStep ==
    ASSUME WebDatabaseInv, NEW d \in Databases, NEW succeeds \in BOOLEAN,
           PerformOpen(d, succeeds)
    PROVE  WebDatabaseInv'
<1> USE WebDatabaseAssumption
<1>1. /\ UNCHANGED <<tx, killed, thread, running, coordinator, originLock, posted>>
      /\ awaited' = <<>> /\ queue' = Tail(queue) /\ Takes(<<"open", d>>)
  BY DEF PerformOpen
<1>2. /\ <<"open", d>> \in Listed(queue) /\ queue' \in Seq(Tasks) /\ NoDuplicates(queue')
      /\ Listed(queue') = Listed(queue) \ {<<"open", d>>}
      /\ thread = "waiting" /\ running = NoTransaction /\ ~Down
  BY <1>1, TaskTaken
<1>3. awaited = <<"open", d>> /\ ~db[d].created /\ db[d].asked
  BY <1>2 DEF WebDatabaseInv, TasksInv, TaskInv
<1>4. db \in [Databases -> Database]
  BY DEF WebDatabaseInv, TypeOK
<1>5. PICK r : /\ r = [db[d] EXCEPT !.created = succeeds, !.opened = succeeds]
               /\ db' = [db EXCEPT ![d] = r]
  BY DEF PerformOpen
<1>6. /\ r \in Database
      /\ r.created = succeeds /\ r.opened = succeeds /\ r.asked = db[d].asked
      /\ r.enabled = db[d].enabled /\ r.inProgress = db[d].inProgress
      /\ r.waiting = db[d].waiting
  <2>1. db[d] \in Database
    BY <1>4
  <2> QED BY <1>5, <2>1 DEF Database
<1>7. db' \in [Databases -> Database] /\ db'[d] = r /\ \A e \in Databases \ {d} : db'[e] = db[e]
  BY <1>4, <1>5, <1>6
<1>8. \A u \in Transactions : DatabaseOf[u] = d => ~tx[u].born /\ ~tx[u].cleaned
  BY <1>3 DEF WebDatabaseInv, RecordsInv, RecordInv
<1>9. ASSUME NEW u \in Transactions
      PROVE  /\ Waits(u)' <=> Waits(u)
             /\ Queued(u)' <=> Queued(u)
             /\ Pends(u)' <=> Pends(u)
             /\ Calls(u)' <=> Calls(u)
             /\ Refused(u)' <=> Refused(u)
             /\ DatabaseOf[u] \in Databases /\ running # u
  BY <1>1, <1>2, <1>6, <1>7 DEF Waits, Queued, Pends, Calls, Refused, Step
<1>10. TypeOK'
  BY <1>1, <1>2, <1>7 DEF WebDatabaseInv, TypeOK
<1>11. ListsInv'
  BY <1>1, <1>2, <1>6, <1>7 DEF WebDatabaseInv, ListsInv
<1>12. TasksInv'
  BY <1>1, <1>2, <1>3, <1>6, <1>7 DEF WebDatabaseInv, TasksInv, TaskInv
<1>13. PlacesInv'
  BY <1>1, <1>6, <1>7, <1>9 DEF WebDatabaseInv, PlacesInv, PlaceInv, Live
<1>14. ThreadInv'
  BY <1>1, <1>2, <1>6, <1>7, <1>8, <1>9 DEF WebDatabaseInv, ThreadInv, ControlInv, Live, Down
<1>15. RecordsInv'
  BY <1>1, <1>6, <1>7, <1>8, <1>9 DEF WebDatabaseInv, RecordsInv, RecordInv, Live, Down
<1>16. LocksInv'
  BY <1>1 DEF WebDatabaseInv, LocksInv, LockInv, Down
<1>17. TurnsInv'
  BY <1>1, <1>6, <1>7, <1>9 DEF WebDatabaseInv, TurnsInv, Live
<1> QED BY <1>10, <1>11, <1>12, <1>13, <1>14, <1>15, <1>16, <1>17 DEF WebDatabaseInv

\* A posted function of a page that is gone, or the error callback of a
\* transaction that a closed database refused.
LEMMA PostedStep ==
    ASSUME WebDatabaseInv, NEW t \in Transactions, DeliverRefusal(t) \/ DropPosted(t)
    PROVE  WebDatabaseInv'
<1> USE WebDatabaseAssumption
<1>1. /\ posted # <<>> /\ posted' = Tail(posted) /\ posted[1][2] = t
      /\ UNCHANGED <<db, queue, killed, thread, running, coordinator, originLock, awaited>>
  BY DEF DeliverRefusal, DropPosted
<1>2. /\ posted[1] \in Listed(posted)
      /\ posted[1] \in {<<"callback", t>>, <<"refusal", t>>}
      /\ posted' \in Seq({"callback", "refusal"} \X Transactions)
      /\ NoDuplicates(posted')
      /\ Listed(posted') = Listed(posted) \ {posted[1]}
  BY <1>1, PostedTaken
<1>3. ASSUME NEW u \in Transactions
      PROVE  /\ Waits(u)' <=> Waits(u)
             /\ Queued(u)' <=> Queued(u)
             /\ Pends(u)' <=> Pends(u)
             /\ Calls(u)' => Calls(u)
             /\ Calls(u) /\ ~Calls(u)' => u = t /\ posted[1] = <<"callback", t>>
             /\ Refused(u)' => Refused(u)
  BY <1>1, <1>2 DEF Waits, Queued, Pends, Calls, Refused
<1>4. CASE DropPosted(t)
  <2>1. UNCHANGED tx /\ killed
    BY <1>4 DEF DropPosted
  <2>2. TypeOK'
    BY <1>1, <1>2, <2>1 DEF WebDatabaseInv, TypeOK
  <2>3. ListsInv' /\ TasksInv'
    BY <1>1, <1>2 DEF WebDatabaseInv, ListsInv, TasksInv, TaskInv
  <2>4. PlacesInv'
    <3>1. Calls(t) => tx[t].locked \/ tx[t].cleaned
      BY DEF WebDatabaseInv, RecordsInv, RecordInv
    <3> QED BY <1>1, <1>3, <2>1, <3>1 DEF WebDatabaseInv, PlacesInv, PlaceInv, Live
  <2>5. ThreadInv'
    BY <1>1, <1>3, <2>1 DEF WebDatabaseInv, ThreadInv, ControlInv, Live, Down
  <2>6. RecordsInv'
    BY <1>1, <1>3, <2>1 DEF WebDatabaseInv, RecordsInv, RecordInv, Live, Down
  <2>7. LocksInv'
    BY <1>1, <2>1 DEF WebDatabaseInv, LocksInv, LockInv, Down
  <2>8. TurnsInv'
    BY <1>1, <1>3, <2>1 DEF WebDatabaseInv, TurnsInv, Live
  <2> QED BY <2>2, <2>3, <2>4, <2>5, <2>6, <2>7, <2>8 DEF WebDatabaseInv
<1>5. CASE DeliverRefusal(t)
  <2>1. posted[1] = <<"refusal", t>> /\ Refused(t)
    BY <1>2, <1>5 DEF DeliverRefusal, Refused
  <2>2. tx \in [Transactions -> Transaction] /\ tx[t] \in Transaction
    BY DEF WebDatabaseInv, TypeOK
  <2>3. /\ RecordInv(t) /\ ~Waits(t) /\ ~Queued(t) /\ ~Pends(t) /\ ~Calls(t)
        /\ tx[t].cleaned /\ tx[t].next = "End" /\ tx[t].requested = "Idle"
        /\ Fresh([tx[t] EXCEPT !.told = "nothing"])
        /\ tx[t].born
    BY <2>1 DEF WebDatabaseInv, PlacesInv, PlaceInv, RecordsInv, RecordInv
  <2>4. PICK r : r = ToldOfError(t, tx[t]) /\ tx' = [tx EXCEPT ![t] = r]
    BY <1>5 DEF DeliverRefusal
  <2>5. /\ r \in Transaction /\ SameStanding(r, tx[t]) /\ r.next = tx[t].next
        /\ r.requested = tx[t].requested /\ r.frontend = tx[t].frontend
        /\ Coherent(r) /\ ~Refused(t)'
    <3>1. Coherent(tx[t])
      BY <2>3 DEF RecordInv
    <3>2. CASE r = tx[t]
      BY <1>2, <2>1, <2>2, <3>1, <3>2 DEF SameStanding, Refused
    <3>3. CASE r = [tx[t] EXCEPT !.told = "error"]
      <4>1. /\ r \in Transaction /\ SameStanding(r, tx[t]) /\ r.next = tx[t].next
            /\ r.requested = tx[t].requested /\ r.frontend = tx[t].frontend
        BY <2>2, <3>3 DEF SameStanding, Transaction
      <4>2. ~tx[t].committed /\ tx[t].frontend \in {"Idle", "End"}
        BY <2>2, <2>3 DEF Fresh, Transaction
      <4>3. Coherent(r)
        BY <2>2, <2>3, <3>1, <3>3, <4>2 DEF Coherent, Fresh, Working, Ending, Transaction
      <4> QED BY <1>2, <2>1, <4>1, <4>3 DEF Refused
    <3> QED BY <2>4, <3>2, <3>3 DEF ToldOfError
  <2>6. tx'[t] = r /\ \A u \in Transactions : u # t => tx'[u] = tx[u]
    BY <2>2, <2>4
  <2>7. TypeOK'
    BY <1>1, <1>2, <2>2, <2>4, <2>5 DEF WebDatabaseInv, TypeOK
  <2>8. ListsInv' /\ TasksInv'
    BY <1>1, <1>2 DEF WebDatabaseInv, ListsInv, TasksInv, TaskInv
  <2>9. PlacesInv'
    BY <1>1, <1>3, <2>1, <2>5, <2>6 DEF WebDatabaseInv, PlacesInv, PlaceInv, Live, SameStanding
  <2>10. ThreadInv'
    BY <1>1, <1>3, <2>1, <2>5, <2>6 DEF WebDatabaseInv, ThreadInv, ControlInv, Live, Down, SameStanding
  <2>11. RecordsInv'
    <3>1. RecordInv(t)'
      BY <1>1, <1>3, <2>3, <2>5, <2>6 DEF RecordInv, Live, Down, SameStanding
    <3>2. ASSUME NEW u \in Transactions, u # t PROVE RecordInv(u)'
      <4>1. RecordInv(u)
        BY DEF WebDatabaseInv, RecordsInv
      <4> QED BY <1>1, <1>3, <2>6, <3>2, <4>1 DEF RecordInv, Live, Down
    <3> QED BY <3>1, <3>2 DEF RecordsInv
  <2>12. LocksInv'
    BY <1>1, <2>5, <2>6 DEF WebDatabaseInv, LocksInv, LockInv, Down, SameStanding
  <2>13. TurnsInv'
    BY <1>1, <1>3, <2>5, <2>6 DEF WebDatabaseInv, TurnsInv, Live, SameStanding
  <2> QED BY <2>7, <2>8, <2>9, <2>10, <2>11, <2>12, <2>13 DEF WebDatabaseInv
<1> QED BY <1>4, <1>5

\* performNextStep of a transaction whose database is open.
LEMMA PerformStep ==
    ASSUME WebDatabaseInv, NEW t \in Transactions, PerformNextStep(t)
    PROVE  WebDatabaseInv'
<1> USE WebDatabaseAssumption
<1>1. /\ UNCHANGED <<db, killed, coordinator, originLock, posted, awaited>>
      /\ queue' = Tail(queue) /\ Takes(Step(t)) /\ thread' = "running" /\ running' = t
      /\ db[DatabaseOf[t]].opened
  BY DEF PerformNextStep
<1>2. /\ Queued(t) /\ queue' \in Seq(Tasks) /\ NoDuplicates(queue')
      /\ Listed(queue') = Listed(queue) \ {Step(t)}
      /\ thread = "waiting" /\ running = NoTransaction /\ ~Down
  BY <1>1, TaskTaken DEF Queued
<1>3. tx \in [Transactions -> Transaction] /\ tx[t] \in Transaction
  BY DEF WebDatabaseInv, TypeOK
<1>4. /\ Live(t) /\ RecordInv(t) /\ tx[t].requested # "Idle" /\ Coherent(tx[t])
      /\ tx[t].frontend \in {"Idle", "End"} /\ tx[t].next \in {"Idle", "End"}
      /\ ~Waits(t) /\ ~Pends(t) /\ ~Calls(t)
  BY <1>1, <1>2 DEF WebDatabaseInv, RecordsInv, RecordInv, ThreadInv, ControlInv, PlacesInv, PlaceInv, Live
<1>5. PICK r : /\ r = [tx[t] EXCEPT !.next = tx[t].requested, !.requested = "Idle"]
               /\ tx' = [tx EXCEPT ![t] = r]
  BY <1>3 DEF PerformNextStep
<1>6. /\ r \in Transaction /\ SameStanding(r, tx[t]) /\ r.requested = "Idle"
      /\ r.frontend = tx[t].frontend /\ r.next = tx[t].requested
  BY <1>3, <1>5 DEF Transaction, SameStanding, States
<1>7. Coherent(r) /\ r.next \notin {"Idle", "End"}
  BY <1>3, <1>4, <1>5 DEF Coherent, Fresh, Working, Ending, Transaction
<1>8. ASSUME NEW u \in Transactions
      PROVE  /\ Waits(u)' <=> Waits(u)
             /\ Queued(u)' <=> (Queued(u) /\ u # t)
             /\ Pends(u)' <=> Pends(u)
             /\ Calls(u)' <=> Calls(u)
             /\ Refused(u)' <=> Refused(u)
             /\ running # u
  BY <1>1, <1>2 DEF Waits, Queued, Pends, Calls, Refused, Step
<1>9. tx'[t] = r /\ \A u \in Transactions : u # t => tx'[u] = tx[u]
  BY <1>3, <1>5
<1>10. TypeOK'
  BY <1>1, <1>2, <1>3, <1>5, <1>6 DEF WebDatabaseInv, TypeOK
<1>11. ListsInv'
  BY <1>1, <1>2 DEF WebDatabaseInv, ListsInv
<1>12. TasksInv'
  BY <1>1, <1>2 DEF WebDatabaseInv, TasksInv, TaskInv
<1>13. PlacesInv'
  BY <1>1, <1>2, <1>4, <1>6, <1>8, <1>9 DEF WebDatabaseInv, PlacesInv, PlaceInv, Live, SameStanding
<1>14. ThreadInv'
  BY <1>1, <1>2, <1>4, <1>6, <1>7, <1>8, <1>9
     DEF WebDatabaseInv, ThreadInv, ControlInv, Live, SameStanding, Down
<1>15. RecordsInv'
  <2>1. RecordInv(t)'
    BY <1>1, <1>4, <1>6, <1>7, <1>8, <1>9 DEF RecordInv, Live, SameStanding, Down
  <2>2. ASSUME NEW u \in Transactions, u # t PROVE RecordInv(u)'
    <3>1. RecordInv(u)
      BY DEF WebDatabaseInv, RecordsInv
    <3> QED BY <1>1, <1>8, <1>9, <2>2, <3>1 DEF RecordInv, Live, Down
  <2> QED BY <2>1, <2>2 DEF RecordsInv
<1>16. LocksInv'
  BY <1>1, <1>6, <1>9 DEF WebDatabaseInv, LocksInv, LockInv, Down, SameStanding
<1>17. TurnsInv'
  BY <1>1, <1>6, <1>8, <1>9 DEF WebDatabaseInv, TurnsInv, Live, SameStanding
<1> QED BY <1>10, <1>11, <1>12, <1>13, <1>14, <1>15, <1>16, <1>17 DEF WebDatabaseInv

\* sendToFrontendState
LEMMA FrontendStep ==
    ASSUME WebDatabaseInv, NEW t \in Transactions, SendToFrontend(t)
    PROVE  WebDatabaseInv'
<1> USE WebDatabaseAssumption
<1>1. /\ UNCHANGED <<db, queue, killed, coordinator, originLock, awaited>>
      /\ posted' = Append(posted, <<"callback", t>>) /\ running = t /\ thread = "running"
      /\ thread' = "waiting" /\ running' = NoTransaction
      /\ tx[t].next \in {"DeliverTransactionCallback", "DeliverTransactionErrorCallback",
                   "DeliverStatementCallback", "DeliverQuotaIncreaseCallback",
                   "DeliverSuccessCallback"}
  BY DEF SendToFrontend, Runs, TaskDone
<1>2. /\ tx[t] \in Transaction /\ Coherent(tx[t]) /\ Live(t)
      /\ tx[t].requested = "Idle" /\ tx[t].frontend \in {"Idle", "End"}
  BY <1>1, Running
<1>3. tx \in [Transactions -> Transaction]
  BY DEF WebDatabaseInv, TypeOK
<1>4. ~Waits(t) /\ ~Queued(t) /\ ~Pends(t) /\ ~Calls(t) /\ ~Refused(t)
  BY <1>1, <1>2 DEF WebDatabaseInv, PlacesInv, PlaceInv, RecordsInv, RecordInv, Live
<1>5. tx[t].locked /\ db[DatabaseOf[t]].opened /\ ~Down
  BY <1>1, <1>2 DEF Coherent, Working, Live, WebDatabaseInv, ThreadInv, ControlInv
<1>6. PICK r : /\ r = [tx[t] EXCEPT !.frontend = tx[t].next, !.next = "Idle"]
               /\ tx' = [tx EXCEPT ![t] = r]
  BY <1>3 DEF SendToFrontend
<1>7. /\ r \in Transaction /\ SameStanding(r, tx[t]) /\ r.requested = "Idle"
      /\ r.next = "Idle"
  BY <1>2, <1>6 DEF Transaction, SameStanding, States
<1>8. Coherent(r)
  BY <1>1, <1>2, <1>6 DEF Coherent, Fresh, Working, Ending, Transaction
<1>9. /\ posted' \in Seq({"callback", "refusal"} \X Transactions) /\ NoDuplicates(posted')
      /\ Listed(posted') = Listed(posted) \cup {<<"callback", t>>}
  <2>1. PICK x : x = <<"callback", t>>
    OBVIOUS
  <2>2. x \in {"callback", "refusal"} \X Transactions /\ x \notin Listed(posted)
    BY <1>4, <2>1 DEF Calls
  <2> QED BY <1>1, <2>1, <2>2, PostedGrows
<1>10. ASSUME NEW u \in Transactions
      PROVE  /\ Waits(u)' <=> Waits(u)
             /\ Queued(u)' <=> Queued(u)
             /\ Pends(u)' <=> Pends(u)
             /\ Calls(u)' <=> (Calls(u) \/ u = t)
             /\ Refused(u)' <=> Refused(u)
             /\ running' # u
  BY <1>1, <1>9 DEF Waits, Queued, Pends, Calls, Refused, Step
<1>11. tx'[t] = r /\ \A u \in Transactions : u # t => tx'[u] = tx[u]
  BY <1>3, <1>6
<1>12. TypeOK'
  BY <1>1, <1>3, <1>6, <1>7, <1>9 DEF WebDatabaseInv, TypeOK
<1>13. ListsInv' /\ TasksInv'
  BY <1>1, <1>9 DEF WebDatabaseInv, ListsInv, TasksInv, TaskInv
<1>14. PlacesInv'
  BY <1>1, <1>4, <1>7, <1>10, <1>11 DEF WebDatabaseInv, PlacesInv, PlaceInv, Live, SameStanding
<1>15. ThreadInv'
  BY <1>1, <1>2, <1>5, <1>7, <1>10, <1>11
     DEF WebDatabaseInv, ThreadInv, ControlInv, Live, SameStanding, Down
<1>16. RecordsInv'
  <2>1. RecordInv(t)
    BY DEF WebDatabaseInv, RecordsInv
  <2>2. RecordInv(t)'
    BY <1>1, <1>2, <1>4, <1>5, <1>7, <1>8, <1>10, <1>11, <2>1
       DEF RecordInv, Live, SameStanding, Down
  <2>3. ASSUME NEW u \in Transactions, u # t PROVE RecordInv(u)'
    <3>1. RecordInv(u)
      BY DEF WebDatabaseInv, RecordsInv
    <3> QED BY <1>1, <1>10, <1>11, <2>3, <3>1 DEF RecordInv, Live, Down
  <2> QED BY <2>2, <2>3 DEF RecordsInv
<1>17. LocksInv'
  BY <1>1, <1>7, <1>11 DEF WebDatabaseInv, LocksInv, LockInv, Down, SameStanding
<1>18. TurnsInv'
  BY <1>1, <1>7, <1>10, <1>11 DEF WebDatabaseInv, TurnsInv, Live, SameStanding
<1> QED BY <1>12, <1>13, <1>14, <1>15, <1>16, <1>17, <1>18 DEF WebDatabaseInv

-----------------------------------------------------------------------------
(* A new transaction.                                                       *)

\* A transaction that has not been run yet is nowhere.
LEMMA NewTransaction ==
    ASSUME WebDatabaseInv, NEW t \in Transactions, ~tx[t].born
    PROVE  /\ tx \in [Transactions -> Transaction] /\ tx[t] \in Transaction
           /\ Fresh(tx[t]) /\ ~tx[t].cleaned /\ Coherent(tx[t])
           /\ tx[t].next = "Idle" /\ tx[t].requested = "Idle"
           /\ ~Waits(t) /\ ~Queued(t) /\ ~Pends(t) /\ ~Calls(t) /\ ~Refused(t)
           /\ running # t /\ ~tx[t].locked
           /\ t \notin Active(coordinator) /\ originLock # t
<1>1. Fresh(tx[t]) /\ running # t
  BY DEF WebDatabaseInv, RecordsInv, RecordInv, ThreadInv, ControlInv, Live
<1>2. ~tx[t].locked
  BY <1>1 DEF Fresh
<1> QED BY <1>1, <1>2 DEF WebDatabaseInv, TypeOK, RecordsInv, RecordInv, LocksInv, LockInv

\* The database d after it took t, and t itself.
Filed(t, d, b) ==
    /\ b.asked = db[d].asked /\ b.created = db[d].created /\ b.opened = db[d].opened
    /\ b.enabled = db[d].enabled /\ b.inProgress /\ NoDuplicates(b.waiting)
    /\ \/ /\ db[d].inProgress /\ queue' = queue
          /\ Listed(b.waiting) = Listed(db[d].waiting) \cup {t}
       \/ /\ ~db[d].inProgress /\ queue' = queue \o Steps(<<t>>)
          /\ b.waiting = <<>>

Begun(r) ==
    /\ Coherent(r) /\ r.born /\ ~r.cleaned /\ ~r.locked /\ r.next = "Idle"
    /\ r.requested = "AcquireLock" /\ r.sqlite = "none" /\ r.frontend \in {"Idle", "End"}

\* A transaction of a database that is not closed: it waits in the database,
\* or its first step is queued.
LEMMA AcceptedStep ==
    ASSUME WebDatabaseInv, NEW t \in Transactions, ~tx[t].born,
           NEW d \in Databases, d = DatabaseOf[t], db[d].created, db[d].enabled,
           NEW b \in Database, db' = [db EXCEPT ![d] = b], Filed(t, d, b),
           NEW r \in Transaction, tx' = [tx EXCEPT ![t] = r], Begun(r),
           UNCHANGED <<posted, killed, thread, running, coordinator, originLock, awaited>>
    PROVE  WebDatabaseInv'
<1> USE WebDatabaseAssumption DEF Filed, Begun
<1>1. /\ tx \in [Transactions -> Transaction] /\ tx[t] \in Transaction
      /\ Fresh(tx[t]) /\ ~tx[t].cleaned /\ Coherent(tx[t])
      /\ tx[t].next = "Idle" /\ tx[t].requested = "Idle"
      /\ ~Waits(t) /\ ~Queued(t) /\ ~Pends(t) /\ ~Calls(t) /\ ~Refused(t)
      /\ running # t /\ ~tx[t].locked
      /\ t \notin Active(coordinator) /\ originLock # t
  BY NewTransaction
<1>2. tx'[t] = r /\ \A u \in Transactions : u # t => tx'[u] = tx[u]
  BY <1>1
<1>3. db' \in [Databases -> Database] /\ db'[d] = b /\ \A e \in Databases \ {d} : db'[e] = db[e]
  BY DEF WebDatabaseInv, TypeOK
<1>4. PICK q : /\ q \in SUBSET {t}
               /\ db[d].inProgress <=> q = {}
               /\ queue' \in Seq(Tasks) /\ NoDuplicates(queue')
               /\ Listed(queue') = Listed(queue) \cup {Step(u) : u \in q}
               /\ Listed(b.waiting) = Listed(db[d].waiting) \cup ({t} \ q)
  <2>1. queue \in Seq(Tasks) /\ NoDuplicates(queue)
    BY DEF WebDatabaseInv, TypeOK, ListsInv
  <2>2. CASE db[d].inProgress
    <3>1. queue' = queue /\ Listed(b.waiting) = Listed(db[d].waiting) \cup {t}
      BY <2>2
    <3> WITNESS {}
    <3> QED BY <2>1, <2>2, <3>1
  <2>3. CASE ~db[d].inProgress
    <3>1. queue' = queue \o Steps(<<t>>) /\ b.waiting = <<>>
      BY <2>3
    <3>2. db[d].waiting = <<>>
      BY <2>3 DEF WebDatabaseInv, TurnsInv
    <3>3. PICK s : s = <<t>>
      OBVIOUS
    <3>4. s \in Seq(Transactions) /\ DOMAIN s = {1} /\ s[1] = t
      BY <3>3
    <3>5. NoDuplicates(s) /\ Listed(s) = {t}
      BY <3>4 DEF NoDuplicates, Listed
    <3>6. \A u \in Listed(s) : Step(u) \notin Listed(queue)
      BY <1>1, <3>5 DEF Queued
    <3>7. /\ queue' \in Seq(Tasks) /\ NoDuplicates(queue')
          /\ Listed(queue') = Listed(queue) \cup {Step(u) : u \in {t}}
      BY <2>1, <3>1, <3>3, <3>4, <3>5, <3>6, QueueGrows
    <3> WITNESS {t}
    <3> QED BY <2>3, <3>1, <3>2, <3>7
  <2> QED BY <2>2, <2>3
<1>5. ASSUME NEW u \in Transactions
      PROVE  /\ Waits(u)' <=> (Waits(u) \/ (u = t /\ db[d].inProgress))
             /\ Queued(u)' <=> (Queued(u) \/ (u = t /\ ~db[d].inProgress))
             /\ Pends(u)' <=> Pends(u)
             /\ Calls(u)' <=> Calls(u)
             /\ Refused(u)' <=> Refused(u)
             /\ DatabaseOf[u] \in Databases
  <2>1. Queued(u)' <=> (Queued(u) \/ (u = t /\ ~db[d].inProgress))
    BY <1>4 DEF Queued, Step
  <2>2. Waits(u)' <=> (Waits(u) \/ (u = t /\ db[d].inProgress))
    <3>1. CASE DatabaseOf[u] = d
      BY <1>3, <1>4, <3>1 DEF Waits
    <3>2. CASE DatabaseOf[u] # d
      BY <1>3, <3>2 DEF Waits
    <3> QED BY <3>1, <3>2
  <2> QED BY <2>1, <2>2 DEF Pends, Calls, Refused
<1>6. TypeOK'
  BY <1>1, <1>3, <1>4 DEF WebDatabaseInv, TypeOK
<1>7. ListsInv'
  BY <1>3, <1>4 DEF WebDatabaseInv, ListsInv
<1>8. TasksInv'
  <2>1. \A e \in Databases : /\ <<"open", e>> \in Listed(queue') => <<"open", e>> \in Listed(queue)
                             /\ <<"close", e>> \in Listed(queue') => <<"close", e>> \in Listed(queue)
    BY <1>4 DEF Step
  <2>2. \A e \in Databases : /\ db'[e].asked = db[e].asked /\ db'[e].created = db[e].created
                             /\ db'[e].enabled = db[e].enabled /\ db'[e].opened = db[e].opened
    BY <1>3
  <2>3. ASSUME NEW e \in Databases PROVE TaskInv(e)'
    <3>1. TaskInv(e)
      BY DEF WebDatabaseInv, TasksInv
    <3> QED BY <2>1, <2>2, <3>1 DEF TaskInv
  <2> QED BY <2>3 DEF TasksInv
<1>9. PlacesInv'
  <2>1. PlaceInv(t)'
    BY <1>1, <1>2, <1>3, <1>5 DEF PlaceInv, Live
  <2>2. ASSUME NEW u \in Transactions, u # t PROVE PlaceInv(u)'
    <3>1. PlaceInv(u)
      BY DEF WebDatabaseInv, PlacesInv
    <3> QED BY <1>2, <1>3, <1>5, <2>2, <3>1 DEF PlaceInv, Live
  <2> QED BY <2>1, <2>2 DEF PlacesInv
<1>10. db[d].opened /\ thread # "ended"
  BY DEF WebDatabaseInv, TasksInv, TaskInv, ThreadInv, ControlInv
<1>11. ThreadInv'
  <2>1. ControlInv(t)'
    BY <1>1, <1>2, <1>3, <1>5, <1>10 DEF ControlInv, Live, Down
  <2>2. ASSUME NEW u \in Transactions, u # t PROVE ControlInv(u)'
    <3>1. ControlInv(u)
      BY DEF WebDatabaseInv, ThreadInv
    <3> QED BY <1>2, <1>3, <1>5, <2>2, <3>1 DEF ControlInv, Live, Down
  <2>3. thread # "ended"
    BY <1>10
  <2> QED BY <2>1, <2>2, <2>3 DEF WebDatabaseInv, ThreadInv, Down
<1>12. RecordsInv'
  <2>1. RecordInv(t)'
    BY <1>1, <1>2, <1>3, <1>5, <1>10 DEF RecordInv, Live, Down
  <2>2. ASSUME NEW u \in Transactions, u # t PROVE RecordInv(u)'
    <3>1. RecordInv(u)
      BY DEF WebDatabaseInv, RecordsInv
    <3> QED BY <1>2, <1>3, <1>5, <2>2, <3>1 DEF RecordInv, Live, Down
  <2> QED BY <2>1, <2>2 DEF RecordsInv
<1>13. LocksInv'
  BY <1>1, <1>2 DEF WebDatabaseInv, LocksInv, LockInv, Down
<1>14. TurnsInv'
  <2>1. \A e \in Databases : db'[e].waiting # <<>> => db'[e].inProgress /\ db'[e].enabled
    BY <1>3 DEF WebDatabaseInv, TurnsInv
  <2>2. ASSUME NEW u \in Transactions, (Live(u) /\ ~Waits(u))'
        PROVE  db'[DatabaseOf[u]].inProgress \/ ~db'[DatabaseOf[u]].enabled
    <3>1. CASE DatabaseOf[u] = d
      BY <1>3, <3>1
    <3>2. CASE DatabaseOf[u] # d
      BY <1>2, <1>3, <1>5, <2>2, <3>2 DEF WebDatabaseInv, TurnsInv, Live
    <3> QED BY <3>1, <3>2
  <2>3. ASSUME NEW u \in Transactions, (Live(u) /\ ~Waits(u))', u # t,
               DatabaseOf[u] = d
        PROVE  db[d].inProgress
    BY <1>2, <1>5, <2>3 DEF WebDatabaseInv, TurnsInv, Live
  <2>4. ASSUME NEW u \in Transactions, NEW v \in Transactions,
               (Live(u) /\ ~Waits(u))', (Live(v) /\ ~Waits(v))',
               DatabaseOf[u] = DatabaseOf[v]
        PROVE  u = v
    <3>1. CASE u # t /\ v # t
      BY <1>2, <1>5, <2>4, <3>1 DEF WebDatabaseInv, TurnsInv, Live
    <3>2. CASE u = t \/ v = t
      BY <1>5, <2>3, <2>4, <3>2
    <3> QED BY <3>1, <3>2
  <2> QED BY <2>1, <2>2, <2>4 DEF TurnsInv
<1> QED BY <1>6, <1>7, <1>8, <1>9, <1>11, <1>12, <1>13, <1>14 DEF WebDatabaseInv

\* A transaction that a closed database refuses.
LEMMA RefusedStep ==
    ASSUME WebDatabaseInv, NEW t \in Transactions, ~tx[t].born,
           db[DatabaseOf[t]].created,
           NEW r \in Transaction, tx' = [tx EXCEPT ![t] = r], Coherent(r),
           r.born, r.cleaned, ~r.locked, r.next = "End", r.requested = "Idle",
           r.sqlite = "none", Fresh([r EXCEPT !.told = "nothing"]),
           posted' = IF t \in ErrorCallback THEN Append(posted, <<"refusal", t>>) ELSE posted,
           UNCHANGED <<db, queue, killed, thread, running, coordinator, originLock, awaited>>
    PROVE  WebDatabaseInv'
<1> USE WebDatabaseAssumption
<1>1. /\ tx \in [Transactions -> Transaction] /\ tx[t] \in Transaction
      /\ Fresh(tx[t]) /\ ~tx[t].cleaned /\ Coherent(tx[t])
      /\ tx[t].next = "Idle" /\ tx[t].requested = "Idle"
      /\ ~Waits(t) /\ ~Queued(t) /\ ~Pends(t) /\ ~Calls(t) /\ ~Refused(t)
      /\ running # t /\ ~tx[t].locked
      /\ t \notin Active(coordinator) /\ originLock # t
  BY NewTransaction
<1>2. tx'[t] = r /\ \A u \in Transactions : u # t => tx'[u] = tx[u]
  BY <1>1
<1>3. /\ posted' \in Seq({"callback", "refusal"} \X Transactions) /\ NoDuplicates(posted')
      /\ \/ Listed(posted') = Listed(posted)
         \/ Listed(posted') = Listed(posted) \cup {<<"refusal", t>>}
  <2>1. CASE t \in ErrorCallback
    <3>1. PICK x : x = <<"refusal", t>>
      OBVIOUS
    <3>2. x \in {"callback", "refusal"} \X Transactions /\ x \notin Listed(posted)
      BY <1>1, <3>1 DEF Refused
    <3> QED BY <2>1, <3>1, <3>2, PostedGrows
  <2>2. CASE t \notin ErrorCallback
    BY <2>2 DEF WebDatabaseInv, TypeOK, ListsInv
  <2> QED BY <2>1, <2>2
<1>4. ASSUME NEW u \in Transactions
      PROVE  /\ Waits(u)' <=> Waits(u)
             /\ Queued(u)' <=> Queued(u)
             /\ Pends(u)' <=> Pends(u)
             /\ Calls(u)' <=> Calls(u)
             /\ Refused(u)' => Refused(u) \/ u = t
  BY <1>3 DEF Waits, Queued, Pends, Calls, Refused
<1>5. TypeOK'
  BY <1>1, <1>3 DEF WebDatabaseInv, TypeOK
<1>6. ListsInv' /\ TasksInv'
  BY <1>3 DEF WebDatabaseInv, ListsInv, TasksInv, TaskInv
<1>7. PlacesInv'
  BY <1>1, <1>2, <1>4 DEF WebDatabaseInv, PlacesInv, PlaceInv, Live
<1>8. ThreadInv'
  BY <1>1, <1>2, <1>4 DEF WebDatabaseInv, ThreadInv, ControlInv, Live, Down
<1>9. RecordsInv'
  <2>1. RecordInv(t)'
    BY <1>1, <1>2, <1>4 DEF RecordInv, Live, Down
  <2>2. ASSUME NEW u \in Transactions, u # t PROVE RecordInv(u)'
    <3>1. RecordInv(u)
      BY DEF WebDatabaseInv, RecordsInv
    <3> QED BY <1>2, <1>4, <2>2, <3>1 DEF RecordInv, Live, Down
  <2> QED BY <2>1, <2>2 DEF RecordsInv
<1>10. LocksInv'
  BY <1>1, <1>2 DEF WebDatabaseInv, LocksInv, LockInv, Down
<1>11. TurnsInv'
  BY <1>1, <1>2, <1>4 DEF WebDatabaseInv, TurnsInv, Live
<1> QED BY <1>5, <1>6, <1>7, <1>8, <1>9, <1>10, <1>11 DEF WebDatabaseInv

\* Database::runTransaction
LEMMA RunStep ==
    ASSUME WebDatabaseInv, NEW t \in Transactions, RunTransaction(t)
    PROVE  WebDatabaseInv'
<1> USE WebDatabaseAssumption
<1>1. PICK d \in Databases : d = DatabaseOf[t]
  OBVIOUS
<1>2. /\ ~tx[t].born /\ db[d].created
      /\ UNCHANGED <<killed, thread, running, coordinator, originLock, awaited>>
  BY <1>1 DEF RunTransaction
<1>3. /\ tx \in [Transactions -> Transaction] /\ tx[t] \in Transaction
      /\ Fresh(tx[t]) /\ ~tx[t].cleaned /\ Coherent(tx[t])
      /\ tx[t].next = "Idle" /\ tx[t].requested = "Idle" /\ ~Waits(t)
  BY <1>2, NewTransaction
<1>4. CASE db[d].enabled
  <2>1. PICK r : /\ r = [tx[t] EXCEPT !.born = TRUE, !.requested = "AcquireLock"]
                 /\ tx' = [tx EXCEPT ![t] = r]
    BY <1>1, <1>3, <1>4 DEF RunTransaction
  <2>2. /\ r \in Transaction /\ r.born /\ ~r.cleaned /\ ~r.locked /\ r.next = "Idle"
        /\ r.requested = "AcquireLock" /\ r.sqlite = "none" /\ r.frontend \in {"Idle", "End"}
    BY <1>3, <2>1 DEF Transaction, Fresh, States
  <2>3. Begun(r)
    <3>1. Coherent(r)
      BY <1>3, <2>1 DEF Coherent, Fresh, Working, Ending, Transaction
    <3> QED BY <2>2, <3>1 DEF Begun
  <2>4. PICK a : a = [db[d] EXCEPT !.waiting = Append(db[d].waiting, t)]
    OBVIOUS
  <2>5. /\ \/ db[d].inProgress /\ db' = [db EXCEPT ![d] = a] /\ queue' = queue
           \/ /\ ~db[d].inProgress /\ db' = [db EXCEPT ![d] = ScheduleTransaction(a)]
              /\ queue' = queue \o NextTransaction(a)
        /\ posted' = posted
    BY <1>1, <1>4, <2>4 DEF RunTransaction
  <2>6. db[d] \in Database /\ db[d].waiting \in Seq(Transactions) /\ NoDuplicates(db[d].waiting)
    BY DEF WebDatabaseInv, TypeOK, ListsInv, Database
  <2>7. /\ Append(db[d].waiting, t) \in Seq(Transactions) /\ NoDuplicates(Append(db[d].waiting, t))
        /\ Listed(Append(db[d].waiting, t)) = Listed(db[d].waiting) \cup {t}
    BY <1>1, <1>3, <2>6, ListAppend DEF Waits
  <2>8. /\ a \in Database /\ a.asked = db[d].asked /\ a.created = db[d].created
        /\ a.opened = db[d].opened /\ a.enabled = db[d].enabled
        /\ a.inProgress = db[d].inProgress /\ a.waiting = Append(db[d].waiting, t)
    BY <2>4, <2>6, <2>7 DEF Database
  <2>9. CASE db[d].inProgress
    <3>1. db' = [db EXCEPT ![d] = a] /\ queue' = queue
      BY <2>5, <2>9
    <3>2. Filed(t, d, a)
      BY <2>7, <2>8, <2>9, <3>1 DEF Filed
    <3> QED BY <1>1, <1>2, <1>4, <2>1, <2>2, <2>3, <2>5, <2>8, <3>1, <3>2, AcceptedStep
  <2>10. CASE ~db[d].inProgress
    <3>1. db[d].waiting = <<>>
      BY <2>10 DEF WebDatabaseInv, TurnsInv
    <3>2. a.waiting = <<t>> /\ a.waiting # <<>> /\ Head(a.waiting) = t /\ Tail(a.waiting) = <<>>
      <4>1. Append(<<>>, t) = <<t>>
        OBVIOUS
      <4>2. Head(<<t>>) = t /\ Tail(<<t>>) = <<>> /\ <<t>> # <<>>
        OBVIOUS
      <4> QED BY <2>8, <3>1, <4>1, <4>2
    <3>3. PICK b : b = ScheduleTransaction(a)
      OBVIOUS
    <3>4. b = [a EXCEPT !.waiting = <<>>, !.inProgress = TRUE]
      BY <1>4, <2>8, <3>2, <3>3 DEF ScheduleTransaction
    <3>5. /\ b \in Database /\ b.asked = db[d].asked /\ b.created = db[d].created
          /\ b.opened = db[d].opened /\ b.enabled = db[d].enabled
          /\ b.inProgress /\ b.waiting = <<>>
      <4>1. PICK w : w = <<>>
        OBVIOUS
      <4>2. w \in Seq(Transactions)
        BY <4>1
      <4>3. b = [a EXCEPT !.waiting = w, !.inProgress = TRUE]
        BY <3>4, <4>1
      <4> QED BY <2>8, <4>1, <4>2, <4>3 DEF Database
    <3>6. NoDuplicates(b.waiting)
      BY <3>5 DEF NoDuplicates
    <3>7. NextTransaction(a) = Steps(<<t>>)
      <4>1. NextTransaction(a) = <<Step(t)>>
        BY <1>4, <2>8, <3>2 DEF NextTransaction
      <4>2. DOMAIN <<t>> = 1..1 /\ <<t>>[1] = t
        OBVIOUS
      <4>3. Steps(<<t>>) = [i \in 1..1 |-> Step(t)]
        BY <4>2 DEF Steps
      <4> QED BY <4>1, <4>3
    <3>8. db' = [db EXCEPT ![d] = b] /\ queue' = queue \o Steps(<<t>>)
      BY <2>5, <2>10, <3>3, <3>7
    <3>9. Filed(t, d, b)
      BY <2>10, <3>5, <3>6, <3>8 DEF Filed
    <3> QED BY <1>1, <1>2, <1>4, <2>1, <2>2, <2>3, <2>5, <3>5, <3>8, <3>9, AcceptedStep
  <2> QED BY <2>9, <2>10
<1>5. CASE ~db[d].enabled
  <2>1. PICK r : /\ r = [tx[t] EXCEPT !.born = TRUE, !.next = "End", !.cleaned = TRUE]
                 /\ tx' = [tx EXCEPT ![t] = r]
    BY <1>1, <1>3, <1>5 DEF RunTransaction
  <2>2. /\ r \in Transaction /\ r.born /\ r.cleaned /\ ~r.locked /\ r.next = "End"
        /\ r.requested = "Idle" /\ r.sqlite = "none"
    BY <1>3, <2>1 DEF Transaction, Fresh, States
  <2>3. Coherent(r) /\ Fresh([r EXCEPT !.told = "nothing"])
    BY <1>3, <2>1 DEF Coherent, Fresh, Working, Ending, Transaction
  <2>4. /\ posted' = IF t \in ErrorCallback THEN Append(posted, <<"refusal", t>>) ELSE posted
        /\ UNCHANGED <<db, queue>>
    BY <1>1, <1>5 DEF RunTransaction
  <2> QED BY <1>1, <1>2, <2>1, <2>2, <2>3, <2>4, RefusedStep
<1> QED BY <1>4, <1>5

-----------------------------------------------------------------------------
(* Locks that are passed on.                                                *)

\* The record of a transaction that the coordinator lets through.
Let(tr) == [Requested(tr, "OpenTransactionAndPreflight") EXCEPT !.locked = TRUE]

\* lockAcquired() leaves a coherent transaction.
LEMMA LetRecord ==
    ASSUME NEW tr \in Transaction, Coherent(tr), Fresh(tr), tr.requested = "Idle",
           tr.next \in {"Idle", "End"}
    PROVE  /\ Let(tr) \in Transaction /\ Coherent(Let(tr))
           /\ Let(tr).born = tr.born /\ Let(tr).cleaned = tr.cleaned
           /\ Let(tr).next = tr.next /\ Let(tr).locked /\ Let(tr).sqlite = "none"
           /\ Let(tr).requested = "OpenTransactionAndPreflight"
           /\ Let(tr).frontend \in {"Idle", "End"}
<1>1. PICK r : r = Let(tr)
  OBVIOUS
<1>2. r = [tr EXCEPT !.requested = "OpenTransactionAndPreflight", !.locked = TRUE]
  BY <1>1 DEF Let, Requested
<1>3. /\ r \in Transaction
      /\ r.born = tr.born /\ r.cleaned = tr.cleaned
      /\ r.next = tr.next /\ r.locked /\ r.sqlite = "none"
      /\ r.requested = "OpenTransactionAndPreflight"
      /\ r.frontend \in {"Idle", "End"}
  BY <1>2 DEF Transaction, States, Fresh
<1>4. Coherent(r)
  BY <1>2 DEF Coherent, Fresh, Working, Ending, Transaction
<1> QED BY <1>1, <1>3, <1>4

\* The record that doCleanup leaves.
LEMMA CleanRecord ==
    ASSUME NEW tr \in Transaction, Coherent(tr), tr.next # "PostflightAndCommit"
    PROVE  /\ Cleaned(tr) \in Transaction /\ Coherent(Cleaned(tr))
           /\ Cleaned(tr).cleaned /\ Cleaned(tr).sqlite = "none"
           /\ Cleaned(tr).born = tr.born /\ Cleaned(tr).locked = tr.locked
           /\ Cleaned(tr).next = tr.next /\ Cleaned(tr).requested = tr.requested
           /\ Cleaned(tr).frontend = tr.frontend
           /\ Fresh(tr) => Fresh(Cleaned(tr))
           /\ Cleaned(tr).told = tr.told
<1>1. PICK r : r = Cleaned(tr)
  OBVIOUS
<1>2. CASE tr.cleaned
  BY <1>1, <1>2 DEF Cleaned, Coherent, Transaction
<1>3. CASE ~tr.cleaned
  <2>1. r = [tr EXCEPT !.cleaned = TRUE, !.statements = 0, !.sqlite = "none"]
    BY <1>1, <1>3 DEF Cleaned
  <2>2. 0 \in 0 .. MaxStatements /\ tr.issued \in 0 .. MaxStatements
    BY WebDatabaseAssumption DEF Transaction
  <2>3. /\ r \in Transaction /\ r.cleaned /\ r.sqlite = "none"
        /\ r.born = tr.born /\ r.locked = tr.locked
        /\ r.next = tr.next /\ r.requested = tr.requested /\ r.frontend = tr.frontend
        /\ r.told = tr.told
    BY <2>1, <2>2 DEF Transaction
  <2>4. Fresh(tr) => Fresh(r)
    BY <2>1 DEF Transaction, Fresh
  <2>5. Coherent(r)
    BY <2>1, <2>2 DEF Coherent, Fresh, Working, Ending, Transaction
  <2> QED BY <1>1, <2>3, <2>4, <2>5
<1> QED BY <1>2, <1>3

\* What a task does to a transaction that is not its own: nothing, or it lets it
\* through.
Untouched(u) ==
    /\ tx'[u] = tx[u]
    /\ Waits(u)' <=> Waits(u)
    /\ Queued(u)' <=> Queued(u)
    /\ Pends(u)' <=> Pends(u)
    /\ Calls(u)' <=> Calls(u)
    /\ Refused(u)' <=> Refused(u)
    /\ (u \in Active(coordinator))' <=> u \in Active(coordinator)

LetThrough(u) ==
    /\ Pends(u) /\ tx'[u] = Let(tx[u])
    /\ Waits(u)' <=> Waits(u)
    /\ Queued(u)'
    /\ ~Pends(u)'
    /\ Calls(u)' <=> Calls(u)
    /\ Refused(u)' <=> Refused(u)
    /\ (u \in Active(coordinator))'

\* The task was t's, or the step of t that runs, and it is done.
TaskEnds(u) ==
    /\ thread \in {"waiting", "running"} /\ thread' = "waiting"
    /\ running # u /\ running' # u /\ killed' = killed
    /\ ~Down /\ ~Down'
    /\ originLock' = u <=> originLock = u
    /\ db'[DatabaseOf[u]].created = db[DatabaseOf[u]].created
    /\ db'[DatabaseOf[u]].enabled = db[DatabaseOf[u]].enabled
    /\ db'[DatabaseOf[u]].opened = db[DatabaseOf[u]].opened

AllOf(u) == PlaceInv(u) /\ ControlInv(u) /\ RecordInv(u) /\ LockInv(u)

\* A task that is not a transaction's own keeps what the invariant says of it.
LEMMA Bystander ==
    ASSUME NEW u \in Transactions, tx[u] \in Transaction, AllOf(u),
           TaskEnds(u), Untouched(u) \/ LetThrough(u)
    PROVE  /\ tx'[u] \in Transaction /\ AllOf(u)'
           /\ Live(u)' <=> Live(u)
           /\ Waits(u)' <=> Waits(u)
<1>1. CASE Untouched(u)
  <2> USE <1>1 DEF Untouched, TaskEnds
  <2>1. PlaceInv(u)'
    BY DEF PlaceInv, Live, AllOf
  <2>2. ControlInv(u)'
    BY DEF ControlInv, Live, Down, AllOf
  <2>3. RecordInv(u)'
    BY DEF RecordInv, Live, Down, AllOf
  <2>4. LockInv(u)'
    BY DEF LockInv, Down, AllOf
  <2> QED BY <2>1, <2>2, <2>3, <2>4 DEF AllOf, Live
<1>2. CASE LetThrough(u)
  <2>1. PICK r : r = tx'[u]
    OBVIOUS
  <2>2. /\ Fresh(tx[u]) /\ Coherent(tx[u]) /\ tx[u].requested = "Idle"
        /\ tx[u].next \in {"Idle", "End"} /\ tx[u].born /\ ~tx[u].cleaned
        /\ ~Waits(u) /\ ~Queued(u) /\ ~Calls(u) /\ ~Refused(u)
        /\ db[DatabaseOf[u]].created /\ originLock # u
    BY <1>2 DEF LetThrough, AllOf, RecordInv, ControlInv, PlaceInv, LockInv, TaskEnds, Fresh
  <2>3. /\ r \in Transaction /\ Coherent(r) /\ r.born /\ ~r.cleaned
        /\ r.next = tx[u].next /\ r.locked /\ r.sqlite = "none"
        /\ r.requested = "OpenTransactionAndPreflight"
        /\ r.frontend \in {"Idle", "End"}
    BY <1>2, <2>1, <2>2, LetRecord DEF LetThrough
  <2> HIDE DEF Let
  <2>4. PlaceInv(u)'
    BY <1>2, <2>1, <2>2, <2>3 DEF PlaceInv, Live, LetThrough, TaskEnds
  <2>5. ControlInv(u)'
    BY <1>2, <2>1, <2>2, <2>3 DEF ControlInv, Live, LetThrough, TaskEnds
  <2>6. RecordInv(u)'
    BY <1>2, <2>1, <2>2, <2>3 DEF RecordInv, Live, LetThrough, TaskEnds
  <2>7. LockInv(u)'
    BY <1>2, <2>1, <2>2, <2>3 DEF LockInv, LetThrough, TaskEnds
  <2> QED BY <1>2, <2>1, <2>2, <2>3, <2>4, <2>5, <2>6, <2>7 DEF AllOf, Live, LetThrough
<1> QED BY <1>1, <1>2

\* What passing locks on leaves of the coordinator and of the queue, when nobody
\* that asks has a step in the queue.
LEMMA LocksPassed ==
    ASSUME NEW info \in Coordinator, NoDuplicates(info.pending), Exclusive(info),
           NEW q \in Seq(Tasks), NoDuplicates(q),
           \A u \in Listed(info.pending) : Step(u) \notin Listed(q),
           coordinator' = ProcessPendingTransactions(info)
    PROVE  /\ coordinator' \in Coordinator /\ NoDuplicates(coordinator'.pending)
           /\ Exclusive(coordinator') /\ (Down' <=> info.shuttingDown)
           /\ q \o Steps(Granted(info)) \in Seq(Tasks) /\ NoDuplicates(q \o Steps(Granted(info)))
           /\ Listed(Granted(info)) \subseteq Listed(info.pending)
           /\ \A u \in Transactions :
                 /\ Pends(u)' <=> u \in Listed(info.pending) \ Listed(Granted(info))
                 /\ Step(u) \in Listed(q \o Steps(Granted(info))) <=>
                        (Step(u) \in Listed(q) \/ u \in Listed(Granted(info)))
                 /\ u \in Active(coordinator') <=> (u \in Active(info) \/ u \in Listed(Granted(info)))
           /\ \A d \in Databases :
                 /\ <<"open", d>> \in Listed(q \o Steps(Granted(info))) <=>
                        <<"open", d>> \in Listed(q)
                 /\ <<"close", d>> \in Listed(q \o Steps(Granted(info))) <=>
                        <<"close", d>> \in Listed(q)
<1>1. PICK g : g = Granted(info)
  OBVIOUS
<1>q. PICK q2 : q2 = q \o Steps(Granted(info))
  OBVIOUS
<1>2. /\ g \in Seq(Transactions) /\ NoDuplicates(g)
      /\ Listed(g) \subseteq Listed(info.pending)
      /\ coordinator' \in Coordinator /\ NoDuplicates(coordinator'.pending)
      /\ Exclusive(coordinator')
      /\ Listed(coordinator'.pending) = Listed(info.pending) \ Listed(g)
      /\ Active(coordinator') = Active(info) \cup Listed(g)
      /\ coordinator'.shuttingDown = info.shuttingDown
  BY <1>1, Grants
<1>3. /\ q2 \in Seq(Tasks) /\ NoDuplicates(q2)
      /\ Listed(q2) = Listed(q) \cup {Step(u) : u \in Listed(g)}
  BY <1>1, <1>q, <1>2, QueueGrows
<1>4. ASSUME NEW u \in Transactions
      PROVE  /\ Pends(u)' <=> u \in Listed(info.pending) \ Listed(g)
             /\ Step(u) \in Listed(q2) <=> (Step(u) \in Listed(q) \/ u \in Listed(g))
             /\ u \in Active(coordinator') <=> (u \in Active(info) \/ u \in Listed(g))
  BY <1>2, <1>3 DEF Pends, Step
<1>5. ASSUME NEW d \in Databases
      PROVE  /\ <<"open", d>> \in Listed(q2) <=> <<"open", d>> \in Listed(q)
             /\ <<"close", d>> \in Listed(q2) <=> <<"close", d>> \in Listed(q)
  BY <1>3 DEF Step
<1> QED BY <1>1, <1>q, <1>2, <1>3, <1>4, <1>5 DEF Down

\* lockAcquired() of those who are let through.
LEMMA PassedRecords ==
    ASSUME NEW txs, NEW info, NEW u \in Transactions
    PROVE  LocksGranted(txs, info)[u] =
               IF u \in Listed(Granted(info)) THEN Let(txs[u]) ELSE txs[u]
BY DEF LocksGranted, Let, ToSet, Listed

\* What a coordinator that was asked looks like.
LEMMA AskingKeeps ==
    ASSUME NEW info \in Coordinator, NoDuplicates(info.pending), Exclusive(info),
           NEW t \in Transactions, t \notin Listed(info.pending)
    PROVE  /\ Asking(info, t) \in Coordinator /\ NoDuplicates(Asking(info, t).pending)
           /\ Exclusive(Asking(info, t)) /\ Active(Asking(info, t)) = Active(info)
           /\ Listed(Asking(info, t).pending) = Listed(info.pending) \cup {t}
           /\ Asking(info, t).shuttingDown = info.shuttingDown
<1>1. PICK p : p = Append(info.pending, t)
  OBVIOUS
<1>2. info.pending \in Seq(Transactions)
  BY DEF Coordinator
<1>3. /\ p \in Seq(Transactions) /\ NoDuplicates(p)
      /\ Listed(p) = Listed(info.pending) \cup {t}
  BY <1>1, <1>2, ListAppend
<1>4. PICK i : i = Asking(info, t)
  OBVIOUS
<1>5. i = [info EXCEPT !.pending = p]
  BY <1>1, <1>4 DEF Asking
<1>6. /\ i \in Coordinator /\ i.pending = p /\ i.readers = info.readers
      /\ i.writers = info.writers /\ i.shuttingDown = info.shuttingDown
  BY <1>3, <1>5 DEF Coordinator
<1> QED BY <1>3, <1>4, <1>6 DEF Exclusive, Active

\* What a coordinator that got a lock back looks like.
LEMMA WithoutKeeps ==
    ASSUME NEW info \in Coordinator, NoDuplicates(info.pending), Exclusive(info),
           NEW t \in Transactions, ~info.shuttingDown
    PROVE  /\ Without(info, t) \in Coordinator /\ Without(info, t).pending = info.pending
           /\ Exclusive(Without(info, t)) /\ Active(Without(info, t)) = Active(info) \ {t}
           /\ ~Without(info, t).shuttingDown
<1>1. PICK i : i = Without(info, t)
  OBVIOUS
<1>2. i = [info EXCEPT !.readers = info.readers \ {t}, !.writers = info.writers \ {t}]
  BY <1>1 DEF Without
<1>3. /\ i \in Coordinator /\ i.pending = info.pending /\ i.readers = info.readers \ {t}
      /\ i.writers = info.writers \ {t} /\ i.shuttingDown = info.shuttingDown
  BY <1>2 DEF Coordinator
<1> QED BY <1>1, <1>3 DEF Exclusive, Active

\* The parts of the invariant that are about one transaction each.
LEMMA EachOne ==
    ASSUME WebDatabaseInv, NEW u \in Transactions
    PROVE  tx[u] \in Transaction /\ AllOf(u)
BY DEF WebDatabaseInv, TypeOK, PlacesInv, ThreadInv, RecordsInv, LocksInv, AllOf

\* acquireLock of the coordinator: whoever is let through, the asker or not.
LEMMA AcquireStep ==
    ASSUME WebDatabaseInv, NEW t \in Transactions, AcquireLock(t)
    PROVE  WebDatabaseInv'
<1> USE WebDatabaseAssumption
<1> DEFINE info == Asking(coordinator, t)
           g == Granted(info)
           base == [tx EXCEPT ![t].next = "Idle"]
<1>1. /\ running = t /\ thread = "running" /\ tx[t].next = "AcquireLock"
      /\ tx' = LocksGranted(base, info) /\ coordinator' = ProcessPendingTransactions(info)
      /\ queue' = queue \o Steps(g) /\ thread' = "waiting" /\ running' = NoTransaction
      /\ UNCHANGED <<db, killed, originLock, posted, awaited>>
  BY DEF AcquireLock, Runs, TaskDone
<1>2. /\ tx[t] \in Transaction /\ Coherent(tx[t]) /\ Live(t)
      /\ tx[t].requested = "Idle" /\ tx[t].frontend \in {"Idle", "End"}
  BY <1>1, Running
<1>3. tx \in [Transactions -> Transaction] /\ AllOf(t)
  BY EachOne DEF WebDatabaseInv, TypeOK
<1>4. Fresh(tx[t]) /\ ~tx[t].locked /\ tx[t].sqlite = "none"
  BY <1>1, <1>2 DEF Coherent, Fresh
<1>5. /\ ~Waits(t) /\ ~Queued(t) /\ ~Pends(t) /\ ~Calls(t) /\ ~Refused(t)
      /\ t \notin Active(coordinator) /\ originLock # t
  BY <1>1, <1>2, <1>3, <1>4 DEF AllOf, PlaceInv, RecordInv, LockInv, Live
<1>6. ~Down /\ db[DatabaseOf[t]].opened /\ db[DatabaseOf[t]].created
  BY <1>1, <1>3, <1>2 DEF WebDatabaseInv, ThreadInv, AllOf, ControlInv, RecordInv, Live
<1>7. /\ coordinator \in Coordinator /\ NoDuplicates(coordinator.pending)
      /\ Exclusive(coordinator) /\ t \notin Listed(coordinator.pending)
  BY <1>5 DEF WebDatabaseInv, ListsInv, LocksInv, Pends
<1>8. /\ info \in Coordinator /\ NoDuplicates(info.pending) /\ Exclusive(info)
      /\ Active(info) = Active(coordinator) /\ ~info.shuttingDown
      /\ Listed(info.pending) = Listed(coordinator.pending) \cup {t}
  BY <1>6, <1>7, AskingKeeps DEF Down
<1>9. \A u \in Listed(info.pending) : Step(u) \notin Listed(queue)
  <2>1. ASSUME NEW u \in Listed(coordinator.pending) PROVE Step(u) \notin Listed(queue)
    <3>1. u \in Transactions
      BY <1>7 DEF Coordinator, Listed
    <3> QED BY <3>1, <2>1 DEF WebDatabaseInv, PlacesInv, PlaceInv, Pends, Queued
  <2> QED BY <1>5, <1>8, <2>1 DEF Queued
<1>10. queue \in Seq(Tasks) /\ NoDuplicates(queue)
  BY DEF WebDatabaseInv, TypeOK, ListsInv
<1>11. \A u \in Transactions : tx'[u] = IF u \in Listed(g) THEN Let(base[u]) ELSE base[u]
  BY <1>1, PassedRecords
<1> HIDE DEF info
<1>12. /\ coordinator' \in Coordinator /\ NoDuplicates(coordinator'.pending)
       /\ Exclusive(coordinator') /\ ~Down'
       /\ queue' \in Seq(Tasks) /\ NoDuplicates(queue')
       /\ Listed(g) \subseteq Listed(info.pending)
       /\ \A u \in Transactions :
             /\ Pends(u)' <=> u \in Listed(info.pending) \ Listed(g)
             /\ Step(u) \in Listed(queue') <=> (Step(u) \in Listed(queue) \/ u \in Listed(g))
             /\ u \in Active(coordinator') <=> (u \in Active(info) \/ u \in Listed(g))
       /\ \A d \in Databases :
             /\ <<"open", d>> \in Listed(queue') <=> <<"open", d>> \in Listed(queue)
             /\ <<"close", d>> \in Listed(queue') <=> <<"close", d>> \in Listed(queue)
  BY <1>1, <1>8, <1>9, <1>10, LocksPassed
<1>q. \A u \in Transactions : Queued(u)' <=> (Queued(u) \/ u \in Listed(g))
  BY <1>12 DEF Queued
<1>13. PICK b : b = [tx[t] EXCEPT !.next = "Idle"]
  OBVIOUS
<1>14. base[t] = b /\ \A u \in Transactions : u # t => base[u] = tx[u]
  BY <1>3, <1>13
<1> HIDE DEF base, g
<1>15. /\ b \in Transaction /\ b.next = "Idle" /\ Fresh(b) /\ SameStanding(b, tx[t])
       /\ b.requested = "Idle" /\ b.frontend = tx[t].frontend
  BY <1>2, <1>4, <1>13 DEF Transaction, States, Fresh, SameStanding
<1>16. Coherent(b)
  BY <1>2, <1>4, <1>13, <1>15 DEF Coherent, Working, Ending, Fresh, Transaction
<1>17. ASSUME NEW u \in Transactions
       PROVE  /\ Waits(u)' <=> Waits(u)
              /\ Calls(u)' <=> Calls(u)
              /\ Refused(u)' <=> Refused(u)
              /\ running' # u
  BY <1>1 DEF Waits, Calls, Refused
<1>18. tx'[t] \in Transaction /\ AllOf(t)' /\ Live(t)'
  <2>1. PICK r : r = tx'[t]
    OBVIOUS
  <2>2. ASSUME r \in Transaction, Coherent(r), SameStanding(r, tx[t]) \/ r.locked,
               r.born, ~r.cleaned, r.next = "Idle", r.sqlite = "none",
               r.frontend \in {"Idle", "End"},
               \/ /\ t \notin Listed(g) /\ Pends(t)' /\ ~Queued(t)' /\ ~r.locked
                  /\ Fresh(r) /\ r.requested = "Idle" /\ t \notin Active(coordinator')
               \/ /\ t \in Listed(g) /\ ~Pends(t)' /\ Queued(t)' /\ r.locked
                  /\ r.requested = "OpenTransactionAndPreflight" /\ t \in Active(coordinator')
        PROVE  tx'[t] \in Transaction /\ AllOf(t)' /\ Live(t)'
    <3>1. PlaceInv(t)'
      BY <1>5, <1>17, <2>1, <2>2 DEF PlaceInv, Live
    <3>2. ControlInv(t)'
      BY <1>1, <1>17, <2>1, <2>2 DEF ControlInv, Live
    <3>3. RecordInv(t)'
      BY <1>1, <1>5, <1>6, <1>17, <2>1, <2>2 DEF RecordInv, Live
    <3>4. LockInv(t)'
      BY <1>1, <1>5, <2>1, <2>2 DEF LockInv
    <3> QED BY <2>1, <2>2, <3>1, <3>2, <3>3, <3>4 DEF AllOf, Live
  <2>3. CASE t \in Listed(g)
    <3>1. r = Let(b)
      BY <1>11, <1>14, <2>1, <2>3
    <3>2. /\ r \in Transaction /\ Coherent(r) /\ r.born = b.born /\ r.cleaned = b.cleaned
          /\ r.next = b.next /\ r.locked /\ r.sqlite = "none"
          /\ r.requested = "OpenTransactionAndPreflight"
          /\ r.frontend \in {"Idle", "End"}
      BY <1>15, <1>16, <3>1, LetRecord
    <3> HIDE DEF Let
    <3>3. ~Pends(t)' /\ Queued(t)' /\ t \in Active(coordinator')
      BY <1>12, <1>q, <2>3
    <3> QED BY <1>2, <1>15, <2>2, <2>3, <3>2, <3>3 DEF SameStanding, Live
  <2>4. CASE t \notin Listed(g)
    <3>1. r = b
      BY <1>11, <1>14, <2>1, <2>4
    <3>2. Pends(t)' /\ ~Queued(t)' /\ t \notin Active(coordinator')
      BY <1>5, <1>8, <1>12, <1>q, <2>4
    <3> QED BY <1>2, <1>4, <1>15, <1>16, <2>2, <2>4, <3>1, <3>2 DEF SameStanding, Live, Fresh
  <2> QED BY <2>3, <2>4
<1>19. ASSUME NEW u \in Transactions, u # t
       PROVE  /\ tx'[u] \in Transaction /\ AllOf(u)'
              /\ Live(u)' <=> Live(u)
  <2>1. tx[u] \in Transaction /\ AllOf(u)
    BY EachOne
  <2>2. TaskEnds(u)
    BY <1>1, <1>6, <1>12, <1>17, <1>19 DEF TaskEnds
  <2>3. CASE u \in Listed(g)
    <3>1. Pends(u) /\ tx'[u] = Let(tx[u])
      BY <1>8, <1>11, <1>12, <1>14, <1>19, <2>3 DEF Pends
    <3>2. LetThrough(u)
      BY <1>12, <1>q, <1>17, <2>3, <3>1 DEF LetThrough
    <3> QED BY <2>1, <2>2, <3>2, Bystander
  <2>4. CASE u \notin Listed(g)
    <3>1. Untouched(u)
      BY <1>8, <1>11, <1>12, <1>q, <1>14, <1>17, <1>19, <2>4 DEF Untouched, Pends
    <3> QED BY <2>1, <2>2, <3>1, Bystander
  <2> QED BY <2>3, <2>4
<1>20. ASSUME NEW u \in Transactions
       PROVE  tx'[u] \in Transaction /\ AllOf(u)' /\ (Live(u)' <=> Live(u))
  BY <1>2, <1>18, <1>19
<1>21. TypeOK'
  <2>1. tx' \in [Transactions -> Transaction]
    BY <1>1, <1>20 DEF LocksGranted
  <2> QED BY <1>1, <1>12, <2>1 DEF WebDatabaseInv, TypeOK, Coordinator
<1>22. ListsInv' /\ TasksInv'
  BY <1>1, <1>12 DEF WebDatabaseInv, ListsInv, TasksInv, TaskInv
<1>23. PlacesInv' /\ RecordsInv' /\ LocksInv'
  BY <1>12, <1>20 DEF AllOf, PlacesInv, RecordsInv, LocksInv
<1>24. ThreadInv'
  BY <1>1, <1>12, <1>20 DEF AllOf, ThreadInv
<1>25. TurnsInv'
  BY <1>1, <1>17, <1>20 DEF WebDatabaseInv, TurnsInv
<1> QED BY <1>21, <1>22, <1>23, <1>24, <1>25 DEF WebDatabaseInv

\* What doCleanup leaves when t's record is to be b without its resources, g are
\* let through and the queue grows from q to q2.
PassedOn(t, b, g, q, q2) ==
    /\ coordinator' \in Coordinator /\ NoDuplicates(coordinator'.pending)
    /\ Exclusive(coordinator') /\ ~Down'
    /\ q2 \in Seq(Tasks) /\ NoDuplicates(q2)
    /\ t \notin Listed(g) /\ tx'[t] = Cleaned(b) /\ originLock' # t
    /\ t \notin Active(coordinator') /\ ~Pends(t)'
    /\ Step(t) \in Listed(q2) <=> Step(t) \in Listed(q)
    /\ \A u \in Transactions : u \in Listed(g) => Pends(u)
    /\ \A u \in Transactions : u # t =>
          /\ tx'[u] = IF u \in Listed(g) THEN Let(tx[u]) ELSE tx[u]
          /\ Pends(u)' <=> Pends(u) /\ u \notin Listed(g)
          /\ Step(u) \in Listed(q2) <=> (Step(u) \in Listed(q) \/ u \in Listed(g))
          /\ u \in Active(coordinator') <=> (u \in Active(coordinator) \/ u \in Listed(g))
          /\ originLock' = u <=> originLock = u
    /\ originLock' \in (Transactions \ ReadOnly) \cup {NoTransaction, Other}
    /\ \A d \in Databases :
          /\ <<"open", d>> \in Listed(q2) <=> <<"open", d>> \in Listed(q)
          /\ <<"close", d>> \in Listed(q2) <=> <<"close", d>> \in Listed(q)
    /\ tx' = [u \in Transactions |-> tx'[u]]

\* doCleanup of a live transaction that does not wait for a lock: it gives back
\* the one it may have, and the coordinator passes it on.
LEMMA CleanupPasses ==
    ASSUME WebDatabaseInv, NEW t \in Transactions, Live(t), ~Down, ~Pends(t),
           NEW q \in Seq(Tasks), NoDuplicates(q), Listed(q) \subseteq Listed(queue),
           NEW b, DoCleanup(t, [tx EXCEPT ![t] = b])
    PROVE  PassedOn(t, b, Granted(Released(t)), q, q \o Steps(Granted(Released(t))))
<1> USE WebDatabaseAssumption
<1> DEFINE base == [tx EXCEPT ![t] = b]
<1>1. PICK info : info = Released(t)
  OBVIOUS
<1>g. PICK g : g = Granted(Released(t))
  OBVIOUS
<1>q. PICK q2 : q2 = q \o Steps(Granted(Released(t)))
  OBVIOUS
<1>2. /\ tx' = [LocksGranted(base, info) EXCEPT ![t] = Cleaned(LocksGranted(base, info)[t])]
      /\ coordinator' = ProcessPendingTransactions(info)
      /\ originLock' = IF originLock = t THEN NoTransaction ELSE originLock
      /\ g = Granted(info)
  BY <1>1, <1>g DEF DoCleanup
<1>3. tx \in [Transactions -> Transaction] /\ AllOf(t)
  BY EachOne DEF WebDatabaseInv, TypeOK
<1>4. /\ coordinator \in Coordinator /\ NoDuplicates(coordinator.pending)
      /\ Exclusive(coordinator) /\ ~coordinator.shuttingDown
  BY DEF WebDatabaseInv, ListsInv, LocksInv, Down
<1>5. /\ info \in Coordinator /\ info.pending = coordinator.pending /\ Exclusive(info)
      /\ Active(info) = Active(coordinator) \ {t} /\ ~info.shuttingDown
  <2>1. CASE tx[t].locked
    BY <1>1, <1>4, <2>1, WithoutKeeps DEF Released, Live
  <2>2. CASE ~tx[t].locked
    <3>1. t \notin Active(coordinator)
      BY <1>3, <2>2 DEF AllOf, LockInv
    <3> QED BY <1>1, <1>4, <2>2, <3>1 DEF Released
  <2> QED BY <2>1, <2>2
<1>6. \A u \in Listed(info.pending) : Step(u) \notin Listed(q)
  <2>1. ASSUME NEW u \in Listed(coordinator.pending) PROVE Step(u) \notin Listed(q)
    <3>1. u \in Transactions
      BY <1>4 DEF Coordinator, Listed
    <3> QED BY <3>1, <2>1 DEF WebDatabaseInv, PlacesInv, PlaceInv, Pends, Queued
  <2> QED BY <1>5, <2>1
<1>7. /\ coordinator' \in Coordinator /\ NoDuplicates(coordinator'.pending)
      /\ Exclusive(coordinator') /\ (Down' <=> info.shuttingDown)
      /\ q2 \in Seq(Tasks) /\ NoDuplicates(q2)
      /\ Listed(g) \subseteq Listed(info.pending)
      /\ \A u \in Transactions :
            /\ Pends(u)' <=> u \in Listed(info.pending) \ Listed(g)
            /\ Step(u) \in Listed(q2) <=> (Step(u) \in Listed(q) \/ u \in Listed(g))
            /\ u \in Active(coordinator') <=> (u \in Active(info) \/ u \in Listed(g))
      /\ \A d \in Databases :
            /\ <<"open", d>> \in Listed(q2) <=> <<"open", d>> \in Listed(q)
            /\ <<"close", d>> \in Listed(q2) <=> <<"close", d>> \in Listed(q)
  BY <1>2, <1>g, <1>q, <1>4, <1>5, <1>6, LocksPassed
<1>8. /\ t \notin Listed(g)
      /\ \A u \in Transactions : u \in Listed(g) => Pends(u)
      /\ \A u \in Transactions : Pends(u)' <=> Pends(u) /\ u \notin Listed(g)
  BY <1>5, <1>7 DEF Pends
<1>9. /\ base[t] = b /\ \A u \in Transactions : u # t => base[u] = tx[u]
  BY <1>3
<1>10. \A u \in Transactions : LocksGranted(base, info)[u] =
               IF u \in Listed(g) THEN Let(base[u]) ELSE base[u]
  BY <1>2, PassedRecords
<1> HIDE DEF base
<1>11. PICK L : L = LocksGranted(base, info)
  OBVIOUS
<1>12. /\ tx' = [u \in Transactions |-> tx'[u]]
       /\ tx'[t] = Cleaned(L[t])
       /\ \A u \in Transactions : u # t => tx'[u] = L[u]
  <2>1. L = [u \in Transactions |-> L[u]]
    BY <1>11 DEF LocksGranted
  <2>2. tx' = [L EXCEPT ![t] = Cleaned(L[t])]
    BY <1>2, <1>11
  <2>3. tx' = [u \in Transactions |-> IF u = t THEN Cleaned(L[t]) ELSE L[u]]
    BY <2>1, <2>2
  <2> QED BY <2>3
<1>13. /\ tx'[t] = Cleaned(b)
       /\ \A u \in Transactions : u # t => tx'[u] = IF u \in Listed(g) THEN Let(tx[u]) ELSE tx[u]
  BY <1>8, <1>9, <1>10, <1>11, <1>12
<1>14. /\ originLock' # t /\ \A u \in Transactions : u # t => (originLock' = u <=> originLock = u)
       /\ originLock' \in (Transactions \ ReadOnly) \cup {NoTransaction, Other}
  BY <1>2 DEF WebDatabaseInv, TypeOK
<1>15. t \notin Active(coordinator') /\ ~Pends(t)' /\ ~Down'
  BY <1>5, <1>7, <1>8
<1>16. ASSUME NEW u \in Transactions, u # t
       PROVE  u \in Active(coordinator') <=> (u \in Active(coordinator) \/ u \in Listed(g))
  BY <1>5, <1>7, <1>16
<1> HIDE DEF Let
<1> QED BY <1>g, <1>q, <1>7, <1>8, <1>12, <1>13, <1>14, <1>15, <1>16 DEF PassedOn

\* The record of a transaction that ends and is cleaned up.
EndedAs(tr, f) ==
    [tr EXCEPT !.next = "End", !.frontend = f, !.cleaned = TRUE,
               !.statements = 0, !.sqlite = "none"]

\* It is coherent.
LEMMA EndedRecord ==
    ASSUME NEW tr \in Transaction, Coherent(tr), ~tr.cleaned,
           NEW f \in States, f = "End" \/ f = tr.frontend
    PROVE  /\ EndedAs(tr, f) \in Transaction /\ Coherent(EndedAs(tr, f))
           /\ EndedAs(tr, f).cleaned /\ EndedAs(tr, f).sqlite = "none"
           /\ EndedAs(tr, f).born = tr.born /\ EndedAs(tr, f).locked = tr.locked
           /\ EndedAs(tr, f).next = "End" /\ EndedAs(tr, f).frontend = f
           /\ EndedAs(tr, f).requested = tr.requested
<1>1. 0 \in 0 .. MaxStatements /\ tr.issued \in 0 .. MaxStatements
  BY WebDatabaseAssumption DEF Transaction
<1>2. PICK r : r = EndedAs(tr, f)
  OBVIOUS
<1>3. r = [tr EXCEPT !.next = "End", !.frontend = f, !.cleaned = TRUE,
                     !.statements = 0, !.sqlite = "none"]
  BY <1>2 DEF EndedAs
<1>4. r \in Transaction
  <2>1. "End" \in States
    BY DEF States
  <2> QED BY <1>1, <1>3, <2>1 DEF Transaction
<1>5. /\ r.cleaned /\ r.sqlite = "none" /\ r.statements = 0
      /\ r.born = tr.born /\ r.locked = tr.locked /\ r.next = "End"
      /\ r.requested = tr.requested /\ r.frontend = f
      /\ r.issued = tr.issued /\ r.committed = tr.committed /\ r.told = tr.told
  BY <1>3 DEF Transaction
<1>6. Coherent(r)
  <2>1. PICK tl : tl = [tr EXCEPT !.locked = FALSE]
    OBVIOUS
  <2>2. PICK rl : rl = [r EXCEPT !.locked = FALSE]
    OBVIOUS
  <2>3. Fresh(tl) => Fresh(rl)
    <3>1. /\ tl.frontend = tr.frontend /\ tl.issued = tr.issued
          /\ tl.committed = tr.committed /\ tl.told = tr.told
      BY <2>1 DEF Transaction
    <3>2. /\ ~rl.locked /\ rl.frontend = f /\ rl.issued = r.issued /\ rl.statements = 0
          /\ rl.committed = r.committed /\ rl.told = r.told /\ rl.sqlite = "none"
      BY <1>4, <1>5, <2>2 DEF Transaction
    <3> QED BY <1>5, <3>1, <3>2 DEF Fresh
  <2>4. Fresh(tr) => Fresh(r)
    BY <1>5 DEF Fresh
  <2> QED BY <1>1, <1>5, <2>1, <2>2, <2>3, <2>4 DEF Coherent, Working, Ending
<1> QED BY <1>2, <1>4, <1>5, <1>6

\* performNextStep of a transaction that ended: the task is the last of it.
LEMMA LastStep ==
    ASSUME WebDatabaseInv, NEW t \in Transactions, Takes(Step(t)),
           tx[t].cleaned, queue' = Tail(queue),
           UNCHANGED <<tx, db, killed, thread, running, coordinator, originLock,
                       posted, awaited>>
    PROVE  WebDatabaseInv'
<1>1. /\ queue' \in Seq(Tasks) /\ NoDuplicates(queue')
      /\ Listed(queue') = Listed(queue) \ {Step(t)} /\ ~Down
  BY TaskTaken
<1>2. ASSUME NEW u \in Transactions
      PROVE  /\ Waits(u)' <=> Waits(u)
             /\ Queued(u)' <=> (Queued(u) /\ u # t)
             /\ Pends(u)' <=> Pends(u)
             /\ Calls(u)' <=> Calls(u)
             /\ Refused(u)' <=> Refused(u)
  BY <1>1 DEF Waits, Queued, Pends, Calls, Refused, Step
<1>3. TypeOK' /\ ListsInv' /\ TasksInv' /\ LocksInv'
  BY <1>1 DEF WebDatabaseInv, TypeOK, ListsInv, TasksInv, TaskInv, LocksInv, LockInv, Down
<1>4. PlacesInv' /\ ThreadInv'
  BY <1>1, <1>2 DEF WebDatabaseInv, PlacesInv, PlaceInv, ThreadInv, ControlInv, Live, Down
<1>5. RecordsInv' /\ TurnsInv'
  BY <1>1, <1>2 DEF WebDatabaseInv, RecordsInv, RecordInv, TurnsInv, Live, Down
<1> QED BY <1>3, <1>4, <1>5 DEF WebDatabaseInv

\* performNextStep of a transaction whose database was closed.
LEMMA CancelsStep ==
    ASSUME WebDatabaseInv, NEW t \in Transactions, CancelStep(t)
    PROVE  WebDatabaseInv'
<1> USE WebDatabaseAssumption
<1>1. /\ UNCHANGED <<db, killed, thread, running, awaited>>
      /\ Takes(Step(t)) /\ ~db[DatabaseOf[t]].opened
  BY DEF CancelStep
<1>2. PICK q : q = Tail(queue)
  OBVIOUS
<1>3. /\ Queued(t) /\ q \in Seq(Tasks) /\ NoDuplicates(q)
      /\ Listed(q) = Listed(queue) \ {Step(t)}
      /\ thread = "waiting" /\ running = NoTransaction /\ ~Down
  BY <1>1, <1>2, TaskTaken DEF Queued
<1>4. /\ tx \in [Transactions -> Transaction] /\ tx[t] \in Transaction /\ AllOf(t)
      /\ ~Waits(t) /\ ~Pends(t) /\ ~Calls(t) /\ ~Refused(t) /\ tx[t].born
      /\ Coherent(tx[t]) /\ tx[t].next \in {"Idle", "End"}
      /\ db[DatabaseOf[t]].created
  BY <1>3, EachOne DEF WebDatabaseInv, TypeOK, AllOf, PlaceInv, RecordInv, ControlInv
<1>5. CASE tx[t].next = "End"
  <2>1. queue' = Tail(queue) /\ UNCHANGED <<tx, coordinator, originLock, posted>>
    BY <1>5 DEF CancelStep
  <2>2. tx[t].cleaned
    BY <1>4, <1>5 DEF Coherent
  <2> QED BY <1>1, <2>1, <2>2, LastStep
<1>6. CASE tx[t].next # "End"
  <2>1. PICK b : b = Cancelled(tx[t])
    OBVIOUS
  <2>2. /\ DoCleanup(t, [tx EXCEPT ![t] = b])
        /\ queue' = q \o Steps(Granted(Released(t)))
        /\ posted' = Append(posted, <<"callback", t>>)
    BY <1>2, <1>6, <1>4, <2>1 DEF CancelStep
  <2>3. ~tx[t].cleaned /\ tx[t].locked /\ Live(t)
    BY <1>1, <1>3, <1>4, <1>6 DEF AllOf, ControlInv, RecordInv, Live
  <2>4. PICK g : g = Granted(Released(t))
    OBVIOUS
  <2>5. PassedOn(t, b, g, q, queue')
    BY <1>3, <1>4, <2>2, <2>3, <2>4, CleanupPasses
  <2>6. PICK r : r = tx'[t]
    OBVIOUS
  <2>7. r = EndedAs(tx[t], "End")
    <3>1. r = Cleaned(b)
      BY <2>5, <2>6 DEF PassedOn
    <3> QED BY <1>4, <2>1, <2>3, <3>1 DEF Cleaned, Cancelled, Transaction, EndedAs
  <2>8. /\ r \in Transaction /\ Coherent(r) /\ r.cleaned /\ r.sqlite = "none"
        /\ r.born /\ r.locked /\ r.next = "End"
        /\ r.requested = tx[t].requested /\ r.frontend = "End"
    BY <1>4, <2>3, <2>7, EndedRecord DEF States
  <2>9. /\ posted' \in Seq({"callback", "refusal"} \X Transactions) /\ NoDuplicates(posted')
        /\ Listed(posted') = Listed(posted) \cup {<<"callback", t>>}
    <3>1. PICK x : x = <<"callback", t>>
      OBVIOUS
    <3>2. x \in {"callback", "refusal"} \X Transactions /\ x \notin Listed(posted)
      BY <1>4, <3>1 DEF Calls
    <3> QED BY <2>2, <3>1, <3>2, PostedGrows
  <2>10. ASSUME NEW u \in Transactions
         PROVE  /\ Waits(u)' <=> Waits(u)
                /\ Calls(u)' <=> (Calls(u) \/ u = t)
                /\ Refused(u)' <=> Refused(u)
                /\ running # u /\ running' # u
    BY <1>1, <1>3, <2>9 DEF Waits, Calls, Refused
  <2>11. ~Queued(t)' /\ ~Pends(t)' /\ t \notin Active(coordinator') /\ originLock' # t
    BY <1>3, <2>5 DEF PassedOn, Queued
  <2>12. AllOf(t)'
    <3>1. PlaceInv(t)'
      BY <1>4, <2>6, <2>8, <2>10, <2>11 DEF PlaceInv, Live
    <3>2. ControlInv(t)'
      BY <1>1, <1>3, <2>6, <2>8, <2>10, <2>11 DEF ControlInv, Live
    <3>3. RecordInv(t)'
      BY <1>1, <1>4, <2>6, <2>8, <2>10, <2>11 DEF RecordInv, Live
    <3>4. LockInv(t)'
      BY <2>6, <2>8, <2>11 DEF LockInv
    <3> QED BY <3>1, <3>2, <3>3, <3>4 DEF AllOf
  <2>13. ASSUME NEW u \in Transactions, u # t
         PROVE  /\ tx'[u] \in Transaction /\ AllOf(u)'
                /\ Live(u)' <=> Live(u)
    <3>1. tx[u] \in Transaction /\ AllOf(u)
      BY EachOne
    <3>2. TaskEnds(u)
      BY <1>1, <1>3, <2>5, <2>10, <2>13 DEF TaskEnds, PassedOn
    <3>3. Step(u) \in Listed(q) <=> Queued(u)
      BY <1>3, <2>13 DEF Queued, Step
    <3>4. CASE u \in Listed(g)
      <4>1. LetThrough(u)
        BY <2>5, <2>10, <2>13, <3>3, <3>4 DEF LetThrough, PassedOn, Queued
      <4> QED BY <3>1, <3>2, <4>1, Bystander
    <3>5. CASE u \notin Listed(g)
      <4>1. Untouched(u)
        BY <2>5, <2>10, <2>13, <3>3, <3>5 DEF Untouched, PassedOn, Queued
      <4> QED BY <3>1, <3>2, <4>1, Bystander
    <3> QED BY <3>4, <3>5
  <2>14. TypeOK'
    <3>1. tx' \in [Transactions -> Transaction]
      <4>1. \A u \in Transactions : tx'[u] \in Transaction
        BY <2>6, <2>8, <2>13
      <4>2. tx' = [u \in Transactions |-> tx'[u]]
        BY <2>5 DEF PassedOn
      <4> QED BY <4>1, <4>2
    <3> QED BY <1>1, <2>5, <2>9, <3>1 DEF WebDatabaseInv, TypeOK, Coordinator, PassedOn
  <2>15. ListsInv' /\ TasksInv'
    BY <1>1, <1>3, <2>5, <2>9 DEF WebDatabaseInv, ListsInv, TasksInv, TaskInv, PassedOn
  <2>16. PlacesInv' /\ RecordsInv' /\ LocksInv'
    BY <2>5, <2>12, <2>13 DEF AllOf, PlacesInv, RecordsInv, LocksInv, PassedOn
  <2>17. ThreadInv'
    BY <1>1, <1>3, <2>5, <2>12, <2>13 DEF AllOf, ThreadInv, PassedOn
  <2>18. TurnsInv'
    <3>1. ~Live(t)'
      BY <2>6, <2>8 DEF Live
    <3> QED BY <1>1, <2>10, <2>13, <3>1 DEF WebDatabaseInv, TurnsInv
  <2> QED BY <2>14, <2>15, <2>16, <2>17, <2>18 DEF WebDatabaseInv
<1> QED BY <1>5, <1>6

\* Whose turn it is when a database's transaction has ended: w, or nobody's.
Turn(d, w, q2) ==
    /\ db' \in [Databases -> Database]
    /\ \A e \in Databases : e # d => db'[e] = db[e]
    /\ db'[d].asked = db[d].asked /\ db'[d].created = db[d].created
    /\ db'[d].opened = db[d].opened /\ db'[d].enabled = db[d].enabled
    /\ NoDuplicates(db'[d].waiting)
    /\ Listed(db'[d].waiting) = Listed(db[d].waiting) \ {w}
    /\ db'[d].waiting # <<>> => w # NoTransaction
    /\ w # NoTransaction => /\ w \in Listed(db[d].waiting)
                            /\ db'[d].inProgress /\ db'[d].enabled
    /\ queue' \in Seq(Tasks) /\ NoDuplicates(queue')
    /\ \A u \in Transactions : Queued(u)' <=> (Step(u) \in Listed(q2) \/ u = w)
    /\ \A e \in Databases :
          /\ <<"open", e>> \in Listed(queue') <=> <<"open", e>> \in Listed(q2)
          /\ <<"close", e>> \in Listed(queue') <=> <<"close", e>> \in Listed(q2)

\* inProgressTransactionCompleted
LEMMA TurnPasses ==
    ASSUME WebDatabaseInv, NEW d \in Databases, NEW q2 \in Seq(Tasks), NoDuplicates(q2),
           \A u \in Listed(db[d].waiting) : Step(u) \notin Listed(q2),
           db' = [db EXCEPT ![d] = ScheduleTransaction(db[d])],
           queue' = q2 \o NextTransaction(db[d])
    PROVE  \E w \in Transactions \cup {NoTransaction} : Turn(d, w, q2)
<1> USE WebDatabaseAssumption
<1>1. db \in [Databases -> Database] /\ db[d] \in Database
  BY DEF WebDatabaseInv, TypeOK
<1>2. /\ db[d].waiting \in Seq(Transactions) /\ NoDuplicates(db[d].waiting)
      /\ db[d].waiting # <<>> => db[d].enabled
  BY <1>1 DEF WebDatabaseInv, ListsInv, TurnsInv, Database
<1>3. PICK e : e = ScheduleTransaction(db[d])
  OBVIOUS
<1>4. CASE db[d].waiting # <<>>
  <2>1. PICK w, p : w = Head(db[d].waiting) /\ p = Tail(db[d].waiting)
    OBVIOUS
  <2>2. /\ w \in Transactions /\ w \in Listed(db[d].waiting) /\ p \in Seq(Transactions)
        /\ NoDuplicates(p) /\ Listed(p) = Listed(db[d].waiting) \ {w}
    BY <1>2, <1>4, <2>1, ListTail
  <2>3. e = [db[d] EXCEPT !.waiting = p, !.inProgress = TRUE]
    BY <1>2, <1>3, <1>4, <2>1 DEF ScheduleTransaction
  <2>4. /\ e \in Database /\ e.asked = db[d].asked /\ e.created = db[d].created
        /\ e.opened = db[d].opened /\ e.enabled = db[d].enabled
        /\ e.waiting = p /\ e.inProgress
    BY <1>1, <2>2, <2>3 DEF Database
  <2>5. db' \in [Databases -> Database] /\ db'[d] = e /\ \A f \in Databases : f # d => db'[f] = db[f]
    BY <1>1, <1>3, <2>4
  <2>6. PICK x : x = Step(w)
    OBVIOUS
  <2>7. x \in Tasks /\ x \notin Listed(q2)
    BY <2>2, <2>6 DEF Step, Tasks
  <2>8. queue' = Append(q2, x)
    <3>1. NextTransaction(db[d]) = <<x>>
      BY <1>2, <1>4, <2>1, <2>6 DEF NextTransaction
    <3> QED BY <2>7, <3>1
  <2>9. /\ queue' \in Seq(Tasks) /\ NoDuplicates(queue')
        /\ Listed(queue') = Listed(q2) \cup {x}
    BY <2>7, <2>8, ListAppend
  <2>10. /\ \A u \in Transactions : Queued(u)' <=> (Step(u) \in Listed(q2) \/ u = w)
         /\ \A f \in Databases :
              /\ <<"open", f>> \in Listed(queue') <=> <<"open", f>> \in Listed(q2)
              /\ <<"close", f>> \in Listed(queue') <=> <<"close", f>> \in Listed(q2)
    BY <2>6, <2>9 DEF Queued, Step
  <2>11. w # NoTransaction
    BY <2>2
  <2>12. Turn(d, w, q2)
    BY <1>2, <1>4, <2>2, <2>4, <2>5, <2>9, <2>10, <2>11 DEF Turn
  <2> QED BY <2>2, <2>12
<1>5. CASE db[d].waiting = <<>>
  <2>1. e = [db[d] EXCEPT !.inProgress = FALSE]
    BY <1>3, <1>5 DEF ScheduleTransaction
  <2>2. /\ e \in Database /\ e.asked = db[d].asked /\ e.created = db[d].created
        /\ e.opened = db[d].opened /\ e.enabled = db[d].enabled
        /\ e.waiting = <<>> /\ ~e.inProgress
    BY <1>1, <1>5, <2>1 DEF Database
  <2>3. db' \in [Databases -> Database] /\ db'[d] = e /\ \A f \in Databases : f # d => db'[f] = db[f]
    BY <1>1, <1>3, <2>2
  <2>4. queue' = q2
    <3>1. NextTransaction(db[d]) = <<>>
      BY <1>5 DEF NextTransaction
    <3> QED BY <3>1
  <2>5. NoTransaction \notin Listed(db[d].waiting)
    BY <1>5 DEF Listed
  <2>6. \A u \in Transactions : Queued(u)' <=> (Step(u) \in Listed(q2) \/ u = NoTransaction)
    BY <2>4 DEF Queued
  <2>7. Listed(e.waiting) = Listed(db[d].waiting) \ {NoTransaction} /\ NoDuplicates(e.waiting)
    BY <1>2, <1>5, <2>2, <2>5
  <2>8. Turn(d, NoTransaction, q2)
    BY <2>2, <2>3, <2>4, <2>6, <2>7 DEF Turn
  <2> QED BY <2>8
<1> QED BY <1>4, <1>5

\* What becomes of the transaction whose turn it is.
LEMMA TurnTaken ==
    ASSUME NEW w \in Transactions, tx[w] \in Transaction, AllOf(w), TaskEnds(w), Waits(w),
           db[DatabaseOf[w]].opened, tx'[w] = tx[w], ~Waits(w)', Queued(w)',
           Pends(w)' <=> Pends(w), Calls(w)' <=> Calls(w), Refused(w)' <=> Refused(w),
           w \in Active(coordinator') <=> w \in Active(coordinator)
    PROVE  AllOf(w)'
<1>1. /\ Live(w) /\ ~Queued(w) /\ ~Pends(w) /\ ~Calls(w) /\ ~Refused(w)
      /\ tx[w].requested = "AcquireLock" /\ Coherent(tx[w])
  BY DEF AllOf, PlaceInv, RecordInv
<1>2. Fresh(tx[w])
  BY <1>1 DEF Coherent
<1>3. PlaceInv(w)'
  BY <1>1 DEF TaskEnds, PlaceInv, Live
<1>4. ControlInv(w)'
  BY <1>1 DEF TaskEnds, ControlInv, Live, AllOf
<1>5. RecordInv(w)'
  BY <1>1, <1>2 DEF TaskEnds, RecordInv, Live, AllOf, Fresh
<1>6. LockInv(w)'
  BY DEF TaskEnds, LockInv, AllOf
<1> QED BY <1>3, <1>4, <1>5, <1>6 DEF AllOf

\* cleanupAndTerminate
LEMMA TerminateStep ==
    ASSUME WebDatabaseInv, NEW t \in Transactions, CleanupAndTerminate(t)
    PROVE  WebDatabaseInv'
<1> USE WebDatabaseAssumption
<1>1. /\ UNCHANGED <<killed, posted, awaited>>
      /\ running = t /\ thread = "running" /\ tx[t].next = "CleanupAndTerminate"
      /\ thread' = "waiting" /\ running' = NoTransaction
  BY DEF CleanupAndTerminate, Runs, TaskDone
<1>2. /\ tx \in [Transactions -> Transaction] /\ tx[t] \in Transaction /\ Coherent(tx[t])
      /\ Live(t) /\ tx[t].requested = "Idle" /\ tx[t].frontend \in {"Idle", "End"}
      /\ AllOf(t)
  BY <1>1, Running, EachOne DEF WebDatabaseInv, TypeOK
<1>3. /\ ~Waits(t) /\ ~Queued(t) /\ ~Pends(t) /\ ~Calls(t) /\ ~Refused(t) /\ ~Down
      /\ db[DatabaseOf[t]].created
  BY <1>1, <1>2 DEF AllOf, PlaceInv, RecordInv, Live, WebDatabaseInv, ThreadInv
<1>4. PICK d \in Databases : d = DatabaseOf[t]
  OBVIOUS
<1>5. PICK b, g, q2 : /\ b = [tx[t] EXCEPT !.next = "End"] /\ g = Granted(Released(t))
                      /\ q2 = queue \o Steps(g)
  OBVIOUS
<1>6. /\ DoCleanup(t, [tx EXCEPT ![t] = b])
      /\ db' = [db EXCEPT ![d] = ScheduleTransaction(db[d])]
      /\ queue' = q2 \o NextTransaction(db[d])
  BY <1>2, <1>4, <1>5 DEF CleanupAndTerminate, InProgressTransactionCompleted
<1>7. queue \in Seq(Tasks) /\ NoDuplicates(queue)
  BY DEF WebDatabaseInv, TypeOK, ListsInv
<1>8. PassedOn(t, b, g, queue, q2)
  BY <1>2, <1>3, <1>5, <1>6, <1>7, CleanupPasses
<1>9. \A u \in Listed(db[d].waiting) : Step(u) \notin Listed(q2)
  <2>1. SUFFICES ASSUME NEW u \in Listed(db[d].waiting) PROVE Step(u) \notin Listed(q2)
    OBVIOUS
  <2>2. db[d].waiting \in Seq(Transactions)
    BY DEF WebDatabaseInv, TypeOK, Database
  <2>3. u \in Transactions /\ DatabaseOf[u] = d
    BY <2>2 DEF WebDatabaseInv, ListsInv, Listed
  <2>4. Waits(u) /\ ~Queued(u) /\ ~Pends(u)
    BY <2>3 DEF Waits, WebDatabaseInv, PlacesInv, PlaceInv
  <2>5. u # t
    BY <1>3, <2>4
  <2> QED BY <1>8, <2>3, <2>4, <2>5 DEF PassedOn, Queued
<1>10. q2 \in Seq(Tasks) /\ NoDuplicates(q2)
  BY <1>8 DEF PassedOn
<1>11. PICK w \in Transactions \cup {NoTransaction} : Turn(d, w, q2)
  BY <1>6, <1>9, <1>10, TurnPasses
<1>12. PICK r : r = tx'[t]
  OBVIOUS
<1>13. r = EndedAs(tx[t], tx[t].frontend)
  <2>1. r = Cleaned(b)
    BY <1>8, <1>12 DEF PassedOn
  <2> QED BY <1>2, <1>5, <2>1 DEF Cleaned, Transaction, EndedAs, Live
<1>14. /\ r \in Transaction /\ Coherent(r) /\ r.cleaned /\ r.sqlite = "none"
       /\ r.born /\ r.next = "End" /\ r.requested = "Idle"
       /\ r.frontend \in {"Idle", "End"}
  <2>1. tx[t].frontend \in States
    BY <1>2 DEF Transaction
  <2> QED BY <1>2, <1>13, <2>1, EndedRecord DEF Live
<1>15. w \in Transactions => w # t /\ Waits(w) /\ DatabaseOf[w] = d
  <2>1. ASSUME w \in Transactions PROVE w \in Listed(db[d].waiting) /\ DatabaseOf[w] = d
    BY <1>11, <2>1 DEF Turn, WebDatabaseInv, ListsInv
  <2> QED BY <1>3, <2>1 DEF Waits
<1>16. ASSUME NEW u \in Transactions
       PROVE  /\ Waits(u)' <=> (Waits(u) /\ u # w)
              /\ Calls(u)' <=> Calls(u)
              /\ Refused(u)' <=> Refused(u)
              /\ running' # u
  <2>1. DatabaseOf[u] = d => (Waits(u)' <=> (Waits(u) /\ u # w))
    BY <1>11 DEF Waits, Turn
  <2>2. DatabaseOf[u] # d => (Waits(u)' <=> Waits(u)) /\ u # w
    BY <1>11, <1>15 DEF Waits, Turn
  <2> QED BY <1>1, <2>1, <2>2 DEF Calls, Refused
<1>17. /\ ~Queued(t)' /\ ~Pends(t)' /\ t \notin Active(coordinator') /\ originLock' # t
       /\ ~Waits(t)' /\ t # w /\ ~Down'
  BY <1>3, <1>8, <1>11, <1>15, <1>16 DEF PassedOn, Queued, Turn
<1>18. /\ db'[DatabaseOf[t]].created
  BY <1>3, <1>4, <1>11 DEF Turn
<1>19. AllOf(t)' /\ ~Live(t)'
  <2>1. PlaceInv(t)'
    BY <1>3, <1>12, <1>14, <1>16, <1>17 DEF PlaceInv, Live
  <2>2. ControlInv(t)'
    BY <1>1, <1>3, <1>12, <1>14, <1>16, <1>17 DEF ControlInv, Live
  <2>3. RecordInv(t)'
    BY <1>3, <1>12, <1>14, <1>16, <1>17, <1>18 DEF RecordInv, Live
  <2>4. LockInv(t)'
    BY <1>12, <1>14, <1>17 DEF LockInv
  <2> QED BY <1>12, <1>14, <2>1, <2>2, <2>3, <2>4 DEF AllOf, Live
<1>20. ASSUME NEW u \in Transactions, u # t
       PROVE  /\ tx'[u] \in Transaction /\ AllOf(u)'
              /\ Live(u)' <=> Live(u)
  <2>1. tx[u] \in Transaction /\ AllOf(u)
    BY EachOne
  <2>2. DatabaseOf[u] \in Databases
    OBVIOUS
  <2>3. TaskEnds(u)
    BY <1>1, <1>3, <1>8, <1>11, <1>16, <1>17, <1>20, <2>2 DEF TaskEnds, PassedOn, Turn
  <2>4. CASE u = w
    <3>1. Waits(u) /\ DatabaseOf[u] = d
      BY <1>15, <2>4
    <3>2. ~Pends(u) /\ Live(u) /\ db[d].enabled /\ db[d].created
      BY <2>1, <3>1 DEF AllOf, PlaceInv, RecordInv, Live
    <3>3. db[DatabaseOf[u]].opened
      BY <3>1, <3>2 DEF WebDatabaseInv, TasksInv, TaskInv
    <3>4. u \notin Listed(g)
      BY <1>8, <3>2 DEF PassedOn
    <3>5. /\ tx'[u] = tx[u] /\ (Pends(u)' <=> Pends(u))
          /\ u \in Active(coordinator') <=> u \in Active(coordinator)
      BY <1>8, <1>20, <3>2, <3>4 DEF PassedOn
    <3>6. Queued(u)' /\ ~Waits(u)'
      BY <1>11, <1>16, <2>4 DEF Turn
    <3>7. AllOf(u)'
      BY <1>16, <2>1, <2>3, <3>1, <3>3, <3>5, <3>6, TurnTaken
    <3> QED BY <2>1, <3>5, <3>7 DEF Live
  <2>5. CASE u # w /\ u \in Listed(g)
    <3>1. LetThrough(u)
      BY <1>8, <1>11, <1>16, <1>20, <2>5 DEF LetThrough, PassedOn, Turn
    <3> QED BY <2>1, <2>3, <3>1, Bystander
  <2>6. CASE u # w /\ u \notin Listed(g)
    <3>1. Untouched(u)
      BY <1>8, <1>11, <1>16, <1>20, <2>6 DEF Untouched, PassedOn, Queued, Turn
    <3> QED BY <2>1, <2>3, <3>1, Bystander
  <2> QED BY <2>4, <2>5, <2>6
<1>21. TypeOK'
  <2>1. tx' \in [Transactions -> Transaction]
    <3>1. \A u \in Transactions : tx'[u] \in Transaction
      BY <1>12, <1>14, <1>20
    <3>2. tx' = [u \in Transactions |-> tx'[u]]
      BY <1>8 DEF PassedOn
    <3> QED BY <3>1, <3>2
  <2> QED BY <1>1, <1>8, <1>11, <2>1 DEF WebDatabaseInv, TypeOK, Coordinator, PassedOn, Turn
<1>22. ListsInv'
  <2>1. ASSUME NEW e \in Databases
        PROVE  /\ NoDuplicates(db'[e].waiting)
               /\ \A u \in Listed(db'[e].waiting) : DatabaseOf[u] = e
    BY <1>11 DEF Turn, WebDatabaseInv, ListsInv
  <2> QED BY <1>1, <1>8, <1>11, <2>1 DEF WebDatabaseInv, ListsInv, PassedOn, Turn
<1>23. TasksInv'
  BY <1>1, <1>8, <1>11 DEF WebDatabaseInv, TasksInv, TaskInv, PassedOn, Turn
<1>24. PlacesInv' /\ RecordsInv' /\ LocksInv'
  BY <1>8, <1>19, <1>20 DEF AllOf, PlacesInv, RecordsInv, LocksInv, PassedOn
<1>25. ThreadInv'
  BY <1>1, <1>17, <1>19, <1>20 DEF AllOf, ThreadInv
<1>26. TurnsInv'
  <2>1. ASSUME NEW e \in Databases, db'[e].waiting # <<>>
        PROVE  db'[e].inProgress /\ db'[e].enabled
    BY <1>11, <2>1 DEF Turn, WebDatabaseInv, TurnsInv
  <2>2. ASSUME NEW u \in Transactions, Live(u)', ~Waits(u)'
        PROVE  u # t /\ Live(u) /\ (u # w => ~Waits(u) /\ DatabaseOf[u] # d)
    <3>1. u # t /\ Live(u) /\ (u # w => ~Waits(u))
      BY <1>16, <1>19, <1>20, <2>2
    <3>2. Live(t) /\ ~Waits(t) /\ DatabaseOf[t] = d
      BY <1>2, <1>3, <1>4
    <3> QED BY <3>1, <3>2 DEF WebDatabaseInv, TurnsInv
  <2>3. ASSUME NEW u \in Transactions, Live(u)', ~Waits(u)'
        PROVE  db'[DatabaseOf[u]].inProgress \/ ~db'[DatabaseOf[u]].enabled
    <3>1. CASE u = w
      BY <1>11, <1>15, <3>1 DEF Turn
    <3>2. CASE u # w
      <4>1. Live(u) /\ ~Waits(u) /\ DatabaseOf[u] # d /\ DatabaseOf[u] \in Databases
        BY <2>2, <2>3, <3>2
      <4> QED BY <1>11, <4>1 DEF Turn, WebDatabaseInv, TurnsInv
    <3> QED BY <3>1, <3>2
  <2>4. ASSUME NEW u \in Transactions, NEW v \in Transactions, Live(u)', ~Waits(u)',
               Live(v)', ~Waits(v)', DatabaseOf[u] = DatabaseOf[v]
        PROVE  u = v
    <3>1. CASE u = w \/ v = w
      BY <1>15, <2>2, <2>4, <3>1
    <3>2. CASE u # w /\ v # w
      BY <2>2, <2>4, <3>2 DEF WebDatabaseInv, TurnsInv
    <3> QED BY <3>1, <3>2
  <2> QED BY <2>1, <2>3, <2>4 DEF TurnsInv
<1> QED BY <1>21, <1>22, <1>23, <1>24, <1>25, <1>26 DEF WebDatabaseInv

\* SQLTransactionCoordinator::shutdown
LEMMA ShutdownStep ==
    ASSUME WebDatabaseInv, Shutdown
    PROVE  WebDatabaseInv'
<1> USE WebDatabaseAssumption
<1> DEFINE P == IF coordinator.pending = <<>> THEN {} ELSE {coordinator.pending[1]}
           N == Active(coordinator) \cup P
<1>1. /\ P = IF coordinator.pending = <<>> THEN {} ELSE {coordinator.pending[1]}
      /\ N = Active(coordinator) \cup P
      /\ thread = "waiting" /\ killed
      /\ tx' = [u \in Transactions |-> IF u \in N THEN Cleaned(tx[u]) ELSE tx[u]]
      /\ originLock' = IF originLock \in N THEN NoTransaction ELSE originLock
      /\ coordinator' = IF P = {} THEN ShutDown
                        ELSE [coordinator EXCEPT !.shuttingDown = TRUE]
      /\ thread' = IF P = {} THEN "closing" ELSE "spinning"
      /\ UNCHANGED <<db, queue, killed, running, posted, awaited>>
  BY DEF Shutdown
<1> HIDE DEF P, N
<1>2. running = NoTransaction /\ ~Down
  BY <1>1 DEF WebDatabaseInv, TypeOK, ThreadInv
<1>3. /\ coordinator \in Coordinator /\ NoDuplicates(coordinator.pending)
      /\ Exclusive(coordinator)
  BY DEF WebDatabaseInv, ListsInv, LocksInv
<1>4. \A u \in Transactions : u \in P => Pends(u)
  <2>1. CASE coordinator.pending = <<>>
    BY <1>1, <2>1
  <2>2. CASE coordinator.pending # <<>>
    <3>1. coordinator.pending \in Seq(Transactions)
      BY <1>3 DEF Coordinator
    <3>2. 1 \in DOMAIN coordinator.pending
      BY <2>2, <3>1
    <3> QED BY <1>1, <2>2, <3>2 DEF Pends, Listed
  <2> QED BY <2>1, <2>2
<1>5. /\ coordinator' \in Coordinator /\ coordinator'.pending = coordinator.pending
      /\ Exclusive(coordinator') /\ coordinator'.shuttingDown
      /\ Active(coordinator') \subseteq Active(coordinator)
      /\ thread' = "closing" => coordinator.pending = <<>> /\ Active(coordinator') = {}
      /\ thread' \in {"closing", "spinning"}
  <2>1. CASE P = {}
    <3>1. coordinator.pending = <<>>
      BY <1>1, <2>1
    <3>2. /\ coordinator'.pending = <<>> /\ coordinator'.readers = {}
          /\ coordinator'.writers = {} /\ coordinator'.shuttingDown
          /\ coordinator' \in Coordinator
      <4>1. coordinator' = [NewCoordinator EXCEPT !.shuttingDown = TRUE]
        BY <1>1, <2>1 DEF ShutDown
      <4>2. coordinator' = [pending |-> <<>>, readers |-> {}, writers |-> {},
                            shuttingDown |-> TRUE]
        BY <4>1 DEF NewCoordinator
      <4>3. <<>> \in Seq(Transactions)
        OBVIOUS
      <4> QED BY <4>2, <4>3 DEF Coordinator
    <3> QED BY <1>1, <2>1, <3>1, <3>2 DEF Active, Exclusive
  <2>2. CASE P # {}
    <3>1. /\ coordinator'.pending = coordinator.pending
          /\ coordinator'.readers = coordinator.readers
          /\ coordinator'.writers = coordinator.writers /\ coordinator'.shuttingDown
          /\ coordinator' \in Coordinator
      BY <1>1, <1>3, <2>2 DEF Coordinator
    <3> QED BY <1>1, <1>3, <2>2, <3>1 DEF Active, Exclusive
  <2> QED BY <2>1, <2>2
<1>6. Down'
  BY <1>5 DEF Down
<1>7. ASSUME NEW u \in Transactions
      PROVE  /\ Waits(u)' <=> Waits(u)
             /\ Queued(u)' <=> Queued(u)
             /\ Pends(u)' <=> Pends(u)
             /\ Calls(u)' <=> Calls(u)
             /\ Refused(u)' <=> Refused(u)
             /\ running # u /\ running' # u
  BY <1>1, <1>2, <1>5 DEF Waits, Queued, Pends, Calls, Refused
<1>8. ASSUME NEW u \in Transactions, u \in N
      PROVE  tx'[u] \in Transaction /\ AllOf(u)' /\ ~Live(u)'
  <2>1. tx[u] \in Transaction /\ AllOf(u) /\ Coherent(tx[u])
    BY EachOne DEF AllOf, RecordInv
  <2>2. tx[u].born /\ ~Waits(u) /\ ~Refused(u) /\ tx[u].next \in {"Idle", "End"}
    <3>1. CASE Pends(u)
      BY <1>7, <2>1, <3>1 DEF AllOf, PlaceInv, RecordInv, ControlInv
    <3>2. CASE u \in Active(coordinator)
      <4>1. tx[u].born /\ tx[u].locked /\ ~tx[u].cleaned
        BY <1>2, <2>1, <3>2 DEF AllOf, LockInv
      <4> QED BY <1>7, <2>1, <4>1 DEF AllOf, RecordInv, ControlInv, Coherent, Fresh
    <3> QED BY <1>1, <1>4, <1>8, <3>1, <3>2
  <2>3. PICK r : r = tx'[u]
    OBVIOUS
  <2>4. r = Cleaned(tx[u])
    BY <1>1, <1>8, <2>3
  <2>5. /\ r \in Transaction /\ Coherent(r) /\ r.cleaned /\ r.sqlite = "none"
        /\ r.born /\ r.locked = tx[u].locked /\ r.next = tx[u].next
        /\ r.requested = tx[u].requested /\ r.frontend = tx[u].frontend
        /\ Fresh(tx[u]) => Fresh(r)
    BY <2>1, <2>2, <2>4, CleanRecord
  <2>6. PlaceInv(u)'
    BY <1>7, <2>1, <2>2, <2>3, <2>5 DEF AllOf, PlaceInv, Live
  <2>7. ControlInv(u)'
    BY <1>6, <1>7, <2>2, <2>3, <2>5 DEF ControlInv, Live
  <2>8. RecordInv(u)'
    BY <1>1, <1>6, <1>7, <2>1, <2>2, <2>3, <2>5 DEF AllOf, RecordInv, Live
  <2>9. LockInv(u)'
    <3>1. originLock' # u
      BY <1>1, <1>8
    <3> QED BY <1>5, <1>6, <2>1, <2>3, <2>5, <3>1 DEF LockInv, AllOf
  <2> QED BY <2>3, <2>5, <2>6, <2>7, <2>8, <2>9 DEF AllOf, Live
<1>9. ASSUME NEW u \in Transactions, u \notin N
      PROVE  tx'[u] \in Transaction /\ AllOf(u)' /\ (Live(u)' <=> Live(u))
  <2>1. tx[u] \in Transaction /\ AllOf(u) /\ tx'[u] = tx[u]
    BY <1>1, <1>9, EachOne
  <2>2. u \notin Active(coordinator) /\ u \notin Active(coordinator')
        /\ (tx[u].locked => tx[u].cleaned) /\ originLock # u
    BY <1>1, <1>5, <1>9, <2>1 DEF AllOf, LockInv
  <2>3. PlaceInv(u)'
    BY <1>1, <1>7, <2>1, <2>2 DEF AllOf, PlaceInv, Live
  <2>4. ControlInv(u)'
    <3>1. ASSUME thread' = "closing", Live(u)'
          PROVE  (Waits(u) \/ Queued(u)) /\ db[DatabaseOf[u]].opened
      <4>1. Live(u) /\ ~tx[u].locked
        BY <2>1, <2>2, <3>1 DEF Live
      <4>2. ~Pends(u)
        BY <1>5, <3>1 DEF Pends, Listed
      <4>3. Waits(u) \/ Queued(u)
        BY <1>7, <2>1, <4>1, <4>2 DEF AllOf, PlaceInv, RecordInv, Live
      <4>4. CASE Queued(u)
        BY <2>1, <4>1, <4>4 DEF AllOf, RecordInv
      <4>5. CASE Waits(u)
        <5>1. db[DatabaseOf[u]].enabled /\ db[DatabaseOf[u]].created
          BY <2>1, <4>1, <4>5 DEF AllOf, PlaceInv, RecordInv, Live
        <5>2. DatabaseOf[u] \in Databases
          OBVIOUS
        <5> QED BY <4>5, <5>1, <5>2 DEF WebDatabaseInv, TasksInv, TaskInv
      <4> QED BY <4>3, <4>4, <4>5
    <3> QED BY <1>1, <1>5, <1>6, <1>7, <2>1, <3>1 DEF AllOf, ControlInv
  <2>5. RecordInv(u)'
    BY <1>1, <1>6, <1>7, <2>1 DEF AllOf, RecordInv, Live
  <2>6. LockInv(u)'
    <3>1. originLock' # u
      BY <1>1, <2>2
    <3> QED BY <1>6, <2>1, <2>2, <3>1 DEF AllOf, LockInv, RecordInv, Coherent
  <2> QED BY <2>1, <2>3, <2>4, <2>5, <2>6 DEF AllOf, Live
<1>10. \A u \in Transactions : tx'[u] \in Transaction /\ AllOf(u)' /\ (Live(u)' => Live(u))
  BY <1>8, <1>9
<1>11. TypeOK'
  <2>1. tx' \in [Transactions -> Transaction]
    BY <1>1, <1>10
  <2>2. originLock' \in (Transactions \ ReadOnly) \cup {NoTransaction, Other}
    BY <1>1 DEF WebDatabaseInv, TypeOK
  <2>3. thread' # "running" /\ running' = NoTransaction
    BY <1>1, <1>2, <1>5
  <2> QED BY <1>1, <1>5, <2>1, <2>2, <2>3 DEF WebDatabaseInv, TypeOK, Coordinator
<1>12. ListsInv' /\ TasksInv'
  BY <1>1, <1>3, <1>5 DEF WebDatabaseInv, ListsInv, TasksInv, TaskInv
<1>13. PlacesInv' /\ RecordsInv' /\ LocksInv'
  BY <1>5, <1>10 DEF AllOf, PlacesInv, RecordsInv, LocksInv
<1>14. ThreadInv'
  BY <1>1, <1>5, <1>6, <1>10 DEF AllOf, ThreadInv
<1>15. TurnsInv'
  BY <1>1, <1>7, <1>10 DEF WebDatabaseInv, TurnsInv
<1> QED BY <1>11, <1>12, <1>13, <1>14, <1>15 DEF WebDatabaseInv

\* What Database::close leaves: D are the transactions of d with a step in the
\* queue, g those that get the lock one of them had.
Dropped(d) == {t \in Transactions : DatabaseOf[t] = d /\ Queued(t)}

CloseLeaves(d, D, g) ==
    /\ coordinator' \in Coordinator /\ NoDuplicates(coordinator'.pending)
    /\ Exclusive(coordinator') /\ (Down' <=> Down)
    /\ Down => coordinator'.pending = <<>> /\ Active(coordinator') = {} /\ g = {}
    /\ queue' \in Seq(Tasks) /\ NoDuplicates(queue')
    /\ \A e \in Databases :
          /\ <<"open", e>> \in Listed(queue') <=> <<"open", e>> \in Listed(queue)
          /\ <<"close", e>> \in Listed(queue') <=>
                 (<<"close", e>> \in Listed(queue) /\ e # d)
          /\ e # d => db'[e] = db[e]
    /\ db' \in [Databases -> Database]
    /\ db'[d].asked = db[d].asked /\ db'[d].created = db[d].created
    /\ ~db'[d].opened /\ ~db'[d].enabled /\ db'[d].waiting = <<>>
    /\ \A u \in Transactions :
          /\ u \in g => Pends(u)
          /\ Pends(u)' <=> (Pends(u) /\ u \notin g)
          /\ Queued(u)' <=> (Queued(u) /\ DatabaseOf[u] # d)
          /\ u \in Active(coordinator') <=> ((u \in Active(coordinator) /\ u \notin D) \/ u \in g)
          /\ tx'[u] = IF u \in D \/ u \in Listed(db[d].waiting) THEN Cleaned(tx[u])
                      ELSE IF u \in g THEN Let(tx[u]) ELSE tx[u]
          /\ originLock' = u <=> (originLock = u /\ u \notin D)
    /\ tx' = [u \in Transactions |-> tx'[u]]
    /\ originLock' \in (Transactions \ ReadOnly) \cup {NoTransaction, Other}
    /\ thread' = IF g # {} THEN "selfLocked" ELSE thread

Holders(d) == {t \in Dropped(d) : tx[t].locked /\ ~tx[t].cleaned}
Releasing(d) ==
    IF Holders(d) = {} THEN coordinator
    ELSE Without(coordinator, CHOOSE t \in Holders(d) : TRUE)

\* The lock that is given back is that of the one transaction of d that is not
\* waiting in it.
LEMMA CloseReleases ==
    ASSUME WebDatabaseInv, NEW d \in Databases,
           Down => coordinator.pending = <<>> /\ Active(coordinator) = {}
    PROVE  /\ Releasing(d) \in Coordinator /\ Releasing(d).pending = coordinator.pending
           /\ Exclusive(Releasing(d))
           /\ Releasing(d).shuttingDown = coordinator.shuttingDown
           /\ Active(Releasing(d)) = Active(coordinator) \ Dropped(d)
           /\ Down => Releasing(d) = coordinator
<1> DEFINE D == Dropped(d)
           H == Holders(d)
           info == Releasing(d)
<1>1. info = IF H = {} THEN coordinator ELSE Without(coordinator, CHOOSE t \in H : TRUE)
  BY DEF Releasing
<1>2. /\ coordinator \in Coordinator /\ NoDuplicates(coordinator.pending)
      /\ Exclusive(coordinator)
  BY DEF WebDatabaseInv, ListsInv, LocksInv
<1>3. CASE Down
  BY <1>1, <1>2, <1>3 DEF Without, Down
<1>4. CASE ~Down /\ H = {}
  <2>1. Active(coordinator) \cap D = {}
    BY <1>4 DEF WebDatabaseInv, LocksInv, LockInv, Dropped, Holders
  <2> QED BY <1>1, <1>2, <1>4, <2>1
<1>5. CASE ~Down /\ H # {}
  <2>1. PICK h : h = CHOOSE t \in H : TRUE
    OBVIOUS
  <2>2. h \in H
    BY <1>5, <2>1
  <2>3. h \in Transactions /\ h \in D /\ DatabaseOf[h] = d /\ Queued(h) /\ tx[h].locked /\ ~tx[h].cleaned
    BY <2>2 DEF Dropped, Holders
  <2>4. Live(h) /\ ~Waits(h)
    BY <2>3 DEF WebDatabaseInv, RecordsInv, RecordInv, PlacesInv, PlaceInv, Live
  <2>5. ASSUME NEW u \in Active(coordinator), u \in D PROVE u = h
    <3>1. u \in Transactions /\ DatabaseOf[u] = d /\ Queued(u)
      BY <2>5 DEF Dropped
    <3>2. Live(u) /\ ~Waits(u)
      BY <1>5, <2>5, <3>1 DEF WebDatabaseInv, LocksInv, LockInv, PlacesInv, PlaceInv, Live
    <3> QED BY <2>3, <2>4, <3>1, <3>2 DEF WebDatabaseInv, TurnsInv
  <2>6. info = Without(coordinator, h)
    BY <1>1, <1>5, <2>1
  <2>7. /\ info \in Coordinator /\ info.pending = coordinator.pending
        /\ Exclusive(info) /\ Active(info) = Active(coordinator) \ {h} /\ ~info.shuttingDown
    BY <1>2, <1>5, <2>3, <2>6, WithoutKeeps DEF Down
  <2>8. info.shuttingDown = coordinator.shuttingDown
    BY <1>2, <1>5, <2>7 DEF Coordinator, Down
  <2>9. Active(coordinator) \ {h} = Active(coordinator) \ D
    BY <2>3, <2>5
  <2> QED BY <1>5, <2>7, <2>8, <2>9
<1> QED BY <1>3, <1>4, <1>5

\* Database::close, taken apart.
LEMMA Closes ==
    ASSUME WebDatabaseInv, NEW d \in Databases, Close(d),
           thread \in {"waiting", "closing"}
    PROVE  \E g : CloseLeaves(d, Dropped(d), g)
<1> USE WebDatabaseAssumption
<1>1. queue \in Seq(Tasks) /\ NoDuplicates(queue)
      /\ db \in [Databases -> Database] /\ db[d] \in Database
      /\ tx \in [Transactions -> Transaction]
  BY DEF WebDatabaseInv, TypeOK, ListsInv
<1>2. PICK D : D = Dropped(d)
  OBVIOUS
<1>3. Unscheduled(d) = D
  <2>1. \A t \in Transactions : Contains(queue, Step(t)) <=> Queued(t)
    BY <1>1 DEF Contains, Queued, Listed
  <2> QED BY <1>2, <2>1 DEF Unscheduled, Dropped
<1>4. PICK info : info = Releasing(d)
  OBVIOUS
<1>5. /\ tx' = [t \in Transactions |->
                   IF t \in D \cup ToSet(db[d].waiting)
                   THEN Cleaned(tx[t]) ELSE LocksGranted(tx, info)[t]]
      /\ db' = [db EXCEPT ![d].waiting = <<>>, ![d].enabled = FALSE,
                          ![d].inProgress = FALSE, ![d].opened = FALSE]
      /\ queue' = Unqueued(queue, {<<"close", d>>} \cup {Step(t) : t \in D})
      /\ thread' = IF Granted(info) # <<>> THEN "selfLocked" ELSE thread
      /\ coordinator' = ProcessPendingTransactions(info)
      /\ originLock' = IF originLock \in D THEN NoTransaction ELSE originLock
  BY <1>2, <1>3, <1>4 DEF Close, Releasing, Holders
<1>6. Down => coordinator.pending = <<>> /\ Active(coordinator) = {}
  BY DEF WebDatabaseInv, ThreadInv
<1>7. /\ info \in Coordinator /\ info.pending = coordinator.pending
      /\ Exclusive(info) /\ info.shuttingDown = coordinator.shuttingDown
      /\ Active(info) = Active(coordinator) \ D
      /\ Down => info = coordinator
  BY <1>2, <1>4, <1>6, CloseReleases
<1>8. NoDuplicates(info.pending)
  BY <1>7 DEF WebDatabaseInv, ListsInv
<1>9. PICK gs, g : gs = Granted(info) /\ g = Listed(gs)
  OBVIOUS
<1>10. /\ gs \in Seq(Transactions) /\ g \subseteq Listed(info.pending)
       /\ coordinator' \in Coordinator /\ NoDuplicates(coordinator'.pending)
       /\ Listed(coordinator'.pending) = Listed(info.pending) \ g
       /\ Active(coordinator') = Active(info) \cup g
       /\ coordinator'.shuttingDown = info.shuttingDown /\ Exclusive(coordinator')
  BY <1>5, <1>7, <1>8, <1>9, Grants
<1>11. gs = <<>> <=> g = {}
  <2>1. ASSUME gs # <<>> PROVE g # {}
    <3>1. 1 \in DOMAIN gs
      BY <1>10, <2>1
    <3> QED BY <1>9, <3>1 DEF Listed
  <2> QED BY <1>9, <2>1 DEF Listed
<1>12. Down => coordinator'.pending = <<>> /\ Active(coordinator') = {} /\ g = {}
  <2>1. SUFFICES ASSUME Down PROVE coordinator'.pending = <<>> /\ Active(coordinator') = {} /\ g = {}
    OBVIOUS
  <2>2. info = coordinator /\ info.pending = <<>> /\ Active(info) = {}
    BY <1>6, <1>7, <2>1
  <2>3. gs = <<>>
    BY <1>9, <2>2 DEF Granted
  <2>4. g = {}
    BY <1>11, <2>3
  <2>5. coordinator'.pending = <<>>
    <3>1. coordinator'.pending \in Seq(Transactions) /\ Listed(coordinator'.pending) = {}
      BY <1>10, <2>2, <2>4 DEF Coordinator, Listed
    <3>2. ASSUME coordinator'.pending # <<>> PROVE FALSE
      <4>1. 1 \in DOMAIN coordinator'.pending
        BY <3>1, <3>2
      <4> QED BY <3>1, <4>1 DEF Listed
    <3> QED BY <3>2
  <2> QED BY <1>10, <2>2, <2>4, <2>5
<1>13. /\ queue' \in Seq(Tasks) /\ NoDuplicates(queue')
       /\ Listed(queue') = Listed(queue) \ ({<<"close", d>>} \cup {Step(t) : t \in D})
  BY <1>1, <1>5, UnqueuedKeeps
<1>14. ASSUME NEW e \in Databases
       PROVE  /\ <<"open", e>> \in Listed(queue') <=> <<"open", e>> \in Listed(queue)
              /\ <<"close", e>> \in Listed(queue') <=>
                    (<<"close", e>> \in Listed(queue) /\ e # d)
  BY <1>13 DEF Step
<1>15. PICK n : n = [db[d] EXCEPT !.waiting = <<>>, !.enabled = FALSE,
                                  !.inProgress = FALSE, !.opened = FALSE]
  OBVIOUS
<1>16. db' = [db EXCEPT ![d] = n]
  BY <1>1, <1>5, <1>15
<1>17. /\ n \in Database /\ n.asked = db[d].asked /\ n.created = db[d].created
       /\ ~n.opened /\ ~n.enabled /\ n.waiting = <<>>
  <2>1. <<>> \in Seq(Transactions)
    OBVIOUS
  <2> QED BY <1>1, <1>15, <2>1 DEF Database
<1>18. /\ db' \in [Databases -> Database] /\ db'[d] = n
       /\ \A e \in Databases : e # d => db'[e] = db[e]
  BY <1>1, <1>16, <1>17
<1>19. ASSUME NEW u \in Transactions
       PROVE  /\ u \in g => Pends(u)
              /\ Pends(u)' <=> (Pends(u) /\ u \notin g)
              /\ u \in Active(coordinator') <=>
                    ((u \in Active(coordinator) /\ u \notin D) \/ u \in g)
  BY <1>7, <1>10 DEF Pends
<1>20. ASSUME NEW u \in Transactions
       PROVE  Queued(u)' <=> (Queued(u) /\ DatabaseOf[u] # d)
  BY <1>2, <1>13 DEF Queued, Step, Dropped
<1>21. ASSUME NEW u \in Transactions
       PROVE  tx'[u] = IF u \in D \/ u \in Listed(db[d].waiting) THEN Cleaned(tx[u])
                       ELSE IF u \in g THEN Let(tx[u]) ELSE tx[u]
  <2>1. LocksGranted(tx, info)[u] = IF u \in g THEN Let(tx[u]) ELSE tx[u]
    BY <1>9, PassedRecords
  <2> HIDE DEF Let
  <2>2. ToSet(db[d].waiting) = Listed(db[d].waiting)
    BY DEF ToSet, Listed
  <2> QED BY <1>5, <2>1, <2>2
<1>22. tx' = [u \in Transactions |-> tx'[u]]
  BY <1>5
<1>23. /\ originLock' \in (Transactions \ ReadOnly) \cup {NoTransaction, Other}
       /\ \A u \in Transactions : originLock' = u <=> (originLock = u /\ u \notin D)
  BY <1>5 DEF WebDatabaseInv, TypeOK
<1>24. thread' = IF g # {} THEN "selfLocked" ELSE thread
  BY <1>5, <1>9, <1>11
<1>25. Down' <=> Down
  BY <1>7, <1>10 DEF Down
<1> HIDE DEF Let
<1>26. CloseLeaves(d, D, g)
  BY <1>10, <1>12, <1>13, <1>14, <1>17, <1>18, <1>19, <1>20, <1>21, <1>22, <1>23,
     <1>24, <1>25 DEF CloseLeaves
<1> QED BY <1>2, <1>26

\* Database::close, on its thread: what it is for every transaction.
LEMMA CloseStep ==
    ASSUME WebDatabaseInv, NEW d \in Databases, Close(d),
           thread \in {"waiting", "closing"}, UNCHANGED <<killed, running, posted>>,
           awaited' \in Tasks \cup {<<>>},
           \A e \in Databases :
               /\ <<"open", e>> \in Listed(queue) => awaited' = awaited
               /\ <<"close", e>> \in Listed(queue) /\ e # d => awaited' = awaited
    PROVE  WebDatabaseInv'
<1> USE WebDatabaseAssumption
<1>1. PICK D, g : D = Dropped(d) /\ CloseLeaves(d, D, g)
  BY Closes
<1>2. running = NoTransaction /\ (thread = "closing" <=> Down) /\ thread \notin {"ended", "selfLocked"}
  BY DEF WebDatabaseInv, TypeOK, ThreadInv
<1>3. PICK W : W = Listed(db[d].waiting)
  OBVIOUS
<1>4. ASSUME NEW u \in Transactions
      PROVE  /\ u \in D <=> DatabaseOf[u] = d /\ Queued(u)
             /\ u \in W <=> DatabaseOf[u] = d /\ Waits(u)
             /\ DatabaseOf[u] \in Databases
             /\ db'[DatabaseOf[u]].created = db[DatabaseOf[u]].created
             /\ db'[DatabaseOf[u]].opened => db[DatabaseOf[u]].opened /\ DatabaseOf[u] # d
             /\ DatabaseOf[u] # d => db'[DatabaseOf[u]] = db[DatabaseOf[u]]
  <2>1. u \in D <=> DatabaseOf[u] = d /\ Queued(u)
    BY <1>1 DEF Dropped
  <2>2. u \in W <=> DatabaseOf[u] = d /\ Waits(u)
    BY <1>3 DEF Waits, WebDatabaseInv, ListsInv
  <2>3. DatabaseOf[u] \in Databases
    OBVIOUS
  <2> QED BY <1>1, <2>1, <2>2, <2>3 DEF CloseLeaves
<1>5. ASSUME NEW u \in Transactions
      PROVE  /\ Waits(u)' <=> (Waits(u) /\ DatabaseOf[u] # d)
             /\ Queued(u)' <=> (Queued(u) /\ DatabaseOf[u] # d)
             /\ Calls(u)' <=> Calls(u)
             /\ Refused(u)' <=> Refused(u)
             /\ running # u /\ running' # u
  <2>1. Waits(u)' <=> (Waits(u) /\ DatabaseOf[u] # d)
    <3>1. CASE DatabaseOf[u] = d
      BY <1>1, <3>1 DEF Waits, CloseLeaves, Listed
    <3>2. CASE DatabaseOf[u] # d
      BY <1>4, <3>2 DEF Waits
    <3> QED BY <3>1, <3>2
  <2> QED BY <1>1, <1>2, <2>1 DEF CloseLeaves, Calls, Refused
<1>6. ASSUME NEW u \in Transactions, u \in D \/ u \in W
      PROVE  tx'[u] \in Transaction /\ AllOf(u)' /\ ~Live(u)'
  <2>1. tx[u] \in Transaction /\ AllOf(u) /\ Coherent(tx[u]) /\ DatabaseOf[u] = d
    BY <1>4, <1>6, EachOne DEF AllOf, RecordInv
  <2>2. /\ tx[u].born /\ ~Pends(u) /\ ~Calls(u) /\ ~Refused(u)
        /\ tx[u].next \in {"Idle", "End"}
    BY <1>4, <1>5, <1>6, <2>1 DEF AllOf, PlaceInv, RecordInv, ControlInv
  <2>3. ~Waits(u)' /\ ~Queued(u)' /\ ~Pends(u)' /\ u \notin g
    BY <1>1, <1>5, <2>1, <2>2 DEF CloseLeaves
  <2>4. PICK r : r = tx'[u]
    OBVIOUS
  <2>5. r = Cleaned(tx[u])
    BY <1>1, <1>3, <1>6, <2>4 DEF CloseLeaves
  <2>6. /\ r \in Transaction /\ Coherent(r) /\ r.cleaned /\ r.sqlite = "none"
        /\ r.born /\ r.next = tx[u].next
    BY <2>1, <2>2, <2>5, CleanRecord
  <2>7. u \notin Active(coordinator') /\ originLock' # u
    <3>1. CASE u \in D
      BY <1>1, <2>3, <3>1 DEF CloseLeaves
    <3>2. CASE u \in W
      <4>1. ~tx[u].locked
        BY <1>4, <2>1, <3>2 DEF AllOf, RecordInv, Coherent, Fresh
      <4>2. u \notin Active(coordinator) /\ originLock # u
        BY <2>1, <4>1 DEF AllOf, LockInv
      <4> QED BY <1>1, <2>3, <4>2 DEF CloseLeaves
    <3> QED BY <1>6, <3>1, <3>2
  <2>8. PlaceInv(u)'
    BY <1>5, <2>2, <2>3, <2>4, <2>6 DEF PlaceInv, Live
  <2>9. ControlInv(u)'
    BY <1>5, <2>2, <2>3, <2>4, <2>6 DEF ControlInv, Live
  <2>10. RecordInv(u)'
    <3>1. db'[DatabaseOf[u]].created
      BY <1>4, <2>1, <2>2 DEF AllOf, RecordInv
    <3> QED BY <1>5, <2>2, <2>3, <2>4, <2>6, <3>1 DEF RecordInv, Live
  <2>11. LockInv(u)'
    BY <2>4, <2>6, <2>7 DEF LockInv
  <2> QED BY <2>4, <2>6, <2>8, <2>9, <2>10, <2>11 DEF AllOf, Live
<1>7. ASSUME NEW u \in Transactions, u \in g
      PROVE  /\ tx'[u] \in Transaction /\ AllOf(u)' /\ (Live(u)' <=> Live(u))
             /\ Waits(u)' <=> Waits(u)
  <2>1. /\ tx[u] \in Transaction /\ AllOf(u) /\ Pends(u) /\ ~Down /\ ~Down'
        /\ thread' = "selfLocked"
    BY <1>1, <1>7, EachOne DEF CloseLeaves
  <2>2. /\ Fresh(tx[u]) /\ Coherent(tx[u]) /\ tx[u].requested = "Idle"
        /\ tx[u].next \in {"Idle", "End"} /\ tx[u].born /\ ~tx[u].cleaned /\ ~tx[u].locked
        /\ ~Waits(u) /\ ~Queued(u) /\ ~Calls(u) /\ ~Refused(u)
        /\ db[DatabaseOf[u]].created /\ originLock # u
    BY <1>5, <2>1 DEF AllOf, RecordInv, ControlInv, PlaceInv, LockInv, Fresh
  <2>3. /\ ~Waits(u)' /\ ~Queued(u)' /\ ~Pends(u)' /\ u \in Active(coordinator')
        /\ originLock' # u /\ db'[DatabaseOf[u]].created
    BY <1>1, <1>4, <1>5, <1>7, <2>2 DEF CloseLeaves
  <2>4. PICK r : r = tx'[u]
    OBVIOUS
  <2>5. r = Let(tx[u])
    BY <1>1, <1>3, <1>4, <1>7, <2>2, <2>4 DEF CloseLeaves
  <2>6. /\ r \in Transaction /\ Coherent(r) /\ r.born /\ ~r.cleaned
        /\ r.next = tx[u].next /\ r.locked /\ r.sqlite = "none"
        /\ r.requested = "OpenTransactionAndPreflight"
        /\ r.frontend \in {"Idle", "End"}
    BY <2>1, <2>2, <2>5, LetRecord
  <2>7. PlaceInv(u)'
    BY <1>5, <2>1, <2>2, <2>3, <2>4, <2>6 DEF PlaceInv, Live
  <2>8. ControlInv(u)'
    BY <1>5, <2>1, <2>2, <2>3, <2>4, <2>6 DEF ControlInv, Live
  <2>9. RecordInv(u)'
    BY <1>5, <2>1, <2>2, <2>3, <2>4, <2>6 DEF RecordInv, Live
  <2>10. LockInv(u)'
    BY <2>3, <2>4, <2>6 DEF LockInv
  <2> QED BY <2>2, <2>3, <2>4, <2>6, <2>7, <2>8, <2>9, <2>10 DEF AllOf, Live
<1>8. ASSUME NEW u \in Transactions, u \notin D, u \notin W, u \notin g
      PROVE  /\ tx'[u] \in Transaction /\ AllOf(u)' /\ (Live(u)' <=> Live(u))
             /\ Waits(u)' <=> Waits(u)
  <2>1. tx[u] \in Transaction /\ AllOf(u)
    BY EachOne
  <2>2. tx'[u] = tx[u]
    BY <1>1, <1>3, <1>8 DEF CloseLeaves
  <2>3. /\ DatabaseOf[u] = d => ~Waits(u) /\ ~Queued(u)
        /\ Waits(u)' <=> Waits(u)
        /\ Queued(u)' <=> Queued(u)
        /\ Pends(u)' <=> Pends(u)
        /\ Down' <=> Down
        /\ u \in Active(coordinator') <=> u \in Active(coordinator)
        /\ originLock' = u <=> originLock = u
        /\ thread' \in {thread, "selfLocked"} /\ (Down => thread' = thread)
    BY <1>1, <1>4, <1>5, <1>8 DEF CloseLeaves
  <2>4. PlaceInv(u)'
    BY <1>2, <1>4, <1>5, <2>1, <2>2, <2>3 DEF AllOf, PlaceInv, Live
  <2>5. ControlInv(u)'
    <3>1. ASSUME thread' = "closing", Live(u)'
          PROVE  (Waits(u)' \/ Queued(u)') /\ db'[DatabaseOf[u]].opened
      <4>1. thread = "closing" /\ Live(u)
        BY <2>2, <2>3, <3>1 DEF Live
      <4> QED BY <1>4, <2>1, <2>3, <4>1 DEF AllOf, ControlInv
    <3> QED BY <1>2, <1>4, <1>5, <2>1, <2>2, <2>3, <3>1 DEF AllOf, ControlInv
  <2>6. RecordInv(u)'
    BY <1>4, <1>5, <2>1, <2>2, <2>3 DEF AllOf, RecordInv, Live
  <2>7. LockInv(u)'
    BY <2>1, <2>2, <2>3 DEF AllOf, LockInv
  <2> QED BY <2>1, <2>2, <2>3, <2>4, <2>5, <2>6, <2>7 DEF AllOf, Live
<1>9. ASSUME NEW u \in Transactions
      PROVE  /\ tx'[u] \in Transaction /\ AllOf(u)'
             /\ Live(u)' => Live(u) /\ (Waits(u)' <=> Waits(u))
  BY <1>6, <1>7, <1>8
<1>10. TypeOK'
  <2>1. tx' \in [Transactions -> Transaction]
    <3>1. tx' = [u \in Transactions |-> tx'[u]]
      BY <1>1 DEF CloseLeaves
    <3> QED BY <1>9, <3>1
  <2>2. /\ thread' \in {"waiting", "running", "spinning", "selfLocked", "closing", "ended"}
        /\ thread' # "running" /\ running' = NoTransaction
    BY <1>1, <1>2 DEF CloseLeaves
  <2> QED BY <1>1, <2>1, <2>2 DEF WebDatabaseInv, TypeOK, Coordinator, CloseLeaves
<1>11. ListsInv'
  <2>1. ASSUME NEW e \in Databases
        PROVE  /\ NoDuplicates(db'[e].waiting)
               /\ \A u \in Listed(db'[e].waiting) : DatabaseOf[u] = e
    <3>1. CASE e = d
      BY <1>1, <3>1 DEF CloseLeaves, Listed, NoDuplicates
    <3>2. CASE e # d
      BY <1>1, <3>2 DEF CloseLeaves, WebDatabaseInv, ListsInv
    <3> QED BY <3>1, <3>2
  <2> QED BY <1>1, <2>1 DEF CloseLeaves, WebDatabaseInv, ListsInv
<1>12. TasksInv'
  <2>1. ASSUME NEW e \in Databases PROVE TaskInv(e)'
    <3>1. TaskInv(e)
      BY DEF WebDatabaseInv, TasksInv
    <3>2. CASE e = d
      BY <1>1, <3>1, <3>2 DEF CloseLeaves, TaskInv
    <3>3. CASE e # d
      BY <1>1, <3>1, <3>3 DEF CloseLeaves, TaskInv
    <3> QED BY <3>2, <3>3
  <2> QED BY <2>1 DEF TasksInv
<1>13. PlacesInv' /\ RecordsInv' /\ LocksInv'
  BY <1>1, <1>9 DEF AllOf, PlacesInv, RecordsInv, LocksInv, CloseLeaves
<1>14. ThreadInv'
  <2>1. /\ Down' => killed'
        /\ Down' <=> thread' \in {"spinning", "closing", "ended"}
        /\ thread' # "ended"
        /\ thread' = "closing" => Down
    BY <1>1, <1>2 DEF CloseLeaves, WebDatabaseInv, ThreadInv
  <2> QED BY <1>1, <1>9, <2>1 DEF AllOf, ThreadInv, CloseLeaves
<1>15. TurnsInv'
  <2>1. ASSUME NEW e \in Databases, db'[e].waiting # <<>>
        PROVE  db'[e].inProgress /\ db'[e].enabled
    BY <1>1, <2>1 DEF CloseLeaves, WebDatabaseInv, TurnsInv
  <2>2. ASSUME NEW u \in Transactions, Live(u)', ~Waits(u)'
        PROVE  db'[DatabaseOf[u]].inProgress \/ ~db'[DatabaseOf[u]].enabled
    <3>1. CASE DatabaseOf[u] = d
      BY <1>1, <3>1 DEF CloseLeaves
    <3>2. CASE DatabaseOf[u] # d
      BY <1>4, <1>9, <2>2, <3>2 DEF WebDatabaseInv, TurnsInv
    <3> QED BY <3>1, <3>2
  <2>3. ASSUME NEW u \in Transactions, NEW v \in Transactions, Live(u)', ~Waits(u)',
               Live(v)', ~Waits(v)', DatabaseOf[u] = DatabaseOf[v]
        PROVE  u = v
    BY <1>9, <2>3 DEF WebDatabaseInv, TurnsInv
  <2> QED BY <2>1, <2>2, <2>3 DEF TurnsInv
<1> QED BY <1>10, <1>11, <1>12, <1>13, <1>14, <1>15 DEF WebDatabaseInv

\* DatabaseCloseTask, and the closing at the end of the thread.
LEMMA CloseSteps ==
    ASSUME WebDatabaseInv, NEW d \in Databases, PerformClose(d) \/ CloseAtShutdown(d)
    PROVE  WebDatabaseInv'
<1>1. CASE PerformClose(d)
  <2>1. /\ Takes(<<"close", d>>) /\ Close(d) /\ UNCHANGED <<killed, running, posted>>
        /\ awaited' \in {awaited, <<>>}
    BY <1>1 DEF PerformClose
  <2>2. thread = "waiting" /\ <<"close", d>> \in Listed(queue)
    BY <2>1, TaskTaken
  <2>3. awaited = <<"close", d>> /\ awaited \in Tasks
    <3>1. awaited = <<"close", d>>
      BY <2>2 DEF WebDatabaseInv, TasksInv, TaskInv
    <3> QED BY <3>1 DEF Tasks
  <2>4. ASSUME NEW e \in Databases
        PROVE  /\ <<"open", e>> \notin Listed(queue)
               /\ <<"close", e>> \in Listed(queue) => e = d
    BY <2>3 DEF WebDatabaseInv, TasksInv, TaskInv
  <2> QED BY <2>1, <2>2, <2>3, <2>4, CloseStep
<1>2. CASE CloseAtShutdown(d)
  <2>1. Close(d) /\ UNCHANGED <<killed, running, posted, awaited>> /\ thread = "closing"
    BY <1>2 DEF CloseAtShutdown
  <2>2. awaited' \in Tasks \cup {<<>>}
    BY <2>1 DEF WebDatabaseInv, TypeOK
  <2> QED BY <2>1, <2>2, CloseStep
<1> QED BY <1>1, <1>2

-----------------------------------------------------------------------------
(* The invariant holds of every behaviour.                                  *)

\* Every step of the main thread, of the database thread and of the others.
LEMMA EveryStep ==
    ASSUME WebDatabaseInv, Next
    PROVE  WebDatabaseInv'
<1>1. CASE Script
  <2>1. ASSUME NEW d \in Databases, OpenDatabase(d) \/ MarkAsDeletedAndClose(d)
        PROVE  WebDatabaseInv'
    BY <2>1, AwaitStep
  <2>2. ASSUME NEW t \in Transactions, RunTransaction(t) PROVE WebDatabaseInv'
    BY <2>2, RunStep
  <2>3. CASE StopDatabases
    BY <2>3, QuietStep
  <2> QED BY <1>1, <2>1, <2>2, <2>3 DEF Script
<1>2. CASE Callbacks
  <2>1. PICK t \in Transactions :
            \/ \/ \E raises \in BOOLEAN : DeliverTransactionCallback(t, raises)
               \/ \E fails \in BOOLEAN : DeliverStatementCallback(t, fails)
               \/ \E raised \in BOOLEAN : DeliverQuotaIncreaseCallback(t, raised)
               \/ DeliverTransactionErrorCallback(t)
               \/ DeliverSuccessCallback(t)
               \/ DeliverToClosed(t)
            \/ DeliverRefusal(t) \/ DropPosted(t)
    BY <1>2 DEF Callbacks
  <2> QED BY <2>1, CallbackStep, PostedStep
<1>3. CASE DatabaseThread
  <2>1. ASSUME NEW d \in Databases, NEW succeeds \in BOOLEAN, PerformOpen(d, succeeds)
        PROVE  WebDatabaseInv'
    BY <2>1, OpenStep
  <2>2. ASSUME NEW d \in Databases, PerformClose(d) \/ CloseAtShutdown(d)
        PROVE  WebDatabaseInv'
    BY <2>2, CloseSteps
  <2>3. ASSUME NEW t \in Transactions, PerformNextStep(t) \/ CancelStep(t)
        PROVE  WebDatabaseInv'
    BY <2>3, PerformStep, CancelsStep
  <2>4. CASE Shutdown
    BY <2>4, ShutdownStep
  <2>5. CASE EndThread
    BY <2>5, QuietStep
  <2>6. CASE StateFunctions
    <3>1. PICK t \in Transactions :
            \/ AcquireLock(t)
            \/ \/ \E begins \in BOOLEAN : OpenTransactionAndPreflight(t, begins)
               \/ \E succeeds \in BOOLEAN : PostflightAndCommit(t, succeeds)
               \/ CleanupAfterTransactionErrorCallback(t)
            \/ RetryStatement(t) \/ HandleQuotaError(t) \/ RunNextStatement(t)
            \/ CleanupAndTerminate(t)
            \/ SendToFrontend(t)
      BY <2>6 DEF StateFunctions
    <3> QED BY <3>1, AcquireStep, OpenAndCommitStep, RoundStep, TerminateStep, FrontendStep
  <2> QED BY <1>3, <2>1, <2>2, <2>3, <2>4, <2>5, <2>6 DEF DatabaseThread
<1>4. CASE OtherLocks \/ OtherUnlocks
  BY <1>4, QuietStep
<1> QED BY <1>1, <1>2, <1>3, <1>4 DEF Next

\* Nothing that the invariant is about changes.
LEMMA NoStep ==
    ASSUME WebDatabaseInv, UNCHANGED vars
    PROVE  WebDatabaseInv'
<1> USE DEF vars
<1>1. ASSUME NEW u
      PROVE  /\ Waits(u)' <=> Waits(u)
             /\ Queued(u)' <=> Queued(u)
             /\ Pends(u)' <=> Pends(u)
             /\ Calls(u)' <=> Calls(u)
             /\ Refused(u)' <=> Refused(u)
  BY DEF Waits, Queued, Pends, Calls, Refused
<1>2. TypeOK' /\ ListsInv' /\ TasksInv'
  BY DEF WebDatabaseInv, TypeOK, ListsInv, TasksInv, TaskInv
<1>3. PlacesInv' /\ ThreadInv'
  BY <1>1 DEF WebDatabaseInv, PlacesInv, PlaceInv, ThreadInv, ControlInv, Live, Down
<1>4. RecordsInv'
  BY <1>1 DEF WebDatabaseInv, RecordsInv, RecordInv, Live, Down
<1>5. LocksInv' /\ TurnsInv'
  BY <1>1 DEF WebDatabaseInv, LocksInv, LockInv, TurnsInv, Live, Down
<1> QED BY <1>2, <1>3, <1>4, <1>5 DEF WebDatabaseInv

\* Nothing has been asked for.
LEMMA AtFirst ==
    ASSUME Init
    PROVE  WebDatabaseInv
<1> USE WebDatabaseAssumption
<1>1. /\ queue = <<>> /\ posted = <<>> /\ awaited = <<>> /\ killed = FALSE /\ thread = "waiting"
      /\ running = NoTransaction /\ originLock = NoTransaction
      /\ coordinator = [pending |-> <<>>, readers |-> {}, writers |-> {}, shuttingDown |-> FALSE]
  BY DEF Init, NewCoordinator
<1>2. ASSUME NEW S PROVE <<>> \in Seq(S) /\ Listed(<<>>) = {} /\ NoDuplicates(<<>>)
  BY DEF Listed, NoDuplicates
<1>3. ASSUME NEW t \in Transactions
      PROVE  /\ tx[t] \in Transaction /\ ~tx[t].born /\ ~tx[t].cleaned /\ ~tx[t].locked
             /\ tx[t].next = "Idle" /\ tx[t].requested = "Idle" /\ tx[t].frontend = "Idle"
             /\ tx[t].sqlite = "none" /\ tx[t].statements = 0 /\ tx[t].issued = 0
             /\ ~tx[t].committed /\ tx[t].told = "nothing"
  <2>1. tx[t] = [born |-> FALSE, next |-> "Idle", requested |-> "Idle",
                 frontend |-> "Idle", cleaned |-> FALSE, locked |-> FALSE,
                 sqlite |-> "none", statements |-> 0, issued |-> 0,
                 current |-> "none", handler |-> "none", retry |-> FALSE,
                 retries |-> 0, committed |-> FALSE, told |-> "nothing"]
    BY DEF Init
  <2>2. 0 \in 0 .. MaxStatements /\ 0 \in 0 .. MaxRetries /\ "Idle" \in States
    BY DEF States
  <2> QED BY <2>1, <2>2 DEF Transaction
<1>4. ASSUME NEW d \in Databases
      PROVE  /\ db[d] \in Database /\ ~db[d].asked /\ ~db[d].created
             /\ db[d].waiting = <<>>
  <2>1. db[d] = [asked |-> FALSE, created |-> FALSE, opened |-> FALSE,
                 deleted |-> FALSE, enabled |-> TRUE, inProgress |-> FALSE,
                 waiting |-> <<>>]
    BY DEF Init
  <2> QED BY <1>2, <2>1 DEF Database
<1>5. coordinator \in Coordinator /\ Exclusive(coordinator) /\ Active(coordinator) = {} /\ ~Down
  BY <1>1, <1>2 DEF Coordinator, Exclusive, Active, Down
<1>6. TypeOK
  <2>1. tx \in [Transactions -> Transaction]
    <3>1. tx = [t \in Transactions |-> tx[t]]
      BY DEF Init
    <3> QED BY <1>3, <3>1
  <2>2. db \in [Databases -> Database]
    <3>1. db = [d \in Databases |-> db[d]]
      BY DEF Init
    <3> QED BY <1>4, <3>1
  <2>3. queue \in Seq(Tasks) /\ posted \in Seq({"callback", "refusal"} \X Transactions)
    BY <1>1, <1>2
  <2>4. coordinator.readers \subseteq ReadOnly /\ coordinator.writers \subseteq Transactions \ ReadOnly
    BY <1>1
  <2> QED BY <1>1, <2>1, <2>2, <2>3, <2>4 DEF TypeOK
<1>7. ASSUME NEW t \in Transactions
      PROVE  ~Waits(t) /\ ~Queued(t) /\ ~Pends(t) /\ ~Calls(t) /\ ~Refused(t)
  <2>1. DatabaseOf[t] \in Databases
    OBVIOUS
  <2> QED BY <1>1, <1>2, <1>4, <2>1 DEF Waits, Queued, Pends, Calls, Refused
<1>8. ListsInv
  BY <1>1, <1>2, <1>4, <1>5 DEF ListsInv
<1>9. TasksInv
  BY <1>1, <1>2, <1>4 DEF TasksInv, TaskInv
<1>10. PlacesInv
  BY <1>1, <1>3, <1>7 DEF PlacesInv, PlaceInv, Live
<1>11. ThreadInv
  BY <1>1, <1>3, <1>5, <1>7 DEF ThreadInv, ControlInv, Live
<1>12. RecordsInv
  <2>1. ASSUME NEW t \in Transactions PROVE RecordInv(t)
    <3>1. Coherent(tx[t]) /\ Fresh(tx[t])
      BY <1>3 DEF Coherent, Fresh, Working, Ending
    <3> QED BY <1>1, <1>3, <1>7, <3>1 DEF RecordInv
  <2> QED BY <2>1 DEF RecordsInv
<1>13. LocksInv
  BY <1>1, <1>3, <1>5 DEF LocksInv, LockInv
<1>14. TurnsInv
  BY <1>3, <1>4 DEF TurnsInv, Live
<1> QED BY <1>6, <1>8, <1>9, <1>10, <1>11, <1>12, <1>13, <1>14 DEF WebDatabaseInv

\* The invariant that the theorems rest on.
THEOREM Invariance == Spec => []WebDatabaseInv
<1>1. WebDatabaseInv /\ [Next]_vars => WebDatabaseInv'
  BY EveryStep, NoStep
<1> QED BY <1>1, AtFirst, PTL DEF Spec

\* A list without duplicates names anything once or not at all.
LEMMA OccursOnce ==
    ASSUME NEW S, NEW s \in Seq(S), NoDuplicates(s), NEW x
    PROVE  Occurrences(s, x) = IF x \in Listed(s) THEN 1 ELSE 0
<1>1. CASE x \in Listed(s)
  <2>1. PICK i \in DOMAIN s : s[i] = x
    BY <1>1 DEF Listed
  <2>2. {k \in DOMAIN s : s[k] = x} = {i}
    BY <2>1 DEF NoDuplicates
  <2> QED BY <1>1, <2>2, FS_Singleton DEF Occurrences
<1>2. CASE x \notin Listed(s)
  <2>1. {k \in DOMAIN s : s[k] = x} = {}
    BY <1>2 DEF Listed
  <2> QED BY <1>2, <2>1, FS_EmptySet DEF Occurrences
<1> QED BY <1>1, <1>2

\* Every object, queue and flag of Web SQL keeps its type, whatever scripts, the
\* database thread and its shutdown do.
THEOREM TypeCorrect == Spec => []TypeOK
<1>1. WebDatabaseInv => TypeOK
  BY DEF WebDatabaseInv
<1> QED BY <1>1, Invariance, PTL

\* A live transaction is in exactly one hand (its database's queue, the thread's
\* queue, the thread, the coordinator or the main thread), or in none because the
\* thread is to stop or has locked itself out.
THEOREM NeverInTwoHands == Spec => []OneStepAtATime
<1>1. WebDatabaseInv => OneStepAtATime
  <2>1. SUFFICES ASSUME WebDatabaseInv, NEW t \in Transactions, Live(t)
                 PROVE  \/ Tokens(t) = 1
                        \/ Tokens(t) = 0 /\ (killed \/ thread = "selfLocked")
    BY DEF OneStepAtATime
  <2>2. PICK a, b, c, e, f :
          /\ a = Occurrences(db[DatabaseOf[t]].waiting, t)
          /\ b = Occurrences(queue, Step(t))
          /\ c = IF running = t THEN 1 ELSE 0
          /\ e = Occurrences(coordinator.pending, t)
          /\ f = Occurrences(posted, <<"callback", t>>)
    OBVIOUS
  <2>3. Tokens(t) = a + b + c + e + f
    BY <2>2 DEF Tokens
  <2>4. DatabaseOf[t] \in Databases
    BY WebDatabaseAssumption
  <2>5. a = IF Waits(t) THEN 1 ELSE 0
    <3>1. /\ db[DatabaseOf[t]].waiting \in Seq(Transactions)
          /\ NoDuplicates(db[DatabaseOf[t]].waiting)
      BY <2>1, <2>4 DEF WebDatabaseInv, TypeOK, ListsInv, Database
    <3> QED BY <2>2, <3>1, OccursOnce DEF Waits
  <2>6. b = IF Queued(t) THEN 1 ELSE 0
    <3>1. queue \in Seq(Tasks) /\ NoDuplicates(queue)
      BY <2>1 DEF WebDatabaseInv, TypeOK, ListsInv
    <3> QED BY <2>2, <3>1, OccursOnce DEF Queued
  <2>7. e = IF Pends(t) THEN 1 ELSE 0
    <3>1. coordinator.pending \in Seq(Transactions) /\ NoDuplicates(coordinator.pending)
      BY <2>1 DEF WebDatabaseInv, ListsInv, Coordinator
    <3> QED BY <2>2, <3>1, OccursOnce DEF Pends
  <2>8. f = IF Calls(t) THEN 1 ELSE 0
    <3>1. PICK C : C = {"callback", "refusal"} \X Transactions
      OBVIOUS
    <3>2. posted \in Seq(C) /\ NoDuplicates(posted)
      BY <2>1, <3>1 DEF WebDatabaseInv, TypeOK, ListsInv
    <3> QED BY <2>2, <3>2, OccursOnce DEF Calls
  <2>9. PlaceInv(t)
    BY <2>1 DEF WebDatabaseInv, PlacesInv
  <2> QED BY <2>1, <2>2, <2>3, <2>5, <2>6, <2>7, <2>8, <2>9 DEF PlaceInv
<1> QED BY <1>1, Invariance, PTL

\* No step runs, and none that still will is queued, for a transaction that was
\* cleaned up and has not ended: doCleanup has cleared what the step would use.
THEOREM CleanedIsNotRun == Spec => []NoStepAfterCleanup
<1>1. WebDatabaseInv => NoStepAfterCleanup
  <2>1. SUFFICES ASSUME WebDatabaseInv, NEW t \in Transactions, tx[t].cleaned
                 PROVE  /\ running # t
                        /\ Contains(queue, Step(t)) /\ ~killed =>
                               tx[t].next = "End" /\ ~db[DatabaseOf[t]].opened
    BY DEF NoStepAfterCleanup
  <2>2. queue \in Seq(Tasks)
    BY <2>1 DEF WebDatabaseInv, TypeOK
  <2>3. Contains(queue, Step(t)) => Queued(t)
    BY <2>2 DEF Contains, Queued, Listed
  <2>4. ControlInv(t) /\ (Down => killed)
    BY <2>1 DEF WebDatabaseInv, ThreadInv
  <2> QED BY <2>1, <2>3, <2>4 DEF ControlInv, Live
<1> QED BY <1>1, Invariance, PTL

\* Two transactions that are open in SQLite together are readers, and a writer
\* that can still commit holds the origin's lock: the coordinator passes its locks
\* on and doCleanup gives them back in whichever order, and this stays true.
THEOREM TransactionsAreIsolated == Spec => []Isolation
<1>1. WebDatabaseInv => Isolation
  <2>1. SUFFICES ASSUME WebDatabaseInv PROVE Isolation
    OBVIOUS
  <2>2. ASSUME NEW t \in Transactions, tx[t].sqlite # "none"
        PROVE  t \in Active(coordinator)
    <3>1. Coherent(tx[t]) /\ LockInv(t)
      BY <2>1 DEF WebDatabaseInv, RecordsInv, RecordInv, LocksInv
    <3> QED BY <2>2, <3>1 DEF Coherent, LockInv
  <2>3. Exclusive(coordinator) /\ coordinator \in Coordinator
    BY <2>1 DEF WebDatabaseInv, LocksInv, ListsInv
  <2>4. ASSUME NEW t \in Transactions, NEW u \in Transactions, t # u,
               tx[t].sqlite # "none", tx[u].sqlite # "none"
        PROVE  t \in ReadOnly /\ u \in ReadOnly
    <3>1. t \in Active(coordinator) /\ u \in Active(coordinator)
      BY <2>2, <2>4
    <3> QED BY <2>3, <2>4, <3>1 DEF Active, Exclusive, Coordinator
  <2>5. ASSUME NEW t \in Transactions \ ReadOnly, tx[t].sqlite = "open"
        PROVE  originLock = t
    BY <2>1, <2>5 DEF WebDatabaseInv, LocksInv, LockInv
  <2> QED BY <2>4, <2>5 DEF Isolation
<1> QED BY <1>1, Invariance, PTL

\* What the page is told is what the database holds: success only after a commit of
\* every statement, an error never after one.
THEOREM PageIsToldTheTruth == Spec => []OutcomeMatchesDatabase
<1>1. WebDatabaseInv => OutcomeMatchesDatabase
  BY DEF WebDatabaseInv, RecordsInv, RecordInv, Coherent, OutcomeMatchesDatabase
<1> QED BY <1>1, Invariance, PTL

\* Whoever cleaned a transaction up, it holds neither the coordinator's lock nor the
\* OriginLock, and a thread that ended left no transaction that was not cleaned up.
THEOREM CleanupReleasesLocks == Spec => []LocksReleased
<1>1. WebDatabaseInv => LocksReleased
  <2>1. SUFFICES ASSUME WebDatabaseInv, NEW t \in Transactions
                 PROVE  /\ tx[t].cleaned =>
                            /\ originLock # t
                            /\ t \in Active(coordinator) => coordinator.shuttingDown
                        /\ thread = "ended" /\ tx[t].born => tx[t].cleaned
    BY DEF LocksReleased
  <2>2. LockInv(t) /\ ControlInv(t)
    BY <2>1 DEF WebDatabaseInv, LocksInv, ThreadInv
  <2> QED BY <2>1, <2>2 DEF LockInv, ControlInv, Live, Down
<1> QED BY <1>1, Invariance, PTL
=============================================================================
