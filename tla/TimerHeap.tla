------------------------------ MODULE TimerHeap ------------------------------
(***************************************************************************)
(* The binary heap that orders WebCore's timers (WebCore/platform/         *)
(* Timer.cpp).  A heap is a sequence of timers, its first element the next *)
(* to fire; nextFire gives m_nextFireTime (0: not set) and order lists the *)
(* timers by m_heapInsertionOrder, oldest first (the code compares two     *)
(* unsigned counters by their difference; the position in order keeps what *)
(* that difference says as long as the counters are less than 2^31 apart). *)
(***************************************************************************)
EXTENDS Naturals, Sequences, SequencesExt, FiniteSetsExt

\* m_heapIndex, from 1; 0 when t is not in s.
Position(s, t) == IF Contains(s, t) THEN CHOOSE i \in DOMAIN s : s[i] = t ELSE 0

IgnoringInsertionOrder(a, b, nextFire, order) ==
    nextFire[a] < nextFire[b]

\* TimerHeapLessThanFunction, turned the right way round: a fires before b.
Before(a, b, nextFire, order) ==
    \/ nextFire[a] < nextFire[b]
    \/ /\ nextFire[a] = nextFire[b]
       /\ a # b
       /\ Position(order, a) < Position(order, b)

\* The places from p up to the root.
Ancestors[p \in Nat] == IF p = 0 THEN {} ELSE {p} \cup Ancestors[p \div 2]

\* Where the element at i comes to rest when it rises past the ancestors that
\* it precedes.
RisesTo(heap, i, nextFire, order) ==
    Min({p \in Ancestors[i] : \A q \in Ancestors[i] : p <= q /\ q < i =>
             Before(heap[i], heap[q], nextFire, order)})

\* push_heap on the first i elements: the last of them rises.
PushHeap(heap, i, nextFire, order) ==
    LET dest == RisesTo(heap, i, nextFire, order)
    IN  [q \in DOMAIN heap |->
            IF q = dest THEN heap[i]
            ELSE IF q \in Ancestors[i] /\ q > dest THEN heap[q \div 2]
            ELSE heap[q]]

\* The child of p, among the first n elements, that fires first.
FirstChild(heap, n, p, nextFire, order) ==
    IF 2 * p = n \/ Before(heap[2 * p], heap[2 * p + 1], nextFire, order)
    THEN 2 * p ELSE 2 * p + 1

\* The way down from the root along such children.
SinkPath(heap, n, nextFire, order) ==
    {p \in 1 .. n : \A q \in Ancestors[p] \ {1} :
         q = FirstChild(heap, n, q \div 2, nextFire, order)}

\* Where the element after the n-th comes to rest on that way when it sinks
\* below those that precede it.
SinksTo(heap, n, nextFire, order) ==
    LET path == SinkPath(heap, n, nextFire, order)
    IN  Max({p \in path : \A q \in path : 1 < q /\ q <= p =>
                 Before(heap[q], heap[n + 1], nextFire, order)})

\* pop_heap and removeLast: the last element takes the root's place and sinks.
PopHeap(heap, nextFire, order) ==
    LET n == Len(heap) - 1
        dest == SinksTo(heap, n, nextFire, order)
    IN  IF n = 0 THEN <<>>
        ELSE [q \in 1 .. n |->
                 IF q = dest THEN heap[n + 1]
                 ELSE IF q \in SinkPath(heap, n, nextFire, order) /\ q < dest
                      THEN heap[FirstChild(heap, n, q, nextFire, order)]
                 ELSE heap[q]]

\* heapPop and removeLast: the element at i is given the least key, rises to
\* the root and is popped.
HeapRemove(heap, i, nextFire, order) ==
    PopHeap(PushHeap(heap, i, [nextFire EXCEPT ![heap[i]] = 0], order),
            [nextFire EXCEPT ![heap[i]] = 0], order)

\* heapInsert
HeapInsert(heap, t, nextFire, order) ==
    PushHeap(Append(heap, t), Len(heap) + 1, nextFire, order)

OnlyFirstChildChecked(heap, i, nextFire, order) ==
    /\ i > 1 => Before(heap[i \div 2], heap[i], nextFire, order)
    /\ 2 * i <= Len(heap) => Before(heap[i], heap[2 * i], nextFire, order)

\* hasValidHeapPosition: parentHeapPropertyHolds and childHeapPropertyHolds.
HasValidHeapPosition(heap, i, nextFire, order) ==
    /\ i > 1 => Before(heap[i \div 2], heap[i], nextFire, order)
    /\ \A c \in {2 * i, 2 * i + 1} :
           c <= Len(heap) => Before(heap[i], heap[c], nextFire, order)

\* updateHeapIfNeeded: nextFire and order already hold the new key of t;
\* oldTime is the fire time it had.
UpdateHeapIfNeeded(heap, t, oldTime, nextFire, order) ==
    LET i == Position(heap, t)
    IN  IF oldTime = 0 THEN HeapInsert(heap, t, nextFire, order)
        ELSE IF nextFire[t] = 0 THEN HeapRemove(heap, i, nextFire, order)
        ELSE IF HasValidHeapPosition(heap, i, nextFire, order) THEN heap
        ELSE IF nextFire[t] < oldTime THEN PushHeap(heap, i, nextFire, order)
        ELSE HeapInsert(HeapRemove(heap, i, nextFire, order),
                        t, nextFire, order)
=============================================================================
