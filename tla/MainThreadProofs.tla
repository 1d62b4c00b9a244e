--------------------------- MODULE MainThreadProofs ---------------------------
(***************************************************************************)
(* Proofs about MainThread, for every number of threads and functions and  *)
(* every pipe capacity.                                                    *)
(***************************************************************************)
EXTENDS MainThread, FiniteSetTheorems, WellFoundedInduction, TLAPS

\* What the set of threads in scheduleDispatchFunctionsOnMainThread contributes
\* to Wakeups.
LEMMA WritersCount ==
    ASSUME NEW W \in SUBSET Threads
    PROVE  /\ IsFiniteSet(W)
           /\ Cardinality(W) \in Nat
           /\ \A t \in Threads \ W : Cardinality(W \cup {t}) = Cardinality(W) + 1
           /\ \A t \in W : Cardinality(W \ {t}) = Cardinality(W) - 1
<1>1. IsFiniteSet(W)
  BY ConstantsAssumption, FS_Subset
<1>2. Cardinality(W) \in Nat
  BY <1>1, FS_CardinalityType
<1>3. \A t \in Threads \ W : Cardinality(W \cup {t}) = Cardinality(W) + 1
  BY <1>1, FS_AddElement
<1>4. \A t \in W : Cardinality(W \ {t}) = Cardinality(W) - 1
  BY <1>1, FS_RemoveElement
<1> QED BY <1>1, <1>2, <1>3, <1>4

-----------------------------------------------------------------------------
\* The recursion of Without, as a predicate on its first n values.
Filters(F, s, e, n) ==
    F = [i \in 0 .. n |-> IF i = 0 THEN <<>>
                          ELSE IF s[i] # e THEN Append(F[i - 1], s[i])
                                           ELSE F[i - 1]]

\* The set of naturals has minima: induction as a minimal counterexample.
LEMMA MinimalNat ==
    ASSUME NEW B \in SUBSET Nat, B # {}
    PROVE  \E n \in B : \A m \in B : ~ (m < n)
<1>1. PICK n \in B : \A m \in B : ~ (<<m, n>> \in OpToRel(<, Nat))
  BY NatLessThanWellFounded, WFMin, Zenon
<1> QED BY <1>1 DEF OpToRel

\* A function satisfying the recursion of Without exists: the first n up to
\* which there is none would be one step past one for which there is.
LEMMA FilterExists ==
    ASSUME NEW S, NEW s \in Seq(S), NEW e, NEW len \in Nat, len <= Len(s)
    PROVE  \E F \in [0 .. len -> Seq(S)] : Filters(F, s, e, len)
<1> DEFINE Bad == {n \in Nat : n <= Len(s)
                         /\ ~ \E F \in [0 .. n -> Seq(S)] : Filters(F, s, e, n)}
<1>1. SUFFICES ASSUME Bad # {} PROVE FALSE
  OBVIOUS
<1>2. PICK n \in Bad : \A m \in Bad : ~ (m < n)
  BY <1>1, MinimalNat
<1>3. n # 0
  <2>1. [i \in 0 .. 0 |-> <<>>] \in [0 .. 0 -> Seq(S)]
    OBVIOUS
  <2>2. Filters([i \in 0 .. 0 |-> <<>>], s, e, 0)
    BY DEF Filters
  <2> QED BY <2>1, <2>2
<1>4. PICK G \in [0 .. n - 1 -> Seq(S)] : Filters(G, s, e, n - 1)
  <2>1. n - 1 \in Nat /\ n - 1 <= Len(s) /\ n - 1 < n
    BY <1>3
  <2>2. n - 1 \notin Bad
    BY <1>2, <2>1
  <2> QED BY <2>1, <2>2
<1> DEFINE H == [i \in 0 .. n |-> IF i < n THEN G[i]
                  ELSE IF s[n] # e THEN Append(G[n - 1], s[n]) ELSE G[n - 1]]
<1>5. H \in [0 .. n -> Seq(S)]
  <2>1. n \in 1 .. Len(s) /\ s[n] \in S
    BY <1>3
  <2>2. G[n - 1] \in Seq(S)
    BY <2>1
  <2> QED BY <2>1, <2>2
<1>6. \A i \in 0 .. n : H[i] = IF i = 0 THEN <<>>
                             ELSE IF s[i] # e THEN Append(H[i - 1], s[i])
                                              ELSE H[i - 1]
  <2> SUFFICES ASSUME NEW i \in 0 .. n
               PROVE  H[i] = IF i = 0 THEN <<>>
                             ELSE IF s[i] # e THEN Append(H[i - 1], s[i])
                                              ELSE H[i - 1]
    OBVIOUS
  <2>1. CASE i = n
    BY <1>3, <2>1
  <2>2. CASE i < n
    <3>1. i \in 0 .. n - 1
      BY <2>2
    <3>2. G[i] = IF i = 0 THEN <<>>
                 ELSE IF s[i] # e THEN Append(G[i - 1], s[i]) ELSE G[i - 1]
      BY <3>1, <1>4 DEF Filters
    <3> QED BY <2>2, <3>2
  <2> QED BY <2>1, <2>2
<1>7. Filters(H, s, e, n)
  BY <1>6 DEF Filters
<1> QED BY <1>5, <1>7

\* Whatever satisfies that recursion yields sequences over S.
LEMMA FilterType ==
    ASSUME NEW S, NEW s \in Seq(S), NEW e, NEW F, Filters(F, s, e, Len(s))
    PROVE  \A i \in 0 .. Len(s) : F[i] \in Seq(S)
<1> DEFINE Bad == {n \in Nat : n <= Len(s) /\ F[n] \notin Seq(S)}
<1>1. SUFFICES ASSUME Bad # {} PROVE FALSE
  OBVIOUS
<1>2. PICK n \in Bad : \A m \in Bad : ~ (m < n)
  BY <1>1, MinimalNat
<1>3. \A i \in 0 .. Len(s) :
        F[i] = IF i = 0 THEN <<>>
               ELSE IF s[i] # e THEN Append(F[i - 1], s[i]) ELSE F[i - 1]
  BY Zenon DEF Filters
<1>4. n \in 0 .. Len(s) /\ F[n] \notin Seq(S)
  OBVIOUS
<1>5. n # 0
  <2>1. <<>> \in Seq(S)
    OBVIOUS
  <2>2. 0 \in 0 .. Len(s) /\ F[0] = <<>>
    BY <1>3
  <2> QED BY <1>4, <2>1, <2>2
<1>6. n - 1 \in Nat /\ F[n - 1] \in Seq(S) /\ s[n] \in S
  BY <1>2, <1>4, <1>5
<1>7. F[n] = Append(F[n - 1], s[n]) \/ F[n] = F[n - 1]
  BY <1>3, <1>4, <1>5, Zenon
<1>8. Append(F[n - 1], s[n]) \in Seq(S)
  BY <1>6
<1> QED BY <1>4, <1>6, <1>7, <1>8, Zenon

\* What cancelCallOnMainThread leaves in the queue are functions.
LEMMA WithoutType ==
    ASSUME NEW S, NEW s \in Seq(S), NEW e
    PROVE  Without(s, e) \in Seq(S)
<1> DEFINE F == CHOOSE G : Filters(G, s, e, Len(s))
<1>1. Len(s) \in Nat /\ Len(s) <= Len(s)
  OBVIOUS
<1>2. \E G : Filters(G, s, e, Len(s))
  BY <1>1, FilterExists
<1>3. Filters(F, s, e, Len(s))
  BY <1>2
<1>4. Without(s, e) = F[Len(s)]
  BY DEF Without, Filters
<1> HIDE DEF F
<1> QED BY <1>1, <1>3, <1>4, FilterType

-----------------------------------------------------------------------------
\* Every step of the main thread, of the other threads and of the event loop
\* keeps the state well-formed: the pipe never holds more than its capacity,
\* and cancelling leaves a queue of functions.
THEOREM TypeCorrect == Spec => []TypeOK
<1> USE ConstantsAssumption
<1>1. Init => TypeOK
  <2> SUFFICES ASSUME Init PROVE TypeOK
    OBVIOUS
  <2>1. paused \in BOOLEAN /\ writing \in BOOLEAN
    BY Zenon DEF Init
  <2> QED BY <2>1 DEF Init, TypeOK, Locations, Activations
<1>2. TypeOK /\ [Next]_vars => TypeOK'
  <2> SUFFICES ASSUME TypeOK, [Next]_vars PROVE TypeOK'
    OBVIOUS
  <2> USE DEF TypeOK, Locations, Activations
  <2>1. ASSUME NEW t \in Threads, ThreadWrite(t) PROVE TypeOK'
    BY <2>1 DEF ThreadWrite
  <2>2. ASSUME NEW t \in Threads, NEW f \in Functions, ThreadPost(t, f) PROVE TypeOK'
    BY <2>2 DEF ThreadPost, Enqueue
  <2>3. ASSUME NEW f \in Functions, MainPost(f) PROVE TypeOK'
    BY <2>3 DEF MainPost, Enqueue
  <2>4. ASSUME NEW f \in Functions, Cancel(f) PROVE TypeOK'
    BY <2>4, WithoutType DEF Cancel
  <2>5. CASE MainWrite
    <3>1. writing' \in BOOLEAN
      BY <2>5, Zenon DEF MainWrite
    <3> QED BY <2>5, <3>1 DEF MainWrite
  <2>6. CASE Pause
    BY <2>6 DEF Pause
  <2>7. CASE Unpause
    BY <2>7 DEF Unpause
  <2>8. CASE EnterHandler
    BY <2>8 DEF EnterHandler
  <2>9. CASE TakeFirst
    BY <2>9 DEF TakeFirst
  <2>10. CASE Elapse
    BY <2>10 DEF Elapse
  <2>11. CASE FunctionReturns
    BY <2>11 DEF FunctionReturns, Elapsed
  <2>12. CASE ReadByte
    BY <2>12 DEF ReadByte, HandlerReturns, Elapsed
  <2>13. CASE EnterNestedLoop
    BY <2>13 DEF EnterNestedLoop
  <2>14. CASE LeaveNestedLoop
    BY <2>14 DEF LeaveNestedLoop
  <2>15. CASE UNCHANGED vars
    BY <2>15 DEF vars
  <2> QED BY <2>1, <2>2, <2>3, <2>4, <2>5, <2>6, <2>7, <2>8, <2>9, <2>10, <2>11,
             <2>12, <2>13, <2>14, <2>15 DEF Next
<1> QED BY <1>1, <1>2, PTL DEF Spec

-----------------------------------------------------------------------------
\* A nested event loop makes the dispatch around it late, if there is any.
SlowLoops == MaxNesting = 0 \/ ~QuickLoops

\* The strengthening of NoLostWakeup that is inductive: from the moment
\* handler() is entered until its read(), the byte that woke the loop stays in
\* the pipe, so that a wake-up asked for meanwhile is a second one.  The
\* handler() of a nested event loop may read it, but then the dispatch is late
\* when that loop ends, and will write another one before its read().
WakeupInv ==
    /\ pc = "take" => ~writing /\ pipe > 0
    /\ pc = "run" => pipe > 0 \/ Elapsed
    /\ pc = "read" => pipe > 0 \/ writing
    /\ queue # <<>> /\ ~paused => Wakeups > (IF pc = "read" THEN 1 ELSE 0)

\* Every step keeps a wake-up on its way while functions wait, as long as no
\* nested event loop is quick.
LEMMA WakeupInvStep ==
    ASSUME SlowLoops, TypeOK, TypeOK', WakeupInv, [Next]_vars
    PROVE  WakeupInv'
<1> USE ConstantsAssumption DEF TypeOK, Locations, Activations, WakeupInv, Wakeups, Elapsed
<1>0. /\ Cardinality(writers) \in Nat
      /\ \A t \in Threads \ writers : Cardinality(writers \cup {t}) = Cardinality(writers) + 1
      /\ \A t \in writers : Cardinality(writers \ {t}) = Cardinality(writers) - 1
  BY WritersCount
<1>1. ASSUME NEW t \in Threads, ThreadWrite(t) PROVE WakeupInv'
  BY <1>0, <1>1 DEF ThreadWrite
<1>2. ASSUME NEW t \in Threads, NEW f \in Functions, ThreadPost(t, f) PROVE WakeupInv'
  BY <1>0, <1>2 DEF ThreadPost, Enqueue
<1>3. ASSUME NEW f \in Functions, MainPost(f) PROVE WakeupInv'
  <2>1. ~writing /\ pc \in {"wait", "run"} /\ (writing' <=> queue = <<>>)
    BY <1>3, Zenon DEF MainPost, MainRunsCode
  <2>2. CASE queue = <<>>
    BY <1>0, <1>3, <2>1, <2>2 DEF MainPost
  <2>3. CASE queue # <<>>
    BY <1>0, <1>3, <2>1, <2>3 DEF MainPost
  <2> QED BY <2>2, <2>3
<1>4. ASSUME NEW f \in Functions, Cancel(f) PROVE WakeupInv'
  <2>1. queue # <<>>
    BY <1>4 DEF Cancel, Contains
  <2> QED BY <1>0, <1>4, <2>1 DEF Cancel
<1>5. CASE MainWrite
  BY <1>0, <1>5 DEF MainWrite
<1>6. CASE Pause
  BY <1>0, <1>6 DEF Pause
<1>7. CASE Unpause
  BY <1>0, <1>7 DEF Unpause, MainRunsCode
<1>8. CASE EnterHandler
  BY <1>0, <1>8 DEF EnterHandler
<1>9. CASE TakeFirst
  BY <1>0, <1>9 DEF TakeFirst
<1>10. CASE Elapse
  BY <1>0, <1>10 DEF Elapse
<1>11. CASE FunctionReturns
  <2>1. CASE Elapsed
    <3>1. writing' /\ pc' = "read" /\ UNCHANGED <<queue, paused, pipe, writers>>
      BY <1>11, <2>1, Zenon DEF FunctionReturns
    <3> QED BY <1>0, <1>11, <3>1 DEF FunctionReturns
  <2>2. CASE ~Elapsed
    <3>1. ~writing' /\ pc' = "take" /\ pipe > 0 /\ UNCHANGED <<queue, paused, pipe, writers>>
      BY <1>11, <2>2 DEF FunctionReturns
    <3> QED BY <1>0, <1>11, <3>1 DEF FunctionReturns
  <2> QED BY <2>1, <2>2
<1>12. CASE ReadByte
  BY <1>0, <1>12 DEF ReadByte, HandlerReturns
<1>13. CASE EnterNestedLoop
  BY <1>0, <1>13 DEF EnterNestedLoop
<1>14. CASE LeaveNestedLoop
  BY <1>0, <1>14 DEF LeaveNestedLoop, SlowLoops
<1>15. CASE UNCHANGED vars
  BY <1>15 DEF vars
<1> QED BY <1>1, <1>2, <1>3, <1>4, <1>5, <1>6, <1>7, <1>8, <1>9, <1>10, <1>11,
           <1>12, <1>13, <1>14, <1>15 DEF Next

\* Hence it holds in every such behaviour.
LEMMA WakeupInvariant == SlowLoops => (Spec => []WakeupInv)
<1> SUFFICES ASSUME SlowLoops PROVE Spec => []WakeupInv
  OBVIOUS
<1>1. Init => WakeupInv
  BY DEF Init, WakeupInv
<1>2. TypeOK /\ TypeOK' /\ WakeupInv /\ [Next]_vars => WakeupInv'
  BY WakeupInvStep
<1> QED BY <1>1, <1>2, TypeCorrect, PTL DEF Spec

\* callOnMainThread never strands a function, if no event loop that a dispatched
\* function opens ends before that function's dispatch is 50 ms old: neither in
\* the main event loop nor in a nested one does a function wait without a byte
\* that will wake the loop.
THEOREM WakeupNeverLost == MaxNesting = 0 \/ ~QuickLoops => (Spec => []NoLostWakeup)
<1> SUFFICES ASSUME SlowLoops PROVE Spec => []NoLostWakeup
  BY DEF SlowLoops
<1>1. WakeupInv => NoLostWakeup
  BY DEF WakeupInv, NoLostWakeup
<1> QED BY <1>1, WakeupInvariant, PTL

\* Under the same condition handler() never blocks the UI thread in read(),
\* although the handler() of a nested event loop may have read its byte.
THEOREM HandlerNeverBlocks == MaxNesting = 0 \/ ~QuickLoops => (Spec => []ReadNeverBlocks)
<1> SUFFICES ASSUME SlowLoops PROVE Spec => []ReadNeverBlocks
  BY DEF SlowLoops
<1>1. WakeupInv => ReadNeverBlocks
  BY DEF WakeupInv, ReadNeverBlocks
<1> QED BY <1>1, WakeupInvariant, PTL

-----------------------------------------------------------------------------
\* Every step keeps the bound on the bytes in the pipe.
LEMMA SelfWakeupsStep ==
    ASSUME TypeOK, SelfWakeupsBounded, [Next]_vars
    PROVE  SelfWakeupsBounded'
<1> USE ConstantsAssumption DEF TypeOK, Locations, Activations, SelfWakeupsBounded, Wakeups
<1>0. /\ Cardinality(writers) \in Nat
      /\ \A t \in Threads \ writers : Cardinality(writers \cup {t}) = Cardinality(writers) + 1
      /\ \A t \in writers : Cardinality(writers \ {t}) = Cardinality(writers) - 1
  BY WritersCount
<1>1. ASSUME NEW t \in Threads, ThreadWrite(t) PROVE SelfWakeupsBounded'
  BY <1>0, <1>1 DEF ThreadWrite
<1>2. ASSUME NEW t \in Threads, NEW f \in Functions, ThreadPost(t, f) PROVE SelfWakeupsBounded'
  BY <1>0, <1>2 DEF ThreadPost, Enqueue
<1>3. ASSUME NEW f \in Functions, MainPost(f) PROVE SelfWakeupsBounded'
  BY <1>0, <1>3 DEF MainPost, Enqueue, MainRunsCode
<1>4. ASSUME NEW f \in Functions, Cancel(f) PROVE SelfWakeupsBounded'
  BY <1>0, <1>4 DEF Cancel
<1>5. CASE MainWrite
  BY <1>0, <1>5 DEF MainWrite
<1>6. CASE Pause
  BY <1>0, <1>6 DEF Pause
<1>7. CASE Unpause
  BY <1>0, <1>7 DEF Unpause, MainRunsCode
<1>8. CASE EnterHandler
  BY <1>0, <1>8 DEF EnterHandler
<1>9. CASE TakeFirst
  BY <1>0, <1>9 DEF TakeFirst
<1>10. CASE Elapse
  BY <1>0, <1>10 DEF Elapse
<1>11. CASE FunctionReturns
  BY <1>0, <1>11 DEF FunctionReturns
<1>12. CASE ReadByte
  BY <1>0, <1>12 DEF ReadByte
<1>13. CASE EnterNestedLoop
  BY <1>0, <1>13 DEF EnterNestedLoop
<1>14. CASE LeaveNestedLoop
  BY <1>0, <1>14 DEF LeaveNestedLoop
<1>15. CASE UNCHANGED vars
  BY <1>15 DEF vars
<1> QED BY <1>1, <1>2, <1>3, <1>4, <1>5, <1>6, <1>7, <1>8, <1>9, <1>10, <1>11,
           <1>12, <1>13, <1>14, <1>15 DEF Next

\* dispatchFunctionsFromMainThread adds at most one wake-up of its own to those
\* that callers ask for, for any pipe and any nesting of event loops.
THEOREM OneSelfWakeup == Spec => []SelfWakeupsBounded
<1>1. Init => SelfWakeupsBounded
  BY ConstantsAssumption, FS_EmptySet DEF Init, SelfWakeupsBounded, Wakeups
<1>2. TypeOK /\ SelfWakeupsBounded /\ [Next]_vars => SelfWakeupsBounded'
  BY SelfWakeupsStep
<1> QED BY <1>1, <1>2, TypeCorrect, PTL DEF Spec
=============================================================================
