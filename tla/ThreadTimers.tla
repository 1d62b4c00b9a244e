---------------------------- MODULE ThreadTimers ----------------------------
(***************************************************************************)
(* The main thread's timers: TimerBase and its heap (WebCore/platform/     *)
(* Timer.cpp), ThreadTimers (WebCore/platform/ThreadTimers.cpp) and the    *)
(* single FLTK timeout they share (WebCore/platform/fltk/                  *)
(* SharedTimerFLTK.cpp).                                                   *)
(*                                                                         *)
(* All of it runs on the main thread.  What interleaves is the call stack: *)
(* a timer's fired() may open a dialog or stop in the debugger, whose      *)
(* nested event loop calls callback() again.  stack holds one record per   *)
(* activation of sharedTimerFiredInternal.                                 *)
(*                                                                         *)
(* Time is a clock of MaxTime ticks.  A tick is the 5 ms below which       *)
(* callback() never repeats itself.                                        *)
(***************************************************************************)
EXTENDS TimerHeap

CONSTANTS Timers,      \* the TimerBase objects
          Repeating,   \* the timers that are also started as repeating ones
          Delays,      \* fire intervals in ticks
          Repeats,     \* repeat intervals in ticks
          Watched,     \* the timers whose liveness is checked
          MaxTime,     \* bound: the clock stops here
          MaxDelay,    \* bound: the longest interval
          MaxNesting   \* bound: activations on the stack

ASSUME TimersAssumption ==
    /\ Repeating \subseteq Timers
    /\ MaxTime \in Nat \ {0} /\ MaxDelay \in Nat \ {0} /\ MaxNesting \in Nat \ {0}
    /\ Delays \subseteq 0 .. MaxDelay
    /\ Repeats \subseteq 1 .. MaxDelay

VARIABLES now,       \* monotonicallyIncreasingTime()
          nextFire,  \* m_nextFireTime of each timer, 0 when it is not set
          repeat,    \* m_repeatInterval of each timer
          order,     \* timers by m_heapInsertionOrder, the oldest first
          heap,      \* m_timerHeap
          firing,    \* m_firingTimers
          pending,   \* m_pendingSharedTimerFireTime
          shared,    \* the port's shared timer
          stack      \* activations of sharedTimerFiredInternal

vars == <<now, nextFire, repeat, order, heap, firing, pending, shared, stack>>

Horizon == MaxTime + MaxDelay

\* The statics of SharedTimerFLTK.cpp; timeouts has the moments at which FLTK
\* will run callback(), the earliest first.
SharedTimers == [interval : 0 .. MaxDelay, running : BOOLEAN,
                 timeouts : Seq(0 .. Horizon)]

\* fireTime is the local of the activation.  It is at the test of its while
\* loop, inside a timer's fired(), in a nested event loop that fired() opened,
\* or past its loop.
Activations == [fireTime : 1 .. MaxTime,
                at : {"test", "fired", "nested", "end"}]

TypeOK ==
    /\ now \in 1 .. MaxTime
    /\ nextFire \in [Timers -> 0 .. Horizon]
    /\ repeat \in [Timers -> Repeats \cup {0}]
    /\ order \in Seq(Timers) /\ IsInjective(order)
    /\ heap \in Seq(Timers) /\ IsInjective(heap)
    /\ firing \in BOOLEAN
    /\ pending \in 0 .. Horizon
    /\ shared \in SharedTimers
    /\ stack \in Seq(Activations) /\ Len(stack) <= MaxNesting

Init ==
    /\ now = 1
    /\ nextFire = [t \in Timers |-> 0]
    /\ repeat = [t \in Timers |-> 0]
    /\ order = <<>>
    /\ heap = <<>>
    /\ firing = FALSE
    /\ pending = 0
    /\ shared = [interval |-> 0, running |-> FALSE, timeouts |-> <<>>]
    /\ stack = <<>>

-----------------------------------------------------------------------------
(* SharedTimerFLTK.cpp, as functions of the shared timer's state.           *)

\* Fl::add_timeout: a timeout goes behind those that are not later.
AddTimeout(sh, e) ==
    LET ts == sh.timeouts
        i == Min({j \in 1 .. Len(ts) + 1 : j <= Len(ts) => e < ts[j]})
    IN  [sh EXCEPT !.timeouts = InsertAt(ts, i, e)]

\* stopSharedTimer: Fl::remove_timeout removes every timeout of callback().
StopSharedTimer(sh) ==
    [sh EXCEPT !.timeouts = IF sh.running THEN <<>> ELSE @,
               !.running = FALSE]

WithoutRemoval(sh, interval) ==
    [AddTimeout(sh, now + interval)
        EXCEPT !.interval = interval, !.running = TRUE]

\* setSharedTimerFireInterval
SetSharedTimerFireInterval(sh, interval) ==
    [AddTimeout(IF sh.running THEN StopSharedTimer(sh) ELSE sh, now + interval)
        EXCEPT !.interval = interval, !.running = TRUE]

\* The end of callback(): _interval is raised to 5 ms and Fl::repeat_timeout
\* called (external: FLTK may bring it forward by what this one came late).
Repeated(sh) ==
    LET i == Max({sh.interval, 1})
    IN  [AddTimeout(sh, now + i) EXCEPT !.interval = i]

-----------------------------------------------------------------------------
(* ThreadTimers::updateSharedTimer, when m_firingTimers is f, the heap h,   *)
(* the fire times nf and the pending fire time p.                           *)

AnyPendingWillDo(h, nf, p) == p # 0

\* No need to restart the timer if both fire times are in the past.
AlreadyOverdue(h, nf, p) == p # 0 /\ p <= now /\ nf[h[1]] <= now

PendingAfterUpdate(f, h, nf, p) ==
    IF f \/ h = <<>> THEN 0
    ELSE IF AlreadyOverdue(h, nf, p) THEN p
    ELSE nf[h[1]]

SharedAfterUpdate(f, h, nf, p) ==
    IF f \/ h = <<>> THEN StopSharedTimer(shared)
    ELSE IF AlreadyOverdue(h, nf, p) THEN shared
    ELSE SetSharedTimerFireInterval(shared, Max({nf[h[1]], now}) - now)

\* The insertion order without the timer, and after it got a new number; a
\* timer outside the heap needs none.
Unnumbered(t) ==
    IF Contains(order, t) THEN RemoveAt(order, Position(order, t)) ELSE order

Renumbered(t, time) ==
    IF time = 0 THEN Unnumbered(t) ELSE Append(Unnumbered(t), t)

\* TimerBase::setNextFireTime, from heap h and fire times nf.  (alignedFireTime
\* is the identity except in a throttled page's DOMTimer.)
SetNextFireTime(t, time, h, nf) ==
    /\ nextFire' = [nf EXCEPT ![t] = time]
    /\ \/ /\ nf[t] = time
          /\ heap' = h
          /\ order' = IF time = 0 THEN Unnumbered(t) ELSE order
          /\ UNCHANGED <<pending, shared>>
       \/ /\ nf[t] # time
          /\ order' = Renumbered(t, time)
          /\ heap' = UpdateHeapIfNeeded(h, t, nf[t], nextFire', order')
          /\ IF Position(h, t) = 1 \/ Position(heap', t) = 1
             THEN /\ pending' = PendingAfterUpdate(firing, heap', nextFire', pending)
                  /\ shared' = SharedAfterUpdate(firing, heap', nextFire', pending)
             ELSE UNCHANGED <<pending, shared>>

-----------------------------------------------------------------------------
\* The innermost activation, and the stack with it moved to another place.
At(place) == stack # <<>> /\ Last(stack).at = place
MovedTo(place) == [stack EXCEPT ![Len(stack)].at = place]

InEventLoop == stack = <<>> \/ At("nested")

Due(t) == nextFire[t] # 0 /\ nextFire[t] <= now

\* Application code runs in a callback of an event loop or in fired().
CodeRuns == InEventLoop \/ At("fired")

\* TimerBase::start
Start(t, delay, interval) ==
    /\ CodeRuns
    /\ repeat' = [repeat EXCEPT ![t] = interval]
    /\ SetNextFireTime(t, now + delay, heap, nextFire)
    /\ UNCHANGED <<now, firing, stack>>

\* TimerBase::stop, which is also what the destructor does.
Stop(t) ==
    /\ CodeRuns
    /\ repeat' = [repeat EXCEPT ![t] = 0]
    /\ SetNextFireTime(t, 0, heap, nextFire)
    /\ UNCHANGED <<now, firing, stack>>

\* The earliest timeout has expired, and FLTK takes it.
Expired == shared.timeouts # <<>> /\ Head(shared.timeouts) <= now
TimeoutTaken == [shared EXCEPT !.timeouts = Tail(@)]

\* callback(), run by FLTK, and the beginning of sharedTimerFiredInternal.
Callback ==
    /\ InEventLoop
    /\ Len(stack) < MaxNesting
    /\ ~firing
    /\ Expired
    /\ shared' = TimeoutTaken
    /\ firing' = TRUE
    /\ pending' = 0
    /\ stack' = Append(stack, [fireTime |-> now, at |-> "test"])
    /\ UNCHANGED <<now, nextFire, repeat, order, heap>>

\* callback() when timers are firing already: the re-entrancy check returns
\* and the timeout is repeated.
ReentrantCallback ==
    /\ InEventLoop
    /\ firing
    /\ Expired
    /\ shared' = Repeated(TimeoutTaken)
    /\ UNCHANGED <<now, nextFire, repeat, order, heap, firing, pending, stack>>

FirstIsDue ==
    heap # <<>> /\ nextFire[heap[1]] <= Last(stack).fireTime

\* The while loop goes round: the first timer leaves the heap, is rearmed if
\* it repeats, and its fired() is entered.
FireFirst ==
    /\ At("test")
    /\ FirstIsDue
    /\ LET t == heap[1]
           time == IF repeat[t] = 0 THEN 0 ELSE Last(stack).fireTime + repeat[t]
       IN  SetNextFireTime(t, time,
                           PopHeap(heap, [nextFire EXCEPT ![t] = 0], order),
                           [nextFire EXCEPT ![t] = 0])
    /\ stack' = MovedTo("fired")
    /\ UNCHANGED <<now, repeat, firing>>

\* fired() returns: the loop ends when a nested event loop has fired timers or
\* 50 ms have passed, which timeUp stands for.
FiredReturns(timeUp) ==
    /\ At("fired")
    /\ stack' = MovedTo(IF ~firing \/ timeUp THEN "end" ELSE "test")
    /\ UNCHANGED <<now, nextFire, repeat, order, heap, firing, pending, shared>>

\* The end of sharedTimerFiredInternal and of callback().
Finish ==
    /\ At("end") \/ (At("test") /\ ~FirstIsDue)
    /\ firing' = FALSE
    /\ pending' = PendingAfterUpdate(FALSE, heap, nextFire, pending)
    /\ shared' = Repeated(SharedAfterUpdate(FALSE, heap, nextFire, pending))
    /\ stack' = Front(stack)
    /\ UNCHANGED <<now, nextFire, repeat, order, heap>>

\* A dialog of the port is opened in fired(): its event loop runs with
\* m_firingTimers still set.
OpenDialog ==
    /\ At("fired")
    /\ stack' = MovedTo("nested")
    /\ UNCHANGED <<now, nextFire, repeat, order, heap, firing, pending, shared>>

\* The script debugger pauses: fireTimersInNestedEventLoop, then its loop.
PauseInDebugger ==
    /\ CodeRuns
    /\ firing' = FALSE
    /\ pending' = PendingAfterUpdate(FALSE, heap, nextFire, 0)
    /\ shared' = SharedAfterUpdate(FALSE, heap, nextFire, 0)
    /\ stack' = IF At("fired") THEN MovedTo("nested") ELSE stack
    /\ UNCHANGED <<now, nextFire, repeat, order, heap>>

\* The nested event loop ends and fired() goes on.
LeaveLoop ==
    /\ At("nested")
    /\ stack' = MovedTo("fired")
    /\ UNCHANGED <<now, nextFire, repeat, order, heap, firing, pending, shared>>

Tick ==
    /\ now < MaxTime
    /\ now' = now + 1
    /\ UNCHANGED <<nextFire, repeat, order, heap, firing, pending, shared, stack>>

Code ==
    \/ \E t \in Timers, d \in Delays : Start(t, d, 0)
    \/ \E t \in Repeating, d \in Delays, r \in Repeats : Start(t, d, r)
    \/ \E t \in Timers : Stop(t)
    \/ OpenDialog
    \/ PauseInDebugger

Dispatch ==
    \/ Callback
    \/ ReentrantCallback
    \/ FireFirst
    \/ Finish

Next ==
    \/ Code
    \/ Dispatch
    \/ \E timeUp \in BOOLEAN : FiredReturns(timeUp)
    \/ LeaveLoop
    \/ Tick

Spec == Init /\ [][Next]_vars

\* The event loop runs the callbacks it owes, timer callbacks return, and a
\* dialog or a debugger pause is ended by the user some time.
Fairness ==
    /\ WF_vars(Callback)
    /\ WF_vars(FireFirst)
    /\ WF_vars(Finish)
    /\ SF_vars(\E timeUp \in BOOLEAN : FiredReturns(timeUp))
    /\ SF_vars(LeaveLoop)

FairSpec == Spec /\ Fairness

-----------------------------------------------------------------------------
(* Properties                                                               *)

\* The state is well-formed, the heap holds exactly the timers with a fire
\* time, and its first one precedes all others: what checkConsistency asserts
\* of one timer and sharedTimerFiredInternal takes for granted of the first.
HeapConsistent ==
    /\ TypeOK
    /\ ToSet(heap) = {t \in Timers : nextFire[t] # 0}
    /\ \A i \in 2 .. Len(heap) : Before(heap[1], heap[i], nextFire, order)

\* While timers are set and none is being fired, FLTK has a timeout for
\* callback() no later than the first of them is due: the early return of
\* updateSharedTimer, stops and spurious repeats never leave it unarmed.
TimerArmed ==
    (heap # <<>> /\ ~firing) =>
        \E e \in ToSet(shared.timeouts) : e <= Max({now, nextFire[heap[1]]})

\* callback() repeats itself even after the shared timer was stopped or set
\* anew; the timeouts that are left over never pile up.
TimeoutsBounded == Len(shared.timeouts) <= 1 + MaxNesting

\* A timer that is due fires, or is stopped or moved: no dialog, no break
\* after 50 ms and no timer that restarts itself starves it.
DueTimersFire == \A t \in Watched : Due(t) ~> ~Due(t)
=============================================================================
