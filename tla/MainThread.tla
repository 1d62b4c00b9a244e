------------------------------ MODULE MainThread ------------------------------
(***************************************************************************)
(* The main-thread function queue of WTF (WTF/wtf/MainThread.cpp) on top   *)
(* of the FLTK wake-up pipe (WTF/wtf/fltk/MainThreadFLTK.cpp).             *)
(*                                                                         *)
(* Any thread appends a function with callOnMainThread and writes one byte *)
(* to a pipe only when it found the queue empty.  The FLTK event loop      *)
(* calls handler() while the pipe is readable; handler() first drains the  *)
(* queue and only then reads ONE byte, with a blocking read().             *)
(*                                                                         *)
(* The main thread's control stack has a fixed shape: each nested event    *)
(* loop (an alert, a file chooser) was entered from a running function of  *)
(* an outer handler().  So `depth' (how many outer handlers are suspended, *)
(* each inside the function it is running) and `pc' (where the innermost   *)
(* activation is) describe it completely.  Outer dispatches began before   *)
(* inner ones, so it is enough to count those that are older than 50 ms.   *)
(***************************************************************************)
EXTENDS Naturals, Sequences, FiniteSets, SequencesExt

CONSTANTS Threads,      \* threads other than the main thread
          Functions,    \* (function, context) pairs that get posted
          MaxQueue,     \* bound: functions in the queue
          PipeCapacity, \* bytes the kernel buffers before write() blocks
          MaxWakeups,   \* bound: wake-ups in flight when a new one is asked for
          MaxNesting,   \* bound: event loops nested in dispatched functions
          QuickLoops    \* may a nested event loop end before the dispatch it was
                        \* opened from is 50 ms old?

ASSUME ConstantsAssumption ==
    /\ IsFiniteSet(Threads)
    /\ MaxQueue \in Nat \ {0}
    /\ PipeCapacity \in Nat \ {0}
    /\ MaxWakeups \in Nat
    /\ MaxNesting \in Nat
    /\ QuickLoops \in BOOLEAN

VARIABLES queue,    \* functionQueue()
          paused,   \* callbacksPaused
          pipe,     \* bytes in the wake-up pipe
          writers,  \* threads between their unlock and their write()
          pc,       \* innermost activation on the main thread
          writing,  \* the main thread is in write()
          depth,    \* outer handler() activations that are suspended
          overdue,  \* dispatches that began more than 50 ms ago, outermost first
          running   \* the function taken last

vars == <<queue, paused, pipe, writers, pc, writing, depth, overdue, running>>

\* "wait" in Fl::wait; "take" at the top of the dispatch loop; "run" inside a
\* dispatched function; "read" about to read the byte.
Locations == {"wait", "take", "run", "read"}

NoFunction == "none"

\* Activations of handler(): each suspended one, and the one that is running.
Activations == depth + (IF pc = "wait" THEN 0 ELSE 1)

TypeOK ==
    /\ queue \in Seq(Functions)
    /\ paused \in BOOLEAN
    /\ pipe \in 0 .. PipeCapacity
    /\ writers \in SUBSET Threads
    /\ pc \in Locations
    /\ writing \in BOOLEAN
    /\ depth \in 0 .. MaxNesting
    /\ overdue \in 0 .. Activations
    /\ running \in Functions \cup {NoFunction}

\* initializeMainThread: an empty queue, an empty pipe, the handler registered.
Init ==
    /\ queue = <<>>
    /\ paused = FALSE
    /\ pipe = 0
    /\ writers = {}
    /\ pc = "wait"
    /\ writing = FALSE
    /\ depth = 0
    /\ overdue = 0
    /\ running = NoFunction

-----------------------------------------------------------------------------
(* Wake-ups that were asked for and not yet consumed by a read().           *)
Wakeups == pipe + Cardinality(writers) + (IF writing THEN 1 ELSE 0)

\* The running dispatch is older than 50 ms.
Elapsed == overdue = depth + 1

\* Application code runs on the main thread in a callback of the event loop or
\* in a dispatched function, never in the middle of the dispatcher.
MainRunsCode == pc \in {"wait", "run"} /\ ~writing

\* The critical section of callOnMainThread: needToSchedule is the emptiness of
\* the queue before the append.
Enqueue(f) ==
    /\ Len(queue) < MaxQueue
    /\ queue = <<>> => Wakeups < MaxWakeups
    /\ queue' = Append(queue, f)

\* callOnMainThread on another thread.
ThreadPost(t, f) ==
    /\ t \notin writers
    /\ Enqueue(f)
    /\ writers' = IF queue = <<>> THEN writers \cup {t} ELSE writers
    /\ UNCHANGED <<paused, pipe, pc, writing, depth, overdue, running>>

\* scheduleDispatchFunctionsOnMainThread on another thread: blocks when full.
ThreadWrite(t) ==
    /\ t \in writers
    /\ pipe < PipeCapacity
    /\ pipe' = pipe + 1
    /\ writers' = writers \ {t}
    /\ UNCHANGED <<queue, paused, pc, writing, depth, overdue, running>>

\* callOnMainThread on the main thread itself.
MainPost(f) ==
    /\ MainRunsCode
    /\ Enqueue(f)
    /\ writing' = (queue = <<>>)
    /\ UNCHANGED <<paused, pipe, writers, pc, depth, overdue, running>>

\* scheduleDispatchFunctionsOnMainThread on the main thread: same write().
MainWrite ==
    /\ writing
    /\ pipe < PipeCapacity
    /\ pipe' = pipe + 1
    /\ writing' = FALSE
    /\ UNCHANGED <<queue, paused, writers, pc, depth, overdue, running>>

\* The queue after findIf and remove have been repeated until no f is left.
Without(s, f) ==
    LET kept[i \in 0 .. Len(s)] ==
          IF i = 0 THEN <<>>
          ELSE IF s[i] # f THEN Append(kept[i - 1], s[i]) ELSE kept[i - 1]
    IN  kept[Len(s)]

\* cancelCallOnMainThread, from any thread.
Cancel(f) ==
    /\ Contains(queue, f)
    /\ queue' = Without(queue, f)
    /\ UNCHANGED <<paused, pipe, writers, pc, writing, depth, overdue, running>>

\* setMainThreadCallbacksPaused(true)
Pause ==
    /\ MainRunsCode
    /\ ~paused
    /\ paused' = TRUE
    /\ UNCHANGED <<queue, pipe, writers, pc, writing, depth, overdue, running>>

\* setMainThreadCallbacksPaused(false)
Unpause ==
    /\ MainRunsCode
    /\ paused
    /\ Wakeups < MaxWakeups
    /\ paused' = FALSE
    /\ writing' = TRUE
    /\ UNCHANGED <<queue, pipe, writers, pc, depth, overdue, running>>

-----------------------------------------------------------------------------
\* Mutant: handler() is called on every wake-up of Fl::wait, byte or not.
EnterHandlerOnAnyEvent ==
    /\ pc = "wait" /\ ~writing
    /\ pc' = IF paused THEN "read" ELSE "take"
    /\ UNCHANGED <<queue, paused, pipe, writers, writing, depth, overdue, running>>

\* Fl::wait finds the pipe readable and calls handler(), which calls
\* dispatchFunctionsFromMainThread: it returns at once when paused.
EnterHandler ==
    /\ pc = "wait" /\ ~writing
    /\ pipe > 0
    /\ pc' = IF paused THEN "read" ELSE "take"
    /\ UNCHANGED <<queue, paused, pipe, writers, writing, depth, overdue, running>>

\* One turn of the dispatch loop: the critical section, then the call.
TakeFirst ==
    /\ pc = "take"
    /\ IF queue = <<>>
         THEN /\ pc' = "read"
              /\ UNCHANGED <<queue, running>>
         ELSE /\ pc' = "run"
              /\ running' = Head(queue)
              /\ queue' = Tail(queue)
    /\ UNCHANGED <<paused, pipe, writers, writing, depth, overdue>>

\* maxRunLoopSuspensionTime has gone by since one more dispatch began: the
\* dispatcher is working, or a dialog is open.
Elapse ==
    /\ overdue < Activations
    /\ overdue' = overdue + 1
    /\ UNCHANGED <<queue, paused, pipe, writers, pc, writing, depth, running>>

\* Mutant: the dispatcher leaves after 50 ms without scheduling itself again.
FunctionReturnsUnscheduled ==
    /\ pc = "run" /\ ~writing
    /\ pc' = IF Elapsed THEN "read" ELSE "take"
    /\ UNCHANGED <<queue, paused, pipe, writers, writing, depth, overdue, running>>

\* Mutant: it schedules itself again but forgets to leave.
FunctionReturnsWithoutBreak ==
    /\ pc = "run" /\ ~writing
    /\ pc' = "take"
    /\ writing' = Elapsed
    /\ UNCHANGED <<queue, paused, pipe, writers, depth, overdue, running>>

\* Mutant: the dispatcher never looks at the clock.
FunctionReturnsNoClock ==
    /\ pc = "run" /\ ~writing
    /\ pc' = "take"
    /\ UNCHANGED <<queue, paused, pipe, writers, writing, depth, overdue, running>>

\* The function returns.  After 50 ms the dispatcher schedules another dispatch
\* and leaves; otherwise it looks at the queue again.
FunctionReturns ==
    /\ pc = "run" /\ ~writing
    /\ pc' = IF Elapsed THEN "read" ELSE "take"
    /\ writing' = Elapsed
    /\ UNCHANGED <<queue, paused, pipe, writers, depth, overdue, running>>

\* Mutant: startTime outlives its dispatch, as a static variable would.
StartTimeIsKept == overdue

\* The count without the activation that returns.
HandlerReturns == IF Elapsed THEN depth ELSE overdue

\* Mutant: handler() drains the pipe instead of reading one byte.
ReadAllBytes ==
    /\ pc = "read" /\ ~writing
    /\ pipe > 0
    /\ pipe' = 0
    /\ pc' = "wait"
    /\ overdue' = HandlerReturns
    /\ UNCHANGED <<queue, paused, writers, writing, depth, running>>

\* The tail of handler(): a blocking read() of one byte.
ReadByte ==
    /\ pc = "read" /\ ~writing
    /\ pipe > 0
    /\ pipe' = pipe - 1
    /\ pc' = "wait"
    /\ overdue' = HandlerReturns
    /\ UNCHANGED <<queue, paused, writers, writing, depth, running>>

\* A dispatched function opens a modal dialog, which runs Fl::wait.
EnterNestedLoop ==
    /\ pc = "run" /\ ~writing
    /\ depth < MaxNesting
    /\ depth' = depth + 1
    /\ pc' = "wait"
    /\ UNCHANGED <<queue, paused, pipe, writers, writing, overdue, running>>

\* The dialog closes and the function it was opened from goes on.
LeaveNestedLoop ==
    /\ pc = "wait" /\ ~writing
    /\ depth > 0
    /\ QuickLoops \/ overdue = depth
    /\ depth' = depth - 1
    /\ pc' = "run"
    /\ UNCHANGED <<queue, paused, pipe, writers, writing, overdue, running>>

-----------------------------------------------------------------------------
Next ==
    \/ \E t \in Threads : ThreadWrite(t) \/ \E f \in Functions : ThreadPost(t, f)
    \/ \E f \in Functions : MainPost(f) \/ Cancel(f)
    \/ MainWrite \/ Pause \/ Unpause
    \/ EnterHandler \/ TakeFirst \/ Elapse \/ FunctionReturns \/ ReadByte
    \/ EnterNestedLoop \/ LeaveNestedLoop

Spec == Init /\ [][Next]_vars

\* The kernel runs every thread; Fl::wait serves every ready descriptor, so the
\* handler cannot be passed over for ever by other callbacks; a dispatched
\* function returns, time passes and the user answers a dialog.
Fairness ==
    /\ \A t \in Threads : WF_vars(ThreadWrite(t))
    /\ WF_vars(MainWrite) /\ WF_vars(TakeFirst) /\ WF_vars(ReadByte)
    /\ SF_vars(EnterHandler)
    /\ SF_vars(FunctionReturns)
    /\ WF_vars(Elapse)
    /\ SF_vars(LeaveNestedLoop)

FairSpec == Spec /\ Fairness

-----------------------------------------------------------------------------
(* No posted function is stranded: while the queue is not empty and not     *)
(* paused, either the main thread is still going to look at the queue       *)
(* before it reads its byte, or there is a wake-up beyond the one that      *)
(* pending read() will swallow.  (callOnMainThread writes only when it      *)
(* found the queue empty, so nothing else would ever wake the loop.)  A     *)
(* nested event loop is woken the same way, by a byte that an outer         *)
(* handler() has not read yet or by a new one.                              *)
NoLostWakeup ==
    queue # <<>> /\ ~paused =>
        \/ pc \in {"take", "run"}
        \/ Wakeups > (IF pc = "read" THEN 1 ELSE 0)

(* handler()'s blocking read() never stalls the UI thread: the byte that    *)
(* made the pipe readable is still there when the dispatcher returns, or    *)
(* the handler() of a nested event loop has read it and the dispatcher,     *)
(* late because of that loop, has written another one.                      *)
ReadNeverBlocks == pc = "read" /\ ~writing => pipe > 0

(* The dispatcher's own rescheduling does not fill the pipe: to the          *)
(* MaxWakeups that posting and unpausing code keeps in flight it adds at    *)
(* most one byte, between a late function's return and the read() of the    *)
(* handler() that ran it, however deeply event loops are nested.  (What     *)
(* posting code may keep in flight, the code does not bound.)               *)
SelfWakeupsBounded == Wakeups <= MaxWakeups + (IF pc = "read" THEN 1 ELSE 0)

(* A posted function eventually starts, unless it is cancelled or callbacks *)
(* are paused (the inspector pauses them at a breakpoint).                  *)
PostedFunctionsRun ==
    \A f \in Functions :
        Contains(queue, f) ~> (running = f /\ pc = "run") \/ ~Contains(queue, f) \/ paused

(* The dispatcher yields "so the user input can be processed": the main     *)
(* thread is back in the event loop again and again.                        *)
ReturnsToEventLoop == []<>(pc = "wait" /\ ~writing)
=============================================================================
