------------------------------ MODULE WebSocket ------------------------------
(***************************************************************************)
(* One WebSocket of a page, its WebSocketChannel (WebCore/Modules/         *)
(* websockets/WebSocket.cpp and WebSocketChannel.cpp) and the channel's    *)
(* SocketStreamHandle.                                                     *)
(*                                                                         *)
(* All of it but the worker runs on the main thread, as nested calls: an   *)
(* event handler of the page may close the socket, let its frame be        *)
(* stopped or open a dialog, whose event loop runs what is posted, while   *)
(* its callers still have work to do.  That work is the stack, innermost   *)
(* first; an entry is one of                                               *)
(*   event       a handler of the page runs                                *)
(*   dialog      it has opened a dialog                                    *)
(*   join        platformClose waits for the worker                        *)
(*   disconnect  the rest of the handle's disconnect(), which holds a      *)
(*               reference to the handle                                   *)
(*   fail        the rest of fail(), after the error event                 *)
(*   didClose    the rest of didClose(), after the close event             *)
(*   buffer      the loop over the channel's m_buffer                      *)
(*   resume      the rest of resumeTimerFired()                            *)
(*   chunks      the rest of didReceiveData(), with what is left of it     *)
(* Messages are numbered as the server sends them.  Blobs and the page     *)
(* cache, which this port does not use, are left out.                      *)
(***************************************************************************)
EXTENDS SocketStreamHandle, FiniteSets

CONSTANTS MaxDialogs,    \* bound: dialogs that the page opens
          MayStop        \* may the page be stopped?

ASSUME WebSocketAssumption ==
    /\ MayStop \in BOOLEAN
    /\ {MaxPosted, MaxWritten, MaxDialogs} \subseteq Nat

VARIABLES ws,        \* the WebSocket
          channel,   \* the WebSocketChannel
          stack,     \* what the main thread has on its stack
          dialogs,   \* how many dialogs there were
          late,      \* has the handle called a client that was deleted?
          overtaken  \* has a chunk been delivered before an earlier one?

pageVars == <<ws, channel, stack, dialogs, late, overtaken>>
vars == <<handleVars, pageVars>>

TypeOK ==
    /\ handle.state \in {"Connecting", "Open", "Closed"}
    /\ handle.refs \in Nat
    /\ thread \in {"connecting", "send", "wait", "returned"}
    /\ ws.state \in {"CONNECTING", "OPEN", "CLOSING", "CLOSED"}
    /\ ws.channel \in BOOLEAN /\ ws.activity \in {0, 1}
    /\ channel.refs \in Nat
    /\ channel.mode \in {"Incomplete", "Connected", "Failed"}
    /\ channel.continuous \in {"none", "text", "binary"}

\* WebSocket::connect has called WebSocketChannel::connect: the channel has a
\* reference to itself beside the page's.  said is what the page has heard,
\* and cutShort whether it was stopped while the end of the connection had to
\* wait for it (histories).
Init ==
    /\ HandleInit
    /\ ws = [state |-> "CONNECTING", channel |-> TRUE, activity |-> 1,
             stopped |-> FALSE, cutShort |-> FALSE, said |-> <<>>]
    /\ channel = [refs |-> 2, handle |-> TRUE, client |-> TRUE,
                  mode |-> "Incomplete", buffer |-> <<>>, continuous |-> "none",
                  suspended |-> FALSE, discard |-> FALSE, closing |-> FALSE,
                  received |-> FALSE, closed |-> FALSE,
                  closingTimer |-> FALSE, resumeTimer |-> FALSE]
    /\ stack = <<>>
    /\ dialogs = 0
    /\ late = FALSE
    /\ overtaken = FALSE

Call(name) == [call |-> name, left |-> <<>>]
Chunks(left) == [call |-> "chunks", left |-> left]

Top(name) == stack # <<>> /\ stack[1].call = name

\* The main thread is in an event loop: its own or a dialog's.
InEventLoop == stack = <<>> \/ Top("dialog")

\* Script runs: a handler, or something else the page does.
InScript == stack = <<>> \/ Top("event")

\* Callers on the stack hold a reference to the channel.
ChannelExists ==
    \/ channel.refs > 0
    \/ \E i \in DOMAIN stack :
           stack[i].call \in {"fail", "buffer", "resume", "didClose"}

\* The page hears of something: its handlers run before the callers go on.
Heard(w, event) == [w EXCEPT !.said = Append(@, event)]

-----------------------------------------------------------------------------
(* The channel, as the rest of the stack will find it.                      *)

\* platformClose of the handle, up to the wait for its thread.
PlatformClose(h, rest) ==
    IF h.state = "Closed"
    THEN handle' = h /\ stack' = rest
    ELSE handle' = BeginClose(h) /\ stack' = <<Call("join")>> \o rest

\* disconnect() of the handle, and close(), as nothing is in its own buffer.
Disconnect(h, rest) ==
    IF h.state = "Closed"
    THEN handle' = h /\ stack' = rest
    ELSE PlatformClose([h EXCEPT !.refs = @ + 1], <<Call("disconnect")>> \o rest)

\* Mutant: the channel keeps its client and its handle.
ClosedKeepsClient(ch, h, rest) ==
    LET closed == [ch EXCEPT !.closed = TRUE, !.closingTimer = FALSE]
    IN  /\ channel' = closed
        /\ handle' = h
        /\ ws' = Heard([ws EXCEPT !.state = "CLOSED"], <<"close", 0>>)
        /\ stack' = <<Call("event"), Call("didClose")>> \o rest

\* didCloseSocketStream, and didClose of the WebSocket up to its event.  A
\* suspended channel waits for resume().
DidCloseSocketStream(ch, h, rest) ==
    LET closed == [ch EXCEPT !.closed = TRUE, !.closingTimer = FALSE]
    IN  \/ /\ ch.handle /\ ch.suspended
           /\ channel' = closed
           /\ handle' = h
           /\ stack' = rest
           /\ UNCHANGED ws
        \/ /\ ch.handle /\ ~ch.suspended /\ ch.client
           /\ channel' = [closed EXCEPT !.handle = FALSE, !.client = FALSE]
           /\ handle' = Deref(h)
           /\ ws' = Heard([ws EXCEPT !.state = "CLOSED"], <<"close", 0>>)
           /\ stack' = <<Call("event"), Call("didClose")>> \o rest
        \/ /\ ch.handle => ~ch.suspended /\ ~ch.client
           /\ channel' = [closed EXCEPT !.handle = FALSE, !.refs = @ - 1]
           /\ handle' = IF ch.handle THEN Deref(h) ELSE h
           /\ stack' = rest
           /\ UNCHANGED ws

\* fail() up to the error event.
Fail(ch, rest) ==
    /\ channel' = [ch EXCEPT !.discard = TRUE, !.buffer = <<>>,
                             !.continuous = "none"]
    /\ ws' = Heard([ws EXCEPT !.state = "CLOSED"], <<"error", 0>>)
    /\ stack' = <<Call("event"), Call("fail")>> \o rest

\* enqueueRawFrame and processOutgoingFrameQueue, whose queue is closed with
\* the channel.
SendFrame(ch) == IF ch.closed THEN handle ELSE Send(handle)

\* startClosingHandshake, but for the frame it sends.
StartsClosing(ch) == ~ch.closing /\ ~ch.closed
StartClosingHandshake(ch) == [ch EXCEPT !.closing = @ \/ ~ch.closed]

-----------------------------------------------------------------------------
(* The page.                                                                *)

\* WebSocket::close before the connection is there, and after.
CloseConnecting ==
    /\ InScript
    /\ ws.state = "CONNECTING"
    /\ Fail(channel, stack)
    /\ UNCHANGED <<handle, thread, sending, socket, posted, wire, server,
                   dialogs, late, overtaken>>

\* Mutant: nothing limits the wait for the server's closing frame.
CloseWithoutTimer ==
    /\ InScript
    /\ ws.state = "OPEN"
    /\ ws' = [ws EXCEPT !.state = "CLOSING"]
    /\ channel' = StartClosingHandshake(channel)
    /\ handle' = SendFrame(channel)
    /\ UNCHANGED <<thread, sending, socket, posted, wire, server,
                   stack, dialogs, late, overtaken>>

Close ==
    /\ InScript
    /\ ws.state = "OPEN"
    /\ ws' = [ws EXCEPT !.state = "CLOSING"]
    /\ LET ch == StartClosingHandshake(channel)
       IN  channel' = [ch EXCEPT !.closingTimer = @ \/ ch.closing]
    /\ handle' = SendFrame(channel)
    /\ UNCHANGED <<thread, sending, socket, posted, wire, server,
                   stack, dialogs, late, overtaken>>

\* WebSocket::send
SendMessage ==
    /\ InScript
    /\ ws.state = "OPEN"
    /\ handle.written < MaxWritten
    /\ handle' = SendFrame(channel)
    /\ UNCHANGED <<thread, sending, socket, posted, wire, server, pageVars>>

\* A suspended channel, or one whose end resume() has yet to report, is let go
\* of: disconnect() will not reach its client any more.
CutsShort == ws.channel /\ channel.handle /\ (channel.suspended \/ channel.closed)

\* WebSocket::stop: the frame goes away.
Stop ==
    /\ MayStop /\ ~ws.stopped
    /\ InScript \/ Top("dialog")
    /\ ws' = Heard([ws EXCEPT !.state = "CLOSED", !.channel = FALSE,
                              !.activity = 0, !.stopped = TRUE,
                              !.cutShort = @ \/ CutsShort], <<"stop", 0>>)
    /\ channel' = [channel EXCEPT !.client = FALSE,
                                  !.refs = IF ws.channel THEN @ - 1 ELSE @]
    /\ IF ws.channel /\ channel.handle
       THEN Disconnect(handle, stack)
       ELSE UNCHANGED <<handle, stack>>
    /\ UNCHANGED <<thread, sending, socket, posted, wire, server,
                   dialogs, late, overtaken>>

\* The page opens a dialog: suspend(), and the dialog's event loop.
OpenDialog ==
    /\ InScript
    /\ dialogs < MaxDialogs
    /\ dialogs' = dialogs + 1
    /\ channel' = [channel EXCEPT !.suspended = @ \/ ws.channel]
    /\ stack' = <<Call("dialog")>> \o stack
    /\ UNCHANGED <<handleVars, ws, late, overtaken>>

\* Mutant: only data is looked at, not the end of the connection.
ResumeOnlyForData(ch) == ch.buffer # <<>> /\ ch.client

\* Has resume() something to do?
NeedsResume(ch) == (ch.buffer # <<>> \/ ch.closed) /\ ch.client

\* It is answered: resume().
CloseDialog ==
    /\ Top("dialog")
    /\ channel' = IF ws.channel
                  THEN [channel EXCEPT !.suspended = FALSE,
                           !.resumeTimer = @ \/ NeedsResume(channel)]
                  ELSE channel
    /\ stack' = Tail(stack)
    /\ UNCHANGED <<handleVars, ws, dialogs, late, overtaken>>

EndHandler ==
    /\ Top("event")
    /\ stack' = Tail(stack)
    /\ UNCHANGED <<handleVars, ws, channel, dialogs, late, overtaken>>

Page ==
    \/ CloseConnecting
    \/ Close
    \/ SendMessage
    \/ Stop
    \/ OpenDialog

-----------------------------------------------------------------------------
(* Functions posted by the worker, run in an event loop.                    *)

\* The handle calls its client.
CallsChannel == late' = (late \/ ~ChannelExists)

Posted(function) == InEventLoop /\ posted # <<>> /\ posted[1] = function

\* Mutant: the reference count is not looked at.
OpensUnasked ==
    /\ Posted("didOpenSocket")
    /\ posted' = Tail(posted)
    /\ LET open == [handle EXCEPT !.state = "Open"]
       IN  handle' = Deref(IF channel.client THEN Send(open) ELSE open)
    /\ CallsChannel
    /\ UNCHANGED <<thread, sending, socket, wire, server,
                   ws, channel, stack, dialogs, overtaken>>

\* didOpenSocket and didOpenSocketStream, which sends the handshake, unless
\* the function has the only reference.
DidOpenSocket ==
    /\ Posted("didOpenSocket")
    /\ posted' = Tail(posted)
    /\ IF handle.refs > 1
       THEN LET open == [handle EXCEPT !.state = "Open"]
            IN  /\ handle' = Deref(IF channel.client THEN Send(open) ELSE open)
                /\ CallsChannel
       ELSE handle' = Deref(handle) /\ UNCHANGED late
    /\ UNCHANGED <<thread, sending, socket, wire, server,
                   ws, channel, stack, dialogs, overtaken>>

\* didReceiveData takes all that was received; under a dialog, while an outer
\* call still has older chunks to deliver, it overtakes them.
DidReceiveData ==
    /\ Posted("didReceiveData")
    /\ posted' = Tail(posted)
    /\ handle' = [handle EXCEPT !.receiveData = <<>>]
    /\ stack' = <<Chunks(handle.receiveData)>> \o stack
    /\ overtaken' = \/ overtaken
                    \/ /\ handle.receiveData # <<>>
                       /\ \E i \in DOMAIN stack : stack[i].left # <<>>
    /\ UNCHANGED <<thread, sending, socket, wire, server,
                   ws, channel, dialogs, late>>

\* Its loop is over, and the function drops its reference.
ChunksDone ==
    /\ Top("chunks") /\ stack[1].left = <<>>
    /\ stack' = Tail(stack)
    /\ handle' = Deref(handle)
    /\ UNCHANGED <<thread, sending, socket, posted, wire, server,
                   ws, channel, dialogs, late, overtaken>>

\* One chunk: platformClose and out of the loop at the end of the connection;
\* what came is appended to m_buffer, unless nobody is interested.
NextChunk ==
    /\ Top("chunks") /\ stack[1].left # <<>>
    /\ LET chunk == Head(stack[1].left)
           rest == <<Chunks(Tail(stack[1].left))>> \o Tail(stack)
       IN  \/ /\ chunk[1] = "eof"
              /\ PlatformClose(handle, <<Chunks(<<>>)>> \o Tail(stack))
              /\ UNCHANGED <<channel, late>>
           \/ /\ chunk[1] # "eof" /\ handle.state = "Open"
              /\ CallsChannel
              /\ IF channel.client /\ ~channel.discard
                 THEN /\ channel' = [channel EXCEPT !.buffer = Append(@, chunk)]
                      /\ stack' = <<Call("buffer")>> \o rest
                 ELSE stack' = rest /\ UNCHANGED channel
              /\ UNCHANGED handle
           \/ /\ chunk[1] # "eof" /\ handle.state # "Open"
              /\ stack' = rest
              /\ UNCHANGED <<handle, channel, late>>
    /\ UNCHANGED <<thread, sending, socket, posted, wire, server,
                   ws, dialogs, overtaken>>

-----------------------------------------------------------------------------
(* The loop over m_buffer: processBuffer and processFrame.                  *)

\* The loop goes on: nothing says that the data must wait or is not wanted.
Processes ==
    /\ Top("buffer")
    /\ ~channel.suspended /\ channel.client /\ channel.buffer # <<>>
    /\ ~channel.discard /\ ~channel.received

Frame == channel.buffer[1][1]
Number == channel.buffer[1][2]

\* skipBuffer over the frame.
Skipped == [channel EXCEPT !.buffer = Tail(@)]

\* The loop ends; after the closing frame the rest is thrown away.
BufferDone ==
    /\ Top("buffer") /\ ~Processes
    /\ stack' = Tail(stack)
    /\ channel' = IF channel.received /\ ~channel.suspended /\ channel.client
                     /\ ~channel.discard
                  THEN [channel EXCEPT !.buffer = <<>>] ELSE channel
    /\ UNCHANGED <<handleVars, ws, dialogs, late, overtaken>>

\* readServerHandshake: didConnect, or fail().
ServerHandshake ==
    /\ Processes /\ channel.mode = "Incomplete"
    /\ IF Frame = "accept"
       THEN /\ channel' = [Skipped EXCEPT !.mode = "Connected"]
            /\ ws' = Heard([ws EXCEPT !.state = "OPEN"], <<"open", 0>>)
            /\ stack' = <<Call("event")>> \o stack
       ELSE Fail([Skipped EXCEPT !.mode = "Failed"], Tail(stack))
    /\ UNCHANGED <<handleVars, dialogs, late, overtaken>>

\* What processFrame refuses.
BreaksProtocol ==
    \/ Frame \in {"bad", "accept", "refuse"}
    \/ /\ channel.continuous # "none"
       /\ Frame \in {"text", "binary", "firstText", "firstBinary"}
    \/ channel.continuous = "none" /\ Frame = "continuation"

Connected == Processes /\ channel.mode = "Connected"

FrameFails ==
    /\ Connected /\ BreaksProtocol
    /\ Fail(channel, Tail(stack))
    /\ UNCHANGED <<handleVars, dialogs, late, overtaken>>

\* The first part of a message.
FirstFrame ==
    /\ Connected /\ ~BreaksProtocol /\ Frame \in {"firstText", "firstBinary"}
    /\ channel' = [Skipped EXCEPT
                      !.continuous = IF Frame = "firstText" THEN "text" ELSE "binary"]
    /\ UNCHANGED <<handleVars, ws, stack, dialogs, late, overtaken>>

\* A message, or the last part of one; a binary one is dispatched in any state
\* of the WebSocket.
MessageFrame ==
    /\ Connected /\ ~BreaksProtocol
    /\ Frame \in {"text", "binary", "continuation"}
    /\ channel' = [Skipped EXCEPT !.continuous = "none"]
    /\ IF ws.state = "OPEN" \/ Frame = "binary" \/ channel.continuous = "binary"
       THEN /\ ws' = Heard(ws, <<"message", Number>>)
            /\ stack' = <<Call("event")>> \o stack
       ELSE UNCHANGED <<ws, stack>>
    /\ UNCHANGED <<handleVars, dialogs, late, overtaken>>

\* A ping is answered.
PingFrame ==
    /\ Connected /\ Frame = "ping"
    /\ channel' = Skipped
    /\ handle' = SendFrame(channel)
    /\ UNCHANGED <<thread, sending, socket, posted, wire, server,
                   ws, stack, dialogs, late, overtaken>>

\* The server's closing frame: it is answered, unless it is the answer, and
\* the handle is closed as soon as the answer is in the thread's queue.
CloseFrame ==
    /\ Connected /\ Frame = "close"
    /\ channel' = StartClosingHandshake([Skipped EXCEPT !.received = TRUE])
    /\ ws' = IF StartsClosing(channel) THEN [ws EXCEPT !.state = "CLOSING"] ELSE ws
    /\ LET answered == IF StartsClosing(channel) THEN Send(handle) ELSE handle
       IN  IF channel'.closing
           THEN Disconnect(answered, stack)
           ELSE handle' = answered /\ UNCHANGED stack
    /\ UNCHANGED <<thread, sending, socket, posted, wire, server,
                   dialogs, late, overtaken>>

-----------------------------------------------------------------------------
(* What callers have left to do, and the channel's timers.                  *)

\* platformClose goes on when the thread has returned.
Join ==
    /\ Top("join")
    /\ handle.worker => thread = "returned"
    /\ DidCloseSocketStream(channel, Joined(handle), Tail(stack))
    /\ CallsChannel
    /\ UNCHANGED <<thread, sending, socket, posted, wire, server,
                   dialogs, overtaken>>

FinishDisconnect ==
    /\ Top("disconnect")
    /\ handle' = [Deref(handle) EXCEPT !.state = "Closed"]
    /\ stack' = Tail(stack)
    /\ UNCHANGED <<thread, sending, socket, posted, wire, server,
                   ws, channel, dialogs, late, overtaken>>

FinishFail ==
    /\ Top("fail")
    /\ IF channel.handle /\ ~channel.closed
       THEN Disconnect(handle, Tail(stack))
       ELSE stack' = Tail(stack) /\ UNCHANGED handle
    /\ UNCHANGED <<thread, sending, socket, posted, wire, server,
                   ws, channel, dialogs, late, overtaken>>

\* didClose drops the channel, unless stop() did, and didCloseSocketStream the
\* channel's own reference.
FinishDidClose ==
    /\ Top("didClose")
    /\ ws' = [ws EXCEPT !.channel = FALSE, !.activity = 0]
    /\ channel' = [channel EXCEPT !.client = FALSE,
                                  !.refs = @ - (IF ws.channel THEN 2 ELSE 1)]
    /\ stack' = Tail(stack)
    /\ UNCHANGED <<handleVars, dialogs, late, overtaken>>

ResumeTimerFired ==
    /\ InEventLoop /\ ChannelExists /\ channel.resumeTimer
    /\ channel' = [channel EXCEPT !.resumeTimer = FALSE]
    /\ stack' = <<Call("buffer"), Call("resume")>> \o stack
    /\ UNCHANGED <<handleVars, ws, dialogs, late, overtaken>>

FinishResume ==
    /\ Top("resume")
    /\ IF ~channel.suspended /\ channel.client /\ channel.closed /\ channel.handle
       THEN DidCloseSocketStream(channel, handle, Tail(stack))
       ELSE stack' = Tail(stack) /\ UNCHANGED <<handle, ws, channel>>
    /\ UNCHANGED <<thread, sending, socket, posted, wire, server,
                   dialogs, late, overtaken>>

ClosingTimerFired ==
    /\ InEventLoop /\ ChannelExists /\ channel.closingTimer
    /\ channel' = [channel EXCEPT !.closingTimer = FALSE]
    /\ IF channel.handle
       THEN Disconnect(handle, stack)
       ELSE UNCHANGED <<handle, stack>>
    /\ UNCHANGED <<thread, sending, socket, posted, wire, server,
                   ws, dialogs, late, overtaken>>

-----------------------------------------------------------------------------
\* Once begun, a call on the main thread goes on by itself.
Continues ==
    \/ EndHandler \/ CloseDialog
    \/ ChunksDone \/ NextChunk
    \/ BufferDone \/ ServerHandshake \/ FrameFails \/ FirstFrame
    \/ MessageFrame \/ PingFrame \/ CloseFrame
    \/ Join \/ FinishDisconnect \/ FinishFail \/ FinishDidClose \/ FinishResume

\* What an event loop runs.
RunsPosted == DidOpenSocket \/ DidReceiveData

Next ==
    \/ (Worker \/ Network) /\ UNCHANGED pageVars
    \/ Page
    \/ RunsPosted
    \/ ResumeTimerFired
    \/ ClosingTimerFired
    \/ Continues

Spec == Init /\ [][Next]_vars

\* The worker runs, calls return, handlers end and dialogs are answered, and
\* an event loop that is entered again and again gets round to what waits for
\* it.  Nothing is assumed of the page, the server and the network.
FairSpec ==
    /\ Spec
    /\ WF_vars(Worker /\ UNCHANGED pageVars)
    /\ WF_vars(Continues)
    /\ SF_vars(RunsPosted)
    /\ SF_vars(ResumeTimerFired)
    /\ SF_vars(ClosingTimerFired)

-----------------------------------------------------------------------------
OnStack(names) == Cardinality({i \in DOMAIN stack : stack[i].call \in names})
One(condition) == IF condition THEN 1 ELSE 0

\* Each of the three objects lives exactly as long as somebody may use it: the
\* handle is held by the channel, by its thread and by every function that was
\* posted and every call that still needs it; the channel by the WebSocket and
\* by its open handle; the WebSocket by its channel.  So the handle never calls
\* a channel that was deleted, and when the main thread is idle after the end
\* nothing is left behind.
\* Two cases are excepted, as the code fails in them.  The first: the server
\* said something, or closed the connection, before the handshake was sent.
\* Then the handle may call a channel that was deleted (NotCalledAfterDeletion)
\* and the channel's count means nothing.  The second: the page was stopped
\* while its channel was suspended, or before resume() had reported that the
\* connection was closed.  Then the channel and its handle keep each other, and
\* something is left behind.
Lifetimes ==
    /\ handle.refs = One(channel.handle) + One(handle.worker) + Len(posted)
                       + OnStack({"chunks", "disconnect"})
    /\ handle.refs = 0 => thread = "returned"
    /\ ws.activity = One(ws.channel)
    /\ ~server.early =>
           /\ TypeOK
           /\ ~late
           /\ channel.refs = One(ws.channel)
                              + One(channel.handle \/ OnStack({"didClose"}) > 0)
    /\ ~server.early /\ ~ws.cutShort /\ stack = <<>> /\ ~ws.channel
           => channel.refs = 0 /\ handle.refs = Len(posted)

\* What the comment in runThread says of the test of the reference count in
\* didOpenSocket: a function that runs "after all other references are
\* released" does not call the client, so a client that was deleted is never
\* called.  Two functions may be posted, of which each holds a reference.
NotCalledAfterDeletion == ~late

Rank(event) ==
    [open |-> 1, message |-> 2, error |-> 3, close |-> 4, stop |-> 5][event]

\* The page hears open, messages, error, close in this order, each but the
\* messages once at most, messages only between open and the end, in the order
\* in which the server sent them, and nothing after it was stopped, whichever
\* of close(), fail(), didReceiveData(), the two timers and a dialog get in
\* each other's way.  The one exception, a chunk that overtook another under a
\* dialog, is what didReceiveData does.  And the server gets the halves of the
\* page's frames in order, with no gap, however they are split and queued.
StreamsInOrder ==
    /\ \A i, j \in DOMAIN ws.said :
           i < j => LET a == ws.said[i]
                        b == ws.said[j]
                    IN  \/ Rank(a[1]) < Rank(b[1])
                        \/ /\ a[1] = "message" /\ b[1] = "message"
                           /\ a[2] < b[2] \/ overtaken
    /\ \A i \in DOMAIN ws.said :
           ws.said[i][1] = "message" => ws.said[1] = <<"open", 0>>
    /\ \A k \in DOMAIN wire : wire[k] = k

\* The page hears of the end, once, or it is stopped.
Over == ws.stopped \/ \E i \in DOMAIN ws.said : ws.said[i][1] = "close"

ServerEnded == \E i \in DOMAIN server.sent : server.sent[i][1] = "eof"

\* When the WebSocket is closing or closed, by the page, the server or an
\* error, the close event comes, though the server may never answer, the
\* connection may be lost without a word, and dialogs may hold everything up; and it comes
\* when the server ends an open connection.
CloseReported ==
    (\/ ws.state \in {"CLOSING", "CLOSED"}
     \/ ServerEnded /\ handle.state = "Open") ~> Over
=============================================================================
