-------------------------- MODULE SocketStreamHandle --------------------------
(***************************************************************************)
(* One SocketStreamHandle over curl and its worker thread                  *)
(* (WebCore/platform/network/curl/SocketStreamHandleCurl.cpp and           *)
(* SocketStreamHandleBase.cpp), with the server at the other end.          *)
(*                                                                         *)
(* The main thread and the worker share two queues, each behind a mutex;   *)
(* the worker posts functions to the main thread, each with a reference to *)
(* the handle.  The main thread's side is given as functions of the        *)
(* handle's record, for the module of its client.                          *)
(*                                                                         *)
(* What goes out is counted in halves of frames: frame n is 2n-1 and 2n,   *)
(* and a send may take only a part.  What comes in is a frame a chunk, and *)
(* numbered.  The other end follows a script as far as it likes: frames,   *)
(* eof (it closes the connection), or what happens to the connection:      *)
(* unreachable, reset (curl_easy_recv fails from now on) and gone (curl    *)
(* has no socket any more).                                                *)
(***************************************************************************)
EXTENDS Naturals, Sequences

CONSTANTS Scripts,       \* what the other end may do, in order
          MaxPosted,     \* bound: functions posted by the worker at a time
          MaxWritten     \* bound: frames written, but for closing frames

\* What a script may hold.
Frames == {"accept", "refuse", "firstText", "firstBinary", "continuation",
           "text", "binary", "ping", "close", "bad",
           "eof", "reset", "gone", "unreachable"}

ASSUME ScriptsAssumption == Scripts \subseteq Seq(Frames)

VARIABLES handle,    \* the SocketStreamHandle
          thread,    \* where its worker is
          sending,   \* what the worker took from m_sendData
          socket,    \* up, reset or gone
          posted,    \* functions posted to the main thread
          wire,      \* what went out
          server     \* what is left of the script, what was sent, and (a
                     \* history) whether it spoke before it was asked

handleVars == <<handle, thread, sending, socket, posted, wire, server>>

\* SocketStreamHandle::create, which starts the thread: the channel and the
\* thread have a reference each.
HandleInit ==
    /\ handle = [state |-> "Connecting", refs |-> 2, worker |-> TRUE,
                 stop |-> FALSE, sendData |-> <<>>, receiveData |-> <<>>,
                 written |-> 0]
    /\ thread = "connecting"
    /\ sending = <<>>
    /\ socket = "up"
    /\ posted = <<>>
    /\ wire = <<>>
    /\ \E script \in Scripts :
           server = [script |-> [i \in DOMAIN script |-> <<script[i], i>>],
                     sent |-> <<>>, early |-> FALSE]

\* m_refCount goes down.
Deref(h) == [h EXCEPT !.refs = @ - 1]

\* send() of one frame: nothing before the socket is open; after it was closed
\* the data stays in the base class's buffer for good.
Send(h) ==
    IF h.state = "Open"
    THEN [h EXCEPT !.sendData = Append(@, <<2 * h.written + 1, 2 * h.written + 2>>),
                   !.written = @ + 1]
    ELSE h

\* The first half of platformClose: the thread is told to stop.
BeginClose(h) == [h EXCEPT !.state = "Closed", !.stop = @ \/ h.worker]

\* stopThread has joined the thread.
Joined(h) == IF h.worker THEN Deref([h EXCEPT !.worker = FALSE]) ELSE h

-----------------------------------------------------------------------------
(* The worker: runThread.                                                   *)

\* A function is posted, with a reference to the handle.
Post(function, h) ==
    /\ handle' = [h EXCEPT !.refs = @ + 1]
    /\ posted' = Append(posted, function)

\* What the other end does next, if anything.
Doing == IF server.script = <<>> THEN "nothing" ELSE server.script[1][1]

\* The condition of the loop, which nothing but the flag decides: it is looked
\* at with the step before it.
NextRound(h) == IF h.stop THEN "returned" ELSE "send"

\* curl_easy_perform; when it fails the thread returns, and nobody is told.
Connect(succeeds) ==
    /\ thread = "connecting"
    /\ succeeds <=> Doing # "unreachable"
    /\ IF succeeds
       THEN thread' = NextRound(handle) /\ Post("didOpenSocket", handle)
       ELSE thread' = "returned" /\ UNCHANGED <<handle, posted>>
    /\ UNCHANGED <<sending, socket, wire, server>>

\* sendData takes the first of the queue; an empty queue ends it.
TakeSendData ==
    /\ thread = "send" /\ sending = <<>>
    /\ IF handle.sendData = <<>>
       THEN thread' = "wait" /\ UNCHANGED <<handle, sending>>
       ELSE /\ sending' = Head(handle.sendData)
            /\ handle' = [handle EXCEPT !.sendData = Tail(@)]
            /\ UNCHANGED thread
    /\ UNCHANGED <<socket, posted, wire, server>>

\* Mutant: what could not be sent goes to the end of the queue.
RestIsAppended(taken) ==
    /\ sending # <<>>
    /\ socket # "up" => taken = 0
    /\ wire' = wire \o SubSeq(sending, 1, taken)
    /\ sending' = <<>>
    /\ IF taken = Len(sending)
       THEN UNCHANGED <<handle, thread>>
       ELSE /\ handle' = [handle EXCEPT !.sendData =
                             Append(@, SubSeq(sending, taken + 1, Len(sending)))]
            /\ thread' = "wait"
    /\ UNCHANGED <<socket, posted, server>>

\* curl_easy_send until it took everything or failed; what is left goes back
\* to the front of the queue, behind which the main thread may have appended.
SendTaken(taken) ==
    /\ sending # <<>>
    /\ socket # "up" => taken = 0
    /\ wire' = wire \o SubSeq(sending, 1, taken)
    /\ sending' = <<>>
    /\ IF taken = Len(sending)
       THEN UNCHANGED <<handle, thread>>
       ELSE /\ handle' = [handle EXCEPT !.sendData =
                             <<SubSeq(sending, taken + 1, Len(sending))>> \o @]
            /\ thread' = "wait"
    /\ UNCHANGED <<socket, posted, server>>

\* waitForAvailableData says no, as the time is up or there is no socket, or
\* readData fails, which the loop ignores.  (At the bound, what was sent has
\* not arrived yet.)
NothingRead ==
    /\ thread = "wait"
    /\ socket # "up" \/ server.sent = <<>> \/ Len(posted) >= MaxPosted
    /\ handle' = [handle EXCEPT !.stop = @ \/ socket = "gone"]
    /\ thread' = NextRound(handle')
    /\ UNCHANGED <<sending, socket, posted, wire, server>>

\* readData: a frame, or nothing, as often as it is asked, after the end.
ReadData ==
    /\ thread = "wait" /\ socket = "up"
    /\ server.sent # <<>> /\ Len(posted) < MaxPosted
    /\ LET chunk == Head(server.sent)
       IN  /\ Post("didReceiveData", [handle EXCEPT !.receiveData = Append(@, chunk)])
           /\ server' = IF chunk[1] = "eof" THEN server
                        ELSE [server EXCEPT !.sent = Tail(@)]
    /\ thread' = NextRound(handle)
    /\ UNCHANGED <<sending, socket, wire>>

Worker ==
    \/ \E succeeds \in BOOLEAN : Connect(succeeds)
    \/ TakeSendData
    \/ \E taken \in 0 .. Len(sending) : SendTaken(taken)
    \/ NothingRead
    \/ ReadData

-----------------------------------------------------------------------------
(* The server and the network, while the thread may notice.                 *)

Online == thread \notin {"connecting", "returned"}

\* The connection is lost, which runThread does not report.
LoseConnection ==
    /\ Online /\ Doing \in {"reset", "gone"}
    /\ socket' = Doing
    /\ server' = [server EXCEPT !.script = <<>>]
    /\ UNCHANGED <<handle, thread, sending, posted, wire>>

\* The server sends the next frame, or closes the connection.  Nothing makes
\* it wait for the handshake, which is the first frame on the wire.
ServerSends ==
    /\ Online /\ Doing \notin {"nothing", "reset", "gone"}
    /\ server' = [server EXCEPT !.sent = Append(@, Head(server.script)),
                                !.script = Tail(@),
                                !.early = @ \/ Len(wire) < 2]
    /\ UNCHANGED <<handle, thread, sending, socket, posted, wire>>

Network == LoseConnection \/ ServerSends
=============================================================================
