--------------------------- MODULE WebSocketProofs ---------------------------
(***************************************************************************)
(* WebSocket: who holds the three objects, and the order of what the page  *)
(* and the server get.                                                     *)
(***************************************************************************)
EXTENDS WebSocket, Integers, FiniteSetTheorems, TLAPS

-----------------------------------------------------------------------------
(* Types.                                                                   *)

\* A frame and its number in the script.
Chunk == Frames \X Nat

\* What may be on the stack.
Entry == [call : {"event", "dialog", "join", "disconnect", "fail", "didClose",
                  "buffer", "resume", "chunks"},
          left : Seq(Chunk)]

\* The records of the three objects.
Handle == [state : {"Connecting", "Open", "Closed"}, refs : Int,
           worker : BOOLEAN, stop : BOOLEAN, sendData : Seq(Seq(Nat)),
           receiveData : Seq(Chunk), written : Nat]

Channel == [refs : Int, handle : BOOLEAN, client : BOOLEAN,
            mode : {"Incomplete", "Connected", "Failed"}, buffer : Seq(Chunk),
            continuous : {"none", "text", "binary"},
            suspended : BOOLEAN, discard : BOOLEAN,
            closing : BOOLEAN, received : BOOLEAN, closed : BOOLEAN,
            closingTimer : BOOLEAN, resumeTimer : BOOLEAN]

\* What the page may hear.
Event == {"open", "message", "error", "close", "stop"} \X Nat

Socket == [state : {"CONNECTING", "OPEN", "CLOSING", "CLOSED"},
          channel : BOOLEAN, activity : {0, 1}, stopped : BOOLEAN,
          cutShort : BOOLEAN, said : Seq(Event)]

\* All types; reference counts may be any integers here.
TypeInv ==
    /\ handle \in Handle
    /\ thread \in {"connecting", "send", "wait", "returned"}
    /\ sending \in Seq(Nat)
    /\ socket \in {"up", "reset", "gone"}
    /\ posted \in Seq({"didOpenSocket", "didReceiveData"})
    /\ wire \in Seq(Nat)
    /\ server \in [script : Seq(Chunk), sent : Seq(Chunk), early : BOOLEAN]
    /\ ws \in Socket
    /\ channel \in Channel
    /\ stack \in Seq(Entry)
    /\ dialogs \in Nat
    /\ late \in BOOLEAN
    /\ overtaken \in BOOLEAN

-----------------------------------------------------------------------------
(* The stack.                                                               *)

\* Is such a call on the stack?
Has(s, name) == \E i \in DOMAIN s : s[i].call = name

\* The entries that hold a reference to the handle.
Holds(s) == {i \in DOMAIN s : s[i].call \in {"chunks", "disconnect"}}

\* A call of disconnect() is under the wait for the worker, or under didClose,
\* until it goes on; the main thread does nothing while it waits; and there is
\* one didClose at most.
Nested(s) ==
    /\ \A i \in DOMAIN s : i > 1 => s[i].call # "join"
    /\ \A i \in DOMAIN s :
           i > 1 /\ s[i].call = "disconnect" => s[i-1].call \in {"join", "didClose"}
    /\ \A i, j \in DOMAIN s :
           s[i].call = "didClose" /\ s[j].call = "didClose" => i = j

\* No event is delivered under a dialog.
Quiet(s) ==
    \A i, j \in DOMAIN s :
        j < i /\ s[i].call = "dialog"
          => s[j].call \notin {"event", "fail", "didClose", "dialog"}

\* As long as the WebSocket has its channel, that is suspended under a dialog
\* only.
StackInv ==
    /\ Nested(stack)
    /\ ws.channel => Quiet(stack) /\ (channel.suspended <=> Has(stack, "dialog"))

-----------------------------------------------------------------------------
(* The connection.                                                          *)

\* didOpenSocket has run, or never will.
Opened ==
    thread # "connecting" /\ \A i \in DOMAIN posted : posted[i] # "didOpenSocket"

\* Until then nothing was sent or received, and nobody waits for an answer.
OpeningInv ==
    /\ thread = "connecting" => posted = <<>>
    /\ ~Opened => /\ Len(posted) <= 1
                  /\ handle.state # "Open"
                  /\ handle.sendData = <<>> /\ handle.receiveData = <<>>
                  /\ wire = <<>> /\ sending = <<>> /\ server.sent = <<>>
                  /\ ~Has(stack, "chunks")
                  /\ channel.buffer = <<>> /\ ~channel.closingTimer
                  /\ channel.mode = "Incomplete" /\ ws.state # "OPEN"

\* didOpenSocket may open a handle that was closed before: nothing comes of it.
Dead == ~channel.handle /\ posted = <<>> /\ ~Has(stack, "chunks")

\* When the handle is closed and the worker gone, and who still waits for
\* that.
ClosingInv ==
    /\ handle.worker \/ thread = "returned"
    /\ sending # <<>> => thread = "send"
    /\ channel.closed \/ ~channel.handle => ~handle.worker
    /\ handle.state # "Closed" =>
           (channel.handle /\ ~channel.closed) \/ (handle.state = "Open" /\ Dead)
    /\ channel.closed /\ channel.handle => Opened
    /\ handle.state = "Closed" /\ channel.handle => channel.closed \/ Top("join")
    /\ Has(stack, "disconnect") /\ channel.handle => channel.closed \/ Top("join")
    /\ Top("join") => /\ channel.handle /\ ~channel.closed
                      /\ handle.state = "Closed"
                      /\ channel.suspended => Opened

\* Who holds what.
HoldersInv ==
    /\ channel.client => channel.handle /\ ws.channel
    /\ ~ws.channel /\ channel.handle => Top("join") /\ ~channel.suspended
    /\ Has(stack, "didClose") => ~channel.handle
    /\ channel.refs = One(ws.channel)
                       + One(channel.handle \/ Has(stack, "didClose"))
    /\ ws.activity = One(ws.channel)
    /\ ~late

\* Every reference to the handle is accounted for.
HandleRefsInv ==
    handle.refs = One(channel.handle) + One(handle.worker) + Len(posted)
                    + Cardinality(Holds(stack))

\* The inductive invariant for Lifetimes.
LifetimesInv ==
    /\ TypeInv /\ StackInv /\ OpeningInv /\ ClosingInv
    /\ HoldersInv /\ HandleRefsInv

-----------------------------------------------------------------------------
(* Order.                                                                   *)

\* What is before what: nothing is read after the end of the connection, so
\* the end is before nothing.
Precedes(x, y) == x[1] # "eof" => x[2] < y[2]

\* Sets and sequences of chunks in this order.
Before(A, B) == \A x \in A, y \in B : Precedes(x, y)

Rising(q) == \A a, b \in DOMAIN q : a < b => Precedes(q[a], q[b])

\* Chunks that calls of didReceiveData have yet to deliver: of one call only.
Lefts(s) == UNION {Range(s[i].left) : i \in DOMAIN s}

\* In order, and of one call at a time.
LeftInOrder(s) ==
    /\ \A i, j \in DOMAIN s : s[i].left # <<>> /\ s[j].left # <<>> => i = j
    /\ \A i \in DOMAIN s : Rising(s[i].left)

\* From the script a chunk goes through the server's socket, m_receiveData and
\* didReceiveData to the channel's buffer, and none passes another.
FlowInv ==
    /\ Rising(channel.buffer) /\ LeftInOrder(stack) /\ Rising(handle.receiveData)
    /\ Rising(server.sent) /\ Rising(server.script)
    /\ Before(Range(channel.buffer),
              Lefts(stack) \cup Range(handle.receiveData)
                \cup Range(server.sent) \cup Range(server.script))
    /\ Before(Lefts(stack),
              Range(handle.receiveData) \cup Range(server.sent)
                \cup Range(server.script))
    /\ Before(Range(handle.receiveData), Range(server.sent) \cup Range(server.script))
    /\ Before(Range(server.sent), Range(server.script))

\* What the page has not heard yet.
Ahead ==
    Range(channel.buffer) \cup Lefts(stack) \cup Range(handle.receiveData)
      \cup Range(server.sent) \cup Range(server.script)

\* The messages that it has heard are before all of that.
NewsInv ==
    \A a \in DOMAIN ws.said :
        ws.said[a][1] = "message" => \A y \in Ahead : ws.said[a][2] < y[2]

\* Nothing is claimed once a chunk has overtaken another.
StreamInv == ~overtaken => FlowInv /\ NewsInv

\* What the page heard: open, messages, error, close and stop in this order.
SaidInOrder ==
    /\ \A i, j \in DOMAIN ws.said :
           i < j => LET a == ws.said[i]
                        b == ws.said[j]
                    IN  \/ Rank(a[1]) < Rank(b[1])
                        \/ /\ a[1] = "message" /\ b[1] = "message"
                           /\ a[2] < b[2] \/ overtaken
    /\ \A i \in DOMAIN ws.said :
           ws.said[i][1] = "message" => ws.said[1] = <<"open", 0>>

\* What it may still hear.
HeardInv ==
    /\ SaidInOrder
    /\ ws.state = "CONNECTING" => ws.said = <<>>
    /\ \A i \in DOMAIN ws.said :
           /\ ~ws.stopped => Rank(ws.said[i][1]) <= 4
           /\ channel.client => Rank(ws.said[i][1]) <= 3
           /\ channel.client /\ ~channel.discard => Rank(ws.said[i][1]) <= 2
    /\ channel.client /\ ~channel.discard /\ channel.mode = "Incomplete"
          => ws.said = <<>>
    /\ channel.mode = "Connected"
          => ws.said # <<>> /\ ws.said[1] = <<"open", 0>>

\* The halves that follow the first n.
FollowOn(n, q) == \A k \in DOMAIN q : q[k] = n + k

\* How many halves come before those of the i-th frame in the queue, when it
\* is whole.
Offset(i) == 2 * (handle.written - Len(handle.sendData) + i - 1)

\* What was taken from the queue follows what was sent; behind it all frames in
\* the queue are whole, and without it all but the first.
WireInv ==
    /\ FollowOn(0, wire)
    /\ FollowOn(Len(wire), sending)
    /\ \A i \in DOMAIN handle.sendData : i > 1 \/ sending # <<>> =>
           /\ Len(handle.sendData[i]) = 2
           /\ FollowOn(Offset(i), handle.sendData[i])
    /\ handle.sendData # <<>> /\ sending = <<>> =>
           /\ Len(handle.sendData[1]) > 0
           /\ FollowOn(Len(wire), handle.sendData[1])
           /\ Len(wire) + Len(handle.sendData[1]) = Offset(2)
    /\ handle.sendData = <<>> \/ sending # <<>> =>
           Len(wire) + Len(sending) = Offset(1)

\* The inductive invariant for StreamsInOrder.
OrderInv == TypeInv /\ StreamInv /\ HeardInv /\ WireInv

-----------------------------------------------------------------------------
(* Pushing and popping.                                                     *)

\* An entry on top of a stack.
LEMMA Pushed ==
    ASSUME NEW s \in Seq(Entry), NEW e \in Entry
    PROVE  /\ <<e>> \o s \in Seq(Entry)
           /\ <<e>> \o s # <<>>
           /\ (<<e>> \o s)[1] = e
           /\ Len(<<e>> \o s) = Len(s) + 1
           /\ \A i \in DOMAIN s : (<<e>> \o s)[i + 1] = s[i]
           /\ \A i \in DOMAIN (<<e>> \o s) :
                  i = 1 \/ (i - 1 \in DOMAIN s /\ (<<e>> \o s)[i] = s[i - 1])
  OBVIOUS

\* A stack that is not empty is its top on the rest.
LEMMA TopAndRest ==
    ASSUME NEW s \in Seq(Entry), s # <<>>
    PROVE  /\ s[1] \in Entry
           /\ Tail(s) \in Seq(Entry)
           /\ s = <<s[1]>> \o Tail(s)
  OBVIOUS

\* Two entries are pushed one after the other.
LEMMA PushTwo ==
    ASSUME NEW s \in Seq(Entry), NEW d \in Entry, NEW e \in Entry
    PROVE  <<d, e>> \o s = <<d>> \o (<<e>> \o s)
  <1> DEFINE t == <<d, e>> \o s
             u == <<e>> \o s
             v == <<d>> \o u
  <1>1. /\ t \in Seq(Entry) /\ Len(t) = Len(s) + 2 /\ t[1] = d /\ t[2] = e
        /\ \A i \in 1 .. Len(s) : t[i + 2] = s[i]
    OBVIOUS
  <1>2. /\ u \in Seq(Entry) /\ Len(u) = Len(s) + 1 /\ u[1] = e
        /\ \A i \in 1 .. Len(s) : u[i + 1] = s[i]
    OBVIOUS
  <1>3. /\ v \in Seq(Entry) /\ Len(v) = Len(u) + 1 /\ v[1] = d
        /\ \A i \in 1 .. Len(u) : v[i + 1] = u[i]
    <2> HIDE DEF u
    <2> QED
      BY <1>2
  <1> HIDE DEF t, u, v
  <1>4. ASSUME NEW i \in 1 .. Len(t)
        PROVE  t[i] = v[i]
    <2>1. CASE i = 1
      BY <2>1, <1>1, <1>3
    <2>2. CASE i = 2
      <3>1. v[1 + 1] = u[1]
        BY <1>2, <1>3
      <3> QED
        BY <2>2, <3>1, <1>1, <1>2
    <2>3. CASE i > 2
      <3>1. i - 2 \in 1 .. Len(s) /\ i - 1 \in 1 .. Len(u)
        BY <2>3, <1>1, <1>2
      <3>2. t[(i - 2) + 2] = s[i - 2] /\ u[(i - 2) + 1] = s[i - 2]
        BY <3>1, <1>1, <1>2
      <3>3. v[(i - 1) + 1] = u[i - 1]
        BY <3>1, <1>3
      <3> QED
        BY <3>2, <3>3
    <2> QED
      BY <2>1, <2>2, <2>3
  <1>5. t = v
    BY <1>1, <1>2, <1>3, <1>4
  <1> QED
    BY <1>5 DEF t, v, u

\* What is on the stack after an entry was pushed.
LEMMA PushHas ==
    ASSUME NEW s \in Seq(Entry), NEW e \in Entry, NEW name
    PROVE  Has(<<e>> \o s, name) <=> e.call = name \/ Has(s, name)
  <1>1. SUFFICES ASSUME NEW t, t = <<e>> \o s
                 PROVE  Has(t, name) <=> e.call = name \/ Has(s, name)
    OBVIOUS
  <1>2. /\ t \in Seq(Entry) /\ t[1] = e /\ Len(t) = Len(s) + 1
        /\ \A i \in DOMAIN s : t[i + 1] = s[i]
        /\ \A i \in DOMAIN t : i = 1 \/ (i - 1 \in DOMAIN s /\ t[i] = s[i - 1])
    BY <1>1, Pushed
  <1> QED
    BY <1>2 DEF Has

\* How many entries hold the handle after one was pushed.
LEMMA PushHolds ==
    ASSUME NEW s \in Seq(Entry), NEW e \in Entry
    PROVE  /\ IsFiniteSet(Holds(s)) /\ Cardinality(Holds(s)) \in Nat
           /\ e.call \in {"chunks", "disconnect"} =>
                  Cardinality(Holds(<<e>> \o s)) = Cardinality(Holds(s)) + 1
           /\ e.call \notin {"chunks", "disconnect"} =>
                  Cardinality(Holds(<<e>> \o s)) = Cardinality(Holds(s))
  <1> DEFINE t == <<e>> \o s
             up == [i \in Holds(s) |-> i + 1]
             above == {i + 1 : i \in Holds(s)}
  <1>1. /\ t \in Seq(Entry) /\ t[1] = e /\ Len(t) = Len(s) + 1
        /\ \A i \in DOMAIN s : t[i + 1] = s[i]
        /\ \A i \in DOMAIN t : i = 1 \/ (i - 1 \in DOMAIN s /\ t[i] = s[i - 1])
    BY Pushed
  <1> HIDE DEF t
  <1>2. IsFiniteSet(Holds(s)) /\ Cardinality(Holds(s)) \in Nat
    <2>1. Holds(s) \subseteq 1 .. Len(s)
      BY DEF Holds
    <2>2. IsFiniteSet(1 .. Len(s))
      BY FS_Interval
    <2>3. IsFiniteSet(Holds(s))
      BY <2>1, <2>2, FS_Subset
    <2> QED
      BY <2>3, FS_CardinalityType
  <1>3. up \in Bijection(Holds(s), above)
    <2>1. Holds(s) \subseteq Int
      BY DEF Holds
    <2>2. up \in Injection(Holds(s), above)
      BY <2>1 DEF Injection, IsInjective
    <2>3. up \in Surjection(Holds(s), above)
      BY DEF Surjection
    <2> QED
      BY <2>2, <2>3 DEF Bijection
  <1>4. IsFiniteSet(above) /\ Cardinality(above) = Cardinality(Holds(s))
    <2>1. ExistsBijection(Holds(s), above)
      BY <1>3 DEF ExistsBijection
    <2> QED
      BY <1>2, <2>1, FS_Bijection
  <1>5. Holds(t) = above \cup IF e.call \in {"chunks", "disconnect"} THEN {1} ELSE {}
    <2>1. \A i \in Holds(s) : i + 1 \in Holds(t)
      BY <1>1 DEF Holds
    <2>2. \A i \in Holds(t) : i # 1 => i - 1 \in Holds(s) /\ i = (i - 1) + 1
      BY <1>1 DEF Holds
    <2>3. 1 \in Holds(t) <=> e.call \in {"chunks", "disconnect"}
      BY <1>1 DEF Holds
    <2> QED
      BY <2>1, <2>2, <2>3
  <1>6. 1 \notin above
    BY DEF Holds
  <1>7. Cardinality(above \cup {1}) = Cardinality(above) + 1
    BY <1>4, <1>6, FS_AddElement
  <1>8. ASSUME e.call \in {"chunks", "disconnect"}
        PROVE  Cardinality(Holds(t)) = Cardinality(Holds(s)) + 1
    <2>1. Holds(t) = above \cup {1}
      BY <1>5, <1>8
    <2> QED
      BY <2>1, <1>4, <1>7
  <1>9. ASSUME e.call \notin {"chunks", "disconnect"}
        PROVE  Cardinality(Holds(t)) = Cardinality(Holds(s))
    <2>1. Holds(t) = above
      BY <1>5, <1>9
    <2> QED
      BY <2>1, <1>4
  <1> QED
    BY <1>2, <1>8, <1>9 DEF t

\* What may be pushed on a stack that is well nested.
LEMMA PushNested ==
    ASSUME NEW s \in Seq(Entry), NEW e \in Entry, Nested(s),
           s # <<>> => s[1].call # "join",
           s # <<>> /\ s[1].call = "disconnect" => e.call \in {"join", "didClose"},
           e.call = "didClose" => ~Has(s, "didClose")
    PROVE  Nested(<<e>> \o s)
  <1>1. SUFFICES ASSUME NEW t, t = <<e>> \o s
                 PROVE  Nested(t)
    OBVIOUS
  <1>2. /\ t \in Seq(Entry) /\ t[1] = e /\ Len(t) = Len(s) + 1
        /\ \A i \in DOMAIN t : i = 1 \/ (i - 1 \in DOMAIN s /\ t[i] = s[i - 1])
    BY <1>1, Pushed
  <1>3. ASSUME NEW i \in DOMAIN t, i > 1
        PROVE  t[i].call # "join"
    <2>1. i - 1 \in DOMAIN s /\ t[i] = s[i - 1]
      BY <1>2, <1>3
    <2> QED
      BY <2>1 DEF Nested
  <1>4. ASSUME NEW i \in DOMAIN t, i > 1, t[i].call = "disconnect"
        PROVE  t[i - 1].call \in {"join", "didClose"}
    <2>1. i - 1 \in DOMAIN s /\ t[i] = s[i - 1]
      BY <1>2, <1>4
    <2>2. CASE i = 2
      BY <2>1, <2>2, <1>2, <1>4
    <2>3. CASE i > 2
      <3>1. i - 1 \in DOMAIN t /\ i - 1 # 1
        BY <2>3, <1>2
      <3>2. t[i - 1] = s[i - 2]
        BY <3>1, <1>2
      <3>3. s[i - 1].call = "disconnect" /\ i - 1 > 1
        BY <2>1, <2>3, <1>4, <1>2
      <3>4. s[(i - 1) - 1].call \in {"join", "didClose"}
        BY <3>3, <2>1 DEF Nested
      <3> QED
        BY <3>2, <3>4, <1>2
    <2> QED
      BY <2>2, <2>3, <1>2, <1>4
  <1>5. ASSUME NEW i \in DOMAIN t, NEW j \in DOMAIN t,
               t[i].call = "didClose", t[j].call = "didClose"
        PROVE  i = j
    <2>1. CASE i = 1 \/ j = 1
      BY <2>1, <1>2, <1>5 DEF Has
    <2>2. CASE i # 1 /\ j # 1
      <3>1. /\ i - 1 \in DOMAIN s /\ t[i] = s[i - 1]
            /\ j - 1 \in DOMAIN s /\ t[j] = s[j - 1]
        BY <2>2, <1>2
      <3>2. i - 1 = j - 1
        BY <3>1, <1>5 DEF Nested
      <3> QED
        BY <3>2, <1>2
    <2> QED
      BY <2>1, <2>2
  <1> QED
    BY <1>3, <1>4, <1>5 DEF Nested

\* An event on a stack without a dialog, and a dialog on a stack without one.
LEMMA PushQuiet ==
    ASSUME NEW s \in Seq(Entry), NEW e \in Entry, Quiet(s),
           e.call \in {"event", "fail", "didClose", "dialog"} => ~Has(s, "dialog")
    PROVE  Quiet(<<e>> \o s)
  <1>1. SUFFICES ASSUME NEW t, t = <<e>> \o s
                 PROVE  Quiet(t)
    OBVIOUS
  <1>2. /\ t \in Seq(Entry) /\ t[1] = e /\ Len(t) = Len(s) + 1
        /\ \A i \in DOMAIN t : i = 1 \/ (i - 1 \in DOMAIN s /\ t[i] = s[i - 1])
    BY <1>1, Pushed
  <1>3. ASSUME NEW i \in DOMAIN t, NEW j \in DOMAIN t, j < i,
               t[i].call = "dialog",
               t[j].call \in {"event", "fail", "didClose", "dialog"}
        PROVE  FALSE
    <2>1. i - 1 \in DOMAIN s /\ t[i] = s[i - 1]
      BY <1>2, <1>3
    <2>2. CASE j = 1
      BY <2>1, <2>2, <1>2, <1>3 DEF Has
    <2>3. CASE j # 1
      <3>1. j - 1 \in DOMAIN s /\ t[j] = s[j - 1] /\ j - 1 < i - 1
        BY <2>3, <1>2, <1>3
      <3> QED
        BY <2>1, <3>1, <1>3 DEF Quiet
    <2> QED
      BY <2>2, <2>3
  <1> QED
    BY <1>3 DEF Quiet

\* The rest of a stack.
Rests(t, s) ==
    /\ s[1] \in Entry /\ t \in Seq(Entry)
    /\ Has(s, "dialog") <=> s[1].call = "dialog" \/ Has(t, "dialog")
    /\ Has(s, "didClose") <=> s[1].call = "didClose" \/ Has(t, "didClose")
    /\ Has(s, "chunks") <=> s[1].call = "chunks" \/ Has(t, "chunks")
    /\ Has(s, "disconnect") <=> s[1].call = "disconnect" \/ Has(t, "disconnect")
    /\ Cardinality(Holds(s)) \in Nat /\ Cardinality(Holds(t)) \in Nat
    /\ s[1].call \in {"chunks", "disconnect"} =>
           Cardinality(Holds(s)) = Cardinality(Holds(t)) + 1
    /\ s[1].call \notin {"chunks", "disconnect"} =>
           Cardinality(Holds(s)) = Cardinality(Holds(t))
    /\ Nested(s) =>
         /\ Nested(t)
         /\ t # <<>> =>
              /\ t[1].call # "join"
              /\ t[1].call = "disconnect"
                    => s[1].call \in {"join", "didClose"}
         /\ s[1].call = "didClose" => ~Has(t, "didClose")
    /\ Quiet(s) =>
         /\ Quiet(t)
         /\ s[1].call \in {"event", "fail", "didClose", "dialog"}
               => ~Has(t, "dialog")

\* The rest of a stack keeps its shape, and holds as many references to the
\* handle, or one less when the top held one.
LEMMA Popped ==
    ASSUME NEW s \in Seq(Entry), s # <<>>
    PROVE  Rests(Tail(s), s)
  <1> DEFINE t == Tail(s)
  <1>1. s[1] \in Entry /\ t \in Seq(Entry) /\ s = <<s[1]>> \o t
    BY TopAndRest
  <1>2. /\ Len(s) = Len(t) + 1
        /\ \A i \in DOMAIN t : i + 1 \in DOMAIN s /\ s[i + 1] = t[i]
    OBVIOUS
  <1> HIDE DEF t
  <1>3. \A name : Has(s, name) <=> s[1].call = name \/ Has(t, name)
    BY <1>1, PushHas
  <1>4. /\ Cardinality(Holds(s)) \in Nat /\ Cardinality(Holds(t)) \in Nat
        /\ s[1].call \in {"chunks", "disconnect"} =>
               Cardinality(Holds(s)) = Cardinality(Holds(t)) + 1
        /\ s[1].call \notin {"chunks", "disconnect"} =>
               Cardinality(Holds(s)) = Cardinality(Holds(t))
    <2>1. Cardinality(Holds(s)) \in Nat
      BY <1>1, PushHolds
    <2>2. Cardinality(Holds(t)) \in Nat
      BY <1>1, PushHolds
    <2>3. /\ s[1].call \in {"chunks", "disconnect"} =>
                 Cardinality(Holds(<<s[1]>> \o t)) = Cardinality(Holds(t)) + 1
          /\ s[1].call \notin {"chunks", "disconnect"} =>
                 Cardinality(Holds(<<s[1]>> \o t)) = Cardinality(Holds(t))
      BY <1>1, PushHolds
    <2> QED
      BY <2>1, <2>2, <2>3, <1>1
  <1>5. ASSUME Nested(s)
        PROVE  /\ Nested(t)
               /\ t # <<>> => /\ t[1].call # "join"
                              /\ t[1].call = "disconnect"
                                    => s[1].call \in {"join", "didClose"}
               /\ s[1].call = "didClose" => ~Has(t, "didClose")
    <2>1. Nested(t)
      <3>1. \A i \in DOMAIN t : i > 1 => t[i].call # "join"
        BY <1>2, <1>5, <1>1 DEF Nested
      <3>2. ASSUME NEW i \in DOMAIN t, i > 1, t[i].call = "disconnect"
            PROVE  t[i - 1].call \in {"join", "didClose"}
        <4>1. /\ i + 1 \in DOMAIN s /\ s[i + 1] = t[i]
              /\ i - 1 \in DOMAIN t /\ s[(i - 1) + 1] = t[i - 1]
          BY <1>2, <1>1, <3>2
        <4>2. s[(i + 1) - 1].call \in {"join", "didClose"}
          BY <4>1, <3>2, <1>5, <1>1 DEF Nested
        <4> QED
          BY <4>1, <4>2, <1>1
      <3>3. ASSUME NEW i \in DOMAIN t, NEW j \in DOMAIN t,
                   t[i].call = "didClose", t[j].call = "didClose"
            PROVE  i = j
        <4>1. i + 1 = j + 1
          BY <1>2, <1>5, <3>3 DEF Nested
        <4> QED
          BY <4>1, <1>1
      <3> QED
        BY <3>1, <3>2, <3>3 DEF Nested
    <2>2. ASSUME t # <<>>
          PROVE  /\ t[1].call # "join"
                 /\ t[1].call = "disconnect" => s[1].call \in {"join", "didClose"}
      <3>1. 1 \in DOMAIN t
        BY <1>1, <2>2
      <3>2. 2 \in DOMAIN s /\ s[2] = t[1]
        BY <1>2, <3>1
      <3>3. s[2].call # "join"
        BY <3>2, <1>5 DEF Nested
      <3>4. s[2].call = "disconnect" => s[2 - 1].call \in {"join", "didClose"}
        BY <3>2, <1>5 DEF Nested
      <3> QED
        BY <3>2, <3>3, <3>4
    <2>3. ASSUME s[1].call = "didClose", NEW i \in DOMAIN t, t[i].call = "didClose"
          PROVE  FALSE
      <3>1. i + 1 \in DOMAIN s /\ s[i + 1] = t[i] /\ 1 \in DOMAIN s /\ 1 # i + 1
        BY <1>1, <1>2
      <3> QED
        BY <3>1, <2>3, <1>5 DEF Nested
    <2> QED
      BY <2>1, <2>2, <2>3 DEF Has
  <1>6. ASSUME Quiet(s)
        PROVE  /\ Quiet(t)
               /\ s[1].call \in {"event", "fail", "didClose", "dialog"}
                     => ~Has(t, "dialog")
    <2>1. Quiet(t)
      BY <1>1, <1>2, <1>6 DEF Quiet
    <2>2. ASSUME s[1].call \in {"event", "fail", "didClose", "dialog"},
                 NEW i \in DOMAIN t, t[i].call = "dialog"
          PROVE  FALSE
      <3>1. i + 1 \in DOMAIN s /\ s[i + 1] = t[i] /\ 1 \in DOMAIN s /\ 1 < i + 1
        BY <1>1, <1>2
      <3> QED
        BY <3>1, <2>2, <1>6 DEF Quiet
    <2> QED
      BY <2>1, <2>2 DEF Has
  <1>7. Rests(t, s)
    BY <1>1, <1>3, <1>4, <1>5, <1>6 DEF Rests
  <1> QED
    BY <1>7 DEF t

-----------------------------------------------------------------------------
(* Types of what the operators give.                                        *)

\* What is pushed is an entry, with nothing left to deliver unless it is a
\* call of didReceiveData.
LEMMA EntryTypes ==
    /\ \A name \in {"event", "dialog", "join", "disconnect", "fail", "didClose",
                    "buffer", "resume", "chunks"} :
           Call(name) \in Entry /\ Call(name).call = name /\ Call(name).left = <<>>
    /\ \A left \in Seq(Chunk) :
           /\ Chunks(left) \in Entry /\ Chunks(left).call = "chunks"
           /\ Chunks(left).left = left
  BY DEF Call, Chunks, Entry

\* What the handle's operations do to its fields.
LEMMA DerefFields ==
    ASSUME NEW h \in Handle
    PROVE  /\ Deref(h) \in Handle
           /\ Deref(h).refs = h.refs - 1
           /\ Deref(h).state = h.state /\ Deref(h).worker = h.worker
           /\ Deref(h).stop = h.stop /\ Deref(h).sendData = h.sendData
           /\ Deref(h).receiveData = h.receiveData /\ Deref(h).written = h.written
  BY DEF Deref, Handle

\* A reference is taken, and nothing else changes.
LEMMA RefFields ==
    ASSUME NEW h \in Handle, NEW g, g = [h EXCEPT !.refs = @ + 1]
    PROVE  /\ g \in Handle
           /\ g.refs = h.refs + 1
           /\ g.state = h.state /\ g.worker = h.worker
           /\ g.stop = h.stop /\ g.sendData = h.sendData
           /\ g.receiveData = h.receiveData /\ g.written = h.written
  <1>1. h.refs + 1 \in Int
    BY DEF Handle
  <1> QED
    BY <1>1 DEF Handle

\* send() keeps everything but the queue, and the queue too unless the socket
\* is open.
LEMMA SendFields ==
    ASSUME NEW h \in Handle
    PROVE  /\ Send(h) \in Handle
           /\ Send(h).refs = h.refs
           /\ Send(h).state = h.state /\ Send(h).worker = h.worker
           /\ Send(h).stop = h.stop /\ Send(h).receiveData = h.receiveData
           /\ h.state # "Open" => Send(h) = h
           /\ h.state = "Open" =>
                /\ Send(h).sendData =
                      Append(h.sendData, <<2 * h.written + 1, 2 * h.written + 2>>)
                /\ Send(h).written = h.written + 1
  <1>1. <<2 * h.written + 1, 2 * h.written + 2>> \in Seq(Nat)
    BY DEF Handle
  <1>2. h.sendData \in Seq(Seq(Nat)) /\ h.written + 1 \in Nat
    BY DEF Handle
  <1>3. Append(h.sendData, <<2 * h.written + 1, 2 * h.written + 2>>) \in Seq(Seq(Nat))
    BY <1>1, <1>2
  <1> QED
    BY <1>2, <1>3 DEF Send, Handle

\* The first half of platformClose changes the state and the stop flag alone.
LEMMA BeginCloseFields ==
    ASSUME NEW h \in Handle
    PROVE  /\ BeginClose(h) \in Handle
           /\ BeginClose(h).refs = h.refs
           /\ BeginClose(h).state = "Closed" /\ BeginClose(h).worker = h.worker
           /\ BeginClose(h).stop = (h.stop \/ h.worker)
           /\ BeginClose(h).sendData = h.sendData
           /\ BeginClose(h).receiveData = h.receiveData
           /\ BeginClose(h).written = h.written
  BY DEF BeginClose, Handle

\* stopThread drops the reference of the worker, if there was one.
LEMMA JoinedFields ==
    ASSUME NEW h \in Handle
    PROVE  /\ Joined(h) \in Handle
           /\ Joined(h).refs = h.refs - One(h.worker)
           /\ Joined(h).state = h.state /\ Joined(h).worker = FALSE
           /\ Joined(h).stop = h.stop /\ Joined(h).sendData = h.sendData
           /\ Joined(h).receiveData = h.receiveData /\ Joined(h).written = h.written
  <1> DEFINE g == [h EXCEPT !.worker = FALSE]
  <1>1. /\ g \in Handle
        /\ g.refs = h.refs
        /\ g.state = h.state /\ g.worker = FALSE
        /\ g.stop = h.stop /\ g.sendData = h.sendData
        /\ g.receiveData = h.receiveData /\ g.written = h.written
    BY DEF Handle
  <1>2. CASE h.worker
    <2>1. Joined(h) = Deref(g)
      BY <1>2 DEF Joined
    <2> HIDE DEF g
    <2> QED
      BY <2>1, <1>1, <1>2, DerefFields DEF One
  <1>3. CASE ~h.worker
    <2>1. Joined(h) = h
      BY <1>3 DEF Joined
    <2> QED
      BY <2>1, <1>3 DEF One, Handle
  <1> QED
    BY <1>2, <1>3

\* The state changes alone.
LEMMA StateFields ==
    ASSUME NEW h \in Handle, NEW state \in {"Open", "Closed"}, NEW g,
           g = [h EXCEPT !.state = state]
    PROVE  /\ g \in Handle
           /\ g.refs = h.refs
           /\ g.state = state /\ g.worker = h.worker
           /\ g.stop = h.stop /\ g.sendData = h.sendData
           /\ g.receiveData = h.receiveData /\ g.written = h.written
  BY DEF Handle

\* close() and disconnect() of the handle: nothing, or the wait for the worker.
LEMMA PlatformCloses ==
    ASSUME NEW h \in Handle, NEW rest \in Seq(Entry), PlatformClose(h, rest)
    PROVE  /\ handle' \in Handle
           /\ handle'.worker = h.worker /\ handle'.sendData = h.sendData
           /\ handle'.receiveData = h.receiveData /\ handle'.written = h.written
           /\ handle'.refs = h.refs
           /\ handle'.state = "Closed"
           /\ h.state = "Closed" => stack' = rest
           /\ h.state # "Closed" => stack' = <<Call("join")>> \o rest
  BY BeginCloseFields DEF PlatformClose

\* disconnect() keeps what was queued, and unless the handle is closed takes
\* a reference and waits for the worker.
LEMMA Disconnects ==
    ASSUME NEW h \in Handle, NEW rest \in Seq(Entry), Disconnect(h, rest)
    PROVE  /\ handle' \in Handle
           /\ handle'.worker = h.worker /\ handle'.sendData = h.sendData
           /\ handle'.receiveData = h.receiveData /\ handle'.written = h.written
           /\ handle'.state = "Closed"
           /\ h.state = "Closed" => handle'.refs = h.refs /\ stack' = rest
           /\ h.state # "Closed" =>
                /\ handle'.refs = h.refs + 1
                /\ stack' = <<Call("join")>> \o (<<Call("disconnect")>> \o rest)
  <1>1. CASE h.state = "Closed"
    BY <1>1 DEF Disconnect
  <1>2. CASE h.state # "Closed"
    <2> DEFINE g == [h EXCEPT !.refs = @ + 1]
               below == <<Call("disconnect")>> \o rest
    <2>1. PlatformClose(g, below)
      BY <1>2 DEF Disconnect
    <2>2. below \in Seq(Entry)
      BY EntryTypes, Pushed
    <2>3. /\ g \in Handle /\ g.refs = h.refs + 1
          /\ g.state = h.state /\ g.worker = h.worker /\ g.sendData = h.sendData
          /\ g.receiveData = h.receiveData /\ g.written = h.written
      BY RefFields
    <2> HIDE DEF g, below
    <2>4. /\ handle' \in Handle
          /\ handle'.worker = g.worker /\ handle'.sendData = g.sendData
          /\ handle'.receiveData = g.receiveData /\ handle'.written = g.written
          /\ handle'.refs = g.refs
          /\ handle'.state = "Closed"
          /\ stack' = <<Call("join")>> \o below
      BY <2>1, <2>2, <2>3, <1>2, PlatformCloses
    <2> QED
      BY <2>3, <2>4, <1>2 DEF below
  <1> QED
    BY <1>1, <1>2

\* The stack after one or two entries were pushed.
LEMMA CallsPushed ==
    ASSUME NEW rest \in Seq(Entry),
           NEW a \in {"event", "dialog", "join", "disconnect", "fail", "didClose",
                      "buffer", "resume", "chunks"},
           NEW b \in {"event", "dialog", "join", "disconnect", "fail", "didClose",
                      "buffer", "resume", "chunks"}
    PROVE  /\ <<Call(a)>> \o rest \in Seq(Entry)
           /\ <<Call(a), Call(b)>> \o rest \in Seq(Entry)
           /\ <<Call(a), Call(b)>> \o rest = <<Call(a)>> \o (<<Call(b)>> \o rest)
  <1>1. Call(a) \in Entry /\ Call(b) \in Entry
    BY EntryTypes
  <1>2. <<Call(a)>> \o rest \in Seq(Entry) /\ <<Call(b)>> \o rest \in Seq(Entry)
    BY <1>1, Pushed
  <1>3. <<Call(a)>> \o (<<Call(b)>> \o rest) \in Seq(Entry)
    BY <1>1, <1>2, Pushed
  <1> QED
    BY <1>1, <1>2, <1>3, PushTwo

\* The page hears of an event.
LEMMA HeardFields ==
    ASSUME NEW w \in Socket, NEW event \in Event
    PROVE  /\ Heard(w, event) \in Socket
           /\ Heard(w, event).said = Append(w.said, event)
           /\ Heard(w, event).state = w.state
           /\ Heard(w, event).channel = w.channel
           /\ Heard(w, event).activity = w.activity
           /\ Heard(w, event).stopped = w.stopped
           /\ Heard(w, event).cutShort = w.cutShort
  <1>1. Append(w.said, event) \in Seq(Event)
    BY DEF Socket
  <1> QED
    BY <1>1 DEF Heard, Socket

\* It hears of the end.
LEMMA EndHeard ==
    ASSUME ws \in Socket, NEW event \in Event, NEW w,
           w = Heard([ws EXCEPT !.state = "CLOSED"], event)
    PROVE  /\ w \in Socket /\ w.state = "CLOSED"
           /\ w.said = Append(ws.said, event)
           /\ w.channel = ws.channel /\ w.activity = ws.activity
           /\ w.stopped = ws.stopped
  <1> DEFINE c == [ws EXCEPT !.state = "CLOSED"]
  <1>1. /\ c \in Socket /\ c.state = "CLOSED" /\ c.said = ws.said
        /\ c.channel = ws.channel /\ c.activity = ws.activity
        /\ c.stopped = ws.stopped
    BY DEF Socket
  <1> HIDE DEF c
  <1>2. /\ Heard(c, event) \in Socket
        /\ Heard(c, event).said = Append(c.said, event)
        /\ Heard(c, event).state = c.state
        /\ Heard(c, event).channel = c.channel
        /\ Heard(c, event).activity = c.activity
        /\ Heard(c, event).stopped = c.stopped
    BY <1>1, HeardFields
  <1>3. w = Heard(c, event)
    BY DEF c
  <1> QED
    BY <1>1, <1>2, <1>3

\* didCloseSocketStream: a suspended channel is only marked, one with a client
\* tells it, and one without gives its own reference back.
LEMMA DidCloses ==
    ASSUME NEW ch \in Channel, NEW h \in Handle, NEW rest \in Seq(Entry),
           ws \in Socket, DidCloseSocketStream(ch, h, rest)
    PROVE  /\ channel' \in Channel /\ handle' \in Handle /\ ws' \in Socket
           /\ stack' \in Seq(Entry)
           /\ channel'.closed /\ ~channel'.closingTimer
           /\ channel'.mode = ch.mode /\ channel'.buffer = ch.buffer
           /\ channel'.suspended = ch.suspended /\ channel'.discard = ch.discard
           /\ handle'.state = h.state /\ handle'.worker = h.worker
           /\ handle'.sendData = h.sendData /\ handle'.written = h.written
           /\ handle'.receiveData = h.receiveData
           /\ ws'.channel = ws.channel /\ ws'.activity = ws.activity
           /\ ws'.stopped = ws.stopped
           /\ \/ /\ ch.handle /\ ch.suspended
                 /\ channel'.handle = ch.handle /\ channel'.client = ch.client
                 /\ channel'.refs = ch.refs
                 /\ handle' = h /\ stack' = rest /\ ws' = ws
              \/ /\ ch.handle /\ ~ch.suspended /\ ch.client
                 /\ ~channel'.handle /\ ~channel'.client
                 /\ channel'.refs = ch.refs
                 /\ handle'.refs = h.refs - 1
                 /\ ws'.state = "CLOSED"
                 /\ ws'.said = Append(ws.said, <<"close", 0>>)
                 /\ stack' = <<Call("event")>> \o (<<Call("didClose")>> \o rest)
              \/ /\ ch.handle => ~ch.suspended /\ ~ch.client
                 /\ ~channel'.handle /\ channel'.client = ch.client
                 /\ channel'.refs = ch.refs - 1
                 /\ handle'.refs = h.refs - One(ch.handle)
                 /\ stack' = rest /\ ws' = ws
  <1> DEFINE closed == [ch EXCEPT !.closed = TRUE, !.closingTimer = FALSE]
             told == [closed EXCEPT !.handle = FALSE, !.client = FALSE]
             alone == [closed EXCEPT !.handle = FALSE, !.refs = @ - 1]
  <1>1. /\ closed \in Channel /\ closed.closed /\ ~closed.closingTimer
        /\ closed.mode = ch.mode /\ closed.buffer = ch.buffer
        /\ closed.suspended = ch.suspended /\ closed.discard = ch.discard
        /\ closed.handle = ch.handle /\ closed.client = ch.client
        /\ closed.refs = ch.refs
    BY DEF Channel
  <1>2. CASE /\ ch.handle /\ ch.suspended
             /\ channel' = closed /\ handle' = h /\ stack' = rest /\ ws' = ws
    BY <1>1, <1>2
  <1>3. CASE /\ ch.handle /\ ~ch.suspended /\ ch.client
             /\ channel' = told
             /\ handle' = Deref(h)
             /\ ws' = Heard([ws EXCEPT !.state = "CLOSED"], <<"close", 0>>)
             /\ stack' = <<Call("event"), Call("didClose")>> \o rest
    <2>1. /\ told \in Channel /\ told.closed /\ ~told.closingTimer
          /\ told.mode = ch.mode /\ told.buffer = ch.buffer
          /\ told.suspended = ch.suspended /\ told.discard = ch.discard
          /\ ~told.handle /\ ~told.client /\ told.refs = ch.refs
      BY DEF Channel
    <2>2. <<"close", 0>> \in Event
      BY DEF Event
    <2>3. /\ ws' \in Socket /\ ws'.state = "CLOSED"
          /\ ws'.said = Append(ws.said, <<"close", 0>>)
          /\ ws'.channel = ws.channel /\ ws'.activity = ws.activity
          /\ ws'.stopped = ws.stopped
      BY <2>2, <1>3, EndHeard
    <2>4. /\ stack' \in Seq(Entry)
          /\ stack' = <<Call("event")>> \o (<<Call("didClose")>> \o rest)
      BY <1>3, CallsPushed
    <2> HIDE DEF told, closed
    <2> QED
      BY <2>1, <2>3, <2>4, <1>3, DerefFields
  <1>4. CASE /\ ch.handle => ~ch.suspended /\ ~ch.client
             /\ channel' = alone
             /\ handle' = IF ch.handle THEN Deref(h) ELSE h
             /\ stack' = rest /\ ws' = ws
    <2>1. ch.refs - 1 \in Int
      BY DEF Channel
    <2>2. /\ alone \in Channel /\ alone.closed /\ ~alone.closingTimer
          /\ alone.mode = ch.mode /\ alone.buffer = ch.buffer
          /\ alone.suspended = ch.suspended /\ alone.discard = ch.discard
          /\ ~alone.handle /\ alone.client = ch.client /\ alone.refs = ch.refs - 1
      BY <2>1 DEF Channel
    <2> HIDE DEF alone, closed
    <2>3. CASE ch.handle
      BY <2>2, <2>3, <1>4, DerefFields DEF One
    <2>4. CASE ~ch.handle
      <3>1. h.refs - 0 = h.refs
        BY DEF Handle
      <3> QED
        BY <2>2, <2>4, <3>1, <1>4 DEF One
    <2> QED
      BY <2>3, <2>4
  <1> QED
    BY <1>2, <1>3, <1>4 DEF DidCloseSocketStream

\* fail() up to the error event.
LEMMA Fails ==
    ASSUME NEW ch \in Channel, NEW rest \in Seq(Entry), ws \in Socket,
           Fail(ch, rest)
    PROVE  /\ channel' \in Channel /\ ws' \in Socket /\ stack' \in Seq(Entry)
           /\ channel'.refs = ch.refs /\ channel'.handle = ch.handle
           /\ channel'.client = ch.client /\ channel'.mode = ch.mode
           /\ channel'.buffer = <<>> /\ channel'.suspended = ch.suspended
           /\ channel'.discard /\ channel'.closed = ch.closed
           /\ channel'.closingTimer = ch.closingTimer
           /\ ws'.channel = ws.channel /\ ws'.activity = ws.activity
           /\ ws'.stopped = ws.stopped
           /\ ws'.state = "CLOSED"
           /\ ws'.said = Append(ws.said, <<"error", 0>>)
           /\ stack' = <<Call("event")>> \o (<<Call("fail")>> \o rest)
  <1>1. /\ channel' \in Channel
        /\ channel'.refs = ch.refs /\ channel'.handle = ch.handle
        /\ channel'.client = ch.client /\ channel'.mode = ch.mode
        /\ channel'.buffer = <<>> /\ channel'.suspended = ch.suspended
        /\ channel'.discard /\ channel'.closed = ch.closed
        /\ channel'.closingTimer = ch.closingTimer
    <2>1. <<>> \in Seq(Chunk)
      OBVIOUS
    <2> QED
      BY <2>1 DEF Fail, Channel
  <1>2. <<"error", 0>> \in Event
    BY DEF Event
  <1>3. /\ ws' \in Socket /\ ws'.state = "CLOSED"
        /\ ws'.said = Append(ws.said, <<"error", 0>>)
        /\ ws'.channel = ws.channel /\ ws'.activity = ws.activity
        /\ ws'.stopped = ws.stopped
    BY <1>2, EndHeard DEF Fail
  <1>4. /\ stack' \in Seq(Entry)
        /\ stack' = <<Call("event")>> \o (<<Call("fail")>> \o rest)
    BY CallsPushed DEF Fail
  <1> QED
    BY <1>1, <1>3, <1>4

-----------------------------------------------------------------------------
(* What each action does to the fields, types included: the worker.         *)

\* The handle but for its references.
HandleKept ==
    /\ handle'.state = handle.state /\ handle'.worker = handle.worker
    /\ handle'.sendData = handle.sendData /\ handle'.written = handle.written
    /\ handle'.receiveData = handle.receiveData

\* Connect posts didOpenSocket with a reference, or ends the thread.
LEMMA ConnectEffect ==
    ASSUME TypeInv, UNCHANGED pageVars, NEW succeeds \in BOOLEAN, Connect(succeeds)
    PROVE  /\ TypeInv' /\ HandleKept
           /\ thread = "connecting" /\ thread' \in {"send", "returned"}
           /\ \/ /\ handle'.refs = handle.refs + 1
                 /\ posted' = Append(posted, "didOpenSocket")
              \/ handle' = handle /\ posted' = posted /\ thread' = "returned"
           /\ UNCHANGED <<sending, wire, server>>
  <1>1. CASE succeeds
    <2>1. /\ handle' = [handle EXCEPT !.refs = @ + 1]
          /\ posted' = Append(posted, "didOpenSocket")
          /\ thread' \in {"send", "returned"}
      BY <1>1 DEF Connect, Post, NextRound
    <2>2. handle' \in Handle /\ HandleKept /\ handle'.refs = handle.refs + 1
      BY <2>1, RefFields DEF TypeInv, HandleKept
    <2>3. posted' \in Seq({"didOpenSocket", "didReceiveData"})
      BY <2>1 DEF TypeInv
    <2> QED
      BY <2>1, <2>2, <2>3 DEF Connect, TypeInv, pageVars
  <1>2. CASE ~succeeds
    BY <1>2 DEF Connect, TypeInv, pageVars, HandleKept
  <1> QED
    BY <1>1, <1>2

\* TakeSendData moves the first of the queue to the worker, or ends its
\* round.
LEMMA TakeSendDataEffect ==
    ASSUME TypeInv, UNCHANGED pageVars, TakeSendData
    PROVE  /\ TypeInv'
           /\ thread = "send" /\ sending = <<>>
           /\ handle'.state = handle.state /\ handle'.worker = handle.worker
           /\ handle'.refs = handle.refs /\ handle'.written = handle.written
           /\ handle'.receiveData = handle.receiveData
           /\ UNCHANGED <<posted, wire, server>>
           /\ \/ thread' = "wait" /\ UNCHANGED <<handle, sending>>
              \/ /\ handle.sendData # <<>>
                 /\ sending' = Head(handle.sendData)
                 /\ handle'.sendData = Tail(handle.sendData)
                 /\ UNCHANGED thread
  <1>1. CASE handle.sendData = <<>>
    BY <1>1 DEF TakeSendData, TypeInv, pageVars
  <1>2. CASE handle.sendData # <<>>
    <2>1. handle.sendData \in Seq(Seq(Nat)) /\ handle \in Handle
      BY DEF TypeInv, Handle
    <2>2. Tail(handle.sendData) \in Seq(Seq(Nat)) /\ Head(handle.sendData) \in Seq(Nat)
      BY <2>1, <1>2
    <2>3. /\ handle' \in Handle
          /\ handle'.state = handle.state /\ handle'.worker = handle.worker
          /\ handle'.refs = handle.refs /\ handle'.written = handle.written
          /\ handle'.receiveData = handle.receiveData
          /\ handle'.sendData = Tail(handle.sendData)
      BY <2>1, <2>2, <1>2 DEF TakeSendData, Handle
    <2> QED
      BY <2>2, <2>3, <1>2 DEF TakeSendData, TypeInv, pageVars
  <1> QED
    BY <1>1, <1>2

\* SendTaken puts a part on the wire, and the rest back in front of the
\* queue.
LEMMA SendTakenEffect ==
    ASSUME TypeInv, UNCHANGED pageVars, NEW taken \in 0 .. Len(sending),
           SendTaken(taken)
    PROVE  /\ TypeInv'
           /\ sending # <<>> /\ sending' = <<>>
           /\ wire' = wire \o SubSeq(sending, 1, taken)
           /\ handle'.state = handle.state /\ handle'.worker = handle.worker
           /\ handle'.refs = handle.refs /\ handle'.written = handle.written
           /\ handle'.receiveData = handle.receiveData
           /\ UNCHANGED <<posted, server>>
           /\ \/ taken = Len(sending) /\ UNCHANGED <<handle, thread>>
              \/ /\ taken < Len(sending)
                 /\ handle'.sendData =
                       <<SubSeq(sending, taken + 1, Len(sending))>> \o handle.sendData
                 /\ thread' = "wait"
  <1>1. /\ sending \in Seq(Nat) /\ wire \in Seq(Nat) /\ handle \in Handle
        /\ handle.sendData \in Seq(Seq(Nat))
    BY DEF TypeInv, Handle
  <1>2. /\ SubSeq(sending, 1, taken) \in Seq(Nat)
        /\ SubSeq(sending, taken + 1, Len(sending)) \in Seq(Nat)
    BY <1>1
  <1>3. wire' = wire \o SubSeq(sending, 1, taken) /\ wire' \in Seq(Nat)
    BY <1>1, <1>2 DEF SendTaken
  <1>4. CASE taken = Len(sending)
    <2>1. UNCHANGED <<handle, thread>> /\ sending' = <<>>
      BY <1>4 DEF SendTaken
    <2>2. sending' \in Seq(Nat)
      BY <2>1
    <2> QED
      BY <1>3, <1>4, <2>1, <2>2 DEF SendTaken, TypeInv, pageVars
  <1>5. CASE taken # Len(sending)
    <2> DEFINE left == <<SubSeq(sending, taken + 1, Len(sending))>> \o handle.sendData
    <2>1. left \in Seq(Seq(Nat))
      BY <1>1, <1>2
    <2>2. /\ handle' = [handle EXCEPT !.sendData = left]
          /\ thread' = "wait" /\ sending' = <<>>
      BY <1>5 DEF SendTaken
    <2> HIDE DEF left
    <2>3. /\ handle' \in Handle
          /\ handle'.state = handle.state /\ handle'.worker = handle.worker
          /\ handle'.refs = handle.refs /\ handle'.written = handle.written
          /\ handle'.receiveData = handle.receiveData
          /\ handle'.sendData = left
      BY <1>1, <2>1, <2>2 DEF Handle
    <2>4. sending' \in Seq(Nat) /\ taken < Len(sending)
      BY <2>2, <1>1, <1>5
    <2> QED
      BY <1>3, <2>2, <2>3, <2>4 DEF SendTaken, TypeInv, pageVars, left
  <1> QED
    BY <1>4, <1>5

\* NothingRead starts the next round, or ends the thread.
LEMMA NothingReadEffect ==
    ASSUME TypeInv, UNCHANGED pageVars, NothingRead
    PROVE  /\ TypeInv' /\ HandleKept /\ handle'.refs = handle.refs
           /\ thread = "wait" /\ thread' \in {"send", "returned"}
           /\ UNCHANGED <<posted, sending, wire, server>>
  <1>1. handle' \in Handle /\ HandleKept /\ handle'.refs = handle.refs
    BY DEF NothingRead, TypeInv, Handle, HandleKept
  <1> QED
    BY <1>1 DEF NothingRead, NextRound, TypeInv, pageVars

\* ReadData queues a chunk and posts didReceiveData with a reference.
LEMMA ReadDataEffect ==
    ASSUME TypeInv, UNCHANGED pageVars, ReadData
    PROVE  /\ TypeInv'
           /\ handle'.state = handle.state /\ handle'.worker = handle.worker
           /\ handle'.sendData = handle.sendData /\ handle'.written = handle.written
           /\ handle'.refs = handle.refs + 1
           /\ thread = "wait" /\ thread' \in {"send", "returned"}
           /\ server.sent # <<>>
           /\ handle'.receiveData = Append(handle.receiveData, Head(server.sent))
           /\ posted' = Append(posted, "didReceiveData")
           /\ server'.script = server.script
           /\ \/ Head(server.sent)[1] = "eof" /\ server'.sent = server.sent
              \/ Head(server.sent)[1] # "eof" /\ server'.sent = Tail(server.sent)
           /\ UNCHANGED <<sending, wire>>
  <1>1. /\ server.sent \in Seq(Chunk) /\ server.sent # <<>>
        /\ handle.receiveData \in Seq(Chunk) /\ handle \in Handle
        /\ handle.refs \in Int
    BY DEF TypeInv, Handle, ReadData
  <1>2. /\ Head(server.sent) \in Chunk /\ Tail(server.sent) \in Seq(Chunk)
        /\ handle.refs + 1 \in Int
    BY <1>1
  <1>3. Append(handle.receiveData, Head(server.sent)) \in Seq(Chunk)
    BY <1>1, <1>2
  <1>4. /\ handle' \in Handle
        /\ handle'.state = handle.state /\ handle'.worker = handle.worker
        /\ handle'.sendData = handle.sendData /\ handle'.written = handle.written
        /\ handle'.refs = handle.refs + 1
        /\ handle'.receiveData = Append(handle.receiveData, Head(server.sent))
    BY <1>1, <1>2, <1>3 DEF ReadData, Post, Handle
  <1>5. /\ server' \in [script : Seq(Chunk), sent : Seq(Chunk), early : BOOLEAN]
        /\ server'.script = server.script
        /\ \/ Head(server.sent)[1] = "eof" /\ server'.sent = server.sent
           \/ Head(server.sent)[1] # "eof" /\ server'.sent = Tail(server.sent)
    BY <1>1, <1>2 DEF ReadData, TypeInv
  <1>6. /\ posted' = Append(posted, "didReceiveData")
        /\ posted' \in Seq({"didOpenSocket", "didReceiveData"})
    BY DEF ReadData, Post, TypeInv
  <1> QED
    BY <1>1, <1>4, <1>5, <1>6 DEF ReadData, NextRound, TypeInv, pageVars

\* LoseConnection throws away the rest of the script.
LEMMA LoseConnectionEffect ==
    ASSUME TypeInv, UNCHANGED pageVars, LoseConnection
    PROVE  /\ TypeInv'
           /\ server'.sent = server.sent /\ server'.script = <<>>
           /\ UNCHANGED <<handle, thread, sending, posted, wire>>
  <1>1. <<>> \in Seq(Chunk)
    OBVIOUS
  <1> QED
    BY <1>1 DEF LoseConnection, TypeInv, pageVars

\* ServerSends moves one frame from the script to the socket.
LEMMA ServerSendsEffect ==
    ASSUME TypeInv, UNCHANGED pageVars, ServerSends
    PROVE  /\ TypeInv'
           /\ server.script # <<>>
           /\ server'.sent = Append(server.sent, Head(server.script))
           /\ server'.script = Tail(server.script)
           /\ server'.early <=> server.early \/ Len(wire) < 2
           /\ UNCHANGED <<handle, thread, sending, posted, wire>>
  <1>1. server.script \in Seq(Chunk) /\ server.sent \in Seq(Chunk)
    BY DEF TypeInv
  <1>2. server.script # <<>>
    BY DEF ServerSends, Doing
  <1>3. /\ Tail(server.script) \in Seq(Chunk)
        /\ Append(server.sent, Head(server.script)) \in Seq(Chunk)
    BY <1>1, <1>2
  <1> QED
    BY <1>2, <1>3 DEF ServerSends, TypeInv, pageVars

-----------------------------------------------------------------------------
(* The page.                                                                *)

\* The channel but for its buffer and its timers.
ChannelKept(ch) ==
    /\ channel'.refs = ch.refs /\ channel'.handle = ch.handle
    /\ channel'.client = ch.client /\ channel'.closed = ch.closed
    /\ channel'.suspended = ch.suspended /\ channel'.discard = ch.discard
    /\ channel'.mode = ch.mode

\* The WebSocket but for its state and what the page hears.
SocketKept ==
    /\ ws'.channel = ws.channel /\ ws'.activity = ws.activity
    /\ ws'.stopped = ws.stopped

\* A frame is sent, or not.
Sends == handle' = handle \/ handle' = Send(handle)

\* close() before there is a connection fails the channel.
LEMMA CloseConnectingEffect ==
    ASSUME TypeInv, CloseConnecting
    PROVE  /\ TypeInv' /\ InScript /\ ws.state = "CONNECTING"
           /\ channel'.refs = channel.refs /\ channel'.handle = channel.handle
           /\ channel'.client = channel.client /\ channel'.mode = channel.mode
           /\ channel'.buffer = <<>> /\ channel'.suspended = channel.suspended
           /\ channel'.discard /\ channel'.closed = channel.closed
           /\ channel'.closingTimer = channel.closingTimer
           /\ SocketKept /\ ws'.state = "CLOSED"
           /\ ws'.said = Append(ws.said, <<"error", 0>>)
           /\ stack' = <<Call("event")>> \o (<<Call("fail")>> \o stack)
           /\ UNCHANGED <<handle, thread, sending, posted, wire, server, late, overtaken>>
  <1>1. ws \in Socket /\ channel \in Channel /\ stack \in Seq(Entry)
    BY DEF TypeInv
  <1>2. Fail(channel, stack)
    BY DEF CloseConnecting
  <1>3. /\ channel' \in Channel /\ ws' \in Socket /\ stack' \in Seq(Entry)
        /\ channel'.refs = channel.refs /\ channel'.handle = channel.handle
        /\ channel'.client = channel.client /\ channel'.mode = channel.mode
        /\ channel'.buffer = <<>> /\ channel'.suspended = channel.suspended
        /\ channel'.discard /\ channel'.closed = channel.closed
        /\ channel'.closingTimer = channel.closingTimer
        /\ SocketKept /\ ws'.state = "CLOSED"
        /\ ws'.said = Append(ws.said, <<"error", 0>>)
        /\ stack' = <<Call("event")>> \o (<<Call("fail")>> \o stack)
    BY <1>1, <1>2, Fails DEF SocketKept
  <1> QED
    BY <1>3 DEF CloseConnecting, TypeInv

\* close() of an open WebSocket sends a closing frame at most.
LEMMA CloseEffect ==
    ASSUME TypeInv, Close
    PROVE  /\ TypeInv' /\ ws.state = "OPEN" /\ ws'.state = "CLOSING"
           /\ SocketKept /\ ws'.said = ws.said
           /\ ChannelKept(channel) /\ channel'.buffer = channel.buffer
           /\ Sends
           /\ UNCHANGED <<thread, sending, posted, wire, server, stack, late, overtaken>>
  <1>1. ws \in Socket /\ channel \in Channel /\ handle \in Handle
    BY DEF TypeInv
  <1>2. /\ ws' \in Socket /\ SocketKept /\ ws'.said = ws.said
        /\ ws'.state = "CLOSING"
    BY <1>1 DEF Close, Socket, SocketKept
  <1>3. /\ channel' \in Channel /\ ChannelKept(channel)
        /\ channel'.buffer = channel.buffer
    BY <1>1 DEF Close, StartClosingHandshake, Channel, ChannelKept
  <1>4. Sends /\ handle' \in Handle
    BY <1>1, SendFields DEF Close, SendFrame, Sends
  <1> QED
    BY <1>2, <1>3, <1>4 DEF Close, TypeInv

\* send() sends a frame at most.
LEMMA SendMessageEffect ==
    ASSUME TypeInv, SendMessage
    PROVE  /\ TypeInv' /\ Sends /\ ws.state = "OPEN"
           /\ UNCHANGED <<thread, sending, posted, wire, server, pageVars>>
  <1>1. Sends /\ handle' \in Handle
    BY SendFields DEF SendMessage, SendFrame, Sends, TypeInv
  <1> QED
    BY <1>1 DEF SendMessage, TypeInv, pageVars

\* stop() lets the channel go, and disconnects an open handle.
LEMMA StopEffect ==
    ASSUME TypeInv, Stop
    PROVE  /\ TypeInv' /\ MayStop /\ ~ws.stopped
           /\ InScript \/ Top("dialog")
           /\ ws'.cutShort <=> ws.cutShort \/ CutsShort
           /\ ws'.state = "CLOSED" /\ ~ws'.channel /\ ws'.activity = 0 /\ ws'.stopped
           /\ ws'.said = Append(ws.said, <<"stop", 0>>)
           /\ ~channel'.client
           /\ channel'.refs = channel.refs - One(ws.channel)
           /\ channel'.handle = channel.handle /\ channel'.closed = channel.closed
           /\ channel'.suspended = channel.suspended
           /\ channel'.discard = channel.discard /\ channel'.mode = channel.mode
           /\ channel'.buffer = channel.buffer
           /\ channel'.closingTimer = channel.closingTimer
           /\ handle'.worker = handle.worker /\ handle'.sendData = handle.sendData
           /\ handle'.receiveData = handle.receiveData
           /\ handle'.written = handle.written
           /\ \/ /\ ws.channel /\ channel.handle /\ handle.state # "Closed"
                 /\ handle'.state = "Closed" /\ handle'.refs = handle.refs + 1
                 /\ stack' = <<Call("join")>> \o (<<Call("disconnect")>> \o stack)
              \/ /\ ~ws.channel \/ ~channel.handle \/ handle.state = "Closed"
                 /\ handle'.state = handle.state /\ handle'.refs = handle.refs
                 /\ stack' = stack
           /\ UNCHANGED <<thread, sending, posted, wire, server, late, overtaken>>
  <1>1. ws \in Socket /\ channel \in Channel /\ handle \in Handle /\ stack \in Seq(Entry)
    BY DEF TypeInv
  <1>2. /\ channel' \in Channel
        /\ ~channel'.client
        /\ channel'.refs = channel.refs - One(ws.channel)
        /\ channel'.handle = channel.handle /\ channel'.closed = channel.closed
        /\ channel'.suspended = channel.suspended
        /\ channel'.discard = channel.discard /\ channel'.mode = channel.mode
        /\ channel'.buffer = channel.buffer
        /\ channel'.closingTimer = channel.closingTimer
    <2>1. /\ channel.refs \in Int /\ channel.refs - 1 \in Int
          /\ channel.refs - 0 = channel.refs
      BY <1>1 DEF Channel
    <2>2. CASE ws.channel
      BY <1>1, <2>1, <2>2 DEF Stop, Channel, One
    <2>3. CASE ~ws.channel
      BY <1>1, <2>1, <2>3 DEF Stop, Channel, One
    <2> QED
      BY <2>2, <2>3
  <1>3. /\ ws' \in Socket
        /\ ws'.state = "CLOSED" /\ ~ws'.channel /\ ws'.activity = 0 /\ ws'.stopped
        /\ ws'.said = Append(ws.said, <<"stop", 0>>)
        /\ ws'.cutShort <=> ws.cutShort \/ CutsShort
    <2> DEFINE w == [ws EXCEPT !.state = "CLOSED", !.channel = FALSE,
                               !.activity = 0, !.stopped = TRUE,
                               !.cutShort = @ \/ CutsShort]
    <2>0. CutsShort \in BOOLEAN
      BY DEF CutsShort
    <2>1. /\ w \in Socket /\ w.state = "CLOSED" /\ ~w.channel
          /\ w.activity = 0 /\ w.stopped /\ w.said = ws.said
          /\ w.cutShort <=> ws.cutShort \/ CutsShort
      BY <1>1, <2>0 DEF Socket
    <2>2. <<"stop", 0>> \in Event
      BY DEF Event
    <2>3. ws' = Heard(w, <<"stop", 0>>)
      BY DEF Stop
    <2> HIDE DEF w
    <2>4. /\ Heard(w, <<"stop", 0>>) \in Socket
          /\ Heard(w, <<"stop", 0>>).said = Append(w.said, <<"stop", 0>>)
          /\ Heard(w, <<"stop", 0>>).state = w.state
          /\ Heard(w, <<"stop", 0>>).channel = w.channel
          /\ Heard(w, <<"stop", 0>>).activity = w.activity
          /\ Heard(w, <<"stop", 0>>).stopped = w.stopped
          /\ Heard(w, <<"stop", 0>>).cutShort = w.cutShort
      BY <2>1, <2>2, HeardFields
    <2> QED
      BY <2>1, <2>3, <2>4
  <1>4. /\ handle' \in Handle /\ stack' \in Seq(Entry)
        /\ handle'.worker = handle.worker /\ handle'.sendData = handle.sendData
        /\ handle'.receiveData = handle.receiveData
        /\ handle'.written = handle.written
        /\ \/ /\ ws.channel /\ channel.handle /\ handle.state # "Closed"
              /\ handle'.state = "Closed" /\ handle'.refs = handle.refs + 1
              /\ stack' = <<Call("join")>> \o (<<Call("disconnect")>> \o stack)
           \/ /\ ~ws.channel \/ ~channel.handle \/ handle.state = "Closed"
              /\ handle'.state = handle.state /\ handle'.refs = handle.refs
              /\ stack' = stack
    <2>1. CASE ws.channel /\ channel.handle
      <3>1. Disconnect(handle, stack)
        BY <2>1 DEF Stop
      <3>2. <<Call("join")>> \o (<<Call("disconnect")>> \o stack) \in Seq(Entry)
        BY <1>1, EntryTypes, Pushed
      <3> QED
        BY <1>1, <2>1, <3>1, <3>2, Disconnects
    <2>2. CASE ~(ws.channel /\ channel.handle)
      BY <1>1, <2>2 DEF Stop
    <2> QED
      BY <2>1, <2>2
  <1> QED
    BY <1>2, <1>3, <1>4 DEF Stop, TypeInv

\* A dialog suspends the channel, if the WebSocket still has it.
LEMMA OpenDialogEffect ==
    ASSUME TypeInv, OpenDialog
    PROVE  /\ TypeInv' /\ InScript
           /\ channel'.refs = channel.refs /\ channel'.handle = channel.handle
           /\ channel'.client = channel.client /\ channel'.mode = channel.mode
           /\ channel'.buffer = channel.buffer
           /\ channel'.suspended = (channel.suspended \/ ws.channel)
           /\ channel'.discard = channel.discard /\ channel'.closed = channel.closed
           /\ channel'.closingTimer = channel.closingTimer
           /\ stack' = <<Call("dialog")>> \o stack
           /\ UNCHANGED <<handleVars, ws, late, overtaken>>
  <1>1. ws \in Socket /\ channel \in Channel /\ stack \in Seq(Entry)
    BY DEF TypeInv
  <1>2. /\ channel' \in Channel
        /\ channel'.refs = channel.refs /\ channel'.handle = channel.handle
        /\ channel'.client = channel.client /\ channel'.mode = channel.mode
        /\ channel'.buffer = channel.buffer
        /\ channel'.suspended = (channel.suspended \/ ws.channel)
        /\ channel'.discard = channel.discard /\ channel'.closed = channel.closed
        /\ channel'.closingTimer = channel.closingTimer
    BY <1>1 DEF OpenDialog, Channel, Socket
  <1>3. stack' = <<Call("dialog")>> \o stack /\ stack' \in Seq(Entry)
    BY <1>1, EntryTypes, Pushed DEF OpenDialog
  <1>4. dialogs' \in Nat
    BY DEF OpenDialog, TypeInv
  <1> QED
    BY <1>2, <1>3, <1>4 DEF OpenDialog, TypeInv, handleVars

\* The end of a dialog resumes it.
LEMMA CloseDialogEffect ==
    ASSUME TypeInv, CloseDialog
    PROVE  /\ TypeInv' /\ Top("dialog")
           /\ channel'.refs = channel.refs /\ channel'.handle = channel.handle
           /\ channel'.client = channel.client /\ channel'.mode = channel.mode
           /\ channel'.buffer = channel.buffer
           /\ channel'.suspended = (channel.suspended /\ ~ws.channel)
           /\ channel'.discard = channel.discard /\ channel'.closed = channel.closed
           /\ channel'.closingTimer = channel.closingTimer
           /\ stack' = Tail(stack)
           /\ UNCHANGED <<handleVars, ws, late, overtaken>>
  <1>1. /\ ws \in Socket /\ channel \in Channel /\ stack \in Seq(Entry)
        /\ stack # <<>>
    BY DEF TypeInv, CloseDialog, Top
  <1>2. /\ channel' \in Channel
        /\ channel'.refs = channel.refs /\ channel'.handle = channel.handle
        /\ channel'.client = channel.client /\ channel'.mode = channel.mode
        /\ channel'.buffer = channel.buffer
        /\ channel'.suspended = (channel.suspended /\ ~ws.channel)
        /\ channel'.discard = channel.discard /\ channel'.closed = channel.closed
        /\ channel'.closingTimer = channel.closingTimer
    <2>1. CASE ws.channel
      BY <1>1, <2>1 DEF CloseDialog, NeedsResume, Channel
    <2>2. CASE ~ws.channel
      BY <1>1, <2>2 DEF CloseDialog, Channel
    <2> QED
      BY <2>1, <2>2
  <1>3. stack' = Tail(stack) /\ stack' \in Seq(Entry)
    BY <1>1, TopAndRest DEF CloseDialog
  <1> QED
    BY <1>2, <1>3 DEF CloseDialog, TypeInv, handleVars

\* The end of a handler takes it off the stack.
LEMMA EndHandlerEffect ==
    ASSUME TypeInv, EndHandler
    PROVE  /\ TypeInv' /\ Top("event") /\ stack' = Tail(stack)
           /\ UNCHANGED <<handleVars, ws, channel, late, overtaken>>
  <1>1. stack \in Seq(Entry) /\ stack # <<>>
    BY DEF TypeInv, EndHandler, Top
  <1>2. stack' = Tail(stack) /\ stack' \in Seq(Entry)
    BY <1>1, TopAndRest DEF EndHandler
  <1> QED
    BY <1>2 DEF EndHandler, TypeInv, handleVars

-----------------------------------------------------------------------------
(* Functions posted by the worker, and the chunks they deliver.             *)

\* didOpenSocket opens the handle and may send the handshake, unless it has
\* the only reference, which it drops.
LEMMA DidOpenSocketEffect ==
    ASSUME TypeInv, DidOpenSocket
    PROVE  /\ TypeInv' /\ InEventLoop
           /\ posted # <<>> /\ posted[1] = "didOpenSocket" /\ posted' = Tail(posted)
           /\ handle'.refs = handle.refs - 1 /\ handle'.worker = handle.worker
           /\ handle'.receiveData = handle.receiveData
           /\ \/ /\ handle.refs > 1 /\ handle'.state = "Open"
                 /\ late' = (late \/ ~ChannelExists)
                 /\ \/ /\ handle'.sendData = handle.sendData
                       /\ handle'.written = handle.written
                    \/ /\ handle'.sendData = Append(handle.sendData,
                             <<2 * handle.written + 1, 2 * handle.written + 2>>)
                       /\ handle'.written = handle.written + 1
              \/ /\ handle'.state = handle.state
                 /\ handle'.sendData = handle.sendData
                 /\ handle'.written = handle.written
                 /\ late' = late
           /\ UNCHANGED <<thread, sending, wire, server, ws, channel, stack, overtaken>>
  <1>1. /\ handle \in Handle /\ posted \in Seq({"didOpenSocket", "didReceiveData"})
        /\ posted # <<>>
    BY DEF TypeInv, DidOpenSocket, Posted
  <1>2. posted' = Tail(posted) /\ posted' \in Seq({"didOpenSocket", "didReceiveData"})
    BY <1>1 DEF DidOpenSocket
  <1>3. CASE handle.refs > 1
    <2> DEFINE open == [handle EXCEPT !.state = "Open"]
               sent == IF channel.client THEN Send(open) ELSE open
    <2>1. /\ open \in Handle
          /\ open.refs = handle.refs /\ open.state = "Open"
          /\ open.worker = handle.worker /\ open.sendData = handle.sendData
          /\ open.receiveData = handle.receiveData /\ open.written = handle.written
      BY <1>1, StateFields
    <2>2. handle' = Deref(sent) /\ late' = (late \/ ~ChannelExists)
      BY <1>3 DEF DidOpenSocket, CallsChannel
    <2> HIDE DEF open
    <2>3. /\ sent \in Handle
          /\ sent.refs = handle.refs /\ sent.state = "Open"
          /\ sent.worker = handle.worker /\ sent.receiveData = handle.receiveData
          /\ \/ /\ sent.sendData = handle.sendData
                /\ sent.written = handle.written
             \/ /\ sent.sendData = Append(handle.sendData,
                      <<2 * handle.written + 1, 2 * handle.written + 2>>)
                /\ sent.written = handle.written + 1
      BY <2>1, SendFields
    <2> HIDE DEF sent
    <2>4. /\ handle' \in Handle /\ handle'.refs = sent.refs - 1
          /\ handle'.state = sent.state /\ handle'.worker = sent.worker
          /\ handle'.sendData = sent.sendData /\ handle'.written = sent.written
          /\ handle'.receiveData = sent.receiveData
      BY <2>2, <2>3, DerefFields
    <2>5. late' \in BOOLEAN
      BY <2>2
    <2> QED
      BY <1>1, <1>2, <1>3, <2>2, <2>3, <2>4, <2>5 DEF DidOpenSocket, Posted, TypeInv
  <1>4. CASE ~(handle.refs > 1)
    <2>1. handle' = Deref(handle) /\ late' = late
      BY <1>4 DEF DidOpenSocket
    <2>2. /\ handle' \in Handle /\ handle'.refs = handle.refs - 1
          /\ handle'.state = handle.state /\ handle'.worker = handle.worker
          /\ handle'.sendData = handle.sendData /\ handle'.written = handle.written
          /\ handle'.receiveData = handle.receiveData
      BY <1>1, <2>1, DerefFields
    <2> QED
      BY <1>1, <1>2, <2>1, <2>2 DEF DidOpenSocket, Posted, TypeInv
  <1> QED
    BY <1>3, <1>4

\* didReceiveData takes all that was received, and keeps the reference it was
\* posted with.
LEMMA DidReceiveDataEffect ==
    ASSUME TypeInv, DidReceiveData
    PROVE  /\ TypeInv' /\ InEventLoop
           /\ posted # <<>> /\ posted[1] = "didReceiveData" /\ posted' = Tail(posted)
           /\ handle'.refs = handle.refs /\ handle'.worker = handle.worker
           /\ handle'.state = handle.state
           /\ handle'.sendData = handle.sendData /\ handle'.written = handle.written
           /\ handle'.receiveData = <<>>
           /\ Chunks(handle.receiveData) \in Entry
           /\ stack' = <<Chunks(handle.receiveData)>> \o stack
           /\ ~overtaken' => /\ ~overtaken
                             /\ \/ handle.receiveData = <<>>
                                \/ \A i \in DOMAIN stack : stack[i].left = <<>>
           /\ UNCHANGED <<thread, sending, wire, server, ws, channel, late>>
  <1>1. /\ handle \in Handle /\ posted \in Seq({"didOpenSocket", "didReceiveData"})
        /\ posted # <<>> /\ stack \in Seq(Entry) /\ handle.receiveData \in Seq(Chunk)
    BY DEF TypeInv, DidReceiveData, Posted, Handle
  <1>2. posted' = Tail(posted) /\ posted' \in Seq({"didOpenSocket", "didReceiveData"})
    BY <1>1 DEF DidReceiveData
  <1>3. /\ handle' \in Handle
        /\ handle'.refs = handle.refs /\ handle'.worker = handle.worker
        /\ handle'.state = handle.state
        /\ handle'.sendData = handle.sendData /\ handle'.written = handle.written
        /\ handle'.receiveData = <<>>
    <2>1. <<>> \in Seq(Chunk)
      OBVIOUS
    <2> QED
      BY <1>1, <2>1 DEF DidReceiveData, Handle
  <1>4. Chunks(handle.receiveData) \in Entry
    BY <1>1, EntryTypes
  <1>5. /\ stack' = <<Chunks(handle.receiveData)>> \o stack
        /\ stack' \in Seq(Entry)
    BY <1>1, <1>4, Pushed DEF DidReceiveData
  <1>6. overtaken' \in BOOLEAN
    BY DEF DidReceiveData
  <1>7. ~overtaken' => /\ ~overtaken
                       /\ \/ handle.receiveData = <<>>
                          \/ \A i \in DOMAIN stack : stack[i].left = <<>>
    BY DEF DidReceiveData
  <1> QED
    BY <1>1, <1>2, <1>3, <1>4, <1>5, <1>6, <1>7 DEF DidReceiveData, Posted, TypeInv

\* When nothing is left it drops that reference.
LEMMA ChunksDoneEffect ==
    ASSUME TypeInv, ChunksDone
    PROVE  /\ TypeInv' /\ Top("chunks") /\ stack' = Tail(stack)
           /\ HandleKept /\ handle'.refs = handle.refs - 1
           /\ UNCHANGED <<thread, sending, posted, wire, server,
                          ws, channel, late, overtaken>>
  <1>1. stack \in Seq(Entry) /\ stack # <<>> /\ handle \in Handle
    BY DEF TypeInv, ChunksDone, Top
  <1>2. stack' = Tail(stack) /\ stack' \in Seq(Entry)
    BY <1>1, TopAndRest DEF ChunksDone
  <1>3. handle' \in Handle /\ HandleKept /\ handle'.refs = handle.refs - 1
    BY <1>1, DerefFields DEF ChunksDone, HandleKept
  <1> QED
    BY <1>2, <1>3 DEF ChunksDone, TypeInv

\* The end of the connection, a frame for the channel, or one for nobody.
LEMMA NextChunkEffect ==
    ASSUME TypeInv, NextChunk
    PROVE  /\ TypeInv' /\ Top("chunks") /\ stack[1].left # <<>>
           /\ stack[1].left \in Seq(Chunk)
           /\ handle'.worker = handle.worker /\ handle'.sendData = handle.sendData
           /\ handle'.receiveData = handle.receiveData
           /\ handle'.written = handle.written /\ handle'.refs = handle.refs
           /\ ChannelKept(channel) /\ channel'.closingTimer = channel.closingTimer
           /\ UNCHANGED <<thread, sending, posted, wire, server, ws, overtaken>>
           /\ LET rest == <<Chunks(Tail(stack[1].left))>> \o Tail(stack)
              IN  \/ /\ handle'.state = "Closed"
                     /\ handle.state = "Closed" =>
                           stack' = <<Chunks(<<>>)>> \o Tail(stack)
                     /\ handle.state # "Closed" =>
                           stack' = <<Call("join")>> \o (<<Chunks(<<>>)>> \o Tail(stack))
                     /\ UNCHANGED <<channel, late>>
                  \/ /\ Head(stack[1].left)[1] # "eof" /\ handle.state = "Open"
                     /\ late' = (late \/ ~ChannelExists)
                     /\ channel.client
                     /\ channel'.buffer = Append(channel.buffer, Head(stack[1].left))
                     /\ stack' = <<Call("buffer")>> \o rest
                     /\ UNCHANGED handle
                  \/ /\ late' = (late \/ ~ChannelExists) /\ handle.state = "Open"
                     /\ stack' = rest
                     /\ UNCHANGED <<channel, handle>>
                  \/ /\ stack' = rest
                     /\ UNCHANGED <<channel, handle, late>>
  <1> DEFINE left == stack[1].left
             rest == <<Chunks(Tail(left))>> \o Tail(stack)
             over == <<Chunks(<<>>)>> \o Tail(stack)
  <1>1. /\ stack \in Seq(Entry) /\ stack # <<>> /\ handle \in Handle
        /\ channel \in Channel /\ left # <<>> /\ Top("chunks")
    BY DEF TypeInv, NextChunk, Top
  <1>2. stack[1] \in Entry /\ Tail(stack) \in Seq(Entry)
    BY <1>1, TopAndRest
  <1>3. left \in Seq(Chunk)
    BY <1>2 DEF Entry
  <1>4. Head(left) \in Chunk /\ Tail(left) \in Seq(Chunk) /\ <<>> \in Seq(Chunk)
    BY <1>1, <1>3
  <1>5. /\ rest \in Seq(Entry) /\ over \in Seq(Entry)
        /\ <<Call("buffer")>> \o rest \in Seq(Entry)
        /\ <<Call("join")>> \o over \in Seq(Entry)
    <2>1. rest \in Seq(Entry) /\ over \in Seq(Entry)
      BY <1>2, <1>4, EntryTypes, Pushed
    <2> HIDE DEF rest, over
    <2> QED
      BY <2>1, EntryTypes, Pushed
  <1> HIDE DEF rest, over
  <1>6. CASE Head(left)[1] = "eof"
    <2>1. PlatformClose(handle, over) /\ UNCHANGED <<channel, late>>
      BY <1>6 DEF NextChunk, over
    <2>2. /\ handle' \in Handle
          /\ handle'.worker = handle.worker /\ handle'.sendData = handle.sendData
          /\ handle'.receiveData = handle.receiveData
          /\ handle'.written = handle.written /\ handle'.refs = handle.refs
          /\ handle'.state = "Closed"
          /\ handle.state = "Closed" => stack' = over
          /\ handle.state # "Closed" => stack' = <<Call("join")>> \o over
      BY <1>1, <1>5, <2>1, PlatformCloses
    <2>3. TypeInv'
      BY <1>5, <2>1, <2>2 DEF NextChunk, TypeInv
    <2> QED
      BY <1>1, <1>3, <2>1, <2>2, <2>3 DEF NextChunk, ChannelKept, over
  <1>7. CASE Head(left)[1] # "eof" /\ handle.state = "Open"
    <2>1. UNCHANGED handle /\ late' = (late \/ ~ChannelExists)
      BY <1>7 DEF NextChunk, CallsChannel
    <2>2. late' \in BOOLEAN
      BY <2>1
    <2>3. CASE channel.client /\ ~channel.discard
      <3>1. /\ channel' = [channel EXCEPT !.buffer = Append(@, Head(left))]
            /\ stack' = <<Call("buffer")>> \o rest
        BY <1>7, <2>3 DEF NextChunk, rest
      <3>2. channel.buffer \in Seq(Chunk)
        BY <1>1 DEF Channel
      <3>3. Append(channel.buffer, Head(left)) \in Seq(Chunk)
        BY <3>2, <1>4
      <3>4. /\ channel' \in Channel /\ ChannelKept(channel)
            /\ channel'.closingTimer = channel.closingTimer
            /\ channel'.buffer = Append(channel.buffer, Head(left))
        BY <1>1, <3>1, <3>3 DEF Channel, ChannelKept
      <3>5. TypeInv'
        BY <1>5, <2>1, <2>2, <3>1, <3>4 DEF NextChunk, TypeInv
      <3> QED
        BY <1>1, <1>3, <1>7, <2>1, <2>3, <3>1, <3>4, <3>5 DEF NextChunk, rest
    <2>4. CASE ~(channel.client /\ ~channel.discard)
      <3>1. UNCHANGED channel /\ stack' = rest
        BY <1>7, <2>4 DEF NextChunk, rest
      <3>2. TypeInv'
        BY <1>5, <2>1, <2>2, <3>1 DEF NextChunk, TypeInv
      <3> QED
        BY <1>1, <1>3, <1>7, <2>1, <3>1, <3>2 DEF NextChunk, rest, ChannelKept
    <2> QED
      BY <2>3, <2>4
  <1>8. CASE Head(left)[1] # "eof" /\ handle.state # "Open"
    <2>1. UNCHANGED <<handle, channel, late>> /\ stack' = rest
      BY <1>8 DEF NextChunk, rest
    <2>2. TypeInv'
      BY <1>5, <2>1 DEF NextChunk, TypeInv
    <2> QED
      BY <1>1, <1>3, <2>1, <2>2 DEF NextChunk, rest, ChannelKept
  <1> QED
    BY <1>6, <1>7, <1>8

-----------------------------------------------------------------------------
(* The loop over the buffer.                                                *)

\* The loop over the buffer ends, and may throw away the rest.
LEMMA BufferDoneEffect ==
    ASSUME TypeInv, BufferDone
    PROVE  /\ TypeInv' /\ Top("buffer") /\ stack' = Tail(stack)
           /\ ChannelKept(channel) /\ channel'.closingTimer = channel.closingTimer
           /\ channel'.buffer \in {channel.buffer, <<>>}
           /\ UNCHANGED <<handleVars, ws, late, overtaken>>
  <1>1. stack \in Seq(Entry) /\ stack # <<>> /\ channel \in Channel
    BY DEF TypeInv, BufferDone, Top
  <1>2. stack' = Tail(stack) /\ stack' \in Seq(Entry)
    BY <1>1, TopAndRest DEF BufferDone
  <1>3. /\ channel' \in Channel /\ ChannelKept(channel)
        /\ channel'.closingTimer = channel.closingTimer
        /\ channel'.buffer \in {channel.buffer, <<>>}
    <2>1. <<>> \in Seq(Chunk)
      OBVIOUS
    <2>2. CASE channel' = channel
      BY <2>2, <1>1 DEF ChannelKept
    <2>3. CASE channel' = [channel EXCEPT !.buffer = <<>>]
      BY <2>1, <2>3, <1>1 DEF ChannelKept, Channel
    <2> QED
      BY <2>2, <2>3 DEF BufferDone
  <1> QED
    BY <1>2, <1>3 DEF BufferDone, TypeInv, handleVars

\* A frame is looked at.
Looks ==
    /\ Top("buffer") /\ stack \in Seq(Entry) /\ stack # <<>>
    /\ channel.client /\ ~channel.suspended /\ ~channel.discard
    /\ channel.buffer \in Seq(Chunk) /\ channel.buffer # <<>>

\* The loop goes on only for a client that wants data.
LEMMA ProcessesLooks ==
    ASSUME TypeInv, Processes
    PROVE  Looks
  BY DEF TypeInv, Processes, Looks, Top, Channel

\* skipBuffer changes the buffer alone.
LEMMA SkippedFields ==
    ASSUME TypeInv, Looks
    PROVE  /\ Skipped \in Channel /\ Skipped.buffer = Tail(channel.buffer)
           /\ Skipped.refs = channel.refs /\ Skipped.handle = channel.handle
           /\ Skipped.client = channel.client /\ Skipped.mode = channel.mode
           /\ Skipped.suspended = channel.suspended
           /\ Skipped.discard = channel.discard /\ Skipped.closed = channel.closed
           /\ Skipped.closingTimer = channel.closingTimer
           /\ Tail(channel.buffer) \in Seq(Chunk)
           /\ Number \in Nat
  <1>1. channel \in Channel /\ channel.buffer \in Seq(Chunk) /\ channel.buffer # <<>>
    BY DEF TypeInv, Looks
  <1>2. Tail(channel.buffer) \in Seq(Chunk) /\ channel.buffer[1] \in Chunk
    BY <1>1
  <1>3. Number \in Nat
    BY <1>2 DEF Number, Chunk
  <1> QED
    BY <1>1, <1>2, <1>3 DEF Skipped, Channel

\* The end that fail() makes of it.
FailsNow ==
    /\ channel'.refs = channel.refs /\ channel'.handle = channel.handle
    /\ channel'.client = channel.client /\ channel'.closed = channel.closed
    /\ channel'.suspended = channel.suspended /\ channel'.discard
    /\ channel'.buffer = <<>> /\ channel'.closingTimer = channel.closingTimer
    /\ SocketKept /\ ws'.state = "CLOSED"
    /\ ws'.said = Append(ws.said, <<"error", 0>>)
    /\ stack' = <<Call("event")>> \o (<<Call("fail")>> \o Tail(stack))

\* The handshake connects the channel, or fails it.
LEMMA ServerHandshakeEffect ==
    ASSUME TypeInv, ServerHandshake
    PROVE  /\ TypeInv' /\ Looks /\ channel.mode = "Incomplete"
           /\ UNCHANGED <<handleVars, late, overtaken>>
           /\ \/ /\ channel'.refs = channel.refs /\ channel'.handle = channel.handle
                 /\ channel'.client = channel.client /\ channel'.closed = channel.closed
                 /\ channel'.suspended = channel.suspended
                 /\ channel'.discard = channel.discard
                 /\ channel'.closingTimer = channel.closingTimer
                 /\ channel'.mode = "Connected"
                 /\ channel'.buffer = Tail(channel.buffer)
                 /\ SocketKept /\ ws'.state = "OPEN"
                 /\ ws'.said = Append(ws.said, <<"open", 0>>)
                 /\ stack' = <<Call("event")>> \o stack
              \/ FailsNow /\ channel'.mode = "Failed"
  <1>1. /\ Looks /\ channel.mode = "Incomplete" /\ channel \in Channel
        /\ ws \in Socket /\ stack \in Seq(Entry) /\ Tail(stack) \in Seq(Entry)
    BY ProcessesLooks, TopAndRest DEF ServerHandshake, TypeInv, Looks
  <1> DEFINE accepted == [Skipped EXCEPT !.mode = "Connected"]
             refused == [Skipped EXCEPT !.mode = "Failed"]
  <1>2. /\ Skipped \in Channel /\ Skipped.buffer = Tail(channel.buffer)
        /\ Skipped.refs = channel.refs /\ Skipped.handle = channel.handle
        /\ Skipped.client = channel.client /\ Skipped.mode = channel.mode
        /\ Skipped.suspended = channel.suspended
        /\ Skipped.discard = channel.discard /\ Skipped.closed = channel.closed
        /\ Skipped.closingTimer = channel.closingTimer
    BY <1>1, SkippedFields
  <1>3. CASE Frame = "accept"
    <2>1. /\ channel' \in Channel
          /\ channel'.refs = channel.refs /\ channel'.handle = channel.handle
          /\ channel'.client = channel.client /\ channel'.closed = channel.closed
          /\ channel'.suspended = channel.suspended
          /\ channel'.discard = channel.discard
          /\ channel'.closingTimer = channel.closingTimer
          /\ channel'.mode = "Connected"
          /\ channel'.buffer = Tail(channel.buffer)
      <3>1. channel' = accepted
        BY <1>3 DEF ServerHandshake
      <3> QED
        BY <1>2, <3>1 DEF Channel
    <2>2. /\ ws' \in Socket /\ SocketKept /\ ws'.state = "OPEN"
          /\ ws'.said = Append(ws.said, <<"open", 0>>)
      <3> DEFINE w == [ws EXCEPT !.state = "OPEN"]
      <3>1. /\ w \in Socket /\ w.state = "OPEN" /\ w.channel = ws.channel
            /\ w.activity = ws.activity /\ w.stopped = ws.stopped /\ w.said = ws.said
        BY <1>1 DEF Socket
      <3>2. <<"open", 0>> \in Event /\ ws' = Heard(w, <<"open", 0>>)
        BY <1>3 DEF Event, ServerHandshake
      <3> HIDE DEF w
      <3>3. /\ Heard(w, <<"open", 0>>) \in Socket
            /\ Heard(w, <<"open", 0>>).said = Append(w.said, <<"open", 0>>)
            /\ Heard(w, <<"open", 0>>).state = w.state
            /\ Heard(w, <<"open", 0>>).channel = w.channel
            /\ Heard(w, <<"open", 0>>).activity = w.activity
            /\ Heard(w, <<"open", 0>>).stopped = w.stopped
        BY <3>1, <3>2, HeardFields
      <3> QED
        BY <3>1, <3>2, <3>3 DEF SocketKept
    <2>3. stack' = <<Call("event")>> \o stack /\ stack' \in Seq(Entry)
      <3>1. stack' = <<Call("event")>> \o stack
        BY <1>3 DEF ServerHandshake
      <3> QED
        BY <3>1, <1>1, EntryTypes, Pushed
    <2> QED
      BY <1>1, <2>1, <2>2, <2>3 DEF ServerHandshake, TypeInv, handleVars
  <1>4. CASE Frame # "accept"
    <2>1. Fail(refused, Tail(stack))
      BY <1>4 DEF ServerHandshake
    <2>2. /\ refused \in Channel /\ refused.mode = "Failed"
          /\ refused.refs = channel.refs /\ refused.handle = channel.handle
          /\ refused.client = channel.client /\ refused.closed = channel.closed
          /\ refused.suspended = channel.suspended
          /\ refused.closingTimer = channel.closingTimer
      BY <1>2 DEF Channel
    <2> HIDE DEF refused
    <2>3. /\ channel' \in Channel /\ ws' \in Socket /\ stack' \in Seq(Entry)
          /\ FailsNow /\ channel'.mode = "Failed"
      BY <1>1, <2>1, <2>2, Fails DEF FailsNow, SocketKept
    <2> QED
      BY <1>1, <2>3 DEF ServerHandshake, TypeInv, handleVars
  <1> QED
    BY <1>3, <1>4

\* A frame that breaks the protocol fails the channel.
LEMMA FrameFailsEffect ==
    ASSUME TypeInv, FrameFails
    PROVE  /\ TypeInv' /\ Looks /\ FailsNow /\ channel'.mode = channel.mode
           /\ UNCHANGED <<handleVars, late, overtaken>>
  <1>1. /\ Looks /\ channel \in Channel
        /\ ws \in Socket /\ stack \in Seq(Entry) /\ Tail(stack) \in Seq(Entry)
    BY ProcessesLooks, TopAndRest DEF FrameFails, Connected, TypeInv, Looks
  <1>2. Fail(channel, Tail(stack))
    BY DEF FrameFails
  <1>3. /\ channel' \in Channel /\ ws' \in Socket /\ stack' \in Seq(Entry)
        /\ FailsNow /\ channel'.mode = channel.mode
    BY <1>1, <1>2, Fails DEF FailsNow, SocketKept
  <1> QED
    BY <1>1, <1>3 DEF FrameFails, TypeInv, handleVars

\* The first part of a message is skipped.
LEMMA FirstFrameEffect ==
    ASSUME TypeInv, FirstFrame
    PROVE  /\ TypeInv' /\ Looks
           /\ ChannelKept(channel) /\ channel'.closingTimer = channel.closingTimer
           /\ channel'.buffer = Tail(channel.buffer)
           /\ UNCHANGED <<handleVars, ws, stack, late, overtaken>>
  <1>1. Looks
    BY ProcessesLooks DEF FirstFrame, Connected
  <1>2. /\ channel' \in Channel /\ ChannelKept(channel)
        /\ channel'.closingTimer = channel.closingTimer
        /\ channel'.buffer = Tail(channel.buffer)
    BY <1>1, SkippedFields DEF FirstFrame, ChannelKept, Channel
  <1> QED
    BY <1>1, <1>2 DEF FirstFrame, TypeInv, handleVars

\* A message is skipped, and heard or not.
LEMMA MessageFrameEffect ==
    ASSUME TypeInv, MessageFrame
    PROVE  /\ TypeInv' /\ Looks /\ channel.mode = "Connected"
           /\ Frame # "eof" /\ Number \in Nat
           /\ ChannelKept(channel) /\ channel'.closingTimer = channel.closingTimer
           /\ channel'.buffer = Tail(channel.buffer)
           /\ UNCHANGED <<handleVars, late, overtaken>>
           /\ \/ UNCHANGED <<ws, stack>>
              \/ /\ SocketKept /\ ws'.state = ws.state
                 /\ ws'.said = Append(ws.said, <<"message", Number>>)
                 /\ stack' = <<Call("event")>> \o stack
  <1>1. /\ Looks /\ channel.mode = "Connected" /\ Frame # "eof"
        /\ stack \in Seq(Entry) /\ ws \in Socket
    BY ProcessesLooks DEF MessageFrame, Connected, TypeInv
  <1>2. /\ channel' \in Channel /\ ChannelKept(channel)
        /\ channel'.closingTimer = channel.closingTimer
        /\ channel'.buffer = Tail(channel.buffer)
        /\ Number \in Nat
    BY <1>1, SkippedFields DEF MessageFrame, ChannelKept, Channel
  <1>3. CASE UNCHANGED <<ws, stack>>
    BY <1>1, <1>2, <1>3 DEF MessageFrame, TypeInv, handleVars
  <1>4. CASE /\ ws' = Heard(ws, <<"message", Number>>)
             /\ stack' = <<Call("event")>> \o stack
    <2>1. <<"message", Number>> \in Event
      BY <1>2 DEF Event
    <2>2. /\ ws' \in Socket /\ SocketKept /\ ws'.state = ws.state
          /\ ws'.said = Append(ws.said, <<"message", Number>>)
      BY <1>1, <1>4, <2>1, HeardFields DEF SocketKept
    <2>3. stack' \in Seq(Entry)
      BY <1>1, <1>4, EntryTypes, Pushed
    <2> QED
      BY <1>1, <1>2, <1>4, <2>2, <2>3 DEF MessageFrame, TypeInv, handleVars
  <1> QED
    BY <1>3, <1>4 DEF MessageFrame

\* A ping is skipped, and answered with a frame at most.
LEMMA PingFrameEffect ==
    ASSUME TypeInv, PingFrame
    PROVE  /\ TypeInv' /\ Looks /\ Sends
           /\ ChannelKept(channel) /\ channel'.closingTimer = channel.closingTimer
           /\ channel'.buffer = Tail(channel.buffer)
           /\ UNCHANGED <<thread, sending, posted, wire, server,
                          ws, stack, late, overtaken>>
  <1>1. Looks /\ handle \in Handle
    BY ProcessesLooks DEF PingFrame, Connected, TypeInv
  <1>2. /\ channel' \in Channel /\ ChannelKept(channel)
        /\ channel'.closingTimer = channel.closingTimer
        /\ channel'.buffer = Tail(channel.buffer)
    BY <1>1, SkippedFields DEF PingFrame, ChannelKept
  <1>3. Sends /\ handle' \in Handle
    BY <1>1, SendFields DEF PingFrame, SendFrame, Sends
  <1> QED
    BY <1>1, <1>2, <1>3 DEF PingFrame, TypeInv

\* A closing frame is skipped and answered, and the handle disconnected, or
\* not.
LEMMA CloseFrameEffect ==
    ASSUME TypeInv, CloseFrame
    PROVE  /\ TypeInv' /\ Looks
           /\ ChannelKept(channel) /\ channel'.closingTimer = channel.closingTimer
           /\ channel'.buffer = Tail(channel.buffer)
           /\ SocketKept /\ ws'.said = ws.said /\ ws'.state \in {ws.state, "CLOSING"}
           /\ UNCHANGED <<thread, sending, posted, wire, server, late, overtaken>>
           /\ \E answered \in {handle, Send(handle)} :
                  /\ answered \in Handle /\ answered.state = handle.state
                  /\ handle'.worker = answered.worker
                  /\ handle'.sendData = answered.sendData
                  /\ handle'.receiveData = answered.receiveData
                  /\ handle'.written = answered.written
                  /\ \/ /\ handle.state # "Closed"
                        /\ handle'.state = "Closed"
                        /\ handle'.refs = answered.refs + 1
                        /\ stack' = <<Call("join")>> \o (<<Call("disconnect")>> \o stack)
                     \/ /\ handle'.state = handle.state
                        /\ handle'.refs = answered.refs
                        /\ stack' = stack
  <1>1. /\ Looks /\ handle \in Handle /\ stack \in Seq(Entry) /\ ws \in Socket
        /\ channel \in Channel
    BY ProcessesLooks DEF CloseFrame, Connected, TypeInv
  <1>2. /\ channel' \in Channel /\ ChannelKept(channel)
        /\ channel'.closingTimer = channel.closingTimer
        /\ channel'.buffer = Tail(channel.buffer)
    <2>1. /\ Skipped \in Channel /\ Skipped.buffer = Tail(channel.buffer)
          /\ Skipped.refs = channel.refs /\ Skipped.handle = channel.handle
          /\ Skipped.client = channel.client /\ Skipped.mode = channel.mode
          /\ Skipped.suspended = channel.suspended
          /\ Skipped.discard = channel.discard /\ Skipped.closed = channel.closed
          /\ Skipped.closingTimer = channel.closingTimer
      BY <1>1, SkippedFields
    <2> DEFINE ch == [Skipped EXCEPT !.received = TRUE]
    <2>2. /\ ch \in Channel /\ ch.buffer = Tail(channel.buffer)
          /\ ch.refs = channel.refs /\ ch.handle = channel.handle
          /\ ch.client = channel.client /\ ch.mode = channel.mode
          /\ ch.suspended = channel.suspended
          /\ ch.discard = channel.discard /\ ch.closed = channel.closed
          /\ ch.closingTimer = channel.closingTimer
      BY <2>1 DEF Channel
    <2>3. channel' = StartClosingHandshake(ch)
      BY DEF CloseFrame
    <2> HIDE DEF ch
    <2> QED
      BY <2>2, <2>3 DEF StartClosingHandshake, Channel, ChannelKept
  <1>3. /\ ws' \in Socket /\ SocketKept /\ ws'.said = ws.said
        /\ ws'.state \in {ws.state, "CLOSING"}
    <2>1. CASE ws' = ws
      BY <2>1, <1>1 DEF SocketKept, Socket
    <2>2. CASE ws' = [ws EXCEPT !.state = "CLOSING"]
      BY <2>2, <1>1 DEF SocketKept, Socket
    <2> QED
      BY <2>1, <2>2 DEF CloseFrame
  <1> DEFINE answered == IF StartsClosing(channel) THEN Send(handle) ELSE handle
  <1>4. /\ answered \in {handle, Send(handle)} /\ answered \in Handle
        /\ answered.state = handle.state
    BY <1>1, SendFields
  <1>5. IF channel'.closing THEN Disconnect(answered, stack)
                            ELSE handle' = answered /\ UNCHANGED stack
    BY DEF CloseFrame
  <1> HIDE DEF answered
  <1>6. /\ handle' \in Handle /\ stack' \in Seq(Entry)
        /\ handle'.worker = answered.worker
        /\ handle'.sendData = answered.sendData
        /\ handle'.receiveData = answered.receiveData
        /\ handle'.written = answered.written
        /\ \/ /\ handle.state # "Closed"
              /\ handle'.state = "Closed"
              /\ handle'.refs = answered.refs + 1
              /\ stack' = <<Call("join")>> \o (<<Call("disconnect")>> \o stack)
           \/ /\ handle'.state = handle.state
              /\ handle'.refs = answered.refs
              /\ stack' = stack
    <2>1. CASE channel'.closing
      <3>1. <<Call("join")>> \o (<<Call("disconnect")>> \o stack) \in Seq(Entry)
        BY <1>1, EntryTypes, Pushed
      <3>2. Disconnect(answered, stack)
        BY <1>5, <2>1
      <3> QED
        BY <1>1, <1>4, <3>1, <3>2, Disconnects
    <2>2. CASE ~channel'.closing
      BY <1>1, <1>4, <1>5, <2>2
    <2> QED
      BY <2>1, <2>2
  <1>7. TypeInv'
    BY <1>2, <1>3, <1>6 DEF CloseFrame, TypeInv
  <1> QED
    BY <1>1, <1>2, <1>3, <1>4, <1>6, <1>7 DEF CloseFrame

-----------------------------------------------------------------------------
(* What callers have left to do, and the channel's timers.                  *)

\* When the worker is gone the channel is closed: later, as it is suspended,
\* with an event, or without a client.
LEMMA JoinEffect ==
    ASSUME TypeInv, Join
    PROVE  /\ TypeInv' /\ Top("join")
           /\ handle.worker => thread = "returned"
           /\ late' = (late \/ ~ChannelExists)
           /\ channel'.closed /\ ~channel'.closingTimer
           /\ channel'.mode = channel.mode /\ channel'.buffer = channel.buffer
           /\ channel'.suspended = channel.suspended
           /\ channel'.discard = channel.discard
           /\ handle'.state = handle.state /\ ~handle'.worker
           /\ handle'.sendData = handle.sendData /\ handle'.written = handle.written
           /\ handle'.receiveData = handle.receiveData
           /\ SocketKept
           /\ \/ /\ channel.handle /\ channel.suspended
                 /\ channel'.handle = channel.handle
                 /\ channel'.client = channel.client
                 /\ channel'.refs = channel.refs
                 /\ handle'.refs = handle.refs - One(handle.worker)
                 /\ stack' = Tail(stack) /\ ws' = ws
              \/ /\ channel.handle /\ ~channel.suspended /\ channel.client
                 /\ ~channel'.handle /\ ~channel'.client
                 /\ channel'.refs = channel.refs
                 /\ handle'.refs = handle.refs - One(handle.worker) - 1
                 /\ ws'.state = "CLOSED"
                 /\ ws'.said = Append(ws.said, <<"close", 0>>)
                 /\ stack' = <<Call("event")>> \o (<<Call("didClose")>> \o Tail(stack))
              \/ /\ channel.handle => ~channel.suspended /\ ~channel.client
                 /\ ~channel'.handle /\ channel'.client = channel.client
                 /\ channel'.refs = channel.refs - 1
                 /\ handle'.refs = handle.refs - One(handle.worker) - One(channel.handle)
                 /\ stack' = Tail(stack) /\ ws' = ws
           /\ UNCHANGED <<thread, sending, posted, wire, server, overtaken>>
  <1>1. /\ Top("join") /\ stack \in Seq(Entry) /\ stack # <<>>
        /\ handle \in Handle /\ channel \in Channel /\ ws \in Socket
    BY DEF TypeInv, Join, Top
  <1>2. Tail(stack) \in Seq(Entry)
    BY <1>1, TopAndRest
  <1> DEFINE h == Joined(handle)
  <1>3. /\ h \in Handle /\ h.refs = handle.refs - One(handle.worker)
        /\ h.state = handle.state /\ ~h.worker /\ h.sendData = handle.sendData
        /\ h.receiveData = handle.receiveData /\ h.written = handle.written
    BY <1>1, JoinedFields
  <1>4. DidCloseSocketStream(channel, h, Tail(stack))
    BY DEF Join
  <1> HIDE DEF h
  <1>5. /\ channel' \in Channel /\ handle' \in Handle /\ ws' \in Socket
        /\ stack' \in Seq(Entry)
        /\ channel'.closed /\ ~channel'.closingTimer
        /\ channel'.mode = channel.mode /\ channel'.buffer = channel.buffer
        /\ channel'.suspended = channel.suspended
        /\ channel'.discard = channel.discard
        /\ handle'.state = h.state /\ handle'.worker = h.worker
        /\ handle'.sendData = h.sendData /\ handle'.written = h.written
        /\ handle'.receiveData = h.receiveData
        /\ SocketKept
        /\ \/ /\ channel.handle /\ channel.suspended
              /\ channel'.handle = channel.handle /\ channel'.client = channel.client
              /\ channel'.refs = channel.refs
              /\ handle' = h /\ stack' = Tail(stack) /\ ws' = ws
           \/ /\ channel.handle /\ ~channel.suspended /\ channel.client
              /\ ~channel'.handle /\ ~channel'.client
              /\ channel'.refs = channel.refs
              /\ handle'.refs = h.refs - 1
              /\ ws'.state = "CLOSED"
              /\ ws'.said = Append(ws.said, <<"close", 0>>)
              /\ stack' = <<Call("event")>> \o (<<Call("didClose")>> \o Tail(stack))
           \/ /\ channel.handle => ~channel.suspended /\ ~channel.client
              /\ ~channel'.handle /\ channel'.client = channel.client
              /\ channel'.refs = channel.refs - 1
              /\ handle'.refs = h.refs - One(channel.handle)
              /\ stack' = Tail(stack) /\ ws' = ws
    BY <1>1, <1>2, <1>3, <1>4, DidCloses DEF SocketKept
  <1>6. late' = (late \/ ~ChannelExists) /\ late' \in BOOLEAN
    BY DEF Join, CallsChannel
  <1>7. TypeInv'
    BY <1>5, <1>6 DEF Join, TypeInv
  <1>8. UNCHANGED <<thread, sending, posted, wire, server, overtaken>>
    BY DEF Join
  <1>9. handle.worker => thread = "returned"
    BY DEF Join
  <1> QED
    BY <1>1, <1>3, <1>5, <1>6, <1>7, <1>8, <1>9

\* disconnect() drops its reference.
LEMMA FinishDisconnectEffect ==
    ASSUME TypeInv, FinishDisconnect
    PROVE  /\ TypeInv' /\ Top("disconnect") /\ stack' = Tail(stack)
           /\ handle'.state = "Closed" /\ handle'.refs = handle.refs - 1
           /\ handle'.worker = handle.worker
           /\ handle'.sendData = handle.sendData /\ handle'.written = handle.written
           /\ handle'.receiveData = handle.receiveData
           /\ UNCHANGED <<thread, sending, posted, wire, server,
                          ws, channel, late, overtaken>>
  <1>1. stack \in Seq(Entry) /\ stack # <<>> /\ handle \in Handle
    BY DEF TypeInv, FinishDisconnect, Top
  <1>2. stack' = Tail(stack) /\ stack' \in Seq(Entry)
    BY <1>1, TopAndRest DEF FinishDisconnect
  <1>3. /\ handle' \in Handle
        /\ handle'.state = "Closed" /\ handle'.refs = handle.refs - 1
        /\ handle'.worker = handle.worker
        /\ handle'.sendData = handle.sendData /\ handle'.written = handle.written
        /\ handle'.receiveData = handle.receiveData
    <2> DEFINE h == Deref(handle)
    <2>1. /\ h \in Handle /\ h.refs = handle.refs - 1 /\ h.worker = handle.worker
          /\ h.sendData = handle.sendData /\ h.written = handle.written
          /\ h.receiveData = handle.receiveData
      BY <1>1, DerefFields
    <2>2. handle' = [h EXCEPT !.state = "Closed"]
      BY DEF FinishDisconnect
    <2> HIDE DEF h
    <2> QED
      BY <2>1, <2>2, StateFields
  <1> QED
    BY <1>2, <1>3 DEF FinishDisconnect, TypeInv

\* fail() disconnects a handle that is open.
LEMMA FinishFailEffect ==
    ASSUME TypeInv, FinishFail
    PROVE  /\ TypeInv' /\ Top("fail")
           /\ handle'.worker = handle.worker
           /\ handle'.sendData = handle.sendData /\ handle'.written = handle.written
           /\ handle'.receiveData = handle.receiveData
           /\ \/ /\ channel.handle /\ ~channel.closed /\ handle.state # "Closed"
                 /\ handle'.state = "Closed" /\ handle'.refs = handle.refs + 1
                 /\ stack' = <<Call("join")>> \o (<<Call("disconnect")>> \o Tail(stack))
              \/ /\ handle'.state = handle.state /\ handle'.refs = handle.refs
                 /\ stack' = Tail(stack)
           /\ UNCHANGED <<thread, sending, posted, wire, server,
                          ws, channel, late, overtaken>>
  <1>1. stack \in Seq(Entry) /\ stack # <<>> /\ handle \in Handle /\ Top("fail")
    BY DEF TypeInv, FinishFail, Top
  <1>2. Tail(stack) \in Seq(Entry)
    BY <1>1, TopAndRest
  <1>3. /\ handle' \in Handle /\ stack' \in Seq(Entry)
        /\ handle'.worker = handle.worker
        /\ handle'.sendData = handle.sendData /\ handle'.written = handle.written
        /\ handle'.receiveData = handle.receiveData
        /\ \/ /\ channel.handle /\ ~channel.closed /\ handle.state # "Closed"
              /\ handle'.state = "Closed" /\ handle'.refs = handle.refs + 1
              /\ stack' = <<Call("join")>> \o (<<Call("disconnect")>> \o Tail(stack))
           \/ /\ handle'.state = handle.state /\ handle'.refs = handle.refs
              /\ stack' = Tail(stack)
    <2>1. CASE channel.handle /\ ~channel.closed
      <3>1. Disconnect(handle, Tail(stack))
        BY <2>1 DEF FinishFail
      <3>2. <<Call("join")>> \o (<<Call("disconnect")>> \o Tail(stack)) \in Seq(Entry)
        BY <1>2, EntryTypes, Pushed
      <3> QED
        BY <1>1, <1>2, <2>1, <3>1, <3>2, Disconnects
    <2>2. CASE ~(channel.handle /\ ~channel.closed)
      BY <1>1, <1>2, <2>2 DEF FinishFail
    <2> QED
      BY <2>1, <2>2
  <1>4. TypeInv'
    BY <1>3 DEF FinishFail, TypeInv
  <1> QED
    BY <1>1, <1>3, <1>4 DEF FinishFail

\* didClose() drops the references to the channel.
LEMMA FinishDidCloseEffect ==
    ASSUME TypeInv, FinishDidClose
    PROVE  /\ TypeInv' /\ Top("didClose") /\ stack' = Tail(stack)
           /\ ~ws'.channel /\ ws'.activity = 0 /\ ws'.state = ws.state
           /\ ws'.stopped = ws.stopped /\ ws'.said = ws.said
           /\ ~channel'.client /\ channel'.refs = channel.refs - One(ws.channel) - 1
           /\ channel'.handle = channel.handle /\ channel'.closed = channel.closed
           /\ channel'.suspended = channel.suspended
           /\ channel'.discard = channel.discard /\ channel'.mode = channel.mode
           /\ channel'.buffer = channel.buffer
           /\ channel'.closingTimer = channel.closingTimer
           /\ UNCHANGED <<handleVars, late, overtaken>>
  <1>1. /\ stack \in Seq(Entry) /\ stack # <<>> /\ ws \in Socket
        /\ channel \in Channel
    BY DEF TypeInv, FinishDidClose, Top
  <1>2. stack' = Tail(stack) /\ stack' \in Seq(Entry)
    BY <1>1, TopAndRest DEF FinishDidClose
  <1>3. /\ ws' \in Socket /\ ~ws'.channel /\ ws'.activity = 0 /\ ws'.state = ws.state
        /\ ws'.stopped = ws.stopped /\ ws'.said = ws.said
    BY <1>1 DEF FinishDidClose, Socket
  <1>4. /\ channel' \in Channel
        /\ ~channel'.client /\ channel'.refs = channel.refs - One(ws.channel) - 1
        /\ channel'.handle = channel.handle /\ channel'.closed = channel.closed
        /\ channel'.suspended = channel.suspended
        /\ channel'.discard = channel.discard /\ channel'.mode = channel.mode
        /\ channel'.buffer = channel.buffer
        /\ channel'.closingTimer = channel.closingTimer
    <2> DEFINE n == channel.refs - One(ws.channel) - 1
    <2>1. channel.refs - (IF ws.channel THEN 2 ELSE 1) = n /\ n \in Int
      BY <1>1 DEF Channel, One
    <2>2. channel' = [channel EXCEPT !.client = FALSE, !.refs = n]
      BY <2>1, <1>1 DEF FinishDidClose
    <2> HIDE DEF n
    <2>3. /\ channel' \in Channel
          /\ ~channel'.client /\ channel'.refs = n
          /\ channel'.handle = channel.handle /\ channel'.closed = channel.closed
          /\ channel'.suspended = channel.suspended
          /\ channel'.discard = channel.discard /\ channel'.mode = channel.mode
          /\ channel'.buffer = channel.buffer
          /\ channel'.closingTimer = channel.closingTimer
      BY <2>1, <2>2, <1>1 DEF Channel
    <2> QED
      BY <2>3 DEF n
  <1> QED
    BY <1>2, <1>3, <1>4 DEF FinishDidClose, TypeInv, handleVars

\* The resume timer looks at the buffer, and then at the end.
LEMMA ResumeTimerFiredEffect ==
    ASSUME TypeInv, ResumeTimerFired
    PROVE  /\ TypeInv' /\ InEventLoop
           /\ ChannelKept(channel) /\ channel'.closingTimer = channel.closingTimer
           /\ channel'.buffer = channel.buffer
           /\ stack' = <<Call("buffer")>> \o (<<Call("resume")>> \o stack)
           /\ UNCHANGED <<handleVars, ws, late, overtaken>>
  <1>1. stack \in Seq(Entry) /\ channel \in Channel
    BY DEF TypeInv
  <1>2. /\ channel' \in Channel /\ ChannelKept(channel)
        /\ channel'.closingTimer = channel.closingTimer
        /\ channel'.buffer = channel.buffer
    BY <1>1 DEF ResumeTimerFired, Channel, ChannelKept
  <1>3. stack' = <<Call("buffer"), Call("resume")>> \o stack
    BY DEF ResumeTimerFired
  <1>4. /\ stack' = <<Call("buffer")>> \o (<<Call("resume")>> \o stack)
        /\ stack' \in Seq(Entry)
    BY <1>1, <1>3, CallsPushed
  <1> QED
    BY <1>2, <1>4 DEF ResumeTimerFired, TypeInv, handleVars

\* What is left of it closes a channel whose handle was closed in the
\* meantime.
LEMMA FinishResumeEffect ==
    ASSUME TypeInv, FinishResume
    PROVE  /\ TypeInv' /\ Top("resume")
           /\ channel'.mode = channel.mode /\ channel'.buffer = channel.buffer
           /\ channel'.suspended = channel.suspended
           /\ channel'.discard = channel.discard /\ channel'.closed = channel.closed
           /\ handle'.state = handle.state /\ handle'.worker = handle.worker
           /\ handle'.sendData = handle.sendData /\ handle'.written = handle.written
           /\ handle'.receiveData = handle.receiveData
           /\ SocketKept
           /\ \/ /\ channel.handle /\ ~channel.suspended /\ channel.client
                 /\ channel.closed
                 /\ ~channel'.handle /\ ~channel'.client
                 /\ channel'.refs = channel.refs /\ ~channel'.closingTimer
                 /\ handle'.refs = handle.refs - 1
                 /\ ws'.state = "CLOSED"
                 /\ ws'.said = Append(ws.said, <<"close", 0>>)
                 /\ stack' = <<Call("event")>> \o (<<Call("didClose")>> \o Tail(stack))
              \/ stack' = Tail(stack) /\ UNCHANGED <<handle, ws, channel>>
           /\ UNCHANGED <<thread, sending, posted, wire, server, late, overtaken>>
  <1>1. /\ Top("resume") /\ stack \in Seq(Entry) /\ stack # <<>>
        /\ handle \in Handle /\ channel \in Channel /\ ws \in Socket
    BY DEF TypeInv, FinishResume, Top
  <1>2. Tail(stack) \in Seq(Entry)
    BY <1>1, TopAndRest
  <1>3. CASE ~channel.suspended /\ channel.client /\ channel.closed /\ channel.handle
    <2>1. DidCloseSocketStream(channel, handle, Tail(stack))
      BY <1>3 DEF FinishResume
    <2>2. /\ channel' \in Channel /\ handle' \in Handle /\ ws' \in Socket
          /\ stack' \in Seq(Entry)
          /\ channel'.closed /\ ~channel'.closingTimer
          /\ channel'.mode = channel.mode /\ channel'.buffer = channel.buffer
          /\ channel'.suspended = channel.suspended
          /\ channel'.discard = channel.discard
          /\ handle'.state = handle.state /\ handle'.worker = handle.worker
          /\ handle'.sendData = handle.sendData /\ handle'.written = handle.written
          /\ handle'.receiveData = handle.receiveData
          /\ SocketKept
          /\ ~channel'.handle /\ ~channel'.client
          /\ channel'.refs = channel.refs
          /\ handle'.refs = handle.refs - 1
          /\ ws'.state = "CLOSED"
          /\ ws'.said = Append(ws.said, <<"close", 0>>)
          /\ stack' = <<Call("event")>> \o (<<Call("didClose")>> \o Tail(stack))
      BY <1>1, <1>2, <1>3, <2>1, DidCloses DEF SocketKept
    <2>3. TypeInv'
      BY <2>2 DEF FinishResume, TypeInv
    <2>4. channel'.closed = channel.closed
      BY <2>2, <1>1, <1>3 DEF Channel
    <2> QED
      BY <1>1, <1>3, <2>2, <2>3, <2>4 DEF FinishResume
  <1>4. CASE ~(~channel.suspended /\ channel.client /\ channel.closed /\ channel.handle)
    <2>1. stack' = Tail(stack) /\ UNCHANGED <<handle, ws, channel>>
      BY <1>4 DEF FinishResume
    <2>2. TypeInv'
      BY <1>2, <2>1 DEF FinishResume, TypeInv
    <2> QED
      BY <1>1, <2>1, <2>2 DEF FinishResume, SocketKept
  <1> QED
    BY <1>3, <1>4

\* The closing timer disconnects an open handle.
LEMMA ClosingTimerFiredEffect ==
    ASSUME TypeInv, ClosingTimerFired
    PROVE  /\ TypeInv' /\ InEventLoop /\ channel.closingTimer
           /\ ChannelKept(channel) /\ ~channel'.closingTimer
           /\ channel'.buffer = channel.buffer
           /\ handle'.worker = handle.worker
           /\ handle'.sendData = handle.sendData /\ handle'.written = handle.written
           /\ handle'.receiveData = handle.receiveData
           /\ \/ /\ channel.handle /\ handle.state # "Closed"
                 /\ handle'.state = "Closed" /\ handle'.refs = handle.refs + 1
                 /\ stack' = <<Call("join")>> \o (<<Call("disconnect")>> \o stack)
              \/ /\ handle'.state = handle.state /\ handle'.refs = handle.refs
                 /\ stack' = stack
           /\ UNCHANGED <<thread, sending, posted, wire, server, ws, late, overtaken>>
  <1>1. stack \in Seq(Entry) /\ handle \in Handle /\ channel \in Channel
    BY DEF TypeInv
  <1>2. /\ channel' \in Channel /\ ChannelKept(channel) /\ ~channel'.closingTimer
        /\ channel'.buffer = channel.buffer
    BY <1>1 DEF ClosingTimerFired, Channel, ChannelKept
  <1>3. /\ handle' \in Handle /\ stack' \in Seq(Entry)
        /\ handle'.worker = handle.worker
        /\ handle'.sendData = handle.sendData /\ handle'.written = handle.written
        /\ handle'.receiveData = handle.receiveData
        /\ \/ /\ channel.handle /\ handle.state # "Closed"
              /\ handle'.state = "Closed" /\ handle'.refs = handle.refs + 1
              /\ stack' = <<Call("join")>> \o (<<Call("disconnect")>> \o stack)
           \/ /\ handle'.state = handle.state /\ handle'.refs = handle.refs
              /\ stack' = stack
    <2>1. CASE channel.handle
      <3>1. Disconnect(handle, stack)
        BY <2>1 DEF ClosingTimerFired
      <3>2. <<Call("join")>> \o (<<Call("disconnect")>> \o stack) \in Seq(Entry)
        BY <1>1, EntryTypes, Pushed
      <3> QED
        BY <1>1, <2>1, <3>1, <3>2, Disconnects
    <2>2. CASE ~channel.handle
      BY <1>1, <2>2 DEF ClosingTimerFired
    <2> QED
      BY <2>1, <2>2
  <1>4. TypeInv'
    BY <1>2, <1>3 DEF ClosingTimerFired, TypeInv
  <1> QED
    BY <1>2, <1>3, <1>4 DEF ClosingTimerFired

-----------------------------------------------------------------------------
(* Lifetimes: the worker and the server.                                    *)

\* Integers that the reference counts are made of.
LEMMA Counts ==
    ASSUME TypeInv
    PROVE  /\ handle.refs \in Int /\ channel.refs \in Int
           /\ Len(posted) \in Nat /\ Cardinality(Holds(stack)) \in Nat
           /\ One(channel.handle) \in Int /\ One(handle.worker) \in Int
           /\ One(ws.channel) \in Int
           /\ stack \in Seq(Entry)
  <1>1. Call("event") \in Entry
    BY EntryTypes
  <1>2. stack \in Seq(Entry) /\ Cardinality(Holds(stack)) \in Nat
    BY <1>1, PushHolds DEF TypeInv
  <1> QED
    BY <1>2 DEF TypeInv, Handle, Channel, One

\* The function that Connect posts has its reference.
LEMMA ConnectLives ==
    ASSUME LifetimesInv, UNCHANGED pageVars, NEW succeeds \in BOOLEAN, Connect(succeeds)
    PROVE  LifetimesInv'
  <1>1. /\ TypeInv' /\ HandleKept
        /\ thread = "connecting" /\ thread' \in {"send", "returned"}
        /\ \/ /\ handle'.refs = handle.refs + 1
              /\ posted' = Append(posted, "didOpenSocket")
           \/ handle' = handle /\ posted' = posted /\ thread' = "returned"
        /\ UNCHANGED <<sending, wire, server>>
    BY ConnectEffect DEF LifetimesInv
  <1>2. UNCHANGED <<ws, channel, stack, late>>
    BY DEF pageVars
  <1>3. ~Opened /\ posted = <<>> /\ handle.state # "Open" /\ sending = <<>>
    BY <1>1 DEF Opened, LifetimesInv, OpeningInv
  <1>4. /\ Len(posted') <= 1
        /\ Len(posted') \in Nat /\ handle'.refs = handle.refs + Len(posted')
        /\ Len(posted) = 0
    <2>1. CASE /\ handle'.refs = handle.refs + 1
               /\ posted' = Append(posted, "didOpenSocket")
      <3>1. Len(posted') = 1 /\ Len(posted) = 0
        BY <1>3, <2>1
      <3> QED
        BY <3>1, <2>1, Counts DEF LifetimesInv
    <2>2. CASE handle' = handle /\ posted' = posted
      BY <1>3, <2>2, Counts DEF LifetimesInv
    <2> QED
      BY <1>1, <2>1, <2>2
  <1>5. StackInv'
    BY <1>2 DEF LifetimesInv, StackInv
  <1>6. OpeningInv'
    BY <1>1, <1>2, <1>3, <1>4 DEF LifetimesInv, OpeningInv, HandleKept
  <1>7. ClosingInv'
    BY <1>1, <1>2, <1>3 DEF LifetimesInv, ClosingInv, HandleKept, Top
  <1>8. HoldersInv'
    BY <1>1, <1>2 DEF LifetimesInv, HoldersInv, HandleKept, Top
  <1>9. HandleRefsInv'
    <2>1. One(channel'.handle) = One(channel.handle)
      BY <1>2
    <2>2. One(handle'.worker) = One(handle.worker)
      BY <1>1 DEF HandleKept
    <2>3. Cardinality(Holds(stack')) = Cardinality(Holds(stack))
      BY <1>2
    <2> QED
      BY <1>4, <2>1, <2>2, <2>3, Counts DEF LifetimesInv, HandleRefsInv
  <1> QED
    BY <1>1, <1>5, <1>6, <1>7, <1>8, <1>9 DEF LifetimesInv

\* The queue counts for no reference.
LEMMA TakeSendDataLives ==
    ASSUME LifetimesInv, UNCHANGED pageVars, TakeSendData
    PROVE  LifetimesInv'
  <1>1. /\ TypeInv'
        /\ thread = "send" /\ sending = <<>>
        /\ handle'.state = handle.state /\ handle'.worker = handle.worker
        /\ handle'.refs = handle.refs
        /\ handle'.receiveData = handle.receiveData
        /\ UNCHANGED <<posted, wire, server>>
        /\ \/ thread' = "wait" /\ UNCHANGED <<handle, sending>>
           \/ handle.sendData # <<>> /\ thread' = thread
    BY TakeSendDataEffect DEF LifetimesInv
  <1>2. UNCHANGED <<ws, channel, stack, late>>
    BY DEF pageVars
  <1>3. Opened' <=> Opened
    BY <1>1 DEF Opened
  <1>4. StackInv'
    BY <1>2 DEF LifetimesInv, StackInv
  <1>5. OpeningInv'
    BY <1>1, <1>2, <1>3 DEF LifetimesInv, OpeningInv
  <1>6. ClosingInv'
    BY <1>1, <1>2, <1>3 DEF LifetimesInv, ClosingInv, Top, Dead
  <1>7. HoldersInv' /\ HandleRefsInv'
    BY <1>1, <1>2 DEF LifetimesInv, HoldersInv, HandleRefsInv, Top
  <1> QED
    BY <1>1, <1>4, <1>5, <1>6, <1>7 DEF LifetimesInv

\* Neither does what is put back.
LEMMA SendTakenLives ==
    ASSUME LifetimesInv, UNCHANGED pageVars, NEW taken \in 0 .. Len(sending),
           SendTaken(taken)
    PROVE  LifetimesInv'
  <1>1. /\ TypeInv'
        /\ sending # <<>> /\ sending' = <<>>
        /\ handle'.state = handle.state /\ handle'.worker = handle.worker
        /\ handle'.refs = handle.refs
        /\ handle'.receiveData = handle.receiveData
        /\ UNCHANGED <<posted, server>>
        /\ thread' \in {thread, "wait"}
    BY SendTakenEffect DEF LifetimesInv
  <1>2. UNCHANGED <<ws, channel, stack, late>>
    BY DEF pageVars
  <1>3. thread = "send"
    BY <1>1 DEF LifetimesInv, ClosingInv
  <1>4. Opened /\ Opened'
    BY <1>1, <1>3 DEF Opened, LifetimesInv, OpeningInv
  <1>5. StackInv'
    BY <1>2 DEF LifetimesInv, StackInv
  <1>6. OpeningInv'
    BY <1>1, <1>3, <1>4 DEF OpeningInv
  <1>7. ClosingInv'
    BY <1>1, <1>2, <1>3, <1>4 DEF LifetimesInv, ClosingInv, Top, Dead
  <1>8. HoldersInv' /\ HandleRefsInv'
    BY <1>1, <1>2 DEF LifetimesInv, HoldersInv, HandleRefsInv, Top
  <1> QED
    BY <1>1, <1>5, <1>6, <1>7, <1>8 DEF LifetimesInv

\* A thread that ends keeps its reference until it is joined.
LEMMA NothingReadLives ==
    ASSUME LifetimesInv, UNCHANGED pageVars, NothingRead
    PROVE  LifetimesInv'
  <1>1. /\ TypeInv' /\ HandleKept /\ handle'.refs = handle.refs
        /\ thread = "wait" /\ thread' \in {"send", "returned"}
        /\ UNCHANGED <<posted, sending, wire, server>>
    BY NothingReadEffect DEF LifetimesInv
  <1>2. UNCHANGED <<ws, channel, stack, late>>
    BY DEF pageVars
  <1>3. (Opened' <=> Opened) /\ sending = <<>>
    BY <1>1 DEF Opened, LifetimesInv, ClosingInv
  <1>4. StackInv'
    BY <1>2 DEF LifetimesInv, StackInv
  <1>5. OpeningInv'
    BY <1>1, <1>2, <1>3 DEF LifetimesInv, OpeningInv, HandleKept
  <1>6. ClosingInv'
    BY <1>1, <1>2, <1>3 DEF LifetimesInv, ClosingInv, Top, Dead, HandleKept
  <1>7. HoldersInv' /\ HandleRefsInv'
    BY <1>1, <1>2 DEF LifetimesInv, HoldersInv, HandleRefsInv, Top, HandleKept
  <1> QED
    BY <1>1, <1>4, <1>5, <1>6, <1>7 DEF LifetimesInv

\* The function that ReadData posts has its reference, and the connection was
\* opened before.
LEMMA ReadDataLives ==
    ASSUME LifetimesInv, UNCHANGED pageVars, ReadData
    PROVE  LifetimesInv'
  <1>1. /\ TypeInv'
        /\ handle'.state = handle.state /\ handle'.worker = handle.worker
        /\ handle'.refs = handle.refs + 1
        /\ thread = "wait" /\ thread' \in {"send", "returned"}
        /\ server.sent # <<>>
        /\ posted' = Append(posted, "didReceiveData")
        /\ UNCHANGED <<sending, wire>>
    BY ReadDataEffect DEF LifetimesInv
  <1>2. UNCHANGED <<ws, channel, stack, late>>
    BY DEF pageVars
  <1>3. Opened /\ sending = <<>> /\ handle.worker
    BY <1>1 DEF LifetimesInv, OpeningInv, ClosingInv
  <1>4. Opened' /\ Len(posted') = Len(posted) + 1
    BY <1>1, <1>3 DEF Opened, LifetimesInv, TypeInv
  <1>5. StackInv'
    BY <1>2 DEF LifetimesInv, StackInv
  <1>6. OpeningInv'
    BY <1>1, <1>4 DEF OpeningInv
  <1>7. ClosingInv'
    BY <1>1, <1>2, <1>3, <1>4 DEF LifetimesInv, ClosingInv, Top, Dead
  <1>8. HoldersInv'
    BY <1>1, <1>2 DEF LifetimesInv, HoldersInv, Top
  <1>9. HandleRefsInv'
    BY <1>1, <1>2, <1>4, Counts DEF LifetimesInv, HandleRefsInv
  <1> QED
    BY <1>1, <1>5, <1>6, <1>7, <1>8, <1>9 DEF LifetimesInv

\* A server that answers after it was asked answers after the connection was
\* opened.
LEMMA NetworkLives ==
    ASSUME ~server'.early, LifetimesInv, UNCHANGED pageVars, Network
    PROVE  LifetimesInv'
  <1>1. /\ TypeInv'
        /\ UNCHANGED <<handle, thread, sending, posted, wire>>
        /\ server'.sent = server.sent \/ ~(Len(wire) < 2)
    BY LoseConnectionEffect, ServerSendsEffect DEF LifetimesInv, Network
  <1>2. UNCHANGED <<ws, channel, stack, late>>
    BY DEF pageVars
  <1>3. Opened' <=> Opened
    BY <1>1 DEF Opened
  <1>4. StackInv'
    BY <1>2 DEF LifetimesInv, StackInv
  <1>5. OpeningInv'
    <2>1. ~Opened => server'.sent = server.sent
      BY <1>1 DEF LifetimesInv, OpeningInv
    <2> QED
      BY <1>1, <1>2, <1>3, <2>1 DEF LifetimesInv, OpeningInv
  <1>6. ClosingInv'
    BY <1>1, <1>2, <1>3 DEF LifetimesInv, ClosingInv, Top, Dead
  <1>7. HoldersInv' /\ HandleRefsInv'
    BY <1>1, <1>2 DEF LifetimesInv, HoldersInv, HandleRefsInv, Top
  <1> QED
    BY <1>1, <1>4, <1>5, <1>6, <1>7 DEF LifetimesInv

-----------------------------------------------------------------------------
(* Lifetimes: what is pushed.                                               *)

\* t is s with e on top.
Tops(t, e, s) ==
    /\ t \in Seq(Entry) /\ t # <<>> /\ t[1] = e
    /\ Has(t, "dialog") <=> e.call = "dialog" \/ Has(s, "dialog")
    /\ Has(t, "didClose") <=> e.call = "didClose" \/ Has(s, "didClose")
    /\ Has(t, "chunks") <=> e.call = "chunks" \/ Has(s, "chunks")
    /\ Has(t, "disconnect") <=> e.call = "disconnect" \/ Has(s, "disconnect")
    /\ Cardinality(Holds(s)) \in Nat
    /\ e.call \in {"chunks", "disconnect"} =>
           Cardinality(Holds(t)) = Cardinality(Holds(s)) + 1
    /\ e.call \notin {"chunks", "disconnect"} =>
           Cardinality(Holds(t)) = Cardinality(Holds(s))
    /\ /\ Nested(s)
       /\ s # <<>> => s[1].call \notin {"join", "disconnect"}
       /\ e.call # "didClose"
       => Nested(t)
    /\ Quiet(s) /\ e.call \notin {"event", "fail", "didClose", "dialog"} => Quiet(t)
    /\ Quiet(s) /\ ~Has(s, "dialog") => Quiet(t)

\* One entry is pushed: what is on the stack then, and what it holds.
LEMMA OnePushed ==
    ASSUME NEW s \in Seq(Entry), NEW e \in Entry
    PROVE  Tops(<<e>> \o s, e, s)
  <1> DEFINE t == <<e>> \o s
  <1>1. t \in Seq(Entry) /\ t # <<>> /\ t[1] = e
    BY Pushed
  <1>2. \A name : Has(t, name) <=> e.call = name \/ Has(s, name)
    BY PushHas
  <1>3. /\ Cardinality(Holds(s)) \in Nat
        /\ e.call \in {"chunks", "disconnect"} =>
               Cardinality(Holds(t)) = Cardinality(Holds(s)) + 1
        /\ e.call \notin {"chunks", "disconnect"} =>
               Cardinality(Holds(t)) = Cardinality(Holds(s))
    BY PushHolds
  <1>4. /\ Nested(s)
        /\ s # <<>> => s[1].call \notin {"join", "disconnect"}
        /\ e.call # "didClose"
        => Nested(t)
    BY PushNested
  <1>5. Quiet(s) /\ e.call \notin {"event", "fail", "didClose", "dialog"} => Quiet(t)
    BY PushQuiet
  <1>6. Quiet(s) /\ ~Has(s, "dialog") => Quiet(t)
    BY PushQuiet
  <1> HIDE DEF t
  <1>7. Tops(t, e, s)
    BY <1>1, <1>2, <1>3, <1>4, <1>5, <1>6 DEF Tops
  <1> QED
    BY <1>7 DEF t

\* disconnect() waits for the worker.
Waits(t, s) ==
    /\ t \in Seq(Entry) /\ t # <<>> /\ t[1].call = "join" /\ Nested(t)
    /\ Quiet(s) => Quiet(t)
    /\ Has(t, "dialog") <=> Has(s, "dialog")
    /\ Has(t, "didClose") <=> Has(s, "didClose")
    /\ Has(t, "chunks") <=> Has(s, "chunks")
    /\ Cardinality(Holds(t)) = Cardinality(Holds(s)) + 1
    /\ Cardinality(Holds(s)) \in Nat

\* A disconnect that waits, on top of a stack that is not waiting, holds one
\* reference more.
LEMMA JoinPushed ==
    ASSUME NEW s \in Seq(Entry), Nested(s),
           s # <<>> => s[1].call \notin {"join", "disconnect"},
           NEW t, t = <<Call("join")>> \o (<<Call("disconnect")>> \o s)
    PROVE  Waits(t, s)
  <1> DEFINE c == Call("disconnect")
             d == Call("join")
             u == <<c>> \o s
  <1>1. /\ c \in Entry /\ c.call = "disconnect"
        /\ d \in Entry /\ d.call = "join"
    BY EntryTypes
  <1> HIDE DEF c, d
  <1>2. /\ u \in Seq(Entry) /\ u # <<>> /\ u[1].call = "disconnect" /\ Nested(u)
        /\ Quiet(s) => Quiet(u)
        /\ Has(u, "dialog") <=> Has(s, "dialog")
        /\ Has(u, "didClose") <=> Has(s, "didClose")
        /\ Has(u, "chunks") <=> Has(s, "chunks")
        /\ Has(u, "disconnect")
        /\ Cardinality(Holds(s)) \in Nat
        /\ Cardinality(Holds(u)) = Cardinality(Holds(s)) + 1
    <2>1. Tops(u, c, s)
      BY <1>1, OnePushed
    <2> HIDE DEF u
    <2> QED
      BY <1>1, <2>1 DEF Tops
  <1> HIDE DEF u
  <1>3. t = <<d>> \o u
    BY DEF c, d, u
  <1>4. /\ t \in Seq(Entry) /\ t # <<>> /\ t[1] = d
        /\ Quiet(u) => Quiet(t)
        /\ Has(t, "dialog") <=> Has(u, "dialog")
        /\ Has(t, "didClose") <=> Has(u, "didClose")
        /\ Has(t, "chunks") <=> Has(u, "chunks")
        /\ Has(t, "disconnect") <=> Has(u, "disconnect")
        /\ Cardinality(Holds(t)) = Cardinality(Holds(u))
    <2>1. Tops(t, d, u)
      BY <1>1, <1>2, <1>3, OnePushed
    <2> QED
      BY <1>1, <1>2, <2>1 DEF Tops
  <1>5. Nested(t)
    BY <1>1, <1>2, <1>3, PushNested
  <1> QED
    BY <1>1, <1>2, <1>4, <1>5 DEF Waits

\* The page's handler, and what its caller has left to do.
Delivers(t, x, s) ==
    /\ t \in Seq(Entry) /\ t # <<>> /\ t[1].call = "event" /\ Nested(t)
    /\ Quiet(s) /\ ~Has(s, "dialog") => Quiet(t)
    /\ Has(t, "dialog") <=> Has(s, "dialog")
    /\ Has(t, "didClose") <=> Has(s, "didClose") \/ x = "didClose"
    /\ Has(t, "chunks") <=> Has(s, "chunks")
    /\ Has(t, "disconnect") <=> Has(s, "disconnect")
    /\ Cardinality(Holds(t)) = Cardinality(Holds(s))

\* An event and the rest of its caller, on a stack that does not wait.
LEMMA EventPushed ==
    ASSUME NEW s \in Seq(Entry), Nested(s), NEW x \in {"fail", "didClose"},
           s # <<>> => s[1].call # "join",
           x = "fail" /\ s # <<>> => s[1].call # "disconnect",
           x = "didClose" => ~Has(s, "didClose"),
           NEW t, t = <<Call("event")>> \o (<<Call(x)>> \o s)
    PROVE  Delivers(t, x, s)
  <1> DEFINE c == Call(x)
             d == Call("event")
             u == <<c>> \o s
  <1>1. /\ c \in Entry /\ c.call = x
        /\ d \in Entry /\ d.call = "event"
    BY EntryTypes
  <1> HIDE DEF c, d
  <1>2. /\ u \in Seq(Entry) /\ u # <<>> /\ u[1].call = x
        /\ Quiet(s) /\ ~Has(s, "dialog") => Quiet(u)
        /\ Has(u, "dialog") <=> Has(s, "dialog")
        /\ Has(u, "didClose") <=> x = "didClose" \/ Has(s, "didClose")
        /\ Has(u, "chunks") <=> Has(s, "chunks")
        /\ Has(u, "disconnect") <=> Has(s, "disconnect")
        /\ Cardinality(Holds(s)) \in Nat
        /\ Cardinality(Holds(u)) = Cardinality(Holds(s))
    <2>1. Tops(u, c, s)
      BY <1>1, OnePushed
    <2> HIDE DEF u
    <2> QED
      BY <1>1, <2>1 DEF Tops
  <1>3. Nested(u)
    BY <1>1, PushNested
  <1> HIDE DEF u
  <1>4. t = <<d>> \o u
    BY DEF c, d, u
  <1>5. /\ t \in Seq(Entry) /\ t # <<>> /\ t[1] = d /\ Nested(t)
        /\ Quiet(u) /\ ~Has(u, "dialog") => Quiet(t)
        /\ Has(t, "dialog") <=> Has(u, "dialog")
        /\ Has(t, "didClose") <=> Has(u, "didClose")
        /\ Has(t, "chunks") <=> Has(u, "chunks")
        /\ Has(t, "disconnect") <=> Has(u, "disconnect")
        /\ Cardinality(Holds(t)) = Cardinality(Holds(u))
    <2>1. Tops(t, d, u)
      BY <1>1, <1>2, <1>4, OnePushed
    <2> QED
      BY <1>1, <1>2, <1>3, <2>1 DEF Tops
  <1> QED
    BY <1>1, <1>2, <1>5 DEF Delivers

\* No dialog suspends the channel while a handler, fail() or didClose() runs.
LEMMA NotSuspended ==
    ASSUME LifetimesInv, ws.channel,
           stack = <<>> \/ stack[1].call \in {"event", "fail", "didClose"}
    PROVE  ~Has(stack, "dialog") /\ ~channel.suspended
  <1>1. stack \in Seq(Entry) /\ Quiet(stack)
        /\ (channel.suspended <=> Has(stack, "dialog"))
    BY DEF LifetimesInv, StackInv, TypeInv
  <1>2. CASE stack = <<>>
    BY <1>1, <1>2 DEF Has
  <1>3. CASE stack # <<>>
    <2>1. Rests(Tail(stack), stack)
      BY <1>1, <1>3, Popped
    <2> QED
      BY <1>1, <1>3, <2>1 DEF Rests
  <1> QED
    BY <1>1, <1>2, <1>3

-----------------------------------------------------------------------------
(* Lifetimes: steps of the main thread.                                     *)

\* What a step must leave alone while didOpenSocket has not run.
StillOpening ==
    ~Opened => /\ handle'.sendData = <<>> /\ channel'.buffer = <<>>
               /\ ~channel'.closingTimer /\ channel'.mode = "Incomplete"
               /\ ws'.state # "OPEN"

\* A step of the main thread that neither closes the handle nor ends it: only
\* what is on the stack may let go of it.
Ordinary ==
    /\ UNCHANGED <<thread, sending, posted, wire, server>>
    /\ handle'.state = handle.state /\ handle'.worker = handle.worker
    /\ handle'.receiveData = handle.receiveData
    /\ channel'.refs = channel.refs /\ channel'.handle = channel.handle
    /\ channel'.client = channel.client /\ channel'.closed = channel.closed
    /\ ws'.channel = ws.channel /\ ws'.activity = ws.activity
    /\ StillOpening /\ ~late'
    /\ ~Top("join") /\ ~Top("join")'
    /\ Has(stack', "didClose") <=> Has(stack, "didClose")
    /\ Has(stack', "disconnect") => Has(stack, "disconnect")
    /\ Has(stack', "chunks") => Has(stack, "chunks")
    /\ handle'.refs - Cardinality(Holds(stack'))
          = handle.refs - Cardinality(Holds(stack))

\* An ordinary step keeps every count.
LEMMA OrdinaryLives ==
    ASSUME LifetimesInv, TypeInv', StackInv', Ordinary
    PROVE  LifetimesInv'
  <1>1. Opened' <=> Opened
    BY DEF Ordinary, Opened
  <1>2. OpeningInv'
    BY <1>1 DEF Ordinary, StillOpening, LifetimesInv, OpeningInv
  <1>3. ClosingInv'
    <2>1. Dead => Dead'
      BY DEF Ordinary, Dead
    <2> QED
      BY <1>1, <2>1 DEF Ordinary, LifetimesInv, ClosingInv
  <1>4. HoldersInv'
    <2>1. One(channel'.handle \/ Has(stack', "didClose"))
             = One(channel.handle \/ Has(stack, "didClose"))
      BY DEF Ordinary, One
    <2> QED
      BY <2>1 DEF Ordinary, LifetimesInv, HoldersInv
  <1>5. HandleRefsInv'
    <2>1. /\ One(channel'.handle) = One(channel.handle)
          /\ One(handle'.worker) = One(handle.worker)
          /\ Len(posted') = Len(posted)
      BY DEF Ordinary
    <2>2. handle'.refs \in Int /\ Cardinality(Holds(stack')) \in Nat
      <3>1. Call("event") \in Entry
        BY EntryTypes
      <3> QED
        BY <3>1, PushHolds DEF TypeInv, Handle
    <2> QED
      BY <2>1, <2>2, Counts DEF Ordinary, LifetimesInv, HandleRefsInv
  <1> QED
    BY <1>2, <1>3, <1>4, <1>5 DEF LifetimesInv

\* A step that tells the worker to stop and waits for it.
Closes ==
    /\ UNCHANGED <<thread, sending, posted, wire, server>>
    /\ channel.handle /\ handle.state # "Closed" /\ handle'.state = "Closed"
    /\ handle'.worker = handle.worker /\ handle'.receiveData = handle.receiveData
    /\ channel'.handle = channel.handle /\ channel'.closed = channel.closed
    /\ channel'.suspended = channel.suspended
    /\ channel'.client => channel.client /\ ws'.channel
    /\ ws'.activity = One(ws'.channel)
    /\ channel'.refs = channel.refs - One(ws.channel) + One(ws'.channel)
    /\ StillOpening /\ ~late'
    /\ channel.suspended => Opened /\ ws'.channel
    /\ ~Top("join") /\ Top("join")'
    /\ Has(stack', "didClose") <=> Has(stack, "didClose")
    /\ Has(stack', "chunks") => Has(stack, "chunks")
    /\ handle'.refs - Cardinality(Holds(stack'))
          = handle.refs - Cardinality(Holds(stack))

\* So does one that begins to close the handle.
LEMMA ClosesLives ==
    ASSUME LifetimesInv, TypeInv', StackInv', Closes
    PROVE  LifetimesInv'
  <1>1. Opened' <=> Opened
    BY DEF Closes, Opened
  <1>2. OpeningInv'
    BY <1>1 DEF Closes, StillOpening, LifetimesInv, OpeningInv
  <1>3. ClosingInv'
    <2>1. ~channel.closed
      BY DEF Closes, LifetimesInv, ClosingInv, Dead
    <2> QED
      BY <1>1, <2>1 DEF Closes, LifetimesInv, ClosingInv
  <1>4. HoldersInv'
    <2>1. One(channel'.handle \/ Has(stack', "didClose"))
             = One(channel.handle \/ Has(stack, "didClose"))
      BY DEF Closes, One
    <2>2. One(channel'.handle \/ Has(stack', "didClose")) \in Int
      BY DEF One
    <2>3. One(ws'.channel) \in Int /\ One(ws.channel) \in Int
      BY DEF One
    <2>4. channel'.refs = One(ws'.channel) + One(channel'.handle \/ Has(stack', "didClose"))
      BY <2>1, <2>2, <2>3, Counts DEF Closes, LifetimesInv, HoldersInv
    <2> QED
      BY <2>4 DEF Closes, LifetimesInv, HoldersInv
  <1>5. HandleRefsInv'
    <2>1. /\ One(channel'.handle) = One(channel.handle)
          /\ One(handle'.worker) = One(handle.worker)
          /\ Len(posted') = Len(posted)
      BY DEF Closes
    <2>2. handle'.refs \in Int /\ Cardinality(Holds(stack')) \in Nat
      <3>1. Call("event") \in Entry
        BY EntryTypes
      <3> QED
        BY <3>1, PushHolds DEF TypeInv, Handle
    <2>3. handle'.refs - Cardinality(Holds(stack'))
             = handle.refs - Cardinality(Holds(stack))
      BY DEF Closes
    <2> QED
      BY <2>1, <2>2, <2>3, Counts DEF LifetimesInv, HandleRefsInv
  <1> QED
    BY <1>2, <1>3, <1>4, <1>5 DEF LifetimesInv

\* The handle after a frame was sent, or not.
LEMMA SentFields ==
    ASSUME TypeInv, Sends
    PROVE  /\ handle'.refs = handle.refs /\ handle'.state = handle.state
           /\ handle'.worker = handle.worker
           /\ handle'.receiveData = handle.receiveData
           /\ handle.state # "Open" => handle' = handle
  BY SendFields DEF Sends, TypeInv

\* A step that leaves the stack alone.
LEMMA SameStack ==
    ASSUME LifetimesInv, stack' = stack, handle'.refs = handle.refs,
           ws'.channel = ws.channel, channel'.suspended = channel.suspended
    PROVE  /\ StackInv'
           /\ Has(stack', "didClose") <=> Has(stack, "didClose")
           /\ Has(stack', "disconnect") => Has(stack, "disconnect")
           /\ Has(stack', "chunks") => Has(stack, "chunks")
           /\ handle'.refs - Cardinality(Holds(stack'))
                 = handle.refs - Cardinality(Holds(stack))
           /\ Top("join")' <=> Top("join")
  BY DEF LifetimesInv, StackInv, Top

\* A closing frame takes no reference.
LEMMA CloseLives ==
    ASSUME LifetimesInv, Close
    PROVE  LifetimesInv'
  <1>1. /\ TypeInv' /\ ws.state = "OPEN" /\ ws'.state = "CLOSING"
        /\ SocketKept /\ ChannelKept(channel) /\ channel'.buffer = channel.buffer
        /\ Sends
        /\ UNCHANGED <<thread, sending, posted, wire, server, stack, late>>
    BY CloseEffect DEF LifetimesInv
  <1>2. Opened /\ ~Top("join")
    BY <1>1 DEF LifetimesInv, OpeningInv, Close, InScript, Top
  <1>3. StackInv' /\ Ordinary
    BY <1>1, <1>2, SentFields, SameStack
       DEF LifetimesInv, Ordinary, StillOpening, ChannelKept, SocketKept, HoldersInv
  <1> QED
    BY <1>1, <1>3, OrdinaryLives

\* Neither does a message.
LEMMA SendMessageLives ==
    ASSUME LifetimesInv, SendMessage
    PROVE  LifetimesInv'
  <1>1. /\ TypeInv' /\ Sends /\ ws.state = "OPEN"
        /\ UNCHANGED <<thread, sending, posted, wire, server, ws, channel, stack, late>>
    BY SendMessageEffect DEF LifetimesInv, pageVars
  <1>2. Opened /\ ~Top("join")
    BY <1>1 DEF LifetimesInv, OpeningInv, SendMessage, InScript, Top
  <1>3. StackInv' /\ Ordinary
    BY <1>1, <1>2, SentFields, SameStack
       DEF LifetimesInv, Ordinary, StillOpening, HoldersInv
  <1> QED
    BY <1>1, <1>3, OrdinaryLives

\* When a frame is looked at, the connection is there.
LEMMA LooksOpened ==
    ASSUME LifetimesInv, Looks
    PROVE  Opened /\ ~Top("join") /\ ws.channel /\ channel.handle
  BY DEF LifetimesInv, OpeningInv, HoldersInv, Looks, Top

\* The first part of a message changes no reference.
LEMMA FirstFrameLives ==
    ASSUME LifetimesInv, FirstFrame
    PROVE  LifetimesInv'
  <1>1. /\ TypeInv' /\ Looks /\ ChannelKept(channel)
        /\ UNCHANGED <<handle, thread, sending, posted, wire, server, ws, stack, late>>
    BY FirstFrameEffect DEF LifetimesInv, handleVars
  <1>2. Opened /\ ~Top("join")
    BY <1>1, LooksOpened
  <1>3. StackInv' /\ Ordinary
    BY <1>1, <1>2, SameStack
       DEF LifetimesInv, Ordinary, StillOpening, ChannelKept, HoldersInv
  <1> QED
    BY <1>1, <1>3, OrdinaryLives

\* Neither does a ping.
LEMMA PingFrameLives ==
    ASSUME LifetimesInv, PingFrame
    PROVE  LifetimesInv'
  <1>1. /\ TypeInv' /\ Looks /\ Sends /\ ChannelKept(channel)
        /\ UNCHANGED <<thread, sending, posted, wire, server, ws, stack, late>>
    BY PingFrameEffect DEF LifetimesInv
  <1>2. Opened /\ ~Top("join")
    BY <1>1, LooksOpened
  <1>3. StackInv' /\ Ordinary
    BY <1>1, <1>2, SentFields, SameStack
       DEF LifetimesInv, Ordinary, StillOpening, ChannelKept, HoldersInv
  <1> QED
    BY <1>1, <1>3, OrdinaryLives

\* What a step does to the stack when nothing of interest is pushed or popped.
Settled ==
    /\ StackInv' /\ ~Top("join") /\ ~Top("join")'
    /\ Has(stack', "didClose") <=> Has(stack, "didClose")
    /\ Has(stack', "disconnect") => Has(stack, "disconnect")
    /\ Has(stack', "chunks") => Has(stack, "chunks")

\* The error event runs before anything is closed.
LEMMA CloseConnectingLives ==
    ASSUME LifetimesInv, CloseConnecting
    PROVE  LifetimesInv'
  <1>1. /\ TypeInv' /\ InScript
        /\ channel'.refs = channel.refs /\ channel'.handle = channel.handle
        /\ channel'.client = channel.client /\ channel'.mode = channel.mode
        /\ channel'.buffer = <<>> /\ channel'.suspended = channel.suspended
        /\ channel'.closed = channel.closed
        /\ channel'.closingTimer = channel.closingTimer
        /\ SocketKept /\ ws'.state = "CLOSED"
        /\ stack' = <<Call("event")>> \o (<<Call("fail")>> \o stack)
        /\ UNCHANGED <<handle, thread, sending, posted, wire, server, late>>
    BY CloseConnectingEffect DEF LifetimesInv
  <1>2. stack \in Seq(Entry) /\ Nested(stack)
    BY DEF LifetimesInv, StackInv, TypeInv
  <1>3. stack = <<>> \/ stack[1].call = "event"
    BY <1>1 DEF InScript, Top
  <1>4. Delivers(stack', "fail", stack)
    BY <1>1, <1>2, <1>3, EventPushed
  <1>5. ws.channel => ~Has(stack, "dialog") /\ ~channel.suspended
    BY <1>3, NotSuspended
  <1>6. Settled /\ Cardinality(Holds(stack')) = Cardinality(Holds(stack))
    BY <1>1, <1>3, <1>4, <1>5
       DEF Settled, Delivers, LifetimesInv, StackInv, SocketKept, Top
  <1>7. Ordinary
    BY <1>1, <1>6
       DEF Settled, LifetimesInv, Ordinary, StillOpening, SocketKept, HoldersInv,
           OpeningInv
  <1> QED
    BY <1>1, <1>6, <1>7, OrdinaryLives DEF Settled

\* A dialog is opened over handlers only, and suspends the channel as long as
\* it is open.
LEMMA OpenDialogLives ==
    ASSUME LifetimesInv, OpenDialog
    PROVE  LifetimesInv'
  <1>1. /\ TypeInv' /\ InScript
        /\ channel'.refs = channel.refs /\ channel'.handle = channel.handle
        /\ channel'.client = channel.client /\ channel'.mode = channel.mode
        /\ channel'.buffer = channel.buffer
        /\ channel'.suspended = (channel.suspended \/ ws.channel)
        /\ channel'.closed = channel.closed
        /\ channel'.closingTimer = channel.closingTimer
        /\ stack' = <<Call("dialog")>> \o stack
        /\ UNCHANGED <<handle, thread, sending, posted, wire, server, ws, late>>
    BY OpenDialogEffect DEF LifetimesInv, handleVars
  <1>2. stack \in Seq(Entry) /\ Nested(stack)
    BY DEF LifetimesInv, StackInv, TypeInv
  <1>3. stack = <<>> \/ stack[1].call = "event"
    BY <1>1 DEF InScript, Top
  <1>4. Call("dialog") \in Entry /\ Call("dialog").call = "dialog"
    BY EntryTypes
  <1>5. Tops(stack', Call("dialog"), stack)
    BY <1>1, <1>2, <1>4, OnePushed
  <1>6. ws.channel => ~Has(stack, "dialog") /\ ~channel.suspended
    BY <1>3, NotSuspended
  <1>7. Settled /\ Cardinality(Holds(stack')) = Cardinality(Holds(stack))
    BY <1>1, <1>2, <1>3, <1>4, <1>5, <1>6
       DEF Settled, Tops, LifetimesInv, StackInv, Top
  <1>8. Ordinary
    BY <1>1, <1>7
       DEF Settled, LifetimesInv, Ordinary, StillOpening, HoldersInv, OpeningInv
  <1> QED
    BY <1>1, <1>7, <1>8, OrdinaryLives DEF Settled

\* No other dialog is open when one is answered.
LEMMA CloseDialogLives ==
    ASSUME LifetimesInv, CloseDialog
    PROVE  LifetimesInv'
  <1>1. /\ TypeInv' /\ Top("dialog")
        /\ channel'.refs = channel.refs /\ channel'.handle = channel.handle
        /\ channel'.client = channel.client /\ channel'.mode = channel.mode
        /\ channel'.buffer = channel.buffer
        /\ channel'.suspended = (channel.suspended /\ ~ws.channel)
        /\ channel'.closed = channel.closed
        /\ channel'.closingTimer = channel.closingTimer
        /\ stack' = Tail(stack)
        /\ UNCHANGED <<handle, thread, sending, posted, wire, server, ws, late>>
    BY CloseDialogEffect DEF LifetimesInv, handleVars
  <1>2. stack \in Seq(Entry) /\ stack # <<>> /\ stack[1].call = "dialog"
    BY <1>1 DEF LifetimesInv, TypeInv, Top
  <1>3. Rests(stack', stack)
    BY <1>1, <1>2, Popped
  <1>4. Settled /\ Cardinality(Holds(stack')) = Cardinality(Holds(stack))
    BY <1>1, <1>2, <1>3 DEF Settled, Rests, LifetimesInv, StackInv, Top
  <1>5. Ordinary
    BY <1>1, <1>4
       DEF Settled, LifetimesInv, Ordinary, StillOpening, HoldersInv, OpeningInv
  <1> QED
    BY <1>1, <1>4, <1>5, OrdinaryLives DEF Settled

\* The end of a handler changes no reference.
LEMMA EndHandlerLives ==
    ASSUME LifetimesInv, EndHandler
    PROVE  LifetimesInv'
  <1>1. /\ TypeInv' /\ Top("event") /\ stack' = Tail(stack)
        /\ UNCHANGED <<handle, thread, sending, posted, wire, server,
                       ws, channel, late>>
    BY EndHandlerEffect DEF LifetimesInv, handleVars
  <1>2. stack \in Seq(Entry) /\ stack # <<>> /\ stack[1].call = "event"
    BY <1>1 DEF LifetimesInv, TypeInv, Top
  <1>3. Rests(stack', stack)
    BY <1>1, <1>2, Popped
  <1>4. Settled /\ Cardinality(Holds(stack')) = Cardinality(Holds(stack))
    BY <1>1, <1>2, <1>3 DEF Settled, Rests, LifetimesInv, StackInv, Top
  <1>5. Ordinary
    BY <1>1, <1>4
       DEF Settled, LifetimesInv, Ordinary, StillOpening, HoldersInv, OpeningInv
  <1> QED
    BY <1>1, <1>4, <1>5, OrdinaryLives DEF Settled

\* didReceiveData drops the reference that its entry stood for.
LEMMA ChunksDoneLives ==
    ASSUME LifetimesInv, ChunksDone
    PROVE  LifetimesInv'
  <1>1. /\ TypeInv' /\ Top("chunks") /\ stack' = Tail(stack)
        /\ HandleKept /\ handle'.refs = handle.refs - 1
        /\ UNCHANGED <<thread, sending, posted, wire, server, ws, channel, late>>
    BY ChunksDoneEffect DEF LifetimesInv
  <1>2. stack \in Seq(Entry) /\ stack # <<>> /\ stack[1].call = "chunks"
    BY <1>1 DEF LifetimesInv, TypeInv, Top
  <1>3. Rests(stack', stack)
    BY <1>1, <1>2, Popped
  <1>4. /\ Settled /\ Cardinality(Holds(stack')) \in Nat
        /\ Cardinality(Holds(stack)) = Cardinality(Holds(stack')) + 1
    BY <1>1, <1>2, <1>3 DEF Settled, Rests, LifetimesInv, StackInv, Top
  <1>5. handle'.refs - Cardinality(Holds(stack'))
           = handle.refs - Cardinality(Holds(stack))
    BY <1>1, <1>4, Counts DEF LifetimesInv
  <1>6. Ordinary
    BY <1>1, <1>4, <1>5
       DEF Settled, LifetimesInv, Ordinary, StillOpening, HoldersInv, OpeningInv,
           HandleKept
  <1> QED
    BY <1>1, <1>4, <1>6, OrdinaryLives DEF Settled

\* The loop over the buffer had no reference of its own.
LEMMA BufferDoneLives ==
    ASSUME LifetimesInv, BufferDone
    PROVE  LifetimesInv'
  <1>1. /\ TypeInv' /\ Top("buffer") /\ stack' = Tail(stack)
        /\ ChannelKept(channel) /\ channel'.closingTimer = channel.closingTimer
        /\ channel'.buffer \in {channel.buffer, <<>>}
        /\ UNCHANGED <<handle, thread, sending, posted, wire, server, ws, late>>
    BY BufferDoneEffect DEF LifetimesInv, handleVars
  <1>2. stack \in Seq(Entry) /\ stack # <<>> /\ stack[1].call = "buffer"
    BY <1>1 DEF LifetimesInv, TypeInv, Top
  <1>3. Rests(stack', stack)
    BY <1>1, <1>2, Popped
  <1>4. Settled /\ Cardinality(Holds(stack')) = Cardinality(Holds(stack))
    BY <1>1, <1>2, <1>3 DEF Settled, Rests, LifetimesInv, StackInv, Top, ChannelKept
  <1>5. Ordinary
    BY <1>1, <1>4
       DEF Settled, LifetimesInv, Ordinary, StillOpening, HoldersInv, OpeningInv,
           ChannelKept
  <1> QED
    BY <1>1, <1>4, <1>5, OrdinaryLives DEF Settled

\* A frame makes fail() tell the page.
LEMMA FailsNowLives ==
    ASSUME LifetimesInv, TypeInv', Looks, FailsNow,
           UNCHANGED <<handle, thread, sending, posted, wire, server, late>>
    PROVE  LifetimesInv'
  <1>1. /\ stack \in Seq(Entry) /\ stack # <<>> /\ stack[1].call = "buffer"
        /\ Nested(stack)
    BY DEF LifetimesInv, StackInv, Looks, Top
  <1>2. Opened /\ ~Top("join") /\ ws.channel
    BY LooksOpened
  <1>3. Rests(Tail(stack), stack)
    BY <1>1, Popped
  <1>4. /\ Tail(stack) \in Seq(Entry) /\ Nested(Tail(stack))
        /\ Tail(stack) # <<>> => Tail(stack)[1].call \notin {"join", "disconnect"}
    BY <1>1, <1>3 DEF Rests
  <1>5. Delivers(stack', "fail", Tail(stack))
    BY <1>4, EventPushed DEF FailsNow
  <1>6. Settled /\ Cardinality(Holds(stack')) = Cardinality(Holds(stack))
    BY <1>1, <1>2, <1>3, <1>5
       DEF Settled, Rests, Delivers, LifetimesInv, StackInv, Looks, FailsNow,
           SocketKept, Top
  <1>7. Ordinary
    BY <1>2, <1>6
       DEF Settled, LifetimesInv, Ordinary, StillOpening, HoldersInv, FailsNow,
           SocketKept
  <1> QED
    BY <1>6, <1>7, OrdinaryLives DEF Settled

\* fail() from a frame.
LEMMA FrameFailsLives ==
    ASSUME LifetimesInv, FrameFails
    PROVE  LifetimesInv'
  BY FrameFailsEffect, FailsNowLives DEF LifetimesInv, handleVars

\* A frame makes the page hear of something.
LEMMA EventStack ==
    ASSUME LifetimesInv, Looks, stack' = <<Call("event")>> \o stack,
           ws'.channel = ws.channel, channel'.suspended = channel.suspended
    PROVE  Settled /\ Cardinality(Holds(stack')) = Cardinality(Holds(stack))
  <1>1. /\ stack \in Seq(Entry) /\ stack # <<>> /\ stack[1].call = "buffer"
        /\ Nested(stack)
    BY DEF LifetimesInv, StackInv, Looks, Top
  <1>2. ~Top("join") /\ ws.channel
    BY LooksOpened
  <1>3. Call("event") \in Entry /\ Call("event").call = "event"
    BY EntryTypes
  <1>4. Tops(stack', Call("event"), stack)
    BY <1>1, <1>3, OnePushed
  <1> QED
    BY <1>1, <1>2, <1>3, <1>4
       DEF Settled, Tops, LifetimesInv, StackInv, Looks, Top

\* didConnect, or fail() from the handshake.
LEMMA ServerHandshakeLives ==
    ASSUME LifetimesInv, ServerHandshake
    PROVE  LifetimesInv'
  <1>1. /\ TypeInv' /\ Looks
        /\ UNCHANGED <<handle, thread, sending, posted, wire, server, late>>
    BY ServerHandshakeEffect DEF LifetimesInv, handleVars
  <1>2. CASE FailsNow
    BY <1>1, <1>2, FailsNowLives
  <1>3. CASE /\ channel'.refs = channel.refs /\ channel'.handle = channel.handle
             /\ channel'.client = channel.client /\ channel'.closed = channel.closed
             /\ channel'.suspended = channel.suspended
             /\ SocketKept
             /\ stack' = <<Call("event")>> \o stack
    <2>1. Settled /\ Cardinality(Holds(stack')) = Cardinality(Holds(stack))
      BY <1>1, <1>3, EventStack DEF SocketKept
    <2>2. Opened
      BY <1>1, LooksOpened
    <2>3. Ordinary
      BY <1>1, <1>3, <2>1, <2>2
         DEF Settled, LifetimesInv, Ordinary, StillOpening, HoldersInv, SocketKept
    <2> QED
      BY <1>1, <2>1, <2>3, OrdinaryLives DEF Settled
  <1> QED
    BY <1>2, <1>3, ServerHandshakeEffect DEF LifetimesInv

\* The message event runs on top of the loop.
LEMMA MessageFrameLives ==
    ASSUME LifetimesInv, MessageFrame
    PROVE  LifetimesInv'
  <1>1. /\ TypeInv' /\ Looks /\ ChannelKept(channel)
        /\ UNCHANGED <<handle, thread, sending, posted, wire, server, late>>
        /\ \/ UNCHANGED <<ws, stack>>
           \/ SocketKept /\ stack' = <<Call("event")>> \o stack
    BY MessageFrameEffect DEF LifetimesInv, handleVars
  <1>2. Opened /\ ~Top("join")
    BY <1>1, LooksOpened
  <1>3. Settled /\ Cardinality(Holds(stack')) = Cardinality(Holds(stack)) /\ SocketKept
    <2>1. CASE UNCHANGED <<ws, stack>>
      BY <1>1, <1>2, <2>1, SameStack DEF Settled, ChannelKept, SocketKept
    <2>2. CASE SocketKept /\ stack' = <<Call("event")>> \o stack
      BY <1>1, <2>2, EventStack DEF SocketKept, ChannelKept
    <2> QED
      BY <1>1, <2>1, <2>2
  <1>4. Ordinary
    BY <1>1, <1>2, <1>3
       DEF Settled, LifetimesInv, Ordinary, StillOpening, HoldersInv, ChannelKept,
           SocketKept
  <1> QED
    BY <1>1, <1>3, <1>4, OrdinaryLives DEF Settled

\* The timer begins in an event loop, with no join on top.
LEMMA ResumeTimerFiredLives ==
    ASSUME LifetimesInv, ResumeTimerFired
    PROVE  LifetimesInv'
  <1> DEFINE c == Call("resume")
             d == Call("buffer")
             u == <<c>> \o stack
  <1>1. /\ TypeInv' /\ InEventLoop
        /\ ChannelKept(channel) /\ channel'.closingTimer = channel.closingTimer
        /\ channel'.buffer = channel.buffer
        /\ stack' = <<d>> \o u
        /\ UNCHANGED <<handle, thread, sending, posted, wire, server, ws, late>>
    BY ResumeTimerFiredEffect DEF LifetimesInv, handleVars
  <1>2. /\ c \in Entry /\ c.call = "resume" /\ d \in Entry /\ d.call = "buffer"
    BY EntryTypes
  <1>3. stack \in Seq(Entry) /\ (stack = <<>> \/ stack[1].call = "dialog")
    BY <1>1 DEF LifetimesInv, TypeInv, InEventLoop, Top
  <1> HIDE DEF c, d
  <1>4. Tops(u, c, stack)
    BY <1>2, <1>3, OnePushed
  <1>5. u \in Seq(Entry)
    BY <1>4 DEF Tops
  <1> HIDE DEF u
  <1>6. Tops(stack', d, u)
    BY <1>1, <1>2, <1>5, OnePushed
  <1>7. Settled /\ Cardinality(Holds(stack')) = Cardinality(Holds(stack))
    BY <1>1, <1>2, <1>3, <1>4, <1>6
       DEF Settled, Tops, LifetimesInv, StackInv, Top, ChannelKept
  <1>8. Ordinary
    BY <1>1, <1>7
       DEF Settled, LifetimesInv, Ordinary, StillOpening, HoldersInv, OpeningInv,
           ChannelKept
  <1> QED
    BY <1>1, <1>7, <1>8, OrdinaryLives DEF Settled

\* A step that begins to wait for the worker, on what s leaves of the stack.
LEMMA WaitStack ==
    ASSUME LifetimesInv, NEW s \in Seq(Entry), Nested(s),
           s # <<>> => s[1].call \notin {"join", "disconnect"},
           stack' = <<Call("join")>> \o (<<Call("disconnect")>> \o s),
           ws'.channel => Quiet(s) /\ (channel'.suspended <=> Has(s, "dialog"))
    PROVE  /\ StackInv' /\ Top("join")'
           /\ Has(stack', "didClose") <=> Has(s, "didClose")
           /\ Has(stack', "chunks") <=> Has(s, "chunks")
           /\ Cardinality(Holds(s)) \in Nat
           /\ Cardinality(Holds(stack')) = Cardinality(Holds(s)) + 1
  <1>1. Waits(stack', s)
    BY JoinPushed
  <1> QED
    BY <1>1 DEF Waits, StackInv, Top

\* The closing timer of an open handle: its disconnect() has a reference.
LEMMA ClosingTimerFiredLives ==
    ASSUME LifetimesInv, ClosingTimerFired
    PROVE  LifetimesInv'
  <1>1. /\ TypeInv' /\ InEventLoop /\ channel.closingTimer
        /\ ChannelKept(channel)
        /\ handle'.worker = handle.worker /\ handle'.receiveData = handle.receiveData
        /\ \/ /\ channel.handle /\ handle.state # "Closed"
              /\ handle'.state = "Closed" /\ handle'.refs = handle.refs + 1
              /\ stack' = <<Call("join")>> \o (<<Call("disconnect")>> \o stack)
           \/ /\ handle'.state = handle.state /\ handle'.refs = handle.refs
              /\ stack' = stack
        /\ UNCHANGED <<thread, sending, posted, wire, server, ws, late>>
    BY ClosingTimerFiredEffect DEF LifetimesInv
  <1>2. /\ stack \in Seq(Entry) /\ Nested(stack)
        /\ stack = <<>> \/ stack[1].call = "dialog"
    BY <1>1 DEF LifetimesInv, StackInv, TypeInv, InEventLoop, Top
  <1>3. Opened /\ ~Top("join")
    BY <1>1, <1>2 DEF LifetimesInv, OpeningInv, Top
  <1>4. CASE /\ channel.handle /\ handle.state # "Closed"
             /\ handle'.state = "Closed" /\ handle'.refs = handle.refs + 1
             /\ stack' = <<Call("join")>> \o (<<Call("disconnect")>> \o stack)
    <2>1. ws'.channel => Quiet(stack) /\ (channel'.suspended <=> Has(stack, "dialog"))
      BY <1>1 DEF LifetimesInv, StackInv, ChannelKept
    <2>2. /\ StackInv' /\ Top("join")'
          /\ Has(stack', "didClose") <=> Has(stack, "didClose")
          /\ Has(stack', "chunks") <=> Has(stack, "chunks")
          /\ Cardinality(Holds(stack)) \in Nat
          /\ Cardinality(Holds(stack')) = Cardinality(Holds(stack)) + 1
      BY <1>2, <1>4, <2>1, WaitStack
    <2>3. handle'.refs - Cardinality(Holds(stack'))
             = handle.refs - Cardinality(Holds(stack))
      <3>1. handle.refs \in Int
        BY Counts DEF LifetimesInv
      <3> QED
        BY <3>1, <1>4, <2>2
    <2>4. channel'.refs = channel.refs - One(ws.channel) + One(ws'.channel)
      BY <1>1, Counts DEF LifetimesInv, ChannelKept
    <2>5. ws.channel
      BY <1>3, <1>4 DEF LifetimesInv, HoldersInv
    <2>6. Closes
      BY <1>1, <1>3, <1>4, <2>2, <2>3, <2>4, <2>5
         DEF Closes, StillOpening, ChannelKept, LifetimesInv, HoldersInv
    <2> QED
      BY <1>1, <2>2, <2>6, ClosesLives
  <1>5. CASE /\ handle'.state = handle.state /\ handle'.refs = handle.refs
             /\ stack' = stack
    <2>1. StackInv' /\ Ordinary
      BY <1>1, <1>3, <1>5, SameStack
         DEF LifetimesInv, Ordinary, StillOpening, ChannelKept, HoldersInv
    <2> QED
      BY <1>1, <2>1, OrdinaryLives
  <1> QED
    BY <1>1, <1>4, <1>5

\* The disconnect() after the answer has a reference.
LEMMA CloseFrameLives ==
    ASSUME LifetimesInv, CloseFrame
    PROVE  LifetimesInv'
  <1>1. /\ TypeInv' /\ Looks /\ ChannelKept(channel) /\ SocketKept
        /\ UNCHANGED <<thread, sending, posted, wire, server, late>>
    BY CloseFrameEffect DEF LifetimesInv
  <1>2. /\ handle'.worker = handle.worker /\ handle'.receiveData = handle.receiveData
        /\ \/ /\ handle.state # "Closed" /\ handle'.state = "Closed"
              /\ handle'.refs = handle.refs + 1
              /\ stack' = <<Call("join")>> \o (<<Call("disconnect")>> \o stack)
           \/ /\ handle'.state = handle.state /\ handle'.refs = handle.refs
              /\ stack' = stack
    <2>1. PICK answered \in {handle, Send(handle)} :
              /\ handle'.worker = answered.worker
              /\ handle'.receiveData = answered.receiveData
              /\ \/ /\ handle.state # "Closed"
                    /\ handle'.state = "Closed"
                    /\ handle'.refs = answered.refs + 1
                    /\ stack' = <<Call("join")>> \o (<<Call("disconnect")>> \o stack)
                 \/ /\ handle'.state = handle.state
                    /\ handle'.refs = answered.refs
                    /\ stack' = stack
      BY CloseFrameEffect DEF LifetimesInv
    <2>2. /\ answered.refs = handle.refs /\ answered.worker = handle.worker
          /\ answered.receiveData = handle.receiveData
      BY SendFields DEF LifetimesInv, TypeInv
    <2> QED
      BY <2>1, <2>2
  <1>3. /\ stack \in Seq(Entry) /\ Nested(stack) /\ stack[1].call = "buffer"
    BY <1>1 DEF LifetimesInv, StackInv, TypeInv, Looks, Top
  <1>4. Opened /\ ~Top("join") /\ ws.channel /\ channel.handle
    BY <1>1, LooksOpened
  <1>5. CASE /\ handle.state # "Closed" /\ handle'.state = "Closed"
             /\ handle'.refs = handle.refs + 1
             /\ stack' = <<Call("join")>> \o (<<Call("disconnect")>> \o stack)
    <2>1. ws'.channel => Quiet(stack) /\ (channel'.suspended <=> Has(stack, "dialog"))
      BY <1>1 DEF LifetimesInv, StackInv, ChannelKept, SocketKept
    <2>2. /\ StackInv' /\ Top("join")'
          /\ Has(stack', "didClose") <=> Has(stack, "didClose")
          /\ Has(stack', "chunks") <=> Has(stack, "chunks")
          /\ Cardinality(Holds(stack)) \in Nat
          /\ Cardinality(Holds(stack')) = Cardinality(Holds(stack)) + 1
      BY <1>3, <1>5, <2>1, WaitStack
    <2>3. handle'.refs - Cardinality(Holds(stack'))
             = handle.refs - Cardinality(Holds(stack))
      <3>1. handle.refs \in Int
        BY Counts DEF LifetimesInv
      <3>2. handle'.refs = handle.refs + 1
        BY <1>5
      <3>3. /\ Cardinality(Holds(stack)) \in Nat
            /\ Cardinality(Holds(stack')) = Cardinality(Holds(stack)) + 1
        BY <2>2
      <3> QED
        BY <3>1, <3>2, <3>3
    <2>4. channel'.refs = channel.refs - One(ws.channel) + One(ws'.channel)
      BY <1>1, Counts DEF LifetimesInv, ChannelKept, SocketKept
    <2>5. Closes
      BY <1>1, <1>2, <1>4, <1>5, <2>2, <2>3, <2>4
         DEF Closes, StillOpening, ChannelKept, SocketKept, LifetimesInv, HoldersInv
    <2> QED
      BY <1>1, <2>2, <2>5, ClosesLives
  <1>6. CASE /\ handle'.state = handle.state /\ handle'.refs = handle.refs
             /\ stack' = stack
    <2>1. StackInv' /\ Ordinary
      BY <1>1, <1>2, <1>4, <1>6, SameStack
         DEF LifetimesInv, Ordinary, StillOpening, ChannelKept, SocketKept, HoldersInv
    <2> QED
      BY <1>1, <2>1, OrdinaryLives
  <1> QED
    BY <1>2, <1>5, <1>6

\* The disconnect() after the error event has a reference.
LEMMA FinishFailLives ==
    ASSUME LifetimesInv, FinishFail
    PROVE  LifetimesInv'
  <1>1. /\ TypeInv' /\ Top("fail")
        /\ handle'.worker = handle.worker /\ handle'.receiveData = handle.receiveData
        /\ handle'.sendData = handle.sendData
        /\ \/ /\ channel.handle /\ handle.state # "Closed"
              /\ handle'.state = "Closed" /\ handle'.refs = handle.refs + 1
              /\ stack' = <<Call("join")>> \o (<<Call("disconnect")>> \o Tail(stack))
           \/ /\ handle'.state = handle.state /\ handle'.refs = handle.refs
              /\ stack' = Tail(stack)
        /\ UNCHANGED <<thread, sending, posted, wire, server, ws, channel, late>>
    BY FinishFailEffect DEF LifetimesInv
  <1>2. /\ stack \in Seq(Entry) /\ stack # <<>> /\ stack[1].call = "fail"
        /\ Nested(stack) /\ ~Top("join")
    BY <1>1 DEF LifetimesInv, StackInv, TypeInv, Top
  <1>3. StillOpening
    BY <1>1 DEF LifetimesInv, OpeningInv, StillOpening
  <1>4. Rests(Tail(stack), stack)
    BY <1>2, Popped
  <1>5. CASE /\ channel.handle /\ handle.state # "Closed"
             /\ handle'.state = "Closed" /\ handle'.refs = handle.refs + 1
             /\ stack' = <<Call("join")>> \o (<<Call("disconnect")>> \o Tail(stack))
    <2>1. ws.channel
      BY <1>2, <1>5 DEF LifetimesInv, HoldersInv
    <2>2. ~Has(stack, "dialog") /\ ~channel.suspended
      BY <1>2, <2>1, NotSuspended
    <2>3. /\ Tail(stack) \in Seq(Entry) /\ Nested(Tail(stack))
          /\ Tail(stack) # <<>> => Tail(stack)[1].call \notin {"join", "disconnect"}
          /\ Quiet(Tail(stack)) /\ ~Has(Tail(stack), "dialog")
          /\ Has(Tail(stack), "didClose") <=> Has(stack, "didClose")
          /\ Has(Tail(stack), "chunks") <=> Has(stack, "chunks")
          /\ Cardinality(Holds(Tail(stack))) = Cardinality(Holds(stack))
      BY <1>2, <1>4, <2>1, <2>2 DEF Rests, LifetimesInv, StackInv
    <2>4. /\ StackInv' /\ Top("join")'
          /\ Has(stack', "didClose") <=> Has(Tail(stack), "didClose")
          /\ Has(stack', "chunks") <=> Has(Tail(stack), "chunks")
          /\ Cardinality(Holds(Tail(stack))) \in Nat
          /\ Cardinality(Holds(stack')) = Cardinality(Holds(Tail(stack))) + 1
      BY <1>1, <1>5, <2>2, <2>3, WaitStack
    <2>5. handle'.refs - Cardinality(Holds(stack'))
             = handle.refs - Cardinality(Holds(stack))
      <3>1. handle.refs \in Int
        BY Counts DEF LifetimesInv
      <3>2. handle'.refs = handle.refs + 1
        BY <1>5
      <3>3. /\ Cardinality(Holds(stack)) \in Nat
            /\ Cardinality(Holds(stack')) = Cardinality(Holds(stack)) + 1
        BY <2>3, <2>4
      <3> QED
        BY <3>1, <3>2, <3>3
    <2>6. channel'.refs = channel.refs - One(ws.channel) + One(ws'.channel)
      BY <1>1, Counts DEF LifetimesInv
    <2>7. Closes
      BY <1>1, <1>2, <1>3, <1>5, <2>1, <2>2, <2>3, <2>4, <2>5, <2>6
         DEF Closes, LifetimesInv, HoldersInv
    <2> QED
      BY <1>1, <2>4, <2>7, ClosesLives
  <1>6. CASE /\ handle'.state = handle.state /\ handle'.refs = handle.refs
             /\ stack' = Tail(stack)
    <2>1. Settled /\ Cardinality(Holds(stack')) = Cardinality(Holds(stack))
      BY <1>1, <1>2, <1>4, <1>6 DEF Settled, Rests, LifetimesInv, StackInv, Top
    <2>2. Ordinary
      BY <1>1, <1>3, <1>6, <2>1 DEF Settled, LifetimesInv, Ordinary, HoldersInv
    <2> QED
      BY <1>1, <2>1, <2>2, OrdinaryLives DEF Settled
  <1> QED
    BY <1>1, <1>5, <1>6

\* stop() drops the reference of the WebSocket and waits at once for the
\* worker, so nobody calls the channel in between; when it has no handle any
\* more, also under a dialog.
LEMMA StopLives ==
    ASSUME ~ws'.cutShort, LifetimesInv, Stop
    PROVE  LifetimesInv'
  <1>1. /\ TypeInv'
        /\ InScript \/ Top("dialog")
        /\ ws.channel /\ channel.handle => ~channel.suspended /\ ~channel.closed
        /\ ws'.state = "CLOSED" /\ ~ws'.channel /\ ws'.activity = 0
        /\ ~channel'.client
        /\ channel'.refs = channel.refs - One(ws.channel)
        /\ channel'.handle = channel.handle /\ channel'.closed = channel.closed
        /\ channel'.suspended = channel.suspended /\ channel'.mode = channel.mode
        /\ channel'.buffer = channel.buffer
        /\ channel'.closingTimer = channel.closingTimer
        /\ handle'.worker = handle.worker /\ handle'.sendData = handle.sendData
        /\ handle'.receiveData = handle.receiveData
        /\ \/ /\ ws.channel /\ channel.handle /\ handle.state # "Closed"
              /\ handle'.state = "Closed" /\ handle'.refs = handle.refs + 1
              /\ stack' = <<Call("join")>> \o (<<Call("disconnect")>> \o stack)
           \/ /\ ~ws.channel \/ ~channel.handle \/ handle.state = "Closed"
              /\ handle'.state = handle.state /\ handle'.refs = handle.refs
              /\ stack' = stack
        /\ UNCHANGED <<thread, sending, posted, wire, server, late>>
    BY StopEffect DEF LifetimesInv, CutsShort
  <1>2. /\ stack \in Seq(Entry) /\ Nested(stack) /\ ~Top("join")
        /\ stack = <<>> \/ stack[1].call \in {"event", "dialog"}
    BY <1>1 DEF LifetimesInv, StackInv, TypeInv, InScript, Top
  <1>3. StillOpening
    BY <1>1 DEF LifetimesInv, OpeningInv, StillOpening
  <1>4. CASE /\ ws.channel /\ channel.handle /\ handle.state # "Closed"
             /\ handle'.state = "Closed" /\ handle'.refs = handle.refs + 1
             /\ stack' = <<Call("join")>> \o (<<Call("disconnect")>> \o stack)
    <2>1. ~channel.suspended
      BY <1>1, <1>4
    <2>2. /\ StackInv' /\ Top("join")'
          /\ Has(stack', "didClose") <=> Has(stack, "didClose")
          /\ Has(stack', "chunks") <=> Has(stack, "chunks")
          /\ Cardinality(Holds(stack)) \in Nat
          /\ Cardinality(Holds(stack')) = Cardinality(Holds(stack)) + 1
      BY <1>1, <1>2, <1>4, WaitStack
    <2>3. handle'.refs - Cardinality(Holds(stack'))
             = handle.refs - Cardinality(Holds(stack))
      <3>1. handle.refs \in Int
        BY Counts DEF LifetimesInv
      <3>2. handle'.refs = handle.refs + 1
        BY <1>4
      <3> QED
        BY <2>2, <3>1, <3>2
    <2>4. One(ws'.channel) = 0
      BY <1>1 DEF One
    <2>5. channel'.refs = channel.refs - One(ws.channel) + One(ws'.channel)
      BY <1>1, <2>4, Counts DEF LifetimesInv
    <2>6. Closes
      BY <1>1, <1>2, <1>3, <1>4, <2>1, <2>2, <2>3, <2>4, <2>5
         DEF Closes, LifetimesInv, HoldersInv
    <2> QED
      BY <1>1, <2>2, <2>6, ClosesLives
  <1>5. CASE /\ ~ws.channel \/ ~channel.handle \/ handle.state = "Closed"
             /\ handle'.state = handle.state /\ handle'.refs = handle.refs
             /\ stack' = stack
    <2>1. ~channel.handle
      BY <1>1, <1>2, <1>5 DEF LifetimesInv, ClosingInv, HoldersInv
    <2>2. (Opened' <=> Opened) /\ (Top("join")' <=> Top("join"))
      BY <1>1, <1>5 DEF Opened, Top
    <2>3. StackInv'
      BY <1>1, <1>2, <1>5 DEF StackInv
    <2>4. OpeningInv'
      BY <1>1, <1>3, <1>5, <2>2 DEF LifetimesInv, OpeningInv, StillOpening
    <2>5. ClosingInv'
      <3>1. Dead' <=> Dead
        BY <1>1, <1>5 DEF Dead
      <3> QED
        BY <1>1, <1>5, <2>2, <3>1 DEF LifetimesInv, ClosingInv
    <2>6. HoldersInv'
      <3>1. One(ws'.channel) = 0 /\ One(ws.channel) \in Int
        BY <1>1 DEF One
      <3>2. /\ One(channel'.handle \/ Has(stack', "didClose"))
                  = One(channel.handle \/ Has(stack, "didClose"))
            /\ One(channel.handle \/ Has(stack, "didClose")) \in Int
        BY <1>1, <1>5 DEF One
      <3>3. channel'.refs = One(ws'.channel) + One(channel'.handle \/ Has(stack', "didClose"))
        BY <1>1, <3>1, <3>2 DEF LifetimesInv, HoldersInv
      <3> QED
        BY <1>1, <1>5, <2>1, <3>1, <3>3 DEF LifetimesInv, HoldersInv
    <2>7. HandleRefsInv'
      BY <1>1, <1>5 DEF LifetimesInv, HandleRefsInv
    <2> QED
      BY <1>1, <2>3, <2>4, <2>5, <2>6, <2>7 DEF LifetimesInv
  <1> QED
    BY <1>1, <1>4, <1>5

\* didReceiveData has another look at its chunks.
LEMMA ChunksStack ==
    ASSUME LifetimesInv, Top("chunks"), NEW left \in Seq(Chunk), NEW rest,
           rest = <<Chunks(left)>> \o Tail(stack)
    PROVE  /\ rest \in Seq(Entry) /\ rest # <<>> /\ rest[1].call = "chunks"
           /\ Nested(rest) /\ (Quiet(stack) => Quiet(rest))
           /\ Has(rest, "dialog") <=> Has(stack, "dialog")
           /\ Has(rest, "didClose") <=> Has(stack, "didClose")
           /\ Has(rest, "disconnect") <=> Has(stack, "disconnect")
           /\ Has(rest, "chunks") /\ Has(stack, "chunks")
           /\ Cardinality(Holds(rest)) = Cardinality(Holds(stack))
  <1>1. /\ stack \in Seq(Entry) /\ stack # <<>> /\ stack[1].call = "chunks"
        /\ Nested(stack)
    BY DEF LifetimesInv, StackInv, TypeInv, Top
  <1>2. Rests(Tail(stack), stack)
    BY <1>1, Popped
  <1>3. Tail(stack) \in Seq(Entry)
    BY <1>2 DEF Rests
  <1>4. Chunks(left) \in Entry /\ Chunks(left).call = "chunks"
    BY EntryTypes
  <1>5. Tops(rest, Chunks(left), Tail(stack))
    BY <1>3, <1>4, OnePushed
  <1> QED
    BY <1>1, <1>2, <1>4, <1>5 DEF Rests, Tops

\* A chunk reaches a channel that is held by the open handle; the end of the
\* connection closes the handle.
LEMMA NextChunkLives ==
    ASSUME LifetimesInv, NextChunk
    PROVE  LifetimesInv'
  <1> DEFINE rest == <<Chunks(Tail(stack[1].left))>> \o Tail(stack)
             done == <<Chunks(<<>>)>> \o Tail(stack)
  <1>1. /\ TypeInv' /\ Top("chunks") /\ stack[1].left # <<>>
        /\ stack[1].left \in Seq(Chunk)
        /\ handle'.worker = handle.worker /\ handle'.receiveData = handle.receiveData
        /\ handle'.refs = handle.refs
        /\ ChannelKept(channel)
        /\ UNCHANGED <<thread, sending, posted, wire, server, ws>>
    BY NextChunkEffect DEF LifetimesInv
  <1>2. \/ /\ handle'.state = "Closed"
           /\ handle.state = "Closed" => stack' = done
           /\ handle.state # "Closed" => stack' = <<Call("join")>> \o done
           /\ UNCHANGED <<channel, late>>
        \/ /\ late' = (late \/ ~ChannelExists) /\ handle.state = "Open"
           /\ stack' = <<Call("buffer")>> \o rest
           /\ UNCHANGED handle
        \/ /\ late' = (late \/ ~ChannelExists) /\ handle.state = "Open"
           /\ stack' = rest
           /\ UNCHANGED <<channel, handle>>
        \/ /\ stack' = rest
           /\ UNCHANGED <<channel, handle, late>>
    BY NextChunkEffect DEF LifetimesInv
  <1>3. <<>> \in Seq(Chunk) /\ Tail(stack[1].left) \in Seq(Chunk)
    BY <1>1
  <1>4. /\ rest \in Seq(Entry) /\ rest # <<>> /\ rest[1].call = "chunks"
        /\ Nested(rest) /\ (Quiet(stack) => Quiet(rest))
        /\ Has(rest, "dialog") <=> Has(stack, "dialog")
        /\ Has(rest, "didClose") <=> Has(stack, "didClose")
        /\ Has(rest, "disconnect") <=> Has(stack, "disconnect")
        /\ Has(rest, "chunks") /\ Has(stack, "chunks")
        /\ Cardinality(Holds(rest)) = Cardinality(Holds(stack))
    BY <1>1, <1>3, ChunksStack
  <1>5. /\ done \in Seq(Entry) /\ done # <<>> /\ done[1].call = "chunks"
        /\ Nested(done) /\ (Quiet(stack) => Quiet(done))
        /\ Has(done, "dialog") <=> Has(stack, "dialog")
        /\ Has(done, "didClose") <=> Has(stack, "didClose")
        /\ Has(done, "disconnect") <=> Has(stack, "disconnect")
        /\ Has(done, "chunks")
        /\ Cardinality(Holds(done)) = Cardinality(Holds(stack))
    BY <1>1, <1>3, ChunksStack
  <1> HIDE DEF rest, done
  <1>6. /\ Opened /\ ~Top("join")
        /\ handle.state # "Closed" => channel.handle /\ ~channel.closed
    BY <1>1, <1>4 DEF LifetimesInv, OpeningInv, ClosingInv, Dead, Top
  <1>7. /\ ws.channel => Quiet(stack) /\ (channel'.suspended <=> Has(stack, "dialog"))
        /\ ws'.channel = ws.channel
    BY <1>1 DEF LifetimesInv, StackInv, ChannelKept
  <1>8. handle.state # "Closed" => ChannelExists /\ ws.channel
    <2>1. One(channel.handle \/ Has(stack, "didClose")) = 1 /\ One(ws.channel) \in {0, 1}
          <=> (channel.handle \/ Has(stack, "didClose"))
      BY DEF One
    <2> QED
      BY <1>6, <2>1 DEF LifetimesInv, HoldersInv, ChannelExists
  <1>9. ASSUME /\ handle'.state = handle.state /\ ~late'
               /\ StackInv' /\ ~Top("join")'
               /\ Has(stack', "didClose") <=> Has(stack, "didClose")
               /\ Has(stack', "disconnect") => Has(stack, "disconnect")
               /\ Cardinality(Holds(stack')) = Cardinality(Holds(stack))
        PROVE  LifetimesInv'
    <2>1. Ordinary
      BY <1>1, <1>4, <1>6, <1>9 DEF Ordinary, StillOpening, ChannelKept
    <2> QED
      BY <1>1, <1>9, <2>1, OrdinaryLives
  <1>10. CASE /\ handle'.state = "Closed"
              /\ handle.state = "Closed" => stack' = done
              /\ handle.state # "Closed" => stack' = <<Call("join")>> \o done
              /\ UNCHANGED <<channel, late>>
    <2>1. CASE handle.state = "Closed"
      <3>1. StackInv' /\ ~Top("join")'
        BY <1>5, <1>7, <1>10, <2>1 DEF StackInv, Top
      <3> QED
        BY <1>5, <1>9, <1>10, <2>1, <3>1 DEF LifetimesInv, HoldersInv
    <2>2. CASE handle.state # "Closed"
      <3>1. Call("join") \in Entry /\ Call("join").call = "join"
        BY EntryTypes
      <3>2. Tops(stack', Call("join"), done)
        BY <1>5, <1>10, <2>2, <3>1, OnePushed
      <3>3. /\ StackInv' /\ Top("join")'
            /\ Has(stack', "didClose") <=> Has(stack, "didClose")
            /\ Cardinality(Holds(stack')) = Cardinality(Holds(stack))
        BY <1>5, <1>7, <3>1, <3>2 DEF Tops, StackInv, Top
      <3>4. channel'.refs = channel.refs - One(ws.channel) + One(ws'.channel)
        BY <1>1, Counts DEF LifetimesInv, ChannelKept
      <3>5. Closes
        BY <1>1, <1>4, <1>6, <1>8, <1>10, <2>2, <3>3, <3>4
           DEF Closes, StillOpening, ChannelKept, LifetimesInv, HoldersInv
      <3> QED
        BY <1>1, <3>3, <3>5, ClosesLives
    <2> QED
      BY <2>1, <2>2
  <1>11. CASE /\ late' = (late \/ ~ChannelExists) /\ handle.state = "Open"
              /\ stack' = <<Call("buffer")>> \o rest
              /\ UNCHANGED handle
    <2>1. Call("buffer") \in Entry /\ Call("buffer").call = "buffer"
      BY EntryTypes
    <2>2. Tops(stack', Call("buffer"), rest)
      BY <1>4, <1>11, <2>1, OnePushed
    <2>3. /\ StackInv' /\ ~Top("join")'
          /\ Has(stack', "didClose") <=> Has(stack, "didClose")
          /\ Has(stack', "disconnect") <=> Has(stack, "disconnect")
          /\ Cardinality(Holds(stack')) = Cardinality(Holds(stack))
      BY <1>4, <1>7, <2>1, <2>2 DEF Tops, StackInv, Top
    <2> QED
      BY <1>8, <1>9, <1>11, <2>3 DEF LifetimesInv, HoldersInv
  <1>12. CASE /\ late' = (late \/ ~ChannelExists) /\ handle.state = "Open"
              /\ stack' = rest
              /\ UNCHANGED <<channel, handle>>
    <2>1. StackInv' /\ ~Top("join")'
      BY <1>4, <1>7, <1>12 DEF StackInv, Top
    <2> QED
      BY <1>4, <1>8, <1>9, <1>12, <2>1 DEF LifetimesInv, HoldersInv
  <1>13. CASE /\ stack' = rest
              /\ UNCHANGED <<channel, handle, late>>
    <2>1. StackInv' /\ ~Top("join")'
      BY <1>4, <1>7, <1>13 DEF StackInv, Top
    <2> QED
      BY <1>4, <1>9, <1>13, <2>1 DEF LifetimesInv, HoldersInv
  <1> QED
    BY <1>2, <1>10, <1>11, <1>12, <1>13

\* disconnect() drops the reference that its entry stood for.
LEMMA FinishDisconnectLives ==
    ASSUME LifetimesInv, FinishDisconnect
    PROVE  LifetimesInv'
  <1>1. /\ TypeInv' /\ Top("disconnect") /\ stack' = Tail(stack)
        /\ handle'.state = "Closed" /\ handle'.refs = handle.refs - 1
        /\ handle'.worker = handle.worker /\ handle'.sendData = handle.sendData
        /\ handle'.receiveData = handle.receiveData
        /\ UNCHANGED <<thread, sending, posted, wire, server, ws, channel, late>>
    BY FinishDisconnectEffect DEF LifetimesInv
  <1>2. stack \in Seq(Entry) /\ stack # <<>> /\ stack[1].call = "disconnect"
    BY <1>1 DEF LifetimesInv, TypeInv, Top
  <1>3. Rests(stack', stack)
    BY <1>1, <1>2, Popped
  <1>4. /\ Settled /\ Cardinality(Holds(stack')) \in Nat
        /\ Cardinality(Holds(stack)) = Cardinality(Holds(stack')) + 1
        /\ Has(stack, "disconnect")
    BY <1>1, <1>2, <1>3 DEF Settled, Rests, LifetimesInv, StackInv, Top
  <1>5. (Opened' <=> Opened) /\ ~Top("join") /\ ~Top("join")'
    BY <1>1, <1>4 DEF Opened, Settled
  <1>6. OpeningInv'
    BY <1>1, <1>4, <1>5 DEF LifetimesInv, OpeningInv, Settled
  <1>7. ClosingInv'
    BY <1>1, <1>4, <1>5 DEF LifetimesInv, ClosingInv, Settled
  <1>8. HoldersInv'
    <2>1. One(channel'.handle \/ Has(stack', "didClose"))
             = One(channel.handle \/ Has(stack, "didClose"))
      BY <1>1, <1>4 DEF Settled, One
    <2> QED
      BY <1>1, <1>4, <1>5, <2>1 DEF LifetimesInv, HoldersInv, Settled
  <1>9. HandleRefsInv'
    <2>1. /\ One(channel'.handle) = One(channel.handle)
          /\ One(handle'.worker) = One(handle.worker)
          /\ Len(posted') = Len(posted)
      BY <1>1
    <2> QED
      BY <1>1, <1>4, <2>1, Counts DEF LifetimesInv, HandleRefsInv
  <1> QED
    BY <1>1, <1>4, <1>6, <1>7, <1>8, <1>9 DEF LifetimesInv, Settled

\* didClose() drops both references to the channel, or the last one after
\* stop().
LEMMA FinishDidCloseLives ==
    ASSUME LifetimesInv, FinishDidClose
    PROVE  LifetimesInv'
  <1>1. /\ TypeInv' /\ Top("didClose") /\ stack' = Tail(stack)
        /\ ~ws'.channel /\ ws'.activity = 0 /\ ws'.state = ws.state
        /\ ~channel'.client /\ channel'.refs = channel.refs - One(ws.channel) - 1
        /\ channel'.handle = channel.handle /\ channel'.closed = channel.closed
        /\ channel'.suspended = channel.suspended /\ channel'.mode = channel.mode
        /\ channel'.buffer = channel.buffer
        /\ channel'.closingTimer = channel.closingTimer
        /\ UNCHANGED <<handle, thread, sending, posted, wire, server, late>>
    BY FinishDidCloseEffect DEF LifetimesInv, handleVars
  <1>2. stack \in Seq(Entry) /\ stack # <<>> /\ stack[1].call = "didClose"
    BY <1>1 DEF LifetimesInv, TypeInv, Top
  <1>3. Rests(stack', stack)
    BY <1>1, <1>2, Popped
  <1>4. /\ StackInv' /\ ~Top("join") /\ ~Top("join")'
        /\ Has(stack, "didClose") /\ ~Has(stack', "didClose")
        /\ Has(stack', "disconnect") <=> Has(stack, "disconnect")
        /\ Has(stack', "chunks") <=> Has(stack, "chunks")
        /\ Cardinality(Holds(stack')) = Cardinality(Holds(stack))
    BY <1>1, <1>2, <1>3 DEF Rests, LifetimesInv, StackInv, Top
  <1>5. (Opened' <=> Opened) /\ ~channel.handle
    BY <1>1, <1>4 DEF Opened, LifetimesInv, HoldersInv
  <1>6. OpeningInv'
    BY <1>1, <1>4, <1>5 DEF LifetimesInv, OpeningInv
  <1>7. ClosingInv'
    <2>1. Dead' <=> Dead
      BY <1>1, <1>4 DEF Dead
    <2> QED
      BY <1>1, <1>4, <1>5, <2>1 DEF LifetimesInv, ClosingInv
  <1>8. HoldersInv'
    <2>1. /\ One(channel'.handle \/ Has(stack', "didClose")) = 0
          /\ One(channel.handle \/ Has(stack, "didClose")) = 1
          /\ One(ws'.channel) = 0 /\ One(ws.channel) \in Int
      BY <1>1, <1>4, <1>5 DEF One
    <2>2. channel'.refs = 0
      BY <1>1, <2>1 DEF LifetimesInv, HoldersInv
    <2> QED
      BY <1>1, <1>4, <1>5, <2>1, <2>2 DEF LifetimesInv, HoldersInv
  <1>9. HandleRefsInv'
    BY <1>1, <1>4 DEF LifetimesInv, HandleRefsInv
  <1> QED
    BY <1>1, <1>4, <1>6, <1>7, <1>8, <1>9 DEF LifetimesInv

\* The page hears of the end: the channel has let go of the handle.
Ends ==
    /\ UNCHANGED <<thread, sending, posted, wire, server>>
    /\ channel.handle /\ channel.client /\ ~channel.suspended
    /\ Top("join") \/ (Top("resume") /\ channel.closed)
    /\ channel'.mode = channel.mode /\ channel'.buffer = channel.buffer
    /\ channel'.suspended = channel.suspended /\ channel'.closed
    /\ ~channel'.handle /\ ~channel'.client /\ ~channel'.closingTimer
    /\ channel'.refs = channel.refs
    /\ SocketKept /\ ws'.state = "CLOSED"
    /\ handle'.state = handle.state /\ handle'.sendData = handle.sendData
    /\ handle'.receiveData = handle.receiveData /\ ~handle'.worker
    /\ handle.worker => thread = "returned"
    /\ handle'.refs = handle.refs - One(handle.worker) - 1
    /\ stack' = <<Call("event")>> \o (<<Call("didClose")>> \o Tail(stack))
    /\ ~late'

\* A close event keeps the channel alive by its entry instead of by its
\* handle.
LEMMA EndsLives ==
    ASSUME LifetimesInv, TypeInv', Ends
    PROVE  LifetimesInv'
  <1>1. /\ stack \in Seq(Entry) /\ stack # <<>> /\ stack[1].call \in {"join", "resume"}
        /\ Nested(stack)
    BY DEF LifetimesInv, StackInv, TypeInv, Top, Ends
  <1>2. ws.channel /\ ~Has(stack, "didClose") /\ ~Has(stack, "dialog")
    BY DEF LifetimesInv, HoldersInv, StackInv, Ends
  <1>3. Rests(Tail(stack), stack)
    BY <1>1, Popped
  <1>4. /\ Tail(stack) \in Seq(Entry) /\ Nested(Tail(stack))
        /\ Tail(stack) # <<>> => Tail(stack)[1].call # "join"
        /\ ~Has(Tail(stack), "didClose")
    BY <1>1, <1>2, <1>3 DEF Rests
  <1>5. Delivers(stack', "didClose", Tail(stack))
    BY <1>4, EventPushed DEF Ends
  <1>6. /\ StackInv' /\ ~Top("join")' /\ Has(stack', "didClose")
        /\ Has(stack', "disconnect") <=> Has(stack, "disconnect")
        /\ Has(stack', "chunks") <=> Has(stack, "chunks")
        /\ Cardinality(Holds(stack')) = Cardinality(Holds(stack))
    BY <1>1, <1>2, <1>3, <1>4, <1>5
       DEF Rests, Delivers, LifetimesInv, StackInv, Top, SocketKept, Ends
  <1>7. (Opened' <=> Opened) /\ handle.state = "Closed"
    <2>1. Opened' <=> Opened
      BY DEF Opened, Ends
    <2>2. handle.state = "Closed"
      BY DEF LifetimesInv, ClosingInv, Dead, Ends
    <2> QED
      BY <2>1, <2>2
  <1>8. OpeningInv'
    BY <1>6, <1>7 DEF LifetimesInv, OpeningInv, Ends
  <1>9. ClosingInv'
    BY <1>6, <1>7 DEF LifetimesInv, ClosingInv, Ends
  <1>10. HoldersInv'
    <2>1. /\ One(channel'.handle \/ Has(stack', "didClose")) = 1
          /\ One(channel.handle \/ Has(stack, "didClose")) = 1
      BY <1>6 DEF One, Ends
    <2>2. One(ws'.channel) = One(ws.channel) /\ ws'.activity = ws.activity
      BY DEF SocketKept, Ends
    <2>3. channel.refs = One(ws.channel) + 1 /\ ws.activity = One(ws.channel)
      BY <2>1 DEF LifetimesInv, HoldersInv
    <2> QED
      BY <1>6, <2>1, <2>2, <2>3 DEF HoldersInv, Ends
  <1>11. HandleRefsInv'
    <2>1. /\ One(channel'.handle) = 0 /\ One(channel.handle) = 1
          /\ One(handle'.worker) = 0
      BY DEF One, Ends
    <2>2. /\ Len(posted') = Len(posted)
          /\ handle'.refs = handle.refs - One(handle.worker) - 1
      BY DEF Ends
    <2>3. handle.refs = One(channel.handle) + One(handle.worker) + Len(posted)
                          + Cardinality(Holds(stack))
      BY DEF LifetimesInv, HandleRefsInv
    <2>4. /\ handle.refs \in Int /\ One(handle.worker) \in Int /\ Len(posted) \in Nat
          /\ Cardinality(Holds(stack)) \in Nat
      BY Counts DEF LifetimesInv
    <2>5. handle'.refs = One(channel'.handle) + One(handle'.worker) + Len(posted')
                          + Cardinality(Holds(stack'))
      BY <1>6, <2>1, <2>2, <2>3, <2>4
    <2> QED
      BY <2>5 DEF HandleRefsInv
  <1> QED
    BY <1>6, <1>8, <1>9, <1>10, <1>11 DEF LifetimesInv

\* The close event that had to wait for a dialog.
LEMMA FinishResumeLives ==
    ASSUME LifetimesInv, FinishResume
    PROVE  LifetimesInv'
  <1>1. /\ TypeInv' /\ Top("resume")
        /\ UNCHANGED <<thread, sending, posted, wire, server, late>>
    BY FinishResumeEffect DEF LifetimesInv
  <1>2. /\ stack \in Seq(Entry) /\ stack # <<>> /\ stack[1].call = "resume"
        /\ ~Top("join")
    BY <1>1 DEF LifetimesInv, TypeInv, Top
  <1>3. CASE /\ channel.handle /\ ~channel.suspended /\ channel.client
             /\ channel.closed
             /\ channel'.mode = channel.mode /\ channel'.buffer = channel.buffer
             /\ channel'.suspended = channel.suspended
             /\ channel'.closed = channel.closed
             /\ handle'.state = handle.state /\ handle'.worker = handle.worker
             /\ handle'.sendData = handle.sendData
             /\ handle'.receiveData = handle.receiveData
             /\ SocketKept
             /\ ~channel'.handle /\ ~channel'.client
             /\ channel'.refs = channel.refs /\ ~channel'.closingTimer
             /\ handle'.refs = handle.refs - 1
             /\ ws'.state = "CLOSED"
             /\ stack' = <<Call("event")>> \o (<<Call("didClose")>> \o Tail(stack))
    <2>1. ~handle.worker /\ ~late
      BY <1>3 DEF LifetimesInv, ClosingInv, HoldersInv
    <2>2. handle'.refs = handle.refs - One(handle.worker) - 1
      <3>1. One(handle.worker) = 0
        BY <2>1 DEF One
      <3>2. handle.refs \in Int
        BY Counts DEF LifetimesInv
      <3>3. handle'.refs = handle.refs - 1
        BY <1>3
      <3> QED
        BY <3>1, <3>2, <3>3
    <2>3. Ends
      BY <1>1, <1>3, <2>1, <2>2 DEF Ends
    <2> QED
      BY <1>1, <2>3, EndsLives
  <1>4. CASE stack' = Tail(stack) /\ UNCHANGED <<handle, ws, channel>>
    <2>1. Rests(stack', stack)
      BY <1>2, <1>4, Popped
    <2>2. Settled /\ Cardinality(Holds(stack')) = Cardinality(Holds(stack))
      BY <1>1, <1>2, <1>4, <2>1 DEF Settled, Rests, LifetimesInv, StackInv, Top
    <2>3. Ordinary
      BY <1>1, <1>4, <2>2
         DEF Settled, LifetimesInv, Ordinary, StillOpening, HoldersInv, OpeningInv
    <2> QED
      BY <1>1, <2>2, <2>3, OrdinaryLives DEF Settled
  <1> QED
    BY <1>3, <1>4, FinishResumeEffect DEF LifetimesInv

\* The channel is there as long as it has a handle.
LEMMA HandleMeansChannel ==
    ASSUME LifetimesInv, channel.handle
    PROVE  ChannelExists /\ channel.refs = One(ws.channel) + 1
  <1>1. One(channel.handle \/ Has(stack, "didClose")) = 1
    BY DEF One
  <1>2. channel.refs = One(ws.channel) + 1
    BY <1>1 DEF LifetimesInv, HoldersInv
  <1>3. One(ws.channel) \in Nat
    BY DEF One
  <1>4. channel.refs > 0
    BY <1>2, <1>3
  <1> QED
    BY <1>2, <1>4 DEF ChannelExists

\* The worker and the channel let the handle go, in each of the three ways to
\* close it.
LEMMA JoinLives ==
    ASSUME LifetimesInv, Join
    PROVE  LifetimesInv'
  <1>1. /\ TypeInv' /\ Top("join")
        /\ handle.worker => thread = "returned"
        /\ late' = (late \/ ~ChannelExists)
        /\ channel'.closed /\ ~channel'.closingTimer
        /\ channel'.mode = channel.mode /\ channel'.buffer = channel.buffer
        /\ channel'.suspended = channel.suspended
        /\ handle'.state = handle.state /\ ~handle'.worker
        /\ handle'.sendData = handle.sendData
        /\ handle'.receiveData = handle.receiveData
        /\ SocketKept
        /\ UNCHANGED <<thread, sending, posted, wire, server>>
    BY JoinEffect DEF LifetimesInv
  <1>2. /\ stack \in Seq(Entry) /\ stack # <<>> /\ stack[1].call = "join"
        /\ Nested(stack)
    BY <1>1 DEF LifetimesInv, StackInv, TypeInv, Top
  <1>3. /\ channel.handle /\ ~channel.closed /\ handle.state = "Closed"
        /\ channel.suspended => Opened
        /\ ~Has(stack, "didClose") /\ ~late
        /\ Opened' <=> Opened
    BY <1>1 DEF LifetimesInv, ClosingInv, HoldersInv, Opened
  <1>4. ChannelExists /\ channel.refs = One(ws.channel) + 1
    BY <1>3, HandleMeansChannel
  <1>5. Rests(Tail(stack), stack)
    BY <1>2, Popped
  <1>6. ASSUME stack' = Tail(stack), ws' = ws,
               channel'.client => channel.client /\ channel'.handle,
               channel'.refs = One(ws.channel) + One(channel'.handle),
               ~ws.channel => ~channel'.handle,
               channel'.handle => Opened,
               handle'.refs = handle.refs - One(handle.worker) - 1 + One(channel'.handle)
        PROVE  LifetimesInv'
    <2>1. /\ StackInv' /\ ~Top("join")'
          /\ ~Has(stack', "didClose")
          /\ Has(stack', "disconnect") <=> Has(stack, "disconnect")
          /\ Has(stack', "chunks") <=> Has(stack, "chunks")
          /\ Cardinality(Holds(stack')) = Cardinality(Holds(stack))
      BY <1>1, <1>2, <1>3, <1>5, <1>6 DEF Rests, LifetimesInv, StackInv, Top
    <2>2. OpeningInv'
      BY <1>1, <1>3, <1>6, <2>1 DEF LifetimesInv, OpeningInv
    <2>3. ClosingInv'
      BY <1>1, <1>3, <1>6, <2>1 DEF LifetimesInv, ClosingInv
    <2>4. HoldersInv'
      <3>1. One(channel'.handle \/ Has(stack', "didClose")) = One(channel'.handle)
        BY <2>1 DEF One
      <3> QED
        BY <1>1, <1>3, <1>4, <1>6, <2>1, <3>1 DEF LifetimesInv, HoldersInv
    <2>5. HandleRefsInv'
      <3>1. One(channel.handle) = 1 /\ One(handle'.worker) = 0
            /\ One(channel'.handle) \in Int
        BY <1>1, <1>3 DEF One
      <3>2. Len(posted') = Len(posted)
        BY <1>1
      <3>3. handle.refs = One(channel.handle) + One(handle.worker) + Len(posted)
                            + Cardinality(Holds(stack))
        BY DEF LifetimesInv, HandleRefsInv
      <3>4. /\ handle.refs \in Int /\ One(handle.worker) \in Int
            /\ Len(posted) \in Nat /\ Cardinality(Holds(stack)) \in Nat
        BY Counts DEF LifetimesInv
      <3>5. handle'.refs = One(channel'.handle) + One(handle'.worker) + Len(posted')
                             + Cardinality(Holds(stack'))
        BY <1>6, <2>1, <3>1, <3>2, <3>3, <3>4
      <3> QED
        BY <3>5 DEF HandleRefsInv
    <2> QED
      BY <1>1, <2>1, <2>2, <2>3, <2>4, <2>5 DEF LifetimesInv
  <1>7. CASE /\ channel.suspended
             /\ channel'.handle = channel.handle /\ channel'.client = channel.client
             /\ channel'.refs = channel.refs
             /\ handle'.refs = handle.refs - One(handle.worker)
             /\ stack' = Tail(stack) /\ ws' = ws
    <2>1. ws.channel
      BY <1>3, <1>7 DEF LifetimesInv, HoldersInv
    <2>2. One(channel'.handle) = 1
      BY <1>3, <1>7 DEF One
    <2>3. handle.refs \in Int /\ One(handle.worker) \in Int
      BY Counts DEF LifetimesInv
    <2>4. handle'.refs = handle.refs - One(handle.worker) - 1 + One(channel'.handle)
      BY <1>7, <2>2, <2>3
    <2>5. channel'.refs = One(ws.channel) + One(channel'.handle)
      BY <1>4, <1>7, <2>2
    <2> QED
      BY <1>3, <1>6, <1>7, <2>1, <2>4, <2>5
  <1>8. CASE /\ ~channel.suspended /\ channel.client
             /\ ~channel'.handle /\ ~channel'.client
             /\ channel'.refs = channel.refs
             /\ handle'.refs = handle.refs - One(handle.worker) - 1
             /\ ws'.state = "CLOSED"
             /\ stack' = <<Call("event")>> \o (<<Call("didClose")>> \o Tail(stack))
    <2>1. Ends
      BY <1>1, <1>3, <1>4, <1>8 DEF Ends
    <2> QED
      BY <1>1, <2>1, EndsLives
  <1>9. CASE /\ ~channel.client
             /\ ~channel'.handle /\ channel'.client = channel.client
             /\ channel'.refs = channel.refs - 1
             /\ handle'.refs = handle.refs - One(handle.worker) - One(channel.handle)
             /\ stack' = Tail(stack) /\ ws' = ws
    <2>1. One(channel'.handle) = 0 /\ One(channel.handle) = 1 /\ One(ws.channel) \in Int
      BY <1>3, <1>9 DEF One
    <2>2. handle.refs \in Int /\ One(handle.worker) \in Int
      BY Counts DEF LifetimesInv
    <2>3. handle'.refs = handle.refs - One(handle.worker) - 1 + One(channel'.handle)
      BY <1>9, <2>1, <2>2
    <2>4. channel'.refs = One(ws.channel) + One(channel'.handle)
      BY <1>4, <1>9, <2>1
    <2> QED
      BY <1>6, <1>9, <2>3, <2>4
  <1> QED
    BY <1>3, <1>7, <1>8, <1>9, JoinEffect DEF LifetimesInv

\* Whoever still holds a handle that its channel has let go of holds the
\* channel as well: it is the disconnect() under didClose().
LEMMA OthersHoldChannel ==
    ASSUME LifetimesInv, InEventLoop, ~Has(stack, "chunks"),
           Cardinality(Holds(stack)) > 0
    PROVE  ChannelExists
  <1>1. stack \in Seq(Entry) /\ Nested(stack)
    BY DEF LifetimesInv, StackInv, TypeInv
  <1>2. PICK i \in DOMAIN stack : stack[i].call = "disconnect"
    <2>1. Holds(stack) # {}
      BY FS_EmptySet
    <2> QED
      BY <2>1 DEF Holds, Has
  <1>3. stack[1].call = "dialog" /\ i > 1
    BY <1>1, <1>2 DEF InEventLoop, Top
  <1>4. i - 1 \in DOMAIN stack
    BY <1>1, <1>2, <1>3
  <1>5. stack[i - 1].call \in {"join", "didClose"}
    BY <1>2, <1>3, <1>1 DEF Nested
  <1>6. stack[i - 1].call # "join"
    <2>1. CASE i - 1 = 1
      BY <2>1, <1>3
    <2>2. CASE i - 1 > 1
      BY <2>2, <1>1, <1>4 DEF Nested
    <2> QED
      BY <2>1, <2>2, <1>1, <1>4
  <1> QED
    BY <1>4, <1>5, <1>6 DEF ChannelExists

\* didOpenSocket calls a channel that exists: with another reference than its
\* own and the worker there is the channel.
LEMMA DidOpenSocketLives ==
    ASSUME LifetimesInv, DidOpenSocket
    PROVE  LifetimesInv'
  <1>1. /\ TypeInv' /\ InEventLoop
        /\ posted # <<>> /\ posted[1] = "didOpenSocket" /\ posted' = Tail(posted)
        /\ handle'.refs = handle.refs - 1 /\ handle'.worker = handle.worker
        /\ \/ /\ handle.refs > 1 /\ handle'.state = "Open"
              /\ late' = (late \/ ~ChannelExists)
           \/ /\ handle'.state = handle.state
              /\ late' = late
        /\ UNCHANGED <<thread, sending, wire, server, ws, channel, stack>>
    BY DidOpenSocketEffect DEF LifetimesInv
  <1>2. ~Opened /\ posted \in Seq({"didOpenSocket", "didReceiveData"})
    BY <1>1 DEF Opened, LifetimesInv, TypeInv
  <1>3. /\ Len(posted) = 1 /\ posted' = <<>> /\ Len(posted') = 0
        /\ thread # "connecting" /\ ~Has(stack, "chunks")
        /\ ~(channel.closed /\ channel.handle)
    <2>1. /\ Len(posted) <= 1 /\ thread # "connecting" /\ ~Has(stack, "chunks")
          /\ ~(channel.closed /\ channel.handle)
      BY <1>1, <1>2 DEF LifetimesInv, OpeningInv, ClosingInv
    <2>2. Len(posted) = 1
      <3>1. Len(posted) \in Nat /\ Len(posted) <= 1
        BY <1>2, <2>1
      <3>2. Len(posted) # 0
        BY <1>1, <1>2
      <3>3. \A n \in Nat : n <= 1 /\ n # 0 => n = 1
        OBVIOUS
      <3> QED
        BY <3>1, <3>2, <3>3
    <2>3. posted' = <<>> /\ Len(posted') = 0
      BY <1>1, <1>2, <2>2
    <2> QED
      BY <2>1, <2>2, <2>3
  <1>4. Opened' /\ (Top("join")' <=> Top("join")) /\ ~Top("join")
    BY <1>1, <1>3 DEF Opened, Top, InEventLoop
  <1>5. ASSUME handle.refs > 1
        PROVE  ChannelExists
    <2>1. CASE channel.handle
      BY <2>1, HandleMeansChannel
    <2>2. CASE ~channel.handle
      <3>1. ~handle.worker
        BY <2>2 DEF LifetimesInv, ClosingInv
      <3>2. One(channel.handle) = 0 /\ One(handle.worker) = 0
        BY <2>2, <3>1 DEF One
      <3>3. /\ handle.refs = One(channel.handle) + One(handle.worker) + Len(posted)
                               + Cardinality(Holds(stack))
            /\ Cardinality(Holds(stack)) \in Nat
        BY Counts DEF LifetimesInv, HandleRefsInv
      <3>4. Cardinality(Holds(stack)) > 0
        BY <1>3, <1>5, <3>2, <3>3
      <3> QED
        BY <1>1, <1>3, <3>4, OthersHoldChannel
    <2> QED
      BY <2>1, <2>2
  <1>6. StackInv'
    BY <1>1 DEF LifetimesInv, StackInv
  <1>7. OpeningInv'
    BY <1>3, <1>4 DEF OpeningInv, Opened
  <1>8. ClosingInv'
    <2>1. Dead' <=> ~channel.handle
      BY <1>1, <1>3 DEF Dead
    <2>2. channel.handle => handle.state # "Closed"
      BY <1>3, <1>4 DEF LifetimesInv, ClosingInv
    <2>3. handle.state # "Open"
      BY <1>2 DEF LifetimesInv, OpeningInv
    <2> QED
      BY <1>1, <1>3, <1>4, <2>1, <2>2, <2>3 DEF LifetimesInv, ClosingInv
  <1>9. HoldersInv'
    <2>1. ~late'
      BY <1>1, <1>5 DEF LifetimesInv, HoldersInv
    <2>2. UNCHANGED <<ws, channel, stack>>
      BY <1>1
    <2> QED
      BY <1>4, <2>1, <2>2 DEF LifetimesInv, HoldersInv
  <1>10. HandleRefsInv'
    <2>1. /\ One(channel'.handle) = One(channel.handle)
          /\ One(handle'.worker) = One(handle.worker)
          /\ Cardinality(Holds(stack')) = Cardinality(Holds(stack))
      BY <1>1
    <2>2. handle'.refs = handle.refs - 1 /\ Len(posted') = Len(posted) - 1
      BY <1>1, <1>3
    <2> QED
      BY <2>1, <2>2, Counts DEF LifetimesInv, HandleRefsInv
  <1> QED
    BY <1>1, <1>6, <1>7, <1>8, <1>9, <1>10 DEF LifetimesInv

\* The reference of the posted function becomes that of its entry.
LEMMA DidReceiveDataLives ==
    ASSUME LifetimesInv, DidReceiveData
    PROVE  LifetimesInv'
  <1> DEFINE e == Chunks(handle.receiveData)
  <1>1. /\ TypeInv' /\ InEventLoop
        /\ posted # <<>> /\ posted[1] = "didReceiveData" /\ posted' = Tail(posted)
        /\ handle'.refs = handle.refs /\ handle'.worker = handle.worker
        /\ handle'.state = handle.state
        /\ e \in Entry /\ stack' = <<e>> \o stack
        /\ UNCHANGED <<thread, sending, wire, server, ws, channel, late>>
    BY DidReceiveDataEffect DEF LifetimesInv
  <1>2. e.call = "chunks"
    BY DEF Chunks
  <1> HIDE DEF e
  <1>3. posted \in Seq({"didOpenSocket", "didReceiveData"})
    BY DEF LifetimesInv, TypeInv
  <1>4. Opened
    <2>1. thread # "connecting"
      BY <1>1 DEF LifetimesInv, OpeningInv
    <2>2. Len(posted) <= 1 => \A i \in DOMAIN posted : posted[i] # "didOpenSocket"
      BY <1>1, <1>3
    <2> QED
      BY <2>1, <2>2 DEF Opened, LifetimesInv, OpeningInv
  <1>5. Opened' /\ Len(posted') = Len(posted) - 1
    BY <1>1, <1>3, <1>4 DEF Opened
  <1>6. /\ stack \in Seq(Entry) /\ (stack = <<>> \/ stack[1].call = "dialog")
        /\ ~Top("join")
    BY <1>1 DEF LifetimesInv, TypeInv, InEventLoop, Top
  <1>7. Tops(stack', e, stack)
    BY <1>1, <1>6, OnePushed
  <1>8. /\ StackInv' /\ ~Top("join")'
        /\ Has(stack', "didClose") <=> Has(stack, "didClose")
        /\ Has(stack', "disconnect") <=> Has(stack, "disconnect")
        /\ Cardinality(Holds(stack)) \in Nat
        /\ Cardinality(Holds(stack')) = Cardinality(Holds(stack)) + 1
    BY <1>1, <1>2, <1>6, <1>7 DEF Tops, LifetimesInv, StackInv, Top
  <1>9. OpeningInv'
    BY <1>4, <1>5 DEF OpeningInv, Opened
  <1>10. ClosingInv'
    <2>1. ~Dead
      BY <1>1 DEF Dead
    <2> QED
      BY <1>1, <1>4, <1>5, <1>6, <1>8, <2>1 DEF LifetimesInv, ClosingInv
  <1>11. HoldersInv'
    <2>1. One(channel'.handle \/ Has(stack', "didClose"))
             = One(channel.handle \/ Has(stack, "didClose"))
      BY <1>1, <1>8 DEF One
    <2> QED
      BY <1>1, <1>6, <1>8, <2>1 DEF LifetimesInv, HoldersInv
  <1>12. HandleRefsInv'
    <2>1. /\ One(channel'.handle) = One(channel.handle)
          /\ One(handle'.worker) = One(handle.worker)
          /\ handle'.refs = handle.refs
      BY <1>1
    <2> QED
      BY <1>5, <1>8, <2>1, Counts DEF LifetimesInv, HandleRefsInv
  <1> QED
    BY <1>1, <1>8, <1>9, <1>10, <1>11, <1>12 DEF LifetimesInv

-----------------------------------------------------------------------------
(* Lifetimes: the invariant holds.                                          *)

\* The initial states have the types.
LEMMA InitTypes ==
    ASSUME Init
    PROVE  TypeInv
  <1>1. PICK script \in Scripts :
            server = [script |-> [i \in DOMAIN script |-> <<script[i], i>>],
                      sent |-> <<>>, early |-> FALSE]
    BY DEF Init, HandleInit
  <1>2. script \in Seq(Frames)
    BY ScriptsAssumption
  <1>3. [i \in DOMAIN script |-> <<script[i], i>>] \in Seq(Chunk)
    BY <1>2 DEF Chunk
  <1>4. /\ <<>> \in Seq(Chunk) /\ <<>> \in Seq(Seq(Nat)) /\ <<>> \in Seq(Nat)
        /\ <<>> \in Seq(Event) /\ <<>> \in Seq(Entry)
        /\ <<>> \in Seq({"didOpenSocket", "didReceiveData"})
    OBVIOUS
  <1>5. server \in [script : Seq(Chunk), sent : Seq(Chunk), early : BOOLEAN]
    BY <1>1, <1>3, <1>4
  <1>6. handle \in Handle /\ ws \in Socket /\ channel \in Channel
    BY <1>4 DEF Init, HandleInit, Handle, Socket, Channel
  <1> QED
    BY <1>4, <1>5, <1>6 DEF Init, HandleInit, TypeInv

\* The initial states satisfy the invariant: channel and thread hold the
\* handle.
LEMMA InitLives ==
    ASSUME Init
    PROVE  LifetimesInv
  <1>1. TypeInv
    BY InitTypes
  <1>2. /\ \A name : ~Has(stack, name)
        /\ Nested(stack) /\ Quiet(stack)
        /\ stack = <<>> /\ ~Top("join")
    BY DEF Init, Has, Nested, Quiet, Top
  <1>3. Cardinality(Holds(stack)) = 0
    <2>1. Holds(stack) = {}
      BY <1>2 DEF Holds
    <2> QED
      BY <2>1, FS_EmptySet
  <1>4. StackInv
    BY <1>2 DEF Init, StackInv
  <1>5. OpeningInv
    <2>1. server.sent = <<>>
      BY DEF Init, HandleInit
    <2> QED
      BY <1>2, <2>1 DEF Init, HandleInit, OpeningInv
  <1>6. ClosingInv
    BY <1>2 DEF Init, HandleInit, ClosingInv
  <1>7. HoldersInv
    BY <1>2 DEF Init, HoldersInv, One
  <1>8. HandleRefsInv
    BY <1>3 DEF Init, HandleInit, HandleRefsInv, One
  <1> QED
    BY <1>1, <1>4, <1>5, <1>6, <1>7, <1>8 DEF LifetimesInv

\* Every step keeps the invariant, but for the two exceptions.
LEMMA StepLives ==
    ASSUME ~server'.early, ~ws'.cutShort, LifetimesInv, [Next]_vars
    PROVE  LifetimesInv'
  <1>1. ASSUME UNCHANGED pageVars, Worker
        PROVE  LifetimesInv'
    BY <1>1, ConnectLives, TakeSendDataLives, SendTakenLives, NothingReadLives,
       ReadDataLives DEF Worker
  <1>2. ASSUME Page
        PROVE  LifetimesInv'
    BY <1>2, CloseConnectingLives, CloseLives, SendMessageLives, StopLives,
       OpenDialogLives DEF Page
  <1>3. ASSUME RunsPosted
        PROVE  LifetimesInv'
    BY <1>3, DidOpenSocketLives, DidReceiveDataLives DEF RunsPosted
  <1>4. ASSUME Continues
        PROVE  LifetimesInv'
    BY <1>4, EndHandlerLives, CloseDialogLives, ChunksDoneLives, NextChunkLives,
       BufferDoneLives, ServerHandshakeLives, FrameFailsLives, FirstFrameLives,
       MessageFrameLives, PingFrameLives, CloseFrameLives, JoinLives,
       FinishDisconnectLives, FinishFailLives, FinishDidCloseLives,
       FinishResumeLives DEF Continues
  <1>5. ASSUME UNCHANGED vars
        PROVE  LifetimesInv'
    <2>1. UNCHANGED <<handle, thread, sending, socket, posted, wire, server,
                      ws, channel, stack, dialogs, late, overtaken>>
      BY <1>5 DEF vars, handleVars, pageVars
    <2> QED
      BY <2>1 DEF LifetimesInv, TypeInv, StackInv, OpeningInv, Opened, ClosingInv,
                  Dead, Top, HoldersInv, HandleRefsInv
  <1> QED
    BY <1>1, <1>2, <1>3, <1>4, <1>5, NetworkLives, ResumeTimerFiredLives,
       ClosingTimerFiredLives DEF Next

\* The invariant says more than Lifetimes.
LEMMA LifetimesFollow ==
    ASSUME LifetimesInv
    PROVE  Lifetimes
  <1>1. /\ handle.refs \in Int /\ channel.refs \in Int
        /\ Len(posted) \in Nat /\ Cardinality(Holds(stack)) \in Nat
        /\ One(channel.handle) \in Nat /\ One(handle.worker) \in Nat
        /\ One(ws.channel) \in Nat
        /\ stack \in Seq(Entry)
    BY Counts DEF LifetimesInv, One
  <1>2. OnStack({"chunks", "disconnect"}) = Cardinality(Holds(stack))
    BY DEF OnStack, Holds
  <1>3. OnStack({"didClose"}) > 0 <=> Has(stack, "didClose")
    <2> DEFINE closing == {i \in DOMAIN stack : stack[i].call \in {"didClose"}}
    <2>1. closing \subseteq 1 .. Len(stack) /\ IsFiniteSet(1 .. Len(stack))
      <3>1. closing \subseteq 1 .. Len(stack) /\ 1 \in Int /\ Len(stack) \in Int
        BY <1>1
      <3>2. IsFiniteSet(1 .. Len(stack))
        BY <3>1, FS_Interval
      <3> QED
        BY <3>1, <3>2
    <2>2. IsFiniteSet(closing) /\ Cardinality(closing) \in Nat
      BY <2>1, FS_Subset, FS_CardinalityType
    <2>3. closing # {} <=> Has(stack, "didClose")
      BY DEF Has
    <2>4. Cardinality(closing) = 0 <=> closing = {}
      BY <2>2, FS_EmptySet
    <2>5. OnStack({"didClose"}) = Cardinality(closing)
      BY DEF OnStack
    <2> HIDE DEF closing
    <2> QED
      BY <2>2, <2>3, <2>4, <2>5
  <1>4. handle.refs = One(channel.handle) + One(handle.worker) + Len(posted)
                        + Cardinality(Holds(stack))
    BY DEF LifetimesInv, HandleRefsInv
  <1>5. /\ One(channel.handle \/ OnStack({"didClose"}) > 0)
              = One(channel.handle \/ Has(stack, "didClose"))
        /\ One(channel.handle \/ Has(stack, "didClose")) \in Nat
    BY <1>3 DEF One
  <1>6. /\ channel.refs = One(ws.channel)
                           + One(channel.handle \/ OnStack({"didClose"}) > 0)
        /\ channel.refs \in Nat
    BY <1>1, <1>5 DEF LifetimesInv, HoldersInv
  <1>7. handle.refs \in Nat
    BY <1>1, <1>4
  <1>8. TypeOK
    BY <1>6, <1>7 DEF LifetimesInv, TypeInv, TypeOK, Handle, Channel, Socket
  <1>9. ASSUME handle.refs = 0
        PROVE  thread = "returned"
    <2>1. One(handle.worker) = 0
      BY <1>1, <1>4, <1>9
    <2>2. ~handle.worker
      BY <2>1 DEF One
    <2> QED
      BY <2>2 DEF LifetimesInv, ClosingInv
  <1>10. ASSUME stack = <<>>, ~ws.channel
         PROVE  channel.refs = 0 /\ handle.refs = Len(posted)
    <2>1. ~Top("join") /\ ~Has(stack, "didClose")
      BY <1>10 DEF Top, Has
    <2>2. ~channel.handle
      BY <1>10, <2>1 DEF LifetimesInv, HoldersInv
    <2>3. ~handle.worker
      BY <2>2 DEF LifetimesInv, ClosingInv
    <2>4. /\ One(channel.handle) = 0 /\ One(handle.worker) = 0 /\ One(ws.channel) = 0
          /\ One(channel.handle \/ Has(stack, "didClose")) = 0
      BY <1>10, <2>1, <2>2, <2>3 DEF One
    <2>5. Cardinality(Holds(stack)) = 0
      <3>1. Holds(stack) = {}
        BY <1>10 DEF Holds
      <3> QED
        BY <3>1, FS_EmptySet
    <2> QED
      BY <1>1, <1>4, <1>5, <1>6, <2>4, <2>5
  <1> QED
    BY <1>2, <1>4, <1>6, <1>8, <1>9, <1>10 DEF Lifetimes, LifetimesInv, HoldersInv

-----------------------------------------------------------------------------
(* Order: what sequences of chunks keep.                                    *)

\* What is in a sequence after one was appended, or the first was taken.
LEMMA RangeFacts ==
    ASSUME NEW q \in Seq(Chunk), NEW x \in Chunk
    PROVE  /\ Range(Append(q, x)) = Range(q) \cup {x}
           /\ q # <<>> => /\ Head(q) \in Range(q)
                          /\ Range(Tail(q)) \subseteq Range(q)
  <1>1. Range(Append(q, x)) = Range(q) \cup {x}
    <2> DEFINE t == Append(q, x)
    <2>1. /\ DOMAIN t = 1 .. Len(q) + 1 /\ DOMAIN q = 1 .. Len(q) /\ Len(q) \in Nat
          /\ t[Len(q) + 1] = x /\ \A i \in 1 .. Len(q) : t[i] = q[i]
      OBVIOUS
    <2> HIDE DEF t
    <2>2. Range(t) = Range(q) \cup {x}
      BY <2>1 DEF Range
    <2> QED
      BY <2>2 DEF t
  <1>2. ASSUME q # <<>>
        PROVE  Head(q) \in Range(q) /\ Range(Tail(q)) \subseteq Range(q)
    <2>1. /\ Head(q) = q[1] /\ 1 \in DOMAIN q
          /\ \A i \in DOMAIN Tail(q) : i + 1 \in DOMAIN q /\ Tail(q)[i] = q[i + 1]
      BY <1>2
    <2> QED
      BY <2>1 DEF Range
  <1> QED
    BY <1>1, <1>2

\* Nothing is in an empty sequence.
LEMMA EmptyRange ==
    Range(<<>>) = {} /\ Rising(<<>>)
  BY DEF Range, Rising

\* A rising sequence without its first, and with one more.
LEMMA RisingTail ==
    ASSUME NEW q \in Seq(Chunk), q # <<>>, Rising(q)
    PROVE  /\ Rising(Tail(q))
           /\ Before({Head(q)}, Range(Tail(q)))
  <1>1. /\ Head(q) = q[1] /\ 1 \in DOMAIN q
        /\ DOMAIN Tail(q) \subseteq Int
        /\ \A i \in DOMAIN Tail(q) :
               i + 1 \in DOMAIN q /\ 1 < i + 1 /\ Tail(q)[i] = q[i + 1]
    OBVIOUS
  <1>2. ASSUME NEW a \in DOMAIN Tail(q), NEW b \in DOMAIN Tail(q), a < b
        PROVE  Precedes(Tail(q)[a], Tail(q)[b])
    <2>1. a + 1 < b + 1
      BY <1>1, <1>2
    <2> QED
      BY <1>1, <2>1 DEF Rising
  <1>3. ASSUME NEW y \in Range(Tail(q))
        PROVE  Precedes(Head(q), y)
    <2>1. PICK b \in DOMAIN Tail(q) : y = Tail(q)[b]
      BY DEF Range
    <2> QED
      BY <1>1, <2>1 DEF Rising
  <1> QED
    BY <1>2, <1>3 DEF Rising, Before

\* One that comes after all others goes to the end.
LEMMA RisingAppend ==
    ASSUME NEW q \in Seq(Chunk), NEW x \in Chunk, Rising(q), Before(Range(q), {x})
    PROVE  Rising(Append(q, x))
  <1> DEFINE t == Append(q, x)
  <1>1. /\ DOMAIN t = 1 .. Len(q) + 1 /\ DOMAIN q = 1 .. Len(q) /\ Len(q) \in Nat
        /\ t[Len(q) + 1] = x /\ \A i \in 1 .. Len(q) : t[i] = q[i]
    OBVIOUS
  <1> HIDE DEF t
  <1>2. ASSUME NEW a \in DOMAIN t, NEW b \in DOMAIN t, a < b
        PROVE  Precedes(t[a], t[b])
    <2>1. a \in 1 .. Len(q)
      BY <1>1, <1>2
    <2>2. CASE b = Len(q) + 1
      <3>1. t[a] \in Range(q) /\ t[b] = x
        BY <1>1, <2>1, <2>2 DEF Range
      <3> QED
        BY <3>1 DEF Before
    <2>3. CASE b # Len(q) + 1
      <3>1. b \in 1 .. Len(q)
        BY <1>1, <2>3
      <3> QED
        BY <1>1, <1>2, <2>1, <3>1 DEF Rising
    <2> QED
      BY <2>2, <2>3
  <1> QED
    BY <1>2 DEF Rising, t

\* What is left on the stack after an entry was pushed.
LEMMA LeftsPushed ==
    ASSUME NEW s \in Seq(Entry), NEW e \in Entry
    PROVE  /\ Lefts(<<e>> \o s) = Range(e.left) \cup Lefts(s)
           /\ LeftInOrder(<<e>> \o s) => LeftInOrder(s) /\ Rising(e.left)
           /\ LeftInOrder(<<e>> \o s) /\ e.left # <<>> => Lefts(s) = {}
           /\ /\ LeftInOrder(s) /\ Rising(e.left)
              /\ e.left = <<>> \/ \A i \in DOMAIN s : s[i].left = <<>>
              => LeftInOrder(<<e>> \o s)
  <1> DEFINE t == <<e>> \o s
  <1>1. /\ t \in Seq(Entry) /\ t[1] = e /\ Len(t) = Len(s) + 1 /\ 1 \in DOMAIN t
        /\ \A i \in DOMAIN s : i + 1 \in DOMAIN t /\ t[i + 1] = s[i] /\ i + 1 # 1
        /\ \A i \in DOMAIN t : i = 1 \/ (i - 1 \in DOMAIN s /\ t[i] = s[i - 1])
    BY Pushed
  <1>2. DOMAIN s \subseteq Int /\ DOMAIN t \subseteq Int
    BY <1>1
  <1> HIDE DEF t
  <1>3. Lefts(t) = Range(e.left) \cup Lefts(s)
    <2>1. \A x : x \in Lefts(t) <=> \E i \in DOMAIN t : x \in Range(t[i].left)
      BY DEF Lefts
    <2>2. \A x : x \in Lefts(s) <=> \E i \in DOMAIN s : x \in Range(s[i].left)
      BY DEF Lefts
    <2>3. ASSUME NEW x
          PROVE  x \in Lefts(t) <=> x \in Range(e.left) \cup Lefts(s)
      BY <1>1, <2>1, <2>2
    <2> QED
      BY <2>3
  <1>4. ASSUME LeftInOrder(t)
        PROVE  LeftInOrder(s) /\ Rising(e.left)
    <2>1. ASSUME NEW i \in DOMAIN s, NEW j \in DOMAIN s,
                 s[i].left # <<>>, s[j].left # <<>>
          PROVE  i = j
      <3>1. i + 1 = j + 1
        BY <1>1, <1>4, <2>1 DEF LeftInOrder
      <3> QED
        BY <1>2, <3>1
    <2> QED
      BY <1>1, <1>4, <2>1 DEF LeftInOrder
  <1>5. ASSUME LeftInOrder(t), e.left # <<>>
        PROVE  Lefts(s) = {}
    <2>1. \A i \in DOMAIN s : s[i].left = <<>>
      BY <1>1, <1>5 DEF LeftInOrder
    <2> QED
      BY <2>1, EmptyRange DEF Lefts
  <1>6. ASSUME LeftInOrder(s), Rising(e.left),
               e.left = <<>> \/ \A i \in DOMAIN s : s[i].left = <<>>
        PROVE  LeftInOrder(t)
    <2>1. ASSUME NEW i \in DOMAIN t, NEW j \in DOMAIN t,
                 t[i].left # <<>>, t[j].left # <<>>
          PROVE  i = j
      <3>1. CASE i = 1 \/ j = 1
        BY <1>1, <1>6, <2>1, <3>1
      <3>2. CASE i # 1 /\ j # 1
        <4>1. /\ i - 1 \in DOMAIN s /\ t[i] = s[i - 1]
              /\ j - 1 \in DOMAIN s /\ t[j] = s[j - 1]
          BY <1>1, <3>2
        <4>2. i - 1 = j - 1
          BY <4>1, <1>6, <2>1 DEF LeftInOrder
        <4> QED
          BY <1>2, <4>2
      <3> QED
        BY <3>1, <3>2
    <2> QED
      BY <1>1, <1>6, <2>1 DEF LeftInOrder
  <1> QED
    BY <1>3, <1>4, <1>5, <1>6 DEF t

\* t leaves nothing that s did not leave.
Leaves(t, s) ==
    Lefts(t) \subseteq Lefts(s) /\ (LeftInOrder(s) => LeftInOrder(t))

\* A call that has nothing to deliver is pushed.
LEMMA LeavesPushed ==
    ASSUME NEW s \in Seq(Entry),
           NEW name \in {"event", "dialog", "join", "disconnect", "fail", "didClose",
                         "buffer", "resume", "chunks"}
    PROVE  /\ <<Call(name)>> \o s \in Seq(Entry)
           /\ Leaves(<<Call(name)>> \o s, s)
  <1>1. Call(name) \in Entry /\ Call(name).left = <<>>
    BY EntryTypes
  <1>2. <<Call(name)>> \o s \in Seq(Entry)
    BY <1>1, Pushed
  <1> QED
    BY <1>1, <1>2, LeftsPushed, EmptyRange DEF Leaves

\* The top is popped.
LEMMA LeavesPopped ==
    ASSUME NEW s \in Seq(Entry), s # <<>>
    PROVE  Tail(s) \in Seq(Entry) /\ Leaves(Tail(s), s)
  <1>1. s[1] \in Entry /\ Tail(s) \in Seq(Entry) /\ s = <<s[1]>> \o Tail(s)
    BY TopAndRest
  <1>2. /\ Lefts(<<s[1]>> \o Tail(s)) = Range(s[1].left) \cup Lefts(Tail(s))
        /\ LeftInOrder(<<s[1]>> \o Tail(s)) => LeftInOrder(Tail(s))
    BY <1>1, LeftsPushed
  <1> QED
    BY <1>1, <1>2 DEF Leaves

\* Two such calls are pushed.
LEMMA LeavesTwo ==
    ASSUME NEW s \in Seq(Entry),
           NEW a \in {"event", "dialog", "join", "disconnect", "fail", "didClose",
                      "buffer", "resume", "chunks"},
           NEW b \in {"event", "dialog", "join", "disconnect", "fail", "didClose",
                      "buffer", "resume", "chunks"}
    PROVE  Leaves(<<Call(a)>> \o (<<Call(b)>> \o s), s)
  <1> DEFINE u == <<Call(b)>> \o s
  <1>1. u \in Seq(Entry) /\ Leaves(u, s)
    BY LeavesPushed
  <1> HIDE DEF u
  <1>2. Leaves(<<Call(a)>> \o u, u)
    BY <1>1, LeavesPushed
  <1>3. Leaves(<<Call(a)>> \o u, s)
    BY <1>1, <1>2 DEF Leaves
  <1> QED
    BY <1>3 DEF u

-----------------------------------------------------------------------------
(* Order: the stream to the page.                                           *)

\* A step that lets nothing pass: what waits in each place was there before.
Drains ==
    /\ ~overtaken' => ~overtaken
    /\ Range(channel'.buffer) \subseteq Range(channel.buffer)
    /\ Rising(channel.buffer) => Rising(channel'.buffer)
    /\ Leaves(stack', stack)
    /\ Range(handle'.receiveData) \subseteq Range(handle.receiveData)
    /\ Rising(handle.receiveData) => Rising(handle'.receiveData)
    /\ server'.sent = server.sent
    /\ Range(server'.script) \subseteq Range(server.script)
    /\ Rising(server.script) => Rising(server'.script)

\* The page hears of no other message.
NoNews ==
    \A a \in DOMAIN ws'.said :
        ws'.said[a][1] = "message" => a \in DOMAIN ws.said /\ ws'.said[a] = ws.said[a]

\* Such a step keeps the order of the chunks.
LEMMA DrainsFlow ==
    ASSUME StreamInv, Drains
    PROVE  ~overtaken' => FlowInv'
  BY DEF StreamInv, Drains, FlowInv, Before, Leaves

\* When the page hears no message, what it has heard stays before what is
\* ahead.
LEMMA NoNewsNews ==
    ASSUME StreamInv, NoNews, Ahead' \subseteq Ahead, ~overtaken' => ~overtaken
    PROVE  ~overtaken' => NewsInv'
  BY DEF StreamInv, NoNews, NewsInv

\* Both together.
LEMMA DrainsStream ==
    ASSUME StreamInv, Drains, NoNews
    PROVE  StreamInv'
  <1>1. Ahead' \subseteq Ahead
    BY DEF Drains, Leaves, Ahead
  <1>2. ~overtaken' => ~overtaken
    BY DEF Drains
  <1> QED
    BY <1>1, <1>2, DrainsFlow, NoNewsNews DEF StreamInv

\* A chunk moves from one place to the next, or the end is read again.
Moves(p2, q2, p, q) ==
    /\ Range(p2) \subseteq Range(p) \cup Range(q)
    /\ Range(q2) \subseteq Range(q)
    /\ Rising(p) /\ Rising(q) /\ Before(Range(p), Range(q))
          => Rising(p2) /\ Rising(q2) /\ Before(Range(p2), Range(q2))

\* The head of one queue moves to the end of the one before.
LEMMA Moved ==
    ASSUME NEW p \in Seq(Chunk), NEW q \in Seq(Chunk), q # <<>>, NEW q2,
           q2 = Tail(q) \/ (q2 = q /\ Head(q)[1] = "eof")
    PROVE  Moves(Append(p, Head(q)), q2, p, q)
  <1> DEFINE x == Head(q)
             p2 == Append(p, x)
  <1>1. x \in Chunk
    OBVIOUS
  <1>2. x \in Range(q) /\ Range(Tail(q)) \subseteq Range(q)
    BY <1>1, RangeFacts
  <1> HIDE DEF x
  <1>3. Range(p2) = Range(p) \cup {x}
    BY <1>1, RangeFacts
  <1>4. Range(q2) \subseteq Range(q)
    BY <1>2
  <1>5. ASSUME Rising(p), Rising(q), Before(Range(p), Range(q))
        PROVE  Rising(p2) /\ Rising(q2) /\ Before(Range(p2), Range(q2))
    <2>1. Before(Range(p), {x})
      BY <1>2, <1>5 DEF Before
    <2>2. Rising(p2)
      BY <1>1, <1>5, <2>1, RisingAppend
    <2>3. Rising(q2) /\ Before({x}, Range(q2))
      <3>1. CASE q2 = Tail(q)
        BY <1>5, <3>1, RisingTail DEF x
      <3>2. CASE q2 = q /\ x[1] = "eof"
        BY <1>5, <3>2 DEF Before, Precedes
      <3> QED
        BY <3>1, <3>2 DEF x
    <2>4. Before(Range(p2), Range(q2))
      BY <1>3, <1>4, <1>5, <2>3 DEF Before
    <2> QED
      BY <2>2, <2>3, <2>4
  <1> QED
    BY <1>2, <1>3, <1>4, <1>5 DEF Moves, x

\* ReadData moves a chunk from the socket to m_receiveData.
LEMMA ReadDataStream ==
    ASSUME TypeInv, StreamInv, UNCHANGED pageVars, ReadData
    PROVE  StreamInv'
  <1>1. /\ server.sent # <<>>
        /\ handle'.receiveData = Append(handle.receiveData, Head(server.sent))
        /\ server'.script = server.script
        /\ \/ Head(server.sent)[1] = "eof" /\ server'.sent = server.sent
           \/ server'.sent = Tail(server.sent)
        /\ UNCHANGED <<ws, channel, stack, overtaken>>
    BY ReadDataEffect DEF pageVars
  <1>2. handle.receiveData \in Seq(Chunk) /\ server.sent \in Seq(Chunk)
    BY DEF TypeInv, Handle
  <1>3. Moves(handle'.receiveData, server'.sent, handle.receiveData, server.sent)
    BY <1>1, <1>2, Moved
  <1>4. Ahead' \subseteq Ahead
    BY <1>1, <1>3 DEF Moves, Ahead
  <1>5. ASSUME ~overtaken, FlowInv
        PROVE  FlowInv'
    <2>1. UNCHANGED <<channel, stack>> /\ server'.script = server.script
      BY <1>1
    <2>2. Before(Range(handle.receiveData), Range(server.sent))
      BY <1>5 DEF FlowInv, Before
    <2>3. /\ Rising(handle'.receiveData) /\ Rising(server'.sent)
          /\ Before(Range(handle'.receiveData), Range(server'.sent))
      BY <1>3, <1>5, <2>2 DEF Moves, FlowInv
    <2>4. /\ Range(handle'.receiveData) \subseteq Range(handle.receiveData) \cup Range(server.sent)
          /\ Range(server'.sent) \subseteq Range(server.sent)
      BY <1>3 DEF Moves
    <2> QED
      BY <1>5, <2>1, <2>3, <2>4 DEF FlowInv, Before
  <1>6. NewsInv => NewsInv'
    BY <1>1, <1>4 DEF NewsInv
  <1> QED
    BY <1>1, <1>5, <1>6 DEF StreamInv

\* ServerSends moves one from the script to the socket.
LEMMA ServerSendsStream ==
    ASSUME TypeInv, StreamInv, UNCHANGED pageVars, ServerSends
    PROVE  StreamInv'
  <1>1. /\ server.script # <<>>
        /\ server'.sent = Append(server.sent, Head(server.script))
        /\ server'.script = Tail(server.script)
        /\ UNCHANGED <<handle, ws, channel, stack, overtaken>>
    BY ServerSendsEffect DEF pageVars
  <1>2. server.script \in Seq(Chunk) /\ server.sent \in Seq(Chunk)
    BY DEF TypeInv
  <1>3. Moves(server'.sent, server'.script, server.sent, server.script)
    BY <1>1, <1>2, Moved
  <1>4. Ahead' \subseteq Ahead
    BY <1>1, <1>3 DEF Moves, Ahead
  <1>5. ASSUME ~overtaken, FlowInv
        PROVE  FlowInv'
    <2>1. UNCHANGED <<handle, channel, stack>>
      BY <1>1
    <2>2. /\ Rising(server'.sent) /\ Rising(server'.script)
          /\ Before(Range(server'.sent), Range(server'.script))
      BY <1>3, <1>5 DEF Moves, FlowInv
    <2>3. /\ Range(server'.sent) \subseteq Range(server.sent) \cup Range(server.script)
          /\ Range(server'.script) \subseteq Range(server.script)
      BY <1>3 DEF Moves
    <2> QED
      BY <1>5, <2>1, <2>2, <2>3 DEF FlowInv, Before
  <1>6. NewsInv => NewsInv'
    BY <1>1, <1>4 DEF NewsInv
  <1> QED
    BY <1>1, <1>5, <1>6 DEF StreamInv

\* didReceiveData takes all that came; what an outer call has left is then
\* overtaken.
LEMMA DidReceiveDataStream ==
    ASSUME TypeInv, StreamInv, DidReceiveData
    PROVE  StreamInv'
  <1> DEFINE q == handle.receiveData
             e == Chunks(q)
  <1>1. /\ handle'.receiveData = <<>> /\ e \in Entry
        /\ stack' = <<e>> \o stack
        /\ ~overtaken' => /\ ~overtaken
                          /\ q = <<>> \/ \A i \in DOMAIN stack : stack[i].left = <<>>
        /\ UNCHANGED <<server, ws, channel>>
    BY DidReceiveDataEffect
  <1>2. stack \in Seq(Entry) /\ q \in Seq(Chunk) /\ e.left = q
    BY DEF TypeInv, Handle, Chunks
  <1> HIDE DEF e, q
  <1>3. Lefts(stack') = Range(q) \cup Lefts(stack)
    BY <1>1, <1>2, LeftsPushed
  <1>4. Range(handle'.receiveData) = {} /\ Rising(handle'.receiveData)
    BY <1>1, EmptyRange
  <1>5. Ahead' \subseteq Ahead
    BY <1>1, <1>3, <1>4 DEF Ahead, q
  <1>6. ASSUME ~overtaken', FlowInv
        PROVE  FlowInv'
    <2>1. LeftInOrder(stack) /\ Rising(q)
      BY <1>6 DEF FlowInv, q
    <2>2. LeftInOrder(stack')
      BY <1>1, <1>2, <1>6, <2>1, LeftsPushed
    <2>3. UNCHANGED <<server, channel>>
      BY <1>1
    <2> QED
      BY <1>3, <1>4, <1>6, <2>2, <2>3 DEF FlowInv, Before, q
  <1>7. NewsInv => NewsInv'
    BY <1>1, <1>5 DEF NewsInv
  <1> QED
    BY <1>1, <1>6, <1>7 DEF StreamInv

\* didReceiveData delivers one chunk, or leaves its loop.
LEMMA NextChunkStream ==
    ASSUME TypeInv, StreamInv, NextChunk
    PROVE  StreamInv'
  <1> DEFINE left == stack[1].left
             below == Tail(stack)
             rest == <<Chunks(Tail(left))>> \o below
             done == <<Chunks(<<>>)>> \o below
  <1>1. /\ Top("chunks") /\ left # <<>> /\ left \in Seq(Chunk)
        /\ handle'.receiveData = handle.receiveData
        /\ UNCHANGED <<server, ws, overtaken>>
    BY NextChunkEffect
  <1>2. /\ \/ channel' = channel
           \/ channel'.buffer = Append(channel.buffer, Head(left))
        /\ \/ stack' = done /\ channel' = channel
           \/ stack' = <<Call("join")>> \o done /\ channel' = channel
           \/ stack' = <<Call("buffer")>> \o rest
           \/ stack' = rest
    BY NextChunkEffect
  <1>3. /\ stack \in Seq(Entry) /\ stack # <<>> /\ channel.buffer \in Seq(Chunk)
    BY <1>1 DEF TypeInv, Top, Channel
  <1>4. stack[1] \in Entry /\ below \in Seq(Entry) /\ stack = <<stack[1]>> \o below
    BY <1>3, TopAndRest
  <1>5. /\ <<>> \in Seq(Chunk) /\ Tail(left) \in Seq(Chunk)
    BY <1>1
  <1>6. /\ Chunks(<<>>) \in Entry /\ Chunks(<<>>).left = <<>>
        /\ Chunks(Tail(left)) \in Entry /\ Chunks(Tail(left)).left = Tail(left)
    BY <1>5, EntryTypes
  <1> HIDE DEF left, below
  <1>7. /\ Lefts(stack) = Range(left) \cup Lefts(below)
        /\ LeftInOrder(stack) =>
             LeftInOrder(below) /\ Rising(left) /\ Lefts(below) = {}
    <2>1. /\ Lefts(<<stack[1]>> \o below) = Range(stack[1].left) \cup Lefts(below)
          /\ LeftInOrder(<<stack[1]>> \o below) =>
               LeftInOrder(below) /\ Rising(stack[1].left)
          /\ LeftInOrder(<<stack[1]>> \o below) /\ stack[1].left # <<>> =>
               Lefts(below) = {}
      BY <1>4, LeftsPushed
    <2> QED
      BY <1>1, <1>4, <2>1 DEF left
  <1>8. /\ done \in Seq(Entry) /\ rest \in Seq(Entry)
        /\ Lefts(done) = Lefts(below)
        /\ LeftInOrder(below) => LeftInOrder(done)
        /\ Lefts(rest) = Range(Tail(left)) \cup Lefts(below)
        /\ /\ LeftInOrder(below) /\ Rising(Tail(left))
           /\ \A i \in DOMAIN below : below[i].left = <<>>
           => LeftInOrder(rest)
    <2>1. done \in Seq(Entry) /\ rest \in Seq(Entry)
      BY <1>4, <1>6, Pushed
    <2>2. /\ Lefts(done) = Range(<<>>) \cup Lefts(below)
          /\ LeftInOrder(below) /\ Rising(<<>>) => LeftInOrder(done)
      BY <1>4, <1>6, LeftsPushed
    <2>3. /\ Lefts(rest) = Range(Tail(left)) \cup Lefts(below)
          /\ /\ LeftInOrder(below) /\ Rising(Tail(left))
             /\ \A i \in DOMAIN below : below[i].left = <<>>
             => LeftInOrder(rest)
      <3> DEFINE c == Chunks(Tail(left))
      <3>1. c \in Entry /\ c.left = Tail(left)
        BY <1>6
      <3> HIDE DEF c
      <3>2. /\ Lefts(<<c>> \o below) = Range(c.left) \cup Lefts(below)
            /\ /\ LeftInOrder(below) /\ Rising(c.left)
               /\ c.left = <<>> \/ \A i \in DOMAIN below : below[i].left = <<>>
               => LeftInOrder(<<c>> \o below)
        BY <1>4, <3>1, LeftsPushed
      <3>3. rest = <<c>> \o below
        BY DEF c
      <3> HIDE DEF rest
      <3> QED
        BY <3>1, <3>2, <3>3
    <2> QED
      BY <2>1, <2>2, <2>3, EmptyRange
  <1> HIDE DEF rest, done
  <1>9. stack' \in Seq(Entry) /\ (Leaves(stack', done) \/ Leaves(stack', rest))
        /\ (channel' # channel => Leaves(stack', rest))
    BY <1>2, <1>8, LeavesPushed DEF Leaves
  <1>10. /\ Head(left) \in Range(left) /\ Range(Tail(left)) \subseteq Range(left)
         /\ Range(channel'.buffer) \subseteq Range(channel.buffer) \cup {Head(left)}
    <2>1. Head(left) \in Chunk
      BY <1>1
    <2>2. Head(left) \in Range(left) /\ Range(Tail(left)) \subseteq Range(left)
      BY <1>1, <2>1, RangeFacts
    <2>3. Range(Append(channel.buffer, Head(left))) = Range(channel.buffer) \cup {Head(left)}
      BY <1>3, <2>1, RangeFacts
    <2> QED
      BY <1>2, <2>2, <2>3
  <1>11. Lefts(stack') \subseteq Lefts(stack)
    BY <1>7, <1>8, <1>9, <1>10 DEF Leaves
  <1>12. Ahead' \subseteq Ahead
    BY <1>1, <1>7, <1>10, <1>11 DEF Ahead
  <1>13. ASSUME FlowInv
         PROVE  FlowInv'
    <2>1. /\ LeftInOrder(below) /\ Rising(left) /\ Lefts(below) = {}
          /\ Rising(channel.buffer)
          /\ Before(Range(channel.buffer), Range(left))
      BY <1>7, <1>13 DEF FlowInv, Before
    <2>2. Rising(Tail(left)) /\ Before({Head(left)}, Range(Tail(left)))
      BY <1>1, <2>1, RisingTail
    <2>3. \A i \in DOMAIN below : below[i].left = <<>>
      <3>1. ASSUME NEW i \in DOMAIN below, below[i].left # <<>>
            PROVE  FALSE
        <4>1. below[i].left \in Seq(Chunk)
          <5>1. below[i] \in Entry
            BY <1>4
          <5> QED
            BY <5>1 DEF Entry
        <4>2. below[i].left[1] \in Range(below[i].left)
          BY <3>1, <4>1 DEF Range
        <4> QED
          BY <2>1, <4>2 DEF Lefts
      <3> QED
        BY <3>1
    <2>4. LeftInOrder(stack')
      BY <1>8, <1>9, <2>1, <2>2, <2>3 DEF Leaves
    <2>5. Before(Range(channel'.buffer), Lefts(stack')) /\ Rising(channel'.buffer)
      <3>1. CASE channel' = channel
        BY <3>1, <1>11, <1>13 DEF FlowInv, Before
      <3>2. CASE channel' # channel
        <4>1. channel'.buffer = Append(channel.buffer, Head(left)) /\ Head(left) \in Chunk
          BY <1>1, <1>2, <3>2
        <4>2. Before(Range(channel.buffer), {Head(left)})
          BY <1>10, <2>1 DEF Before
        <4>3. Rising(channel'.buffer)
          BY <1>3, <2>1, <4>1, <4>2, RisingAppend
        <4>4. Lefts(stack') \subseteq Range(Tail(left))
          BY <1>8, <1>9, <2>1, <3>2 DEF Leaves
        <4>5. Before(Range(channel'.buffer), Lefts(stack'))
          BY <1>10, <2>1, <2>2, <4>4 DEF Before
        <4> QED
          BY <4>3, <4>5
      <3> QED
        BY <3>1, <3>2
    <2>6. Before(Range(channel'.buffer),
                 Range(handle'.receiveData) \cup Range(server'.sent) \cup Range(server'.script))
      BY <1>1, <1>7, <1>10, <1>13 DEF FlowInv, Before
    <2>7. Before(Lefts(stack'),
                 Range(handle'.receiveData) \cup Range(server'.sent) \cup Range(server'.script))
      BY <1>1, <1>11, <1>13 DEF FlowInv, Before
    <2>8. /\ Rising(handle'.receiveData)
          /\ Rising(server'.sent) /\ Rising(server'.script)
          /\ Before(Range(handle'.receiveData), Range(server'.sent) \cup Range(server'.script))
          /\ Before(Range(server'.sent), Range(server'.script))
      BY <1>1, <1>13 DEF FlowInv
    <2> QED
      BY <2>4, <2>5, <2>6, <2>7, <2>8 DEF FlowInv, Before
  <1>14. NewsInv => NewsInv'
    BY <1>1, <1>12 DEF NewsInv
  <1> QED
    BY <1>1, <1>13, <1>14 DEF StreamInv

\* A frame is taken from the buffer.
LEMMA TailThins ==
    ASSUME TypeInv, Looks
    PROVE  /\ Range(Tail(channel.buffer)) \subseteq Range(channel.buffer)
           /\ Rising(channel.buffer) => Rising(Tail(channel.buffer))
  <1>1. channel.buffer \in Seq(Chunk) /\ channel.buffer # <<>> /\ Head(channel.buffer) \in Chunk
    BY DEF Looks
  <1> QED
    BY <1>1, RangeFacts, RisingTail

\* The page hears a message: it was the first in the buffer.
LEMMA MessageFrameStream ==
    ASSUME TypeInv, StreamInv, MessageFrame
    PROVE  StreamInv'
  <1>1. /\ Looks /\ Frame # "eof"
        /\ channel'.buffer = Tail(channel.buffer)
        /\ UNCHANGED <<handle, server, overtaken>>
        /\ \/ UNCHANGED <<ws, stack>>
           \/ /\ ws'.said = Append(ws.said, <<"message", Number>>)
              /\ stack' = <<Call("event")>> \o stack
    BY MessageFrameEffect DEF handleVars
  <1>2. /\ Range(channel'.buffer) \subseteq Range(channel.buffer)
        /\ Rising(channel.buffer) => Rising(channel'.buffer)
    BY <1>1, TailThins
  <1>3. stack \in Seq(Entry) /\ ws.said \in Seq(Event) /\ channel.buffer \in Seq(Chunk)
        /\ channel.buffer # <<>>
    BY <1>1 DEF TypeInv, Socket, Looks
  <1>4. Drains
    <2>1. Leaves(stack', stack)
      BY <1>1, <1>3, LeavesPushed DEF Leaves
    <2> QED
      BY <1>1, <1>2, <2>1 DEF Drains
  <1>5. CASE UNCHANGED <<ws, stack>>
    <2>1. NoNews
      BY <1>5 DEF NoNews
    <2> QED
      BY <1>4, <2>1, DrainsStream
  <1>6. CASE ws'.said = Append(ws.said, <<"message", Number>>)
    <2>1. ASSUME ~overtaken, FlowInv, NewsInv
          PROVE  NewsInv'
      <3>1. Ahead' \subseteq Ahead
        BY <1>4 DEF Drains, Leaves, Ahead
      <3>2. ASSUME NEW y \in Ahead'
            PROVE  Number < y[2]
        <4>1. Precedes(channel.buffer[1], y)
          <5>1. /\ Head(channel.buffer) = channel.buffer[1]
                /\ channel.buffer[1] \in Range(channel.buffer)
            BY <1>3 DEF Range
          <5>2. CASE y \in Range(channel'.buffer)
            <6>1. Before({Head(channel.buffer)}, Range(Tail(channel.buffer)))
              BY <1>3, <2>1, RisingTail DEF FlowInv
            <6> QED
              BY <1>1, <5>1, <5>2, <6>1 DEF Before
          <5>3. CASE y \notin Range(channel'.buffer)
            <6>1. y \in Lefts(stack) \cup Range(handle.receiveData)
                        \cup Range(server.sent) \cup Range(server.script)
              BY <1>4, <3>2, <5>3, <1>1 DEF Drains, Leaves, Ahead
            <6> QED
              BY <2>1, <5>1, <6>1 DEF FlowInv, Before
          <5> QED
            BY <5>2, <5>3
        <4> QED
          BY <1>1, <4>1 DEF Precedes, Frame, Number
      <3>3. ASSUME NEW a \in DOMAIN ws'.said, ws'.said[a][1] = "message",
                   NEW y \in Ahead'
            PROVE  ws'.said[a][2] < y[2]
        <4>1. CASE a \in DOMAIN ws.said
          <5>1. ws'.said[a] = ws.said[a]
            BY <1>3, <1>6, <4>1
          <5> QED
            BY <2>1, <3>1, <3>3, <4>1, <5>1 DEF NewsInv
        <4>2. CASE a \notin DOMAIN ws.said
          <5>1. ws'.said[a] = <<"message", Number>>
            BY <1>3, <1>6, <3>3, <4>2
          <5> QED
            BY <3>2, <3>3, <5>1
        <4> QED
          BY <4>1, <4>2
      <3> QED
        BY <3>3 DEF NewsInv
    <2> QED
      BY <1>1, <1>4, <2>1, DrainsFlow DEF StreamInv
  <1> QED
    BY <1>1, <1>5, <1>6

-----------------------------------------------------------------------------
(* Order: what the page heard.                                              *)

\* The ranks as numbers.
LEMMA Ranks ==
    /\ Rank("open") = 1 /\ Rank("message") = 2 /\ Rank("error") = 3
    /\ Rank("close") = 4 /\ Rank("stop") = 5
  BY DEF Rank

\* A step of which the page hears nothing.
Unheard ==
    /\ ws'.said = ws.said
    /\ ws'.state = "CONNECTING" => ws.state = "CONNECTING"
    /\ ws.stopped => ws'.stopped
    /\ channel'.client => channel.client
    /\ channel'.client /\ ~channel'.discard => ~channel.discard
    /\ channel'.mode = channel.mode
    /\ overtaken => overtaken'

\* When the page hears nothing, what it heard stays in order.
LEMMA UnheardHeard ==
    ASSUME HeardInv, Unheard
    PROVE  HeardInv'
  <1>1. SaidInOrder'
    BY DEF HeardInv, Unheard, SaidInOrder
  <1> QED
    BY <1>1 DEF HeardInv, Unheard

\* One that it hears of.
LEMMA MoreSaid ==
    ASSUME TypeInv, SaidInOrder, NEW event \in Event,
           ws'.said = Append(ws.said, event), overtaken' = overtaken,
           \A i \in DOMAIN ws.said :
               \/ Rank(ws.said[i][1]) < Rank(event[1])
               \/ /\ ws.said[i][1] = "message" /\ event[1] = "message"
                  /\ ws.said[i][2] < event[2] \/ overtaken,
           event[1] = "message" => ws.said # <<>> /\ ws.said[1] = <<"open", 0>>
    PROVE  /\ SaidInOrder'
           /\ ws.said # <<>> => ws'.said # <<>> /\ ws'.said[1] = ws.said[1]
           /\ ws'.said # <<>>
           /\ ws.said = <<>> => ws'.said[1] = event
           /\ \A i \in DOMAIN ws'.said :
                  \/ i \in DOMAIN ws.said /\ ws'.said[i] = ws.said[i]
                  \/ ws'.said[i] = event
  <1> DEFINE n == Len(ws.said)
  <1>1. ws.said \in Seq(Event)
    BY DEF TypeInv, Socket
  <1>2. /\ n \in Nat /\ DOMAIN ws.said = 1 .. n /\ DOMAIN ws'.said = 1 .. n + 1
        /\ ws'.said[n + 1] = event
        /\ \A i \in 1 .. n : ws'.said[i] = ws.said[i]
        /\ ws.said # <<>> => n >= 1
        /\ ws'.said # <<>>
        /\ ws.said = <<>> => n = 0
    BY <1>1
  <1> HIDE DEF n
  <1>3. ASSUME NEW i \in DOMAIN ws'.said, NEW j \in DOMAIN ws'.said, i < j
        PROVE  LET a == ws'.said[i]
                   b == ws'.said[j]
               IN  \/ Rank(a[1]) < Rank(b[1])
                   \/ /\ a[1] = "message" /\ b[1] = "message"
                      /\ a[2] < b[2] \/ overtaken
    <2>1. i \in 1 .. n /\ ws'.said[i] = ws.said[i]
      BY <1>2, <1>3
    <2>2. CASE j = n + 1
      <3>1. ws'.said[j] = event
        BY <1>2, <2>2
      <3> QED
        BY <1>2, <2>1, <3>1
    <2>3. CASE j # n + 1
      <3>1. j \in 1 .. n /\ ws'.said[j] = ws.said[j]
        BY <1>2, <2>3
      <3> QED
        BY <1>2, <1>3, <2>1, <3>1 DEF SaidInOrder
    <2> QED
      BY <2>2, <2>3
  <1>4. ws.said # <<>> => ws'.said[1] = ws.said[1]
    BY <1>2
  <1>5. ASSUME NEW i \in DOMAIN ws'.said, ws'.said[i][1] = "message"
        PROVE  ws'.said[1] = <<"open", 0>>
    <2>1. CASE i = n + 1
      BY <1>2, <1>4, <1>5, <2>1
    <2>2. CASE i # n + 1
      <3>1. i \in 1 .. n /\ ws'.said[i] = ws.said[i] /\ n >= 1
        BY <1>2, <2>2
      <3>2. ws.said[1] = <<"open", 0>> /\ ws'.said[1] = ws.said[1]
        BY <1>2, <1>5, <3>1 DEF SaidInOrder
      <3> QED
        BY <3>2
    <2> QED
      BY <2>1, <2>2
  <1>6. SaidInOrder'
    BY <1>3, <1>5 DEF SaidInOrder
  <1>7. \A i \in DOMAIN ws'.said :
            \/ i \in DOMAIN ws.said /\ ws'.said[i] = ws.said[i]
            \/ ws'.said[i] = event
    BY <1>2
  <1>8. ws.said = <<>> => ws'.said[1] = event
    BY <1>2
  <1> QED
    BY <1>2, <1>4, <1>6, <1>7, <1>8

\* Of the end, by an error, a close or a stop, it hears when it may.
LEMMA EndIsHeard ==
    ASSUME TypeInv, HeardInv, NEW name \in {"error", "close", "stop"},
           ws'.said = Append(ws.said, <<name, 0>>), overtaken' = overtaken,
           ws'.state = "CLOSED", channel'.mode \in {channel.mode, "Failed"},
           \A i \in DOMAIN ws.said : Rank(ws.said[i][1]) < Rank(name),
           ws.stopped => ws'.stopped, name = "stop" => ws'.stopped,
           name # "error" => ~channel'.client,
           name = "error" => channel'.discard,
           channel'.client => channel.client
    PROVE  HeardInv' /\ NoNews
  <1>1. <<name, 0>> \in Event /\ <<name, 0>>[1] = name /\ name # "message"
    BY DEF Event
  <1>2. /\ SaidInOrder'
        /\ ws.said # <<>> => ws'.said # <<>> /\ ws'.said[1] = ws.said[1]
        /\ \A i \in DOMAIN ws'.said :
               \/ i \in DOMAIN ws.said /\ ws'.said[i] = ws.said[i]
               \/ ws'.said[i] = <<name, 0>>
    BY <1>1, MoreSaid DEF HeardInv
  <1>3. ASSUME NEW i \in DOMAIN ws'.said
        PROVE  /\ ~ws'.stopped => Rank(ws'.said[i][1]) <= 4
               /\ channel'.client => Rank(ws'.said[i][1]) <= 3
               /\ channel'.client /\ ~channel'.discard => Rank(ws'.said[i][1]) <= 2
    <2>1. CASE i \in DOMAIN ws.said /\ ws'.said[i] = ws.said[i]
      BY <2>1 DEF HeardInv
    <2>2. CASE ws'.said[i] = <<name, 0>>
      BY <1>1, <2>2, Ranks
    <2> QED
      BY <1>2, <2>1, <2>2
  <1>4. HeardInv'
    BY <1>2, <1>3 DEF HeardInv
  <1>5. NoNews
    BY <1>1, <1>2 DEF NoNews
  <1> QED
    BY <1>4, <1>5

\* open is the first that the page hears, or error is.
LEMMA ServerHandshakeHeard ==
    ASSUME TypeInv, HeardInv, ServerHandshake
    PROVE  HeardInv' /\ NoNews
  <1>1. /\ Looks /\ channel.mode = "Incomplete" /\ overtaken' = overtaken
        /\ \/ /\ channel'.mode = "Connected"
              /\ ws'.stopped = ws.stopped /\ ws'.state = "OPEN"
              /\ ws'.said = Append(ws.said, <<"open", 0>>)
           \/ FailsNow /\ channel'.mode = "Failed"
    BY ServerHandshakeEffect DEF SocketKept
  <1>2. ws.said = <<>>
    BY <1>1 DEF HeardInv, Looks
  <1>3. CASE /\ channel'.mode = "Connected"
             /\ ws'.stopped = ws.stopped /\ ws'.state = "OPEN"
             /\ ws'.said = Append(ws.said, <<"open", 0>>)
    <2>1. <<"open", 0>> \in Event
      BY DEF Event
    <2>2. /\ SaidInOrder' /\ ws'.said # <<>> /\ ws'.said[1] = <<"open", 0>>
          /\ \A i \in DOMAIN ws'.said : ws'.said[i] = <<"open", 0>>
      BY <1>1, <1>2, <1>3, <2>1, MoreSaid DEF HeardInv
    <2>3. HeardInv'
      BY <1>3, <2>2, Ranks DEF HeardInv
    <2> QED
      BY <2>2, <2>3 DEF NoNews
  <1>4. CASE FailsNow /\ channel'.mode = "Failed"
    BY <1>1, <1>2, <1>4, EndIsHeard DEF FailsNow, SocketKept
  <1> QED
    BY <1>1, <1>3, <1>4

\* error comes after open and messages only, as the channel discards
\* everything after it.
LEMMA FrameFailsHeard ==
    ASSUME TypeInv, HeardInv, FrameFails
    PROVE  HeardInv' /\ NoNews
  <1>1. /\ Looks /\ FailsNow /\ channel'.mode = channel.mode /\ overtaken' = overtaken
    BY FrameFailsEffect
  <1>2. \A i \in DOMAIN ws.said : Rank(ws.said[i][1]) < Rank("error")
    <2>1. ASSUME NEW i \in DOMAIN ws.said
          PROVE  Rank(ws.said[i][1]) < 3
      <3>1. Rank(ws.said[i][1]) <= 2
        BY <1>1 DEF HeardInv, Looks
      <3>2. ws.said[i] \in Event
        BY DEF TypeInv, Socket
      <3>3. Rank(ws.said[i][1]) \in Int
        BY <3>2, Ranks DEF Event
      <3> QED
        BY <3>1, <3>3
    <2> QED
      BY <2>1, Ranks
  <1> QED
    BY <1>1, <1>2, EndIsHeard DEF FailsNow, SocketKept

\* What the page heard has a rank.
LEMMA RankTypes ==
    ASSUME TypeInv, NEW i \in DOMAIN ws.said
    PROVE  /\ Rank(ws.said[i][1]) \in 1 .. 5
           /\ Rank(ws.said[i][1]) = 2 => ws.said[i][1] = "message"
  <1>1. ws.said[i] \in Event
    BY DEF TypeInv, Socket
  <1>2. ws.said[i][1] \in {"open", "message", "error", "close", "stop"}
    BY <1>1 DEF Event
  <1> QED
    BY <1>2, Ranks

\* A message comes after open and before any end, and after the messages with
\* smaller numbers.
LEMMA MessageFrameHeard ==
    ASSUME TypeInv, StreamInv, HeardInv, MessageFrame
    PROVE  HeardInv'
  <1>1. /\ Looks /\ channel.mode = "Connected" /\ Number \in Nat
        /\ ChannelKept(channel) /\ overtaken' = overtaken
        /\ \/ UNCHANGED <<ws, stack>>
           \/ /\ SocketKept /\ ws'.state = ws.state
              /\ ws'.said = Append(ws.said, <<"message", Number>>)
    BY MessageFrameEffect
  <1>2. CASE UNCHANGED <<ws, stack>>
    BY <1>1, <1>2, UnheardHeard DEF Unheard, ChannelKept
  <1>3. CASE /\ SocketKept /\ ws'.state = ws.state
             /\ ws'.said = Append(ws.said, <<"message", Number>>)
    <2> DEFINE event == <<"message", Number>>
    <2>1. event \in Event /\ event[1] = "message" /\ event[2] = Number
      BY <1>1 DEF Event
    <2>2. ws.said # <<>> /\ ws.said[1] = <<"open", 0>>
      BY <1>1 DEF HeardInv
    <2>3. ASSUME NEW i \in DOMAIN ws.said
          PROVE  /\ \/ Rank(ws.said[i][1]) < Rank("message")
                    \/ /\ ws.said[i][1] = "message"
                       /\ ws.said[i][2] < Number \/ overtaken
                 /\ Rank(ws.said[i][1]) <= 2
      <3>1. Rank(ws.said[i][1]) <= 2
        BY <1>1 DEF HeardInv, Looks
      <3>2. Rank(ws.said[i][1]) < 2 \/ ws.said[i][1] = "message"
        BY <3>1, RankTypes
      <3>3. ASSUME ws.said[i][1] = "message", ~overtaken
            PROVE  ws.said[i][2] < Number
        <4>1. channel.buffer[1] \in Ahead
          <5>1. channel.buffer \in Seq(Chunk) /\ channel.buffer # <<>>
            BY <1>1 DEF Looks
          <5>2. channel.buffer[1] \in Range(channel.buffer)
            BY <5>1 DEF Range
          <5> QED
            BY <5>2 DEF Ahead
        <4> QED
          BY <3>3, <4>1 DEF StreamInv, NewsInv, Number
      <3> QED
        BY <3>1, <3>2, <3>3, Ranks
    <2> HIDE DEF event
    <2>4. /\ SaidInOrder'
          /\ ws'.said # <<>> /\ ws'.said[1] = ws.said[1]
          /\ \A i \in DOMAIN ws'.said :
                 \/ i \in DOMAIN ws.said /\ ws'.said[i] = ws.said[i]
                 \/ ws'.said[i] = event
      <3>1. ws'.said = Append(ws.said, event)
        BY <1>3 DEF event
      <3>2. \A i \in DOMAIN ws.said :
               \/ Rank(ws.said[i][1]) < Rank(event[1])
               \/ /\ ws.said[i][1] = "message" /\ event[1] = "message"
                  /\ ws.said[i][2] < event[2] \/ overtaken
        BY <2>1, <2>3
      <3>3. SaidInOrder
        BY DEF HeardInv
      <3> QED
        BY <1>1, <2>1, <2>2, <3>1, <3>2, <3>3, MoreSaid
    <2>5. ASSUME NEW i \in DOMAIN ws'.said
          PROVE  Rank(ws'.said[i][1]) <= 2
      BY <2>1, <2>3, <2>4, Ranks
    <2>6. ASSUME NEW i \in DOMAIN ws'.said
          PROVE  Rank(ws'.said[i][1]) <= 3 /\ Rank(ws'.said[i][1]) <= 4
      <3>1. \/ i \in DOMAIN ws.said /\ ws'.said[i] = ws.said[i]
            \/ ws'.said[i][1] = "message"
        BY <2>1, <2>4
      <3>2. Rank(ws'.said[i][1]) \in Int
        BY <3>1, Ranks, RankTypes
      <3> QED
        BY <2>5, <3>2
    <2>7. ws'.state # "CONNECTING" /\ channel'.mode = "Connected"
      BY <1>1, <1>3, <2>2 DEF HeardInv, ChannelKept
    <2> QED
      BY <2>2, <2>4, <2>5, <2>6, <2>7 DEF HeardInv
  <1> QED
    BY <1>1, <1>2, <1>3

-----------------------------------------------------------------------------
(* Order: the stream to the server.                                         *)

\* Steps that leave the queue alone.
LEMMA WireUntouched ==
    ASSUME WireInv, UNCHANGED <<wire, sending>>,
           handle'.sendData = handle.sendData, handle'.written = handle.written
    PROVE  WireInv'
  BY DEF WireInv, Offset

\* A frame is put behind the others in the queue.
LEMMA AppendFacts ==
    ASSUME NEW q \in Seq(Seq(Nat)), NEW e \in Seq(Nat)
    PROVE  /\ Len(q) \in Nat /\ DOMAIN q = 1 .. Len(q)
           /\ Len(Append(q, e)) = Len(q) + 1
           /\ DOMAIN Append(q, e) = 1 .. Len(q) + 1
           /\ Append(q, e)[Len(q) + 1] = e
           /\ \A i \in 1 .. Len(q) : Append(q, e)[i] = q[i]
           /\ q = <<>> <=> Len(q) = 0
           /\ Append(q, e) # <<>>
  <1>1. /\ Len(q) \in Nat /\ DOMAIN q = 1 .. Len(q)
        /\ q = <<>> <=> Len(q) = 0
    OBVIOUS
  <1>2. /\ Len(Append(q, e)) = Len(q) + 1
        /\ Append(q, e)[Len(q) + 1] = e
        /\ \A i \in 1 .. Len(q) : Append(q, e)[i] = q[i]
    OBVIOUS
  <1>3. DOMAIN Append(q, e) = 1 .. Len(q) + 1
    OBVIOUS
  <1>4. Append(q, e) # <<>>
    BY <1>1, <1>2
  <1> QED
    BY <1>1, <1>2, <1>3, <1>4

\* A new frame is whole and follows the last one in the queue.
LEMMA WireSends ==
    ASSUME TypeInv, WireInv, UNCHANGED <<wire, sending>>,
           handle'.sendData = Append(handle.sendData,
                                 <<2 * handle.written + 1, 2 * handle.written + 2>>),
           handle'.written = handle.written + 1
    PROVE  WireInv'
  <1> DEFINE q == handle.sendData
             n == Len(q)
             frame == <<2 * handle.written + 1, 2 * handle.written + 2>>
             r == handle'.sendData
             w == handle.written
  <1>1. /\ q \in Seq(Seq(Nat)) /\ w \in Nat /\ wire \in Seq(Nat)
        /\ sending \in Seq(Nat)
    BY DEF TypeInv, Handle
  <1>2. /\ frame \in Seq(Nat) /\ Len(frame) = 2
        /\ FollowOn(2 * w, frame)
    <2>1. frame \in Seq(Nat) /\ Len(frame) = 2 /\ DOMAIN frame = {1, 2}
      BY <1>1
    <2>2. frame[1] = 2 * w + 1 /\ frame[2] = 2 * w + 2
      OBVIOUS
    <2> QED
      BY <2>1, <2>2 DEF FollowOn
  <1>3. r = Append(q, frame)
    OBVIOUS
  <1>4. handle'.written = w + 1
    OBVIOUS
  <1> HIDE DEF frame, q, r, w
  <1>5. /\ n \in Nat /\ DOMAIN q = 1 .. n /\ DOMAIN r = 1 .. n + 1 /\ Len(r) = n + 1
        /\ r[n + 1] = frame /\ \A i \in 1 .. n : r[i] = q[i]
        /\ q = <<>> <=> n = 0
        /\ r # <<>>
    <2>1. /\ Len(q) \in Nat /\ DOMAIN q = 1 .. Len(q)
          /\ Len(Append(q, frame)) = Len(q) + 1
          /\ DOMAIN Append(q, frame) = 1 .. Len(q) + 1
          /\ Append(q, frame)[Len(q) + 1] = frame
          /\ \A i \in 1 .. Len(q) : Append(q, frame)[i] = q[i]
          /\ q = <<>> <=> Len(q) = 0
          /\ Append(q, frame) # <<>>
      BY <1>1, <1>2, AppendFacts
    <2> QED
      BY <1>3, <2>1
  <1> HIDE DEF n
  <1>6. (w + 1) - (n + 1) = w - n
    BY <1>1, <1>5
  <1>7. ASSUME NEW i
        PROVE  Offset(i)' = Offset(i)
    <2>1. Offset(i)' = 2 * ((w + 1) - (n + 1) + i - 1)
      BY <1>4, <1>5 DEF Offset, r
    <2>2. Offset(i) = 2 * (w - n + i - 1)
      BY DEF Offset, w, n, q
    <2> QED
      BY <1>6, <2>1, <2>2
  <1>8. Offset(n + 1) = 2 * w
    <2>1. Offset(n + 1) = 2 * (w - n + (n + 1) - 1)
      BY DEF Offset, w, n, q
    <2> QED
      BY <1>1, <1>5, <2>1
  <1>9. ASSUME NEW i \in DOMAIN r, i > 1 \/ sending # <<>>
        PROVE  Len(r[i]) = 2 /\ FollowOn(Offset(i), r[i])
    <2>1. CASE i = n + 1
      BY <1>2, <1>5, <1>8, <2>1
    <2>2. CASE i # n + 1
      <3>1. i \in DOMAIN q /\ r[i] = q[i]
        BY <1>5, <2>2
      <3> QED
        BY <1>9, <3>1 DEF WireInv, q
    <2> QED
      BY <2>1, <2>2
  <1>10. ASSUME sending = <<>>
        PROVE  /\ Len(r[1]) > 0 /\ FollowOn(Len(wire), r[1])
               /\ Len(wire) + Len(r[1]) = Offset(2)
    <2>1. CASE n = 0
      <3>1. r[1] = frame /\ Len(sending) = 0
        BY <1>5, <1>10, <2>1
      <3>2. Len(wire) + Len(sending) = Offset(1)
        BY <1>5, <2>1 DEF WireInv, q
      <3>3. Offset(1) = 2 * w
        BY <1>8, <2>1
      <3>4. Len(wire) = 2 * w
        BY <1>1, <3>1, <3>2, <3>3
      <3>5. Offset(2) = 2 * w + 2
        <4>1. Offset(2) = 2 * (w - n + 2 - 1)
          BY DEF Offset, w, n, q
        <4> QED
          BY <1>1, <2>1, <4>1
      <3>6. Len(r[1]) = 2 /\ FollowOn(Len(wire), r[1])
        BY <1>2, <3>1, <3>4
      <3> QED
        BY <3>4, <3>5, <3>6
    <2>2. CASE n # 0
      <3>1. r[1] = q[1] /\ q # <<>>
        BY <1>5, <2>2
      <3> QED
        BY <1>10, <3>1 DEF WireInv, q
    <2> QED
      BY <2>1, <2>2
  <1>11. sending # <<>> => Len(wire) + Len(sending) = Offset(1)
    BY DEF WireInv
  <1>12. FollowOn(0, wire) /\ FollowOn(Len(wire), sending)
    BY DEF WireInv
  <1> QED
    BY <1>5, <1>7, <1>9, <1>10, <1>11, <1>12 DEF WireInv, r

\* Frames from a place in the queue.
LEMMA TailFacts ==
    ASSUME NEW S, NEW q \in Seq(S), q # <<>>
    PROVE  /\ Len(q) \in Nat /\ DOMAIN q = 1 .. Len(q) /\ Len(q) > 0
           /\ Tail(q) \in Seq(S)
           /\ Len(Tail(q)) = Len(q) - 1
           /\ DOMAIN Tail(q) = 1 .. Len(q) - 1
           /\ \A i \in 1 .. Len(q) - 1 : Tail(q)[i] = q[i + 1]
           /\ Head(q) = q[1]
  <1>1. Len(q) \in Nat /\ DOMAIN q = 1 .. Len(q) /\ Len(q) > 0
    OBVIOUS
  <1>2. Tail(q) \in Seq(S) /\ Len(Tail(q)) = Len(q) - 1 /\ Head(q) = q[1]
    OBVIOUS
  <1>3. DOMAIN Tail(q) = 1 .. Len(q) - 1
    BY <1>2
  <1>4. \A i \in 1 .. Len(q) - 1 : Tail(q)[i] = q[i + 1]
    OBVIOUS
  <1> QED
    BY <1>1, <1>2, <1>3, <1>4

\* The worker takes the first of the queue, which follows what was sent.
LEMMA WireTaken ==
    ASSUME TypeInv, WireInv, wire' = wire, sending = <<>>, handle.sendData # <<>>,
           sending' = Head(handle.sendData),
           handle'.sendData = Tail(handle.sendData),
           handle'.written = handle.written
    PROVE  WireInv'
  <1> DEFINE q == handle.sendData
             n == Len(q)
             w == handle.written
             r == handle'.sendData
  <1>1. q \in Seq(Seq(Nat)) /\ w \in Nat /\ q # <<>>
    BY DEF TypeInv, Handle
  <1>2. /\ n \in Nat /\ DOMAIN q = 1 .. n /\ n > 0
        /\ Len(r) = n - 1 /\ DOMAIN r = 1 .. n - 1
        /\ \A i \in 1 .. n - 1 : r[i] = q[i + 1]
        /\ sending' = q[1]
    <2>1. r = Tail(q) /\ sending' = Head(q)
      OBVIOUS
    <2> HIDE DEF q, r
    <2> QED
      BY <1>1, <2>1, TailFacts
  <1>3. ASSUME NEW i \in Int
        PROVE  Offset(i)' = Offset(i + 1)
    <2>1. Offset(i)' = 2 * (w - (n - 1) + i - 1)
      BY <1>2 DEF Offset
    <2>2. Offset(i + 1) = 2 * (w - n + (i + 1) - 1)
      BY DEF Offset
    <2> HIDE DEF q, n, w
    <2> QED
      BY <1>1, <1>2, <1>3, <2>1, <2>2
  <1>4. /\ Len(q[1]) > 0 /\ FollowOn(Len(wire), q[1])
        /\ Len(wire) + Len(q[1]) = Offset(2)
        /\ FollowOn(0, wire)
        /\ \A i \in DOMAIN q : i > 1 => Len(q[i]) = 2 /\ FollowOn(Offset(i), q[i])
    BY <1>1 DEF WireInv
  <1> HIDE DEF q, n, w
  <1>5. sending' # <<>>
    BY <1>2, <1>4
  <1>6. ASSUME NEW i \in DOMAIN r
        PROVE  Len(r[i]) = 2 /\ FollowOn(Offset(i)', r[i])
    <2>1. i \in Int /\ i + 1 \in DOMAIN q /\ i + 1 > 1 /\ r[i] = q[i + 1]
      BY <1>2
    <2>2. Offset(i)' = Offset(i + 1)
      BY <1>3, <2>1
    <2> QED
      BY <1>4, <2>1, <2>2
  <1>7. Len(wire') + Len(sending') = Offset(1)'
    <2>1. Offset(1)' = Offset(2)
      <3>1. Offset(1)' = Offset(1 + 1)
        BY <1>3
      <3> QED
        BY <3>1
    <2> QED
      BY <1>2, <1>4, <2>1
  <1>8. FollowOn(0, wire)' /\ FollowOn(Len(wire), sending)'
    BY <1>2, <1>4 DEF FollowOn
  <1> QED
    BY <1>5, <1>6, <1>7, <1>8 DEF WireInv, r

\* How long the rest of a sequence is.
LEMMA RestLength ==
    ASSUME NEW s \in Seq(Nat), NEW k \in 0 .. Len(s)
    PROVE  Len(SubSeq(s, k + 1, Len(s))) = Len(s) - k
  <1>1. Len(s) \in Nat /\ k \in Nat /\ k <= Len(s)
    OBVIOUS
  <1>2. CASE k + 1 <= Len(s)
    <2>1. Len(SubSeq(s, k + 1, Len(s))) = (Len(s) - (k + 1)) + 1
      BY <1>1, <1>2
    <2> QED
      BY <1>1, <2>1
  <1>3. CASE k = Len(s)
    <2>1. Len(SubSeq(s, k + 1, Len(s))) = 0
      BY <1>1, <1>3
    <2> QED
      BY <1>1, <1>3, <2>1
  <1> QED
    BY <1>1, <1>2, <1>3

\* Both parts of a sequence follow on where it is cut.
LEMMA CutFollows ==
    ASSUME NEW u \in Seq(Nat), NEW s \in Seq(Nat), NEW k \in 0 .. Len(s),
           FollowOn(0, u), FollowOn(Len(u), s)
    PROVE  /\ Len(u \o SubSeq(s, 1, k)) = Len(u) + k
           /\ FollowOn(0, u \o SubSeq(s, 1, k))
           /\ Len(SubSeq(s, k + 1, Len(s))) = Len(s) - k
           /\ FollowOn(Len(u) + k, SubSeq(s, k + 1, Len(s)))
  <1> DEFINE a == SubSeq(s, 1, k)
             b == SubSeq(s, k + 1, Len(s))
             c == u \o a
  <1>1. /\ Len(s) \in Nat /\ k \in Nat /\ k <= Len(s) /\ Len(u) \in Nat
        /\ DOMAIN s = 1 .. Len(s) /\ DOMAIN u = 1 .. Len(u)
    OBVIOUS
  <1>2. a \in Seq(Nat) /\ Len(a) = k /\ \A i \in 1 .. k : a[i] = s[i]
    BY <1>1
  <1>3. /\ b \in Seq(Nat) /\ Len(b) = Len(s) - k /\ DOMAIN b = 1 .. Len(s) - k
        /\ \A i \in 1 .. Len(s) - k : b[i] = s[k + i]
    <2>1. k + 1 \in Int /\ Len(s) \in Int /\ Len(s) - (k + 1) + 1 = Len(s) - k
      BY <1>1
    <2>2. b \in Seq(Nat) /\ Len(b) = Len(s) - k
      <3>1. b \in Seq(Nat)
        OBVIOUS
      <3>2. Len(b) = Len(s) - k
        BY RestLength
      <3> QED
        BY <3>1, <3>2
    <2>3. DOMAIN b = 1 .. Len(s) - k
      BY <2>2
    <2>4. ASSUME NEW i \in 1 .. Len(s) - k
          PROVE  b[i] = s[k + i]
      <3>1. b[i] = s[(k + 1) + i - 1]
        BY <1>1, <2>1
      <3> QED
        BY <1>1, <3>1
    <2> QED
      BY <2>2, <2>3, <2>4
  <1> HIDE DEF a, b
  <1>4. /\ Len(c) = Len(u) + k /\ DOMAIN c = 1 .. Len(u) + k
        /\ \A i \in 1 .. Len(u) : c[i] = u[i]
        /\ \A i \in Len(u) + 1 .. Len(u) + k : c[i] = a[i - Len(u)]
    <2>1. c \in Seq(Nat) /\ Len(c) = Len(u) + k
      <3>1. c \in Seq(Nat) /\ Len(c) = Len(u) + Len(a)
        BY <1>2
      <3> QED
        BY <1>2, <3>1
    <2>2. DOMAIN c = 1 .. Len(u) + k
      BY <2>1
    <2>3. \A i \in 1 .. Len(u) : c[i] = u[i]
      BY <1>1, <1>2
    <2>4. \A i \in Len(u) + 1 .. Len(u) + k : c[i] = a[i - Len(u)]
      BY <1>1, <1>2
    <2> QED
      BY <2>1, <2>2, <2>3, <2>4
  <1> HIDE DEF c
  <1>5. ASSUME NEW i \in DOMAIN c
        PROVE  c[i] = 0 + i
    <2>1. CASE i <= Len(u)
      BY <1>1, <1>4, <2>1 DEF FollowOn
    <2>2. CASE i > Len(u)
      <3>1. i - Len(u) \in 1 .. k /\ i - Len(u) \in DOMAIN s /\ i \in Nat
        BY <1>1, <1>4, <2>2
      <3>2. c[i] = s[i - Len(u)]
        <4>1. i \in Len(u) + 1 .. Len(u) + k
          BY <1>1, <1>4, <2>2
        <4>2. c[i] = a[i - Len(u)]
          BY <1>4, <4>1
        <4> QED
          BY <1>2, <3>1, <4>2
      <3>3. s[i - Len(u)] = Len(u) + (i - Len(u))
        BY <3>1 DEF FollowOn
      <3> QED
        BY <1>1, <3>1, <3>2, <3>3
    <2> QED
      BY <1>1, <1>4, <2>1, <2>2
  <1>6. ASSUME NEW i \in DOMAIN b
        PROVE  b[i] = (Len(u) + k) + i
    <2>1. i \in 1 .. Len(s) - k /\ k + i \in DOMAIN s
      BY <1>1, <1>3
    <2>2. b[i] = s[k + i] /\ s[k + i] = Len(u) + (k + i)
      BY <1>3, <2>1 DEF FollowOn
    <2> QED
      BY <1>1, <2>1, <2>2
  <1>7. FollowOn(0, c) /\ FollowOn(Len(u) + k, b)
    BY <1>5, <1>6 DEF FollowOn
  <1> QED
    BY <1>3, <1>4, <1>7 DEF a, b, c

\* A frame is put back in front of the queue.
LEMMA FrontFacts ==
    ASSUME NEW S, NEW q \in Seq(S), NEW e \in S
    PROVE  /\ Len(q) \in Nat /\ DOMAIN q = 1 .. Len(q)
           /\ Len(<<e>> \o q) = Len(q) + 1
           /\ DOMAIN (<<e>> \o q) = 1 .. Len(q) + 1
           /\ (<<e>> \o q)[1] = e
           /\ \A i \in 2 .. Len(q) + 1 : (<<e>> \o q)[i] = q[i - 1]
           /\ <<e>> \o q # <<>>
  <1>1. Len(q) \in Nat /\ DOMAIN q = 1 .. Len(q)
    OBVIOUS
  <1>2. /\ Len(<<e>> \o q) = Len(q) + 1
        /\ DOMAIN (<<e>> \o q) = 1 .. Len(q) + 1
    OBVIOUS
  <1>3. /\ (<<e>> \o q)[1] = e
        /\ \A i \in 2 .. Len(q) + 1 : (<<e>> \o q)[i] = q[i - 1]
    OBVIOUS
  <1>4. <<e>> \o q # <<>>
    BY <1>1, <1>2
  <1> QED
    BY <1>1, <1>2, <1>3, <1>4

\* All of what was taken is sent.
LEMMA WireAllSent ==
    ASSUME TypeInv, WireInv, sending # <<>>, sending' = <<>>,
           wire' = wire \o SubSeq(sending, 1, Len(sending)),
           handle' = handle
    PROVE  WireInv'
  <1> DEFINE q == handle.sendData
             w == handle.written
             n == Len(q)
  <1>1. /\ q \in Seq(Seq(Nat)) /\ w \in Nat /\ wire \in Seq(Nat)
        /\ sending \in Seq(Nat)
    BY DEF TypeInv, Handle
  <1>2. Len(sending) \in 0 .. Len(sending) /\ Len(wire) \in Nat /\ Len(sending) \in Nat
    BY <1>1
  <1>3. /\ FollowOn(0, wire) /\ FollowOn(Len(wire), sending)
        /\ Len(wire) + Len(sending) = Offset(1)
        /\ \A i \in DOMAIN q : Len(q[i]) = 2 /\ FollowOn(Offset(i), q[i])
    BY DEF WireInv
  <1>4. Len(wire') = Len(wire) + Len(sending) /\ FollowOn(0, wire')
    BY <1>1, <1>2, <1>3, CutFollows
  <1>5. \A i : Offset(i)' = Offset(i)
    BY DEF Offset
  <1>6. Offset(2) = Offset(1) + 2
    <2>1. n \in Nat
      BY <1>1
    <2>2. Offset(2) = 2 * (w - n + 2 - 1) /\ Offset(1) = 2 * (w - n + 1 - 1)
      BY DEF Offset
    <2> HIDE DEF w, n
    <2> QED
      BY <1>1, <2>1, <2>2
  <1>7. Len(wire') = Offset(1)
    BY <1>3, <1>4
  <1>8. ASSUME q # <<>>
        PROVE  /\ Len(q[1]) > 0 /\ FollowOn(Len(wire'), q[1])
               /\ Len(wire') + Len(q[1]) = Offset(2)
    <2>1. 1 \in DOMAIN q
      BY <1>1, <1>8
    <2>2. Len(q[1]) = 2 /\ FollowOn(Offset(1), q[1])
      BY <1>3, <2>1
    <2>3. Len(q[1]) > 0 /\ FollowOn(Len(wire'), q[1])
      BY <1>7, <2>2
    <2> QED
      BY <1>6, <1>7, <2>2, <2>3
  <1>9. Len(sending') = 0 /\ Len(wire') + 0 = Offset(1)
    BY <1>2, <1>4, <1>7
  <1>10. FollowOn(Len(wire'), sending')
    BY DEF FollowOn
  <1> QED
    BY <1>3, <1>4, <1>5, <1>8, <1>9, <1>10 DEF WireInv

\* A part of it is sent, and the rest is put back.
LEMMA WirePartSent ==
    ASSUME TypeInv, WireInv, sending # <<>>, sending' = <<>>,
           NEW k \in 0 .. Len(sending), k < Len(sending),
           wire' = wire \o SubSeq(sending, 1, k),
           handle'.sendData =
               <<SubSeq(sending, k + 1, Len(sending))>> \o handle.sendData,
           handle'.written = handle.written
    PROVE  WireInv'
  <1> DEFINE q == handle.sendData
             w == handle.written
             n == Len(q)
             m == Len(sending)
             e == SubSeq(sending, k + 1, m)
             r == handle'.sendData
  <1>1. /\ q \in Seq(Seq(Nat)) /\ w \in Nat /\ wire \in Seq(Nat)
        /\ sending \in Seq(Nat)
    BY DEF TypeInv, Handle
  <1>2. k \in Nat /\ Len(wire) \in Nat /\ m \in Nat /\ e \in Seq(Nat)
    BY <1>1
  <1>3. /\ FollowOn(0, wire) /\ FollowOn(Len(wire), sending)
        /\ Len(wire) + m = Offset(1)
        /\ \A i \in DOMAIN q : Len(q[i]) = 2 /\ FollowOn(Offset(i), q[i])
    BY DEF WireInv
  <1>4. /\ Len(wire') = Len(wire) + k /\ FollowOn(0, wire')
        /\ Len(e) = m - k /\ FollowOn(Len(wire) + k, e)
    BY <1>1, <1>3, CutFollows
  <1>5. r = <<e>> \o q
    OBVIOUS
  <1> HIDE DEF e, r, q, m
  <1>6. /\ n \in Nat /\ DOMAIN q = 1 .. n /\ Len(r) = n + 1 /\ DOMAIN r = 1 .. n + 1
        /\ r[1] = e /\ (\A i \in 2 .. n + 1 : r[i] = q[i - 1]) /\ r # <<>>
    BY <1>1, <1>2, <1>5, FrontFacts
  <1>7. ASSUME NEW i \in Int
        PROVE  Offset(i)' = Offset(i - 1)
    <2>1. Offset(i)' = 2 * (w - (n + 1) + i - 1)
      BY <1>6 DEF Offset, r
    <2>2. Offset(i - 1) = 2 * (w - n + (i - 1) - 1)
      BY DEF Offset, q
    <2> HIDE DEF n, w
    <2> QED
      BY <1>1, <1>6, <1>7, <2>1, <2>2
  <1> HIDE DEF n, w
  <1>8. ASSUME NEW i \in DOMAIN r, i > 1
        PROVE  Len(r[i]) = 2 /\ FollowOn(Offset(i)', r[i])
    <2>1. i \in Int /\ i - 1 \in DOMAIN q /\ r[i] = q[i - 1]
      BY <1>6, <1>8
    <2>2. Offset(i)' = Offset(i - 1)
      BY <1>7, <2>1
    <2> QED
      BY <1>3, <2>1, <2>2
  <1>9. /\ Len(r[1]) > 0 /\ FollowOn(Len(wire'), r[1])
        /\ Len(wire') + Len(r[1]) = Offset(2)'
    <2>1. Offset(2)' = Offset(1)
      <3>1. Offset(2)' = Offset(2 - 1)
        BY <1>7
      <3> QED
        BY <3>1
    <2>2. k < m
      BY DEF m
    <2>3. m - k > 0 /\ (Len(wire) + k) + (m - k) = Len(wire) + m
      BY <1>2, <2>2
    <2> QED
      BY <1>3, <1>4, <1>6, <2>1, <2>3
  <1>10. FollowOn(Len(wire'), sending')
    BY DEF FollowOn
  <1> QED
    BY <1>4, <1>6, <1>8, <1>9, <1>10 DEF WireInv, r

-----------------------------------------------------------------------------
(* Order: one step.                                                         *)

\* Two entries instead of the top.
LEMMA LeavesInstead ==
    ASSUME NEW s \in Seq(Entry), s # <<>>,
           NEW a \in {"event", "dialog", "join", "disconnect", "fail", "didClose",
                      "buffer", "resume", "chunks"},
           NEW b \in {"event", "dialog", "join", "disconnect", "fail", "didClose",
                      "buffer", "resume", "chunks"}
    PROVE  Leaves(<<Call(a)>> \o (<<Call(b)>> \o Tail(s)), s)
  <1> DEFINE u == Tail(s)
             t == <<Call(a)>> \o (<<Call(b)>> \o u)
  <1>1. u \in Seq(Entry) /\ Leaves(u, s)
    BY LeavesPopped
  <1> HIDE DEF u
  <1>2. Leaves(t, u)
    BY <1>1, LeavesTwo
  <1> HIDE DEF t
  <1>3. Leaves(t, s)
    BY <1>1, <1>2 DEF Leaves
  <1> QED
    BY <1>3 DEF t, u

\* A step that appends nothing to what the page waits for.
Steady ==
    /\ overtaken' = overtaken
    /\ \/ channel'.buffer = channel.buffer
       \/ channel'.buffer = <<>>
       \/ Looks /\ channel'.buffer = Tail(channel.buffer)
    /\ handle'.receiveData = handle.receiveData
    /\ server' = server
    /\ Leaves(stack', stack)

\* Such a step lets no chunk pass another.
LEMMA SteadyDrains ==
    ASSUME TypeInv, Steady
    PROVE  Drains
  <1>1. /\ Range(channel'.buffer) \subseteq Range(channel.buffer)
        /\ Rising(channel.buffer) => Rising(channel'.buffer)
    <2>1. CASE channel'.buffer = channel.buffer
      BY <2>1
    <2>2. CASE channel'.buffer = <<>>
      BY <2>2, EmptyRange DEF Rising
    <2>3. CASE Looks /\ channel'.buffer = Tail(channel.buffer)
      BY <2>3, TailThins
    <2> QED
      BY <2>1, <2>2, <2>3 DEF Steady
  <1> QED
    BY <1>1 DEF Steady, Drains

\* A step in which the main thread sends a frame at most.
Writes ==
    /\ UNCHANGED <<wire, sending>>
    /\ \/ handle'.sendData = handle.sendData /\ handle'.written = handle.written
       \/ /\ handle'.sendData = Append(handle.sendData,
                                   <<2 * handle.written + 1, 2 * handle.written + 2>>)
          /\ handle'.written = handle.written + 1

\* Such a step keeps the halves in order.
LEMMA WritesWire ==
    ASSUME TypeInv, WireInv, Writes
    PROVE  WireInv'
  BY WireUntouched, WireSends DEF Writes

\* What Sends means for the queue.
LEMMA SendsWrites ==
    ASSUME TypeInv, Sends, UNCHANGED <<wire, sending>>
    PROVE  Writes /\ handle'.receiveData = handle.receiveData
  <1>1. handle \in Handle
    BY DEF TypeInv
  <1> QED
    BY <1>1, SendFields DEF Sends, Writes

\* Such steps, when the page hears nothing, and when it hears of an end.
LEMMA QuietOrder ==
    ASSUME OrderInv, TypeInv', Steady, Writes, Unheard
    PROVE  OrderInv'
  <1>1. TypeInv /\ StreamInv /\ HeardInv /\ WireInv
    BY DEF OrderInv
  <1>2. NoNews
    BY DEF Unheard, NoNews
  <1> QED
    BY <1>1, <1>2, SteadyDrains, DrainsStream, UnheardHeard, WritesWire DEF OrderInv

\* A step that tells the page of an end, or of the beginning.
LEMMA EndOrder ==
    ASSUME OrderInv, TypeInv', Steady, Writes, HeardInv', NoNews
    PROVE  OrderInv'
  <1>1. TypeInv /\ StreamInv /\ WireInv
    BY DEF OrderInv
  <1> QED
    BY <1>1, SteadyDrains, DrainsStream, WritesWire DEF OrderInv

\* The worker and the network.
LEMMA WorkerHears ==
    ASSUME HeardInv, UNCHANGED pageVars
    PROVE  HeardInv'
  <1>1. Unheard
    BY DEF Unheard, pageVars
  <1> QED
    BY <1>1, UnheardHeard

\* A step of the worker that reads nothing.
LEMMA WorkerFlows ==
    ASSUME TypeInv, StreamInv, UNCHANGED pageVars, server' = server,
           handle'.receiveData = handle.receiveData
    PROVE  StreamInv'
  <1>1. Steady /\ NoNews
    BY DEF Steady, NoNews, Leaves, pageVars
  <1> QED
    BY <1>1, SteadyDrains, DrainsStream

\* Every step of the worker.
LEMMA WorkerOrder ==
    ASSUME OrderInv, UNCHANGED pageVars, Worker
    PROVE  OrderInv'
  <1>1. TypeInv /\ StreamInv /\ HeardInv /\ WireInv /\ HeardInv'
    BY WorkerHears DEF OrderInv
  <1>2. ASSUME NEW succeeds \in BOOLEAN, Connect(succeeds)
        PROVE  OrderInv'
    <2>1. TypeInv' /\ HandleKept /\ UNCHANGED <<sending, wire, server>>
      BY <1>1, <1>2, ConnectEffect
    <2>2. StreamInv'
      BY <1>1, <2>1, WorkerFlows DEF HandleKept
    <2>3. WireInv'
      BY <1>1, <2>1, WireUntouched DEF HandleKept
    <2> QED
      BY <1>1, <2>1, <2>2, <2>3 DEF OrderInv
  <1>3. CASE TakeSendData
    <2>1. /\ TypeInv' /\ sending = <<>> /\ handle'.written = handle.written
          /\ handle'.receiveData = handle.receiveData
          /\ UNCHANGED <<wire, server>>
          /\ \/ UNCHANGED <<handle, sending>>
             \/ /\ handle.sendData # <<>>
                /\ sending' = Head(handle.sendData)
                /\ handle'.sendData = Tail(handle.sendData)
      BY <1>1, <1>3, TakeSendDataEffect
    <2>2. StreamInv'
      BY <1>1, <2>1, WorkerFlows
    <2>3. WireInv'
      BY <1>1, <2>1, WireUntouched, WireTaken
    <2> QED
      BY <1>1, <2>1, <2>2, <2>3 DEF OrderInv
  <1>4. ASSUME NEW taken \in 0 .. Len(sending), SendTaken(taken)
        PROVE  OrderInv'
    <2>1. /\ TypeInv' /\ sending # <<>> /\ sending' = <<>>
          /\ wire' = wire \o SubSeq(sending, 1, taken)
          /\ handle'.written = handle.written
          /\ handle'.receiveData = handle.receiveData
          /\ server' = server
          /\ \/ taken = Len(sending) /\ UNCHANGED <<handle, thread>>
             \/ /\ taken < Len(sending)
                /\ handle'.sendData =
                      <<SubSeq(sending, taken + 1, Len(sending))>> \o handle.sendData
      BY <1>1, <1>4, SendTakenEffect
    <2>2. StreamInv'
      BY <1>1, <2>1, WorkerFlows
    <2>3. WireInv'
      <3>1. CASE taken = Len(sending) /\ UNCHANGED handle
        BY <1>1, <2>1, <3>1, WireAllSent
      <3>2. CASE /\ taken < Len(sending)
                 /\ handle'.sendData =
                       <<SubSeq(sending, taken + 1, Len(sending))>> \o handle.sendData
        BY <1>1, <2>1, <3>2, WirePartSent
      <3> QED
        BY <2>1, <3>1, <3>2
    <2> QED
      BY <1>1, <2>1, <2>2, <2>3 DEF OrderInv
  <1>5. CASE NothingRead
    <2>1. TypeInv' /\ HandleKept /\ UNCHANGED <<sending, wire, server>>
      BY <1>1, <1>5, NothingReadEffect
    <2>2. StreamInv'
      BY <1>1, <2>1, WorkerFlows DEF HandleKept
    <2>3. WireInv'
      BY <1>1, <2>1, WireUntouched DEF HandleKept
    <2> QED
      BY <1>1, <2>1, <2>2, <2>3 DEF OrderInv
  <1>6. CASE ReadData
    <2>1. /\ TypeInv' /\ UNCHANGED <<sending, wire>>
          /\ handle'.sendData = handle.sendData /\ handle'.written = handle.written
      BY <1>1, <1>6, ReadDataEffect
    <2>2. StreamInv'
      BY <1>1, <1>6, ReadDataStream
    <2>3. WireInv'
      BY <1>1, <2>1, WireUntouched
    <2> QED
      BY <1>1, <2>1, <2>2, <2>3 DEF OrderInv
  <1> QED
    BY <1>2, <1>3, <1>4, <1>5, <1>6 DEF Worker

\* Every step of the network.
LEMMA NetworkOrder ==
    ASSUME OrderInv, UNCHANGED pageVars, Network
    PROVE  OrderInv'
  <1>1. TypeInv /\ StreamInv /\ HeardInv /\ WireInv /\ HeardInv'
    BY WorkerHears DEF OrderInv
  <1>2. CASE LoseConnection
    <2>1. /\ TypeInv' /\ server'.sent = server.sent /\ server'.script = <<>>
          /\ UNCHANGED <<handle, sending, wire>>
      BY <1>1, <1>2, LoseConnectionEffect
    <2>2. Range(server'.script) = {} /\ Rising(server'.script)
      BY <2>1, EmptyRange DEF Rising
    <2>3. Drains /\ NoNews
      BY <2>1, <2>2 DEF Drains, NoNews, Leaves, pageVars
    <2>4. StreamInv' /\ WireInv'
      BY <1>1, <2>1, <2>3, DrainsStream, WireUntouched
    <2> QED
      BY <1>1, <2>1, <2>4 DEF OrderInv
  <1>3. CASE ServerSends
    <2>1. TypeInv' /\ UNCHANGED <<handle, sending, wire>>
      BY <1>1, <1>3, ServerSendsEffect
    <2>2. StreamInv' /\ WireInv'
      BY <1>1, <1>3, <2>1, ServerSendsStream, WireUntouched
    <2> QED
      BY <1>1, <2>1, <2>2 DEF OrderInv
  <1> QED
    BY <1>2, <1>3 DEF Network

\* The page hears of an end when it may.
LEMMA EndMayCome ==
    ASSUME TypeInv, HeardInv
    PROVE  /\ ws.state = "CONNECTING" =>
                  \A i \in DOMAIN ws.said : Rank(ws.said[i][1]) < Rank("error")
           /\ channel.client =>
                  \A i \in DOMAIN ws.said : Rank(ws.said[i][1]) < Rank("close")
           /\ ~ws.stopped =>
                  \A i \in DOMAIN ws.said : Rank(ws.said[i][1]) < Rank("stop")
  <1>1. ws.state = "CONNECTING" => DOMAIN ws.said = {}
    BY DEF HeardInv
  <1>2. ASSUME NEW i \in DOMAIN ws.said
        PROVE  /\ channel.client => Rank(ws.said[i][1]) < 4
               /\ ~ws.stopped => Rank(ws.said[i][1]) < 5
    <2> DEFINE r == Rank(ws.said[i][1])
    <2>1. r \in 1 .. 5
      BY RankTypes
    <2>2. /\ ~ws.stopped => r <= 4
          /\ channel.client => r <= 3
      BY DEF HeardInv
    <2> HIDE DEF r
    <2>3. (~ws.stopped => r < 5) /\ (channel.client => r < 4)
      BY <2>1, <2>2
    <2> QED
      BY <2>3 DEF r
  <1> QED
    BY <1>1, <1>2, Ranks

\* The error event of close() is the first event.
LEMMA CloseConnectingOrder ==
    ASSUME OrderInv, CloseConnecting
    PROVE  OrderInv'
  <1>1. TypeInv /\ HeardInv /\ stack \in Seq(Entry)
    BY DEF OrderInv, TypeInv
  <1>2. /\ TypeInv' /\ ws.state = "CONNECTING"
        /\ channel'.client = channel.client /\ channel'.mode = channel.mode
        /\ channel'.buffer = <<>> /\ channel'.discard
        /\ ws'.stopped = ws.stopped /\ ws'.state = "CLOSED"
        /\ ws'.said = Append(ws.said, <<"error", 0>>)
        /\ stack' = <<Call("event")>> \o (<<Call("fail")>> \o stack)
        /\ UNCHANGED <<handle, sending, wire, server, overtaken>>
    BY <1>1, CloseConnectingEffect DEF SocketKept
  <1>3. \A i \in DOMAIN ws.said : Rank(ws.said[i][1]) < Rank("error")
    BY <1>1, <1>2, EndMayCome
  <1>4. HeardInv' /\ NoNews
    BY <1>1, <1>2, <1>3, EndIsHeard
  <1>5. Steady /\ Writes
    BY <1>1, <1>2, LeavesTwo DEF Steady, Writes
  <1> QED
    BY <1>2, <1>4, <1>5, EndOrder

\* The closing frame goes behind the others.
LEMMA CloseOrder ==
    ASSUME OrderInv, Close
    PROVE  OrderInv'
  <1>1. /\ TypeInv /\ TypeInv' /\ ws'.state = "CLOSING" /\ SocketKept
        /\ ws'.said = ws.said /\ ChannelKept(channel)
        /\ channel'.buffer = channel.buffer /\ Sends
        /\ UNCHANGED <<sending, wire, server, stack, overtaken>>
    BY CloseEffect DEF OrderInv
  <1>2. Writes /\ handle'.receiveData = handle.receiveData
    BY <1>1, SendsWrites
  <1>3. Steady /\ Unheard
    BY <1>1, <1>2 DEF Steady, Leaves, Unheard, ChannelKept, SocketKept
  <1> QED
    BY <1>1, <1>2, <1>3, QuietOrder

\* A message goes behind the others.
LEMMA SendMessageOrder ==
    ASSUME OrderInv, SendMessage
    PROVE  OrderInv'
  <1>1. /\ TypeInv /\ TypeInv' /\ Sends
        /\ UNCHANGED <<sending, wire, server, ws, channel, stack, overtaken>>
    BY SendMessageEffect DEF OrderInv, pageVars
  <1>2. Writes /\ handle'.receiveData = handle.receiveData
    BY <1>1, SendsWrites
  <1>3. Steady /\ Unheard
    BY <1>1, <1>2 DEF Steady, Leaves, Unheard
  <1> QED
    BY <1>1, <1>2, <1>3, QuietOrder

\* stop comes once, after everything.
LEMMA StopOrder ==
    ASSUME OrderInv, Stop
    PROVE  OrderInv'
  <1>1. TypeInv /\ HeardInv /\ stack \in Seq(Entry)
    BY DEF OrderInv, TypeInv
  <1>2. /\ TypeInv' /\ ~ws.stopped /\ ws'.stopped /\ ws'.state = "CLOSED"
        /\ ws'.said = Append(ws.said, <<"stop", 0>>)
        /\ ~channel'.client /\ channel'.mode = channel.mode
        /\ channel'.buffer = channel.buffer
        /\ handle'.sendData = handle.sendData /\ handle'.written = handle.written
        /\ handle'.receiveData = handle.receiveData
        /\ \/ stack' = <<Call("join")>> \o (<<Call("disconnect")>> \o stack)
           \/ stack' = stack
        /\ UNCHANGED <<sending, wire, server, overtaken>>
    BY <1>1, StopEffect
  <1>3. \A i \in DOMAIN ws.said : Rank(ws.said[i][1]) < Rank("stop")
    BY <1>1, <1>2, EndMayCome
  <1>4. HeardInv' /\ NoNews
    BY <1>1, <1>2, <1>3, EndIsHeard
  <1>5. Leaves(stack', stack)
    BY <1>1, <1>2, LeavesTwo DEF Leaves
  <1>6. Steady /\ Writes
    BY <1>2, <1>5 DEF Steady, Writes
  <1> QED
    BY <1>2, <1>4, <1>6, EndOrder

\* A dialog moves no chunk.
LEMMA OpenDialogOrder ==
    ASSUME OrderInv, OpenDialog
    PROVE  OrderInv'
  <1>1. /\ TypeInv /\ TypeInv' /\ stack \in Seq(Entry)
        /\ channel'.client = channel.client /\ channel'.mode = channel.mode
        /\ channel'.buffer = channel.buffer /\ channel'.discard = channel.discard
        /\ stack' = <<Call("dialog")>> \o stack
        /\ UNCHANGED <<handle, sending, wire, server, ws, overtaken>>
    BY OpenDialogEffect DEF OrderInv, TypeInv, handleVars
  <1>2. Steady /\ Writes /\ Unheard
    BY <1>1, LeavesPushed DEF Steady, Writes, Unheard
  <1> QED
    BY <1>1, <1>2, QuietOrder

\* The top of the stack is left.
LEMMA PoppedOrder ==
    ASSUME OrderInv, TypeInv', stack # <<>>, stack' = Tail(stack),
           channel'.buffer \in {channel.buffer, <<>>},
           handle'.receiveData = handle.receiveData,
           handle'.sendData = handle.sendData, handle'.written = handle.written,
           UNCHANGED <<sending, wire, server, overtaken>>, Unheard
    PROVE  OrderInv'
  <1>1. Leaves(stack', stack)
    BY LeavesPopped DEF OrderInv, TypeInv
  <1>2. Steady /\ Writes
    BY <1>1 DEF Steady, Writes
  <1> QED
    BY <1>2, QuietOrder

\* Neither does its end.
LEMMA CloseDialogOrder ==
    ASSUME OrderInv, CloseDialog
    PROVE  OrderInv'
  <1>1. /\ TypeInv' /\ Top("dialog")
        /\ channel'.client = channel.client /\ channel'.mode = channel.mode
        /\ channel'.buffer = channel.buffer /\ channel'.discard = channel.discard
        /\ stack' = Tail(stack)
        /\ UNCHANGED <<handle, sending, wire, server, ws, overtaken>>
    BY CloseDialogEffect DEF OrderInv, handleVars
  <1>2. Unheard /\ stack # <<>>
    BY <1>1 DEF Unheard, Top
  <1> QED
    BY <1>1, <1>2, PoppedOrder

\* Neither does the end of a handler.
LEMMA EndHandlerOrder ==
    ASSUME OrderInv, EndHandler
    PROVE  OrderInv'
  <1>1. /\ TypeInv' /\ Top("event") /\ stack' = Tail(stack)
        /\ UNCHANGED <<handle, sending, wire, server, ws, channel, overtaken>>
    BY EndHandlerEffect DEF OrderInv, handleVars
  <1>2. Unheard /\ stack # <<>>
    BY <1>1 DEF Unheard, Top
  <1> QED
    BY <1>1, <1>2, PoppedOrder

\* The handshake goes into the queue like any frame.
LEMMA DidOpenSocketOrder ==
    ASSUME OrderInv, DidOpenSocket
    PROVE  OrderInv'
  <1>1. /\ TypeInv' /\ handle'.receiveData = handle.receiveData
        /\ \/ handle'.sendData = handle.sendData /\ handle'.written = handle.written
           \/ /\ handle'.sendData = Append(handle.sendData,
                       <<2 * handle.written + 1, 2 * handle.written + 2>>)
              /\ handle'.written = handle.written + 1
        /\ UNCHANGED <<sending, wire, server, ws, channel, stack, overtaken>>
    BY DidOpenSocketEffect DEF OrderInv
  <1>2. Steady /\ Writes /\ Unheard
    BY <1>1 DEF Steady, Leaves, Writes, Unheard
  <1> QED
    BY <1>1, <1>2, QuietOrder

\* What was received goes on the stack, and when older chunks are there that
\* is noted as overtaken.
LEMMA DidReceiveDataOrder ==
    ASSUME OrderInv, DidReceiveData
    PROVE  OrderInv'
  <1>1. TypeInv /\ StreamInv /\ HeardInv /\ WireInv
    BY DEF OrderInv
  <1>2. /\ TypeInv'
        /\ handle'.sendData = handle.sendData /\ handle'.written = handle.written
        /\ ~overtaken' => ~overtaken
        /\ UNCHANGED <<sending, wire, ws, channel>>
    BY <1>1, DidReceiveDataEffect
  <1>3. Unheard
    BY <1>2 DEF Unheard
  <1> QED
    BY <1>1, <1>2, <1>3, DidReceiveDataStream, UnheardHeard, WireUntouched
       DEF OrderInv

\* An empty entry is popped.
LEMMA ChunksDoneOrder ==
    ASSUME OrderInv, ChunksDone
    PROVE  OrderInv'
  <1>1. /\ TypeInv' /\ Top("chunks") /\ stack' = Tail(stack) /\ HandleKept
        /\ UNCHANGED <<sending, wire, server, ws, channel, overtaken>>
    BY ChunksDoneEffect DEF OrderInv
  <1>2. Unheard /\ stack # <<>>
    BY <1>1 DEF Unheard, Top
  <1> QED
    BY <1>1, <1>2, PoppedOrder DEF HandleKept

\* The first chunk that is left goes to the end of the buffer.
LEMMA NextChunkOrder ==
    ASSUME OrderInv, NextChunk
    PROVE  OrderInv'
  <1>1. TypeInv /\ StreamInv /\ HeardInv /\ WireInv
    BY DEF OrderInv
  <1>2. /\ TypeInv' /\ ChannelKept(channel)
        /\ handle'.sendData = handle.sendData /\ handle'.written = handle.written
        /\ UNCHANGED <<sending, wire, ws, overtaken>>
    BY <1>1, NextChunkEffect
  <1>3. Unheard
    BY <1>2 DEF Unheard, ChannelKept
  <1> QED
    BY <1>1, <1>2, <1>3, NextChunkStream, UnheardHeard, WireUntouched DEF OrderInv

\* The rest of the buffer stays or is thrown away.
LEMMA BufferDoneOrder ==
    ASSUME OrderInv, BufferDone
    PROVE  OrderInv'
  <1>1. /\ TypeInv' /\ Top("buffer") /\ stack' = Tail(stack) /\ ChannelKept(channel)
        /\ channel'.buffer \in {channel.buffer, <<>>}
        /\ UNCHANGED <<handle, sending, wire, server, ws, overtaken>>
    BY BufferDoneEffect DEF OrderInv, handleVars
  <1>2. Unheard /\ stack # <<>>
    BY <1>1 DEF Unheard, ChannelKept, Top
  <1> QED
    BY <1>1, <1>2, PoppedOrder

\* fail() throws the buffer away and sends nothing.
LEMMA FailsNowSteady ==
    ASSUME TypeInv, Looks, FailsNow, UNCHANGED <<handleVars, overtaken>>
    PROVE  Steady /\ Writes
  <1>1. /\ stack \in Seq(Entry) /\ stack # <<>> /\ channel'.buffer = <<>>
        /\ stack' = <<Call("event")>> \o (<<Call("fail")>> \o Tail(stack))
    BY DEF Looks, FailsNow
  <1>2. Leaves(stack', stack)
    BY <1>1, LeavesInstead
  <1> QED
    BY <1>1, <1>2 DEF Steady, Writes, handleVars

\* The handshake is taken from the buffer.
LEMMA ServerHandshakeOrder ==
    ASSUME OrderInv, ServerHandshake
    PROVE  OrderInv'
  <1>1. TypeInv /\ HeardInv /\ stack \in Seq(Entry)
    BY DEF OrderInv, TypeInv
  <1>2. HeardInv' /\ NoNews
    BY <1>1, ServerHandshakeHeard
  <1>3. /\ TypeInv' /\ Looks /\ UNCHANGED <<handleVars, overtaken>>
        /\ \/ /\ channel'.buffer = Tail(channel.buffer)
              /\ stack' = <<Call("event")>> \o stack
           \/ FailsNow
    BY <1>1, ServerHandshakeEffect
  <1>4. CASE /\ channel'.buffer = Tail(channel.buffer)
             /\ stack' = <<Call("event")>> \o stack
    <2>1. Leaves(stack', stack)
      BY <1>1, <1>4, LeavesPushed
    <2>2. Steady /\ Writes
      BY <1>3, <1>4, <2>1 DEF Steady, Writes, handleVars
    <2> QED
      BY <1>2, <1>3, <2>2, EndOrder
  <1>5. CASE FailsNow
    BY <1>1, <1>2, <1>3, <1>5, FailsNowSteady, EndOrder
  <1> QED
    BY <1>3, <1>4, <1>5

\* fail() from a frame.
LEMMA FrameFailsOrder ==
    ASSUME OrderInv, FrameFails
    PROVE  OrderInv'
  <1>1. TypeInv /\ HeardInv
    BY DEF OrderInv
  <1>2. HeardInv' /\ NoNews
    BY <1>1, FrameFailsHeard
  <1>3. TypeInv' /\ Looks /\ FailsNow /\ UNCHANGED <<handleVars, overtaken>>
    BY <1>1, FrameFailsEffect
  <1> QED
    BY <1>1, <1>2, <1>3, FailsNowSteady, EndOrder

\* The first part of a message is taken from the buffer.
LEMMA FirstFrameOrder ==
    ASSUME OrderInv, FirstFrame
    PROVE  OrderInv'
  <1>1. /\ TypeInv' /\ Looks /\ ChannelKept(channel)
        /\ channel'.buffer = Tail(channel.buffer)
        /\ UNCHANGED <<handle, sending, wire, server, ws, stack, overtaken>>
    BY FirstFrameEffect DEF OrderInv, handleVars
  <1>2. Steady /\ Writes /\ Unheard
    BY <1>1 DEF Steady, Leaves, Writes, Unheard, ChannelKept
  <1> QED
    BY <1>1, <1>2, QuietOrder

\* A message is taken from the buffer and heard.
LEMMA MessageFrameOrder ==
    ASSUME OrderInv, MessageFrame
    PROVE  OrderInv'
  <1>1. TypeInv /\ StreamInv /\ HeardInv /\ WireInv
    BY DEF OrderInv
  <1>2. TypeInv' /\ UNCHANGED <<handle, sending, wire>>
    BY <1>1, MessageFrameEffect DEF handleVars
  <1> QED
    BY <1>1, <1>2, MessageFrameStream, MessageFrameHeard, WireUntouched DEF OrderInv

\* The answer to a ping goes behind the other frames.
LEMMA PingFrameOrder ==
    ASSUME OrderInv, PingFrame
    PROVE  OrderInv'
  <1>1. /\ TypeInv /\ TypeInv' /\ Looks /\ Sends /\ ChannelKept(channel)
        /\ channel'.buffer = Tail(channel.buffer)
        /\ UNCHANGED <<sending, wire, server, ws, stack, overtaken>>
    BY PingFrameEffect DEF OrderInv
  <1>2. Writes /\ handle'.receiveData = handle.receiveData
    BY <1>1, SendsWrites
  <1>3. Steady /\ Unheard
    BY <1>1, <1>2 DEF Steady, Leaves, Unheard, ChannelKept
  <1> QED
    BY <1>1, <1>2, <1>3, QuietOrder

\* So does the answer to a closing frame, before the handle is closed.
LEMMA CloseFrameOrder ==
    ASSUME OrderInv, CloseFrame
    PROVE  OrderInv'
  <1>1. TypeInv /\ stack \in Seq(Entry) /\ handle \in Handle
    BY DEF OrderInv, TypeInv
  <1>2. /\ TypeInv' /\ Looks /\ ChannelKept(channel)
        /\ channel'.buffer = Tail(channel.buffer)
        /\ SocketKept /\ ws'.said = ws.said /\ ws'.state \in {ws.state, "CLOSING"}
        /\ UNCHANGED <<sending, wire, server, overtaken>>
        /\ \E answered \in {handle, Send(handle)} :
               /\ handle'.sendData = answered.sendData
               /\ handle'.receiveData = answered.receiveData
               /\ handle'.written = answered.written
        /\ \/ stack' = <<Call("join")>> \o (<<Call("disconnect")>> \o stack)
           \/ stack' = stack
    BY <1>1, CloseFrameEffect
  <1>3. Writes /\ handle'.receiveData = handle.receiveData
    <2>1. PICK answered \in {handle, Send(handle)} :
              /\ handle'.sendData = answered.sendData
              /\ handle'.receiveData = answered.receiveData
              /\ handle'.written = answered.written
      BY <1>2
    <2>2. CASE answered = handle
      BY <1>2, <2>1, <2>2 DEF Writes
    <2>3. CASE answered = Send(handle)
      <3>1. /\ answered.receiveData = handle.receiveData
            /\ \/ answered = handle
               \/ /\ answered.sendData = Append(handle.sendData,
                                <<2 * handle.written + 1, 2 * handle.written + 2>>)
                  /\ answered.written = handle.written + 1
        BY <1>1, <2>3, SendFields
      <3> QED
        BY <1>2, <2>1, <3>1 DEF Writes
    <2> QED
      BY <2>1, <2>2, <2>3
  <1>4. Leaves(stack', stack)
    BY <1>1, <1>2, LeavesTwo DEF Leaves
  <1>5. Steady /\ Unheard
    BY <1>2, <1>3, <1>4 DEF Steady, Unheard, ChannelKept, SocketKept
  <1> QED
    BY <1>2, <1>3, <1>5, QuietOrder

\* The close event comes while there is a client, who has heard of no close
\* before.
LEMMA JoinOrder ==
    ASSUME OrderInv, Join
    PROVE  OrderInv'
  <1>1. TypeInv /\ HeardInv /\ stack \in Seq(Entry)
    BY DEF OrderInv, TypeInv
  <1>2. /\ TypeInv' /\ stack # <<>>
        /\ channel'.mode = channel.mode /\ channel'.buffer = channel.buffer
        /\ channel'.discard = channel.discard
        /\ handle'.sendData = handle.sendData /\ handle'.written = handle.written
        /\ handle'.receiveData = handle.receiveData
        /\ ws'.stopped = ws.stopped
        /\ \/ /\ channel'.client = channel.client
              /\ stack' = Tail(stack) /\ ws' = ws
           \/ /\ channel.client /\ ~channel'.client /\ ws'.state = "CLOSED"
              /\ ws'.said = Append(ws.said, <<"close", 0>>)
              /\ stack' = <<Call("event")>> \o (<<Call("didClose")>> \o Tail(stack))
    BY <1>1, JoinEffect DEF SocketKept, Top
  <1>3. UNCHANGED <<sending, wire, server, overtaken>>
    BY DEF Join
  <1>4. CASE channel'.client = channel.client /\ stack' = Tail(stack) /\ ws' = ws
    <2>1. Unheard
      BY <1>2, <1>3, <1>4 DEF Unheard
    <2> QED
      BY <1>2, <1>3, <1>4, <2>1, PoppedOrder
  <1>5. CASE /\ channel.client /\ ~channel'.client /\ ws'.state = "CLOSED"
             /\ ws'.said = Append(ws.said, <<"close", 0>>)
             /\ stack' = <<Call("event")>> \o (<<Call("didClose")>> \o Tail(stack))
    <2>1. \A i \in DOMAIN ws.said : Rank(ws.said[i][1]) < Rank("close")
      BY <1>1, <1>5, EndMayCome
    <2>2. HeardInv' /\ NoNews
      BY <1>1, <1>2, <1>3, <1>5, <2>1, EndIsHeard
    <2>3. Leaves(stack', stack)
      BY <1>1, <1>2, <1>5, LeavesInstead
    <2>4. Steady /\ Writes
      BY <1>2, <1>3, <2>3 DEF Steady, Writes
    <2> QED
      BY <1>2, <2>2, <2>4, EndOrder
  <1> QED
    BY <1>2, <1>4, <1>5

\* disconnect() ends.
LEMMA FinishDisconnectOrder ==
    ASSUME OrderInv, FinishDisconnect
    PROVE  OrderInv'
  <1>1. /\ TypeInv' /\ Top("disconnect") /\ stack' = Tail(stack)
        /\ handle'.sendData = handle.sendData /\ handle'.written = handle.written
        /\ handle'.receiveData = handle.receiveData
        /\ UNCHANGED <<sending, wire, server, ws, channel, overtaken>>
    BY FinishDisconnectEffect DEF OrderInv
  <1>2. Unheard /\ stack # <<>>
    BY <1>1 DEF Unheard, Top
  <1> QED
    BY <1>1, <1>2, PoppedOrder

\* fail() disconnects.
LEMMA FinishFailOrder ==
    ASSUME OrderInv, FinishFail
    PROVE  OrderInv'
  <1>1. /\ TypeInv' /\ stack \in Seq(Entry) /\ stack # <<>>
        /\ handle'.sendData = handle.sendData /\ handle'.written = handle.written
        /\ handle'.receiveData = handle.receiveData
        /\ \/ stack' = <<Call("join")>> \o (<<Call("disconnect")>> \o Tail(stack))
           \/ stack' = Tail(stack)
        /\ UNCHANGED <<sending, wire, server, ws, channel, overtaken>>
    BY FinishFailEffect DEF OrderInv, TypeInv, Top
  <1>2. Leaves(stack', stack)
    BY <1>1, LeavesInstead, LeavesPopped
  <1>3. Steady /\ Writes /\ Unheard
    BY <1>1, <1>2 DEF Steady, Writes, Unheard
  <1> QED
    BY <1>1, <1>3, QuietOrder

\* didClose() drops the client.
LEMMA FinishDidCloseOrder ==
    ASSUME OrderInv, FinishDidClose
    PROVE  OrderInv'
  <1>1. /\ TypeInv' /\ Top("didClose") /\ stack' = Tail(stack)
        /\ ws'.state = ws.state /\ ws'.stopped = ws.stopped /\ ws'.said = ws.said
        /\ ~channel'.client
        /\ channel'.discard = channel.discard /\ channel'.mode = channel.mode
        /\ channel'.buffer = channel.buffer
        /\ UNCHANGED <<handle, sending, wire, server, overtaken>>
    BY FinishDidCloseEffect DEF OrderInv, handleVars
  <1>2. Unheard /\ stack # <<>>
    BY <1>1 DEF Unheard, Top
  <1> QED
    BY <1>1, <1>2, PoppedOrder

\* The resume timer has nothing to deliver of its own.
LEMMA ResumeTimerFiredOrder ==
    ASSUME OrderInv, ResumeTimerFired
    PROVE  OrderInv'
  <1>1. /\ TypeInv' /\ stack \in Seq(Entry) /\ ChannelKept(channel)
        /\ channel'.buffer = channel.buffer
        /\ stack' = <<Call("buffer")>> \o (<<Call("resume")>> \o stack)
        /\ UNCHANGED <<handle, sending, wire, server, ws, overtaken>>
    BY ResumeTimerFiredEffect DEF OrderInv, TypeInv, handleVars
  <1>2. Leaves(stack', stack)
    BY <1>1, LeavesTwo
  <1>3. Steady /\ Writes /\ Unheard
    BY <1>1, <1>2 DEF Steady, Writes, Unheard, ChannelKept
  <1> QED
    BY <1>1, <1>3, QuietOrder

\* The close event that had to wait comes while there is a client.
LEMMA FinishResumeOrder ==
    ASSUME OrderInv, FinishResume
    PROVE  OrderInv'
  <1>1. TypeInv /\ HeardInv /\ stack \in Seq(Entry)
    BY DEF OrderInv, TypeInv
  <1>2. /\ TypeInv' /\ stack # <<>>
        /\ channel'.mode = channel.mode /\ channel'.buffer = channel.buffer
        /\ channel'.discard = channel.discard
        /\ handle'.sendData = handle.sendData /\ handle'.written = handle.written
        /\ handle'.receiveData = handle.receiveData
        /\ ws'.stopped = ws.stopped
        /\ \/ /\ channel.client /\ ~channel'.client /\ ws'.state = "CLOSED"
              /\ ws'.said = Append(ws.said, <<"close", 0>>)
              /\ stack' = <<Call("event")>> \o (<<Call("didClose")>> \o Tail(stack))
           \/ stack' = Tail(stack) /\ UNCHANGED <<ws, channel>>
        /\ UNCHANGED <<sending, wire, server, overtaken>>
    BY <1>1, FinishResumeEffect DEF SocketKept, Top
  <1>3. CASE stack' = Tail(stack) /\ UNCHANGED <<ws, channel>>
    <2>1. Unheard
      BY <1>2, <1>3 DEF Unheard
    <2> QED
      BY <1>2, <1>3, <2>1, PoppedOrder
  <1>4. CASE /\ channel.client /\ ~channel'.client /\ ws'.state = "CLOSED"
             /\ ws'.said = Append(ws.said, <<"close", 0>>)
             /\ stack' = <<Call("event")>> \o (<<Call("didClose")>> \o Tail(stack))
    <2>1. \A i \in DOMAIN ws.said : Rank(ws.said[i][1]) < Rank("close")
      BY <1>1, <1>4, EndMayCome
    <2>2. HeardInv' /\ NoNews
      BY <1>1, <1>2, <1>4, <2>1, EndIsHeard
    <2>3. Leaves(stack', stack)
      BY <1>1, <1>2, <1>4, LeavesInstead
    <2>4. Steady /\ Writes
      BY <1>2, <2>3 DEF Steady, Writes
    <2> QED
      BY <1>2, <2>2, <2>4, EndOrder
  <1> QED
    BY <1>2, <1>3, <1>4

\* The closing timer moves no chunk.
LEMMA ClosingTimerFiredOrder ==
    ASSUME OrderInv, ClosingTimerFired
    PROVE  OrderInv'
  <1>1. /\ TypeInv' /\ stack \in Seq(Entry) /\ ChannelKept(channel)
        /\ channel'.buffer = channel.buffer
        /\ handle'.sendData = handle.sendData /\ handle'.written = handle.written
        /\ handle'.receiveData = handle.receiveData
        /\ \/ stack' = <<Call("join")>> \o (<<Call("disconnect")>> \o stack)
           \/ stack' = stack
        /\ UNCHANGED <<sending, wire, server, ws, overtaken>>
    BY ClosingTimerFiredEffect DEF OrderInv, TypeInv
  <1>2. Leaves(stack', stack)
    BY <1>1, LeavesTwo DEF Leaves
  <1>3. Steady /\ Writes /\ Unheard
    BY <1>1, <1>2 DEF Steady, Writes, Unheard, ChannelKept
  <1> QED
    BY <1>1, <1>3, QuietOrder

-----------------------------------------------------------------------------
(* Order: the theorem.                                                      *)

\* At first the script alone has chunks, numbered as they will be sent.
LEMMA InitOrder ==
    ASSUME Init
    PROVE  OrderInv
  <1>1. TypeInv
    BY InitTypes
  <1>2. /\ channel.buffer = <<>> /\ stack = <<>> /\ handle.receiveData = <<>>
        /\ handle.sendData = <<>> /\ handle.written = 0 /\ wire = <<>> /\ sending = <<>>
        /\ ws.said = <<>> /\ ws.state = "CONNECTING" /\ channel.mode = "Incomplete"
    BY DEF Init, HandleInit
  <1>3. server.sent = <<>> /\ Rising(server.script)
    <2>1. PICK script \in Scripts :
              server = [script |-> [i \in DOMAIN script |-> <<script[i], i>>],
                        sent |-> <<>>, early |-> FALSE]
      BY DEF Init, HandleInit
    <2>2. server.sent = <<>> /\ server.script = [i \in DOMAIN script |-> <<script[i], i>>]
      BY <2>1
    <2> QED
      BY <2>2 DEF Rising, Precedes
  <1>4. /\ Range(channel.buffer) = {} /\ Lefts(stack) = {}
        /\ Range(handle.receiveData) = {} /\ Range(server.sent) = {}
    BY <1>2, <1>3, EmptyRange DEF Lefts
  <1>5. FlowInv
    BY <1>2, <1>3, <1>4 DEF FlowInv, Before, Rising, LeftInOrder
  <1>6. NewsInv /\ HeardInv
    BY <1>2 DEF NewsInv, HeardInv, SaidInOrder
  <1>7. WireInv
    <2>1. Offset(1) = 2 * (0 - 0 + 1 - 1)
      <3>1. Len(handle.sendData) = 0 /\ handle.written = 0
        BY <1>2
      <3> QED
        BY <3>1 DEF Offset
    <2>2. Len(wire) + Len(sending) = Offset(1)
      <3>1. Len(wire) = 0 /\ Len(sending) = 0
        BY <1>2
      <3> QED
        BY <2>1, <3>1
    <2> QED
      BY <1>2, <2>2 DEF WireInv, FollowOn
  <1> QED
    BY <1>1, <1>5, <1>6, <1>7 DEF OrderInv, StreamInv

\* Every step keeps the invariant.
LEMMA StepOrder ==
    ASSUME OrderInv, [Next]_vars
    PROVE  OrderInv'
  <1>1. CASE Page
    BY <1>1, CloseConnectingOrder, CloseOrder, SendMessageOrder, StopOrder,
       OpenDialogOrder DEF Page
  <1>2. CASE RunsPosted
    BY <1>2, DidOpenSocketOrder, DidReceiveDataOrder DEF RunsPosted
  <1>3. CASE Continues
    BY <1>3, EndHandlerOrder, CloseDialogOrder, ChunksDoneOrder, NextChunkOrder,
       BufferDoneOrder, ServerHandshakeOrder, FrameFailsOrder, FirstFrameOrder,
       MessageFrameOrder, PingFrameOrder, CloseFrameOrder, JoinOrder,
       FinishDisconnectOrder, FinishFailOrder, FinishDidCloseOrder, FinishResumeOrder
       DEF Continues
  <1>4. CASE UNCHANGED vars
    <2>1. UNCHANGED <<handle, thread, sending, socket, posted, wire, server,
                      ws, channel, stack, dialogs, late, overtaken>>
      BY <1>4 DEF vars, handleVars, pageVars
    <2>2. TypeInv'
      BY <2>1 DEF OrderInv, TypeInv
    <2>3. Steady /\ Writes /\ Unheard
      BY <2>1 DEF Steady, Leaves, Writes, Unheard
    <2> QED
      BY <2>2, <2>3, QuietOrder
  <1> QED
    BY <1>1, <1>2, <1>3, <1>4, WorkerOrder, NetworkOrder, ResumeTimerFiredOrder,
       ClosingTimerFiredOrder DEF Next

\* The invariant says more than StreamsInOrder.
LEMMA OrderFollows ==
    ASSUME OrderInv
    PROVE  StreamsInOrder
  <1>1. SaidInOrder
    BY DEF OrderInv, HeardInv
  <1>2. ASSUME NEW k \in DOMAIN wire
        PROVE  wire[k] = k
    <2>1. wire[k] = 0 + k
      BY DEF OrderInv, WireInv, FollowOn
    <2>2. k \in Nat
      BY DEF OrderInv, TypeInv
    <2> QED
      BY <2>1, <2>2
  <1> QED
    BY <1>1, <1>2 DEF StreamsInOrder, SaidInOrder

\* The page hears open, messages in the order in which the server sent them,
\* error, close and stop in this order (but for a chunk that overtook another
\* under a dialog), and the server gets the halves of the page's frames with no
\* gap and none twice, for any script, any number of dialogs and frames,
\* whenever the server speaks and whenever the page is stopped.
THEOREM StreamsStayInOrder == Spec => []StreamsInOrder
  <1>1. Init => OrderInv
    BY InitOrder
  <1>2. OrderInv /\ [Next]_vars => OrderInv'
    BY StepOrder
  <1>3. OrderInv => StreamsInOrder
    BY OrderFollows
  <1> QED
    BY <1>1, <1>2, <1>3, PTL DEF Spec

-----------------------------------------------------------------------------
(* Lifetimes: the theorem.                                                  *)

\* That the server spoke too early, or that the page was stopped too early for
\* its channel, is never forgotten.
LEMMA Remembered ==
    ASSUME TypeInv, [Next]_vars
    PROVE  /\ server.early => server'.early
           /\ ws.cutShort => ws'.cutShort
  <1>1. /\ server \in [script : Seq(Chunk), sent : Seq(Chunk), early : BOOLEAN]
        /\ ws \in Socket
    BY DEF TypeInv
  <1>2. server.early => server'.early
    <2>1. CASE UNCHANGED server
      BY <2>1
    <2>2. CASE LoseConnection
      BY <1>1, <2>2 DEF LoseConnection
    <2>3. CASE ServerSends
      BY <1>1, <2>3 DEF ServerSends
    <2>4. CASE ReadData
      BY <1>1, <2>4 DEF ReadData
    <2>5. Worker => ReadData \/ UNCHANGED server
      BY DEF Worker, Connect, TakeSendData, SendTaken, NothingRead
    <2>6. Page \/ RunsPosted \/ ResumeTimerFired \/ ClosingTimerFired
             => UNCHANGED server
      BY DEF Page, CloseConnecting, Close, SendMessage, Stop, OpenDialog, handleVars,
             RunsPosted, DidOpenSocket, DidReceiveData,
             ResumeTimerFired, ClosingTimerFired
    <2>7. Continues => UNCHANGED server
      BY DEF Continues, EndHandler, CloseDialog, ChunksDone, NextChunk, BufferDone,
             ServerHandshake, FrameFails, FirstFrame, MessageFrame, PingFrame,
             CloseFrame, Join, FinishDisconnect, FinishFail, FinishDidClose,
             FinishResume, handleVars
    <2>8. UNCHANGED vars => UNCHANGED server
      BY DEF vars, handleVars
    <2> QED
      BY <2>1, <2>2, <2>3, <2>4, <2>5, <2>6, <2>7, <2>8 DEF Next, Network
  <1>3. ws.cutShort => ws'.cutShort
    <2>1. CASE UNCHANGED ws
      BY <2>1
    <2>2. ASSUME NEW w, NEW event, ws' = Heard(w, event), w.cutShort = ws.cutShort,
                 w \in Socket
          PROVE  ws'.cutShort = ws.cutShort
      BY <2>2 DEF Heard, Socket
    <2>3. ASSUME NEW state \in {"OPEN", "CLOSING", "CLOSED"}
          PROVE  /\ [ws EXCEPT !.state = state] \in Socket
                 /\ [ws EXCEPT !.state = state].cutShort = ws.cutShort
      BY <1>1 DEF Socket
    <2>4. ASSUME NEW ch, NEW rest, Fail(ch, rest)
          PROVE  ws'.cutShort = ws.cutShort
      BY <2>2, <2>3, <2>4 DEF Fail
    <2>5. ASSUME NEW ch, NEW h, NEW rest, DidCloseSocketStream(ch, h, rest)
          PROVE  ws'.cutShort = ws.cutShort
      BY <2>2, <2>3, <2>5 DEF DidCloseSocketStream
    <2>6. CASE CloseConnecting \/ ServerHandshake \/ FrameFails
      <3>1. CASE Frame = "accept" /\ ServerHandshake
        BY <2>2, <2>3, <3>1 DEF ServerHandshake
      <3> QED
        BY <2>4, <2>6, <3>1 DEF CloseConnecting, ServerHandshake, FrameFails
    <2>7. CASE Close \/ CloseFrame
      BY <2>3, <2>7 DEF Close, CloseFrame
    <2>8. CASE Stop
      BY <2>8, StopEffect
    <2>9. CASE MessageFrame
      BY <1>1, <2>2, <2>9 DEF MessageFrame
    <2>10. CASE Join \/ FinishResume
      BY <2>5, <2>10 DEF Join, FinishResume
    <2>11. CASE FinishDidClose
      BY <1>1, <2>11 DEF FinishDidClose, Socket
    <2>12. SendMessage \/ OpenDialog \/ RunsPosted \/ ResumeTimerFired
             \/ ClosingTimerFired => UNCHANGED ws
      BY DEF SendMessage, OpenDialog, pageVars, RunsPosted, DidOpenSocket,
             DidReceiveData, ResumeTimerFired, ClosingTimerFired
    <2>13. EndHandler \/ CloseDialog \/ ChunksDone \/ NextChunk \/ BufferDone
             \/ FirstFrame \/ PingFrame \/ FinishDisconnect \/ FinishFail
             => UNCHANGED ws
      BY DEF EndHandler, CloseDialog, ChunksDone, NextChunk, BufferDone,
             FirstFrame, PingFrame, FinishDisconnect, FinishFail
    <2>14. UNCHANGED pageVars \/ UNCHANGED vars => UNCHANGED ws
      BY DEF vars, pageVars
    <2> QED
      BY <2>1, <2>6, <2>7, <2>8, <2>9, <2>10, <2>11, <2>12, <2>13, <2>14
         DEF Next, Page, Continues
  <1> QED
    BY <1>2, <1>3

\* Unless the server spoke before it was asked, or the page was stopped while
\* its channel was suspended or before resume() had reported the end, the
\* WebSocket, its channel and its handle live as long as somebody uses them and
\* no longer: every reference is accounted for after each step of page, server,
\* worker and main thread, for any script, any number of dialogs and any bound.
THEOREM NobodyIsLeftBehind ==
    Spec => [](~server.early /\ ~ws.cutShort => Lifetimes)
  <1> DEFINE Regular == ~server.early /\ ~ws.cutShort
  <1>1. Init => OrderInv /\ (Regular => LifetimesInv)
    BY InitOrder, InitLives
  <1>2. OrderInv /\ (Regular => LifetimesInv) /\ [Next]_vars
           => OrderInv' /\ (Regular => LifetimesInv)'
    <2> SUFFICES ASSUME OrderInv, Regular => LifetimesInv, [Next]_vars
                 PROVE  OrderInv' /\ (Regular' => LifetimesInv')
      OBVIOUS
    <2>1. OrderInv'
      BY StepOrder
    <2>2. Regular' => Regular
      BY Remembered DEF OrderInv
    <2>3. Regular' => LifetimesInv'
      BY <2>2, StepLives
    <2> QED
      BY <2>1, <2>3
  <1>3. OrderInv /\ (Regular => LifetimesInv)
           => (~server.early /\ ~ws.cutShort => Lifetimes)
    BY LifetimesFollow
  <1> QED
    BY <1>1, <1>2, <1>3, PTL DEF Spec
=============================================================================
