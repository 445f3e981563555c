----------------------------- MODULE LiveReload -----------------------------
(***************************************************************************)
(* internal/server/livereload: the hub goroutine that fans reload messages *)
(* out to the browsers' connections, and the reader and writer goroutines  *)
(* of each connection.                                                     *)
(*                                                                         *)
(* The hub's channels have no buffer: an action on one of them is a step   *)
(* of the hub and of its peer together, which the hub takes only between   *)
(* two broadcasts. A connection's send channel is a bounded queue that can *)
(* be closed; a send on a closed channel panics.                           *)
(***************************************************************************)
EXTENDS Naturals, Sequences

CONSTANTS
    Client,        \* connections, one for each page load of a browser
    Buffer,        \* capacity of a send channel (256 in Handler)
    MaxMessages    \* bound on the reload messages of one run

ASSUME BufferAssumption == Buffer \in Nat \ {0}
ASSUME MaxMessagesAssumption == MaxMessages \in Nat

Hello == 0         \* the reply to a browser's hello; reloads count from 1

VARIABLES
    connections,   \* h.connections
    queue,         \* queue[c]: what c.send holds
    closed,        \* closed[c]: c.send is closed
    socket,        \* socket[c]: "none", "open" or "closed"
    reader,        \* where the handler goroutine of c is
    writer,        \* where the writer goroutine of c is
    todo,          \* connections the hub has still to offer the message
    sent,          \* reload messages broadcast so far, numbered from 1
    last           \* last[c]: the last reload message written to c's socket

liveVars == <<connections, queue, closed, socket, reader, writer, todo, sent, last>>

hubVars == <<connections, todo, sent>>

LiveInit ==
    /\ connections = {}
    /\ queue = [c \in Client |-> << >>]
    /\ closed = [c \in Client |-> FALSE]
    /\ socket = [c \in Client |-> "none"]
    /\ reader = [c \in Client |-> "none"]
    /\ writer = [c \in Client |-> "none"]
    /\ todo = {}
    /\ sent = 0
    /\ last = [c \in Client |-> 0]

\* The hub waits in its select: it is not fanning out a message.
HubIdle == todo = {}

-----------------------------------------------------------------------------
(* The hub                                                                 *)

\* ReloadResource: the hub accepts the message and begins to fan it out.
ReloadResource ==
    /\ HubIdle
    /\ sent < MaxMessages
    /\ sent' = sent + 1
    /\ todo' = connections
    /\ UNCHANGED <<connections, queue, closed, socket, reader, writer, last>>

KeepSlow(c) ==
    /\ todo' = todo \ {c}
    /\ UNCHANGED <<connections, queue, closed>>

DropAndClose(c) ==
    /\ todo' = todo \ {c}
    /\ connections' = connections \ {c}
    /\ closed' = [closed EXCEPT ![c] = TRUE]
    /\ UNCHANGED queue

CloseOnly(c) ==
    /\ todo' = todo \ {c}
    /\ closed' = [closed EXCEPT ![c] = TRUE]
    /\ UNCHANGED <<connections, queue>>

\* The default branch: there is no room for the message.
Overflow(c) == DropAndClose(c)

\* One turn of the loop over h.connections: a send that does not block.
Offer(c) ==
    /\ c \in todo
    /\ IF Len(queue[c]) < Buffer
       THEN /\ queue' = [queue EXCEPT ![c] = Append(@, sent)]
            /\ todo' = todo \ {c}
            /\ UNCHANGED <<connections, closed>>
       ELSE Overflow(c)
    /\ UNCHANGED <<socket, reader, writer, sent, last>>

\* The hub registers the connection; Handler starts the writer and reads.
Register(c) ==
    /\ HubIdle
    /\ reader[c] = "register"
    /\ connections' = connections \cup {c}
    /\ reader' = [reader EXCEPT ![c] = "read"]
    /\ writer' = [writer EXCEPT ![c] = "write"]
    /\ last' = [last EXCEPT ![c] = sent]
    /\ UNCHANGED <<queue, closed, socket, todo, sent>>

\* delete(h.connections, c); c.close() closes the channel at most once.
Remove(c) ==
    /\ connections' = connections \ {c}
    /\ closed' = [closed EXCEPT ![c] = TRUE]

\* The deferred unregister of Handler, also when its reader panicked.
Unregister(c) ==
    /\ HubIdle
    /\ reader[c] \in {"unregister", "panicked"}
    /\ Remove(c)
    /\ reader' = [reader EXCEPT ![c] = "done"]
    /\ UNCHANGED <<queue, socket, writer, todo, sent, last>>

-----------------------------------------------------------------------------
(* A connection                                                            *)

\* A browser opens the websocket: Handler goes to register it.
Connect(c) ==
    /\ socket[c] = "none"
    /\ socket' = [socket EXCEPT ![c] = "open"]
    /\ reader' = [reader EXCEPT ![c] = "register"]
    /\ UNCHANGED <<hubVars, queue, closed, writer, last>>

\* The browser goes away.
Disconnect(c) ==
    /\ socket[c] = "open"
    /\ socket' = [socket EXCEPT ![c] = "closed"]
    /\ UNCHANGED <<hubVars, queue, closed, reader, writer, last>>

\* ReadMessage returns a hello.
ReadHello(c) ==
    /\ reader[c] = "read"
    /\ socket[c] = "open"
    /\ reader' = [reader EXCEPT ![c] = "reply"]
    /\ UNCHANGED <<hubVars, queue, closed, socket, writer, last>>

\* The reply goes through the send channel: it waits for room, and panics if
\* the channel is closed.
Reply(c) ==
    /\ reader[c] = "reply"
    /\ \/ /\ closed[c]
          /\ reader' = [reader EXCEPT ![c] = "panicked"]
          /\ UNCHANGED queue
       \/ /\ ~closed[c]
          /\ Len(queue[c]) < Buffer
          /\ queue' = [queue EXCEPT ![c] = Append(@, Hello)]
          /\ reader' = [reader EXCEPT ![c] = "read"]
    /\ UNCHANGED <<hubVars, closed, socket, writer, last>>

\* ReadMessage fails: the loop ends, and the socket is closed.
ReadError(c) ==
    /\ reader[c] = "read"
    /\ socket[c] = "closed"
    /\ reader' = [reader EXCEPT ![c] = "unregister"]
    /\ UNCHANGED <<hubVars, queue, closed, socket, writer, last>>

\* The writer takes the next message and writes it, if the socket is open.
Write(c) ==
    /\ writer[c] = "write"
    /\ queue[c] # << >>
    /\ queue' = [queue EXCEPT ![c] = Tail(@)]
    /\ IF socket[c] = "open"
       THEN /\ last' = [last EXCEPT ![c] =
                            IF Head(queue[c]) = Hello THEN @ ELSE Head(queue[c])]
            /\ UNCHANGED writer
       ELSE writer' = [writer EXCEPT ![c] = "done"] /\ UNCHANGED last
    /\ UNCHANGED <<hubVars, closed, socket, reader>>

WriterEndSilently(c) ==
    /\ writer[c] = "write"
    /\ closed[c]
    /\ queue[c] = << >>
    /\ writer' = [writer EXCEPT ![c] = "done"]
    /\ UNCHANGED <<hubVars, queue, closed, socket, reader, last>>

\* The channel is closed and drained: the writer closes the socket.
WriterEnd(c) ==
    /\ writer[c] = "write"
    /\ closed[c]
    /\ queue[c] = << >>
    /\ writer' = [writer EXCEPT ![c] = "done"]
    /\ socket' = [socket EXCEPT ![c] = "closed"]
    /\ UNCHANGED <<hubVars, queue, closed, reader, last>>

-----------------------------------------------------------------------------

HubStep(c) == Offer(c) \/ Register(c) \/ Unregister(c)

ConnectionStep(c) == Reply(c) \/ ReadError(c) \/ Write(c) \/ WriterEnd(c)

LiveNext ==
    \/ ReloadResource
    \/ \E c \in Client :
        \/ HubStep(c) \/ ConnectionStep(c)
        \/ Connect(c) \/ Disconnect(c) \/ ReadHello(c)

LiveSpec == LiveInit /\ [][LiveNext]_liveVars

\* The hub is scheduled. Nothing is assumed of browsers and connections.
FairSpec == LiveSpec /\ \A c \in Client : WF_liveVars(Offer(c))

\* The goroutines of the connections are scheduled as well, and the hub's
\* select does not starve one of its channels.
ConnectionsScheduled ==
    \A c \in Client : /\ SF_liveVars(Register(c)) /\ SF_liveVars(Unregister(c))
                      /\ WF_liveVars(ConnectionStep(c))

-----------------------------------------------------------------------------
(* Properties                                                              *)

\* Every variable has its type, and the hub only fans out to connections.
LiveTypeOK ==
    /\ connections \subseteq Client
    /\ queue \in [Client -> Seq(0..sent)]
    /\ \A c \in Client : Len(queue[c]) <= Buffer
    /\ closed \in [Client -> BOOLEAN]
    /\ socket \in [Client -> {"none", "open", "closed"}]
    /\ reader \in [Client -> {"none", "register", "read", "reply",
                              "unregister", "panicked", "done"}]
    /\ writer \in [Client -> {"none", "write", "done"}]
    /\ todo \subseteq connections
    /\ sent \in Nat
    /\ last \in [Client -> 0..sent]

\* The hub never sends on a closed channel: a panic of its goroutine would end
\* the whole process.
HubNeverPanics == \A c \in todo : ~closed[c]

\* A handler that has returned leaves nothing behind in the hub, and its writer
\* has been told to stop.
NothingLeftBehind ==
    \A c \in Client : reader[c] = "done" => c \notin connections /\ closed[c]

\* The hub only has connections whose channel is open, and whose handler has
\* registered them; a writer runs from then on until it closes the socket.
ConnectionsInv ==
    \A c \in Client :
        /\ c \in connections => ~closed[c]
        /\ reader[c] \in {"none", "register"} =>
              /\ c \notin connections /\ ~closed[c]
              /\ writer[c] = "none" /\ queue[c] = << >>
        /\ socket[c] = "none" => reader[c] = "none"
        /\ writer[c] = "done" => socket[c] = "closed"

\* The reloads in q come in order and without a gap, the first one after "after".
Gapless(q, after) ==
    \A i \in DOMAIN q : q[i] # Hello =>
        /\ after < q[i]
        /\ \A j \in 1..(i - 1) : q[j] < q[i]
        /\ \A m \in (after + 1)..(q[i] - 1) : \E j \in 1..(i - 1) : q[j] = m

\* The reloads after "after" and up to upTo are all in q, and no later one is.
Covers(q, after, upTo) ==
    /\ after <= upTo
    /\ \A i \in DOMAIN q : q[i] <= upTo
    /\ \A m \in (after + 1)..upTo : \E i \in DOMAIN q : q[i] = m

\* The newest message that the hub has offered to c.
Offered(c) == IF c \in todo THEN sent - 1 ELSE sent

\* A send channel holds the messages its browser lacks, in order, without a gap
\* and up to the newest one that was offered, as long as the hub has not dropped
\* the connection; hellos may be anywhere between them.
QueueInv ==
    \A c \in Client : writer[c] = "write" =>
        /\ Gapless(queue[c], last[c])
        /\ c \in connections => Covers(queue[c], last[c], Offered(c))

\* The state of the hub is sound in every respect.
LiveInv == LiveTypeOK /\ HubNeverPanics /\ NothingLeftBehind /\ ConnectionsInv /\ QueueInv

\* However slow or stuck the browsers are, every broadcast ends, so that the
\* goroutine that watches the files is never blocked by them.
BroadcastEnds == (todo # {}) ~> (todo = {})

\* A connection that broke is taken out of the hub, unless its reader is just
\* then waiting to reply, and one that the hub dropped for being slow has its
\* socket closed, after what it was sent has been written.
DeadConnectionsEnd ==
    ConnectionsScheduled => \A c \in Client :
        /\ (reader[c] = "read" /\ socket[c] = "closed") ~> (c \notin connections)
        /\ (writer[c] = "write" /\ closed[c]) ~> (socket[c] = "closed")

\* The hub goes on, whatever its browsers do, and lets go of the dead ones.
HubGoesOn == BroadcastEnds /\ DeadConnectionsEnd

Status(c) ==
    IF socket[c] = "closed" THEN "gone"
    ELSE IF writer[c] = "none" THEN "away" ELSE "joined"

Feed == INSTANCE ReloadFeed WITH
    status <- [c \in Client |-> Status(c)],
    last <- [c \in Client |-> IF Status(c) = "joined" THEN last[c] ELSE 0]

\* Browsers see what ReloadFeed promises.
ImplementsReloadFeed == Feed!Spec
=============================================================================
