------------------------------ MODULE WsGateway ------------------------------
(***************************************************************************)
(* WebSocket connections of internal/handler: websocket_client.go (a read  *)
(* pump that handles one request after the other, a write pump, and a      *)
(* bounded send channel between them), websocket_server.go (the registry,  *)
(* and Stop), and chat.send and chat.abort of websocket_handler_v3.go.     *)
(*                                                                         *)
(* A chat.send runs its agent on the read pump's goroutine, while the      *)
(* callbacks of the run (see AgentRun) publish on goroutines of their own, *)
(* which may outlive the run and the connection.                           *)
(***************************************************************************)
EXTENDS Naturals, Sequences, FiniteSets

CONSTANTS
    Conn,          \* connections
    Capacity,      \* of the send channel: 256 in the code
    MaxRequests,   \* bound: requests a peer sends on a connection
    MaxChunks      \* bound: frames the callbacks of one run publish

ASSUME GatewayAssumption ==
    /\ Capacity \in Nat \ {0}
    /\ MaxRequests \in Nat
    /\ MaxChunks \in Nat

VARIABLES
    peer,           \* the other end of each connection
    inbox,          \* requests it has sent and the read pump has not read
    asked,          \* requests it has sent so far
    sock,           \* this end of the connection
    authenticated,
    reader,         \* the goroutine of handleWebSocket and readPump
    expired,        \* the read deadline has passed
    writer,         \* the goroutine of writePump
    send,           \* the frames in the send channel
    closed,         \* the send channel is closed
    chunks,         \* chunks that the callbacks of each run have still to publish
    wire,           \* the frames written to the connection
    clients,        \* s.clients
    stopped,        \* Stop has run
    panicked,       \* history: who closed a closed channel
    dropped         \* history: frames that found the channel full

vars == <<peer, inbox, asked, sock, authenticated, reader, expired, writer, send, closed,
          chunks, wire, clients, stopped, panicked, dropped>>

Method == {"connect", "chat.send", "chat.abort"}
Id == 1..MaxRequests
Request == [id : Id, method : Method]
Frame == [type : {"res", "chunk", "run.completed"}, id : Id]
NoRequest == [id |-> 0, method |-> "none"]
Off == [pc |-> "off", req |-> NoRequest]

Init ==
    /\ peer = [c \in Conn |-> "none"]
    /\ inbox = [c \in Conn |-> <<>>]
    /\ asked = [c \in Conn |-> 0]
    /\ sock = [c \in Conn |-> "none"]
    /\ authenticated = [c \in Conn |-> FALSE]
    /\ reader = [c \in Conn |-> Off]
    /\ expired = [c \in Conn |-> FALSE]
    /\ writer = [c \in Conn |-> "off"]
    /\ send = [c \in Conn |-> <<>>]
    /\ closed = [c \in Conn |-> FALSE]
    /\ chunks = [c \in Conn |-> [q \in Id |-> 0]]
    /\ wire = [c \in Conn |-> <<>>]
    /\ clients = {}
    /\ stopped = FALSE
    /\ panicked = {}
    /\ dropped = [c \in Conn |-> {}]

\* What each group of actions leaves alone.
ends == <<peer, asked, sock>>
registry == <<clients, stopped, panicked>>
channel == <<send, closed, dropped>>

-----------------------------------------------------------------------------
(* The peer (external). *)

PeerSends(c) ==
    /\ peer[c] = "open"
    /\ asked[c] < MaxRequests
    /\ \E m \in Method :
          inbox' = [inbox EXCEPT ![c] = Append(@, [id |-> asked[c] + 1, method |-> m])]
    /\ asked' = [asked EXCEPT ![c] = @ + 1]
    /\ UNCHANGED <<peer, sock, authenticated, reader, expired, writer, channel, chunks, wire,
                   registry>>

\* It closes the connection, or vanishes.
PeerLeaves(c) ==
    /\ peer[c] = "open"
    /\ peer' = [peer EXCEPT ![c] = "gone"]
    /\ UNCHANGED <<inbox, asked, sock, authenticated, reader, expired, writer, channel, chunks,
                   wire, registry>>

-----------------------------------------------------------------------------
(* SendResponse and SendEvent: never wait, and survive a closed channel. *)

Full(c) == Len(send[c]) >= Capacity

Offer(c, f) ==
    /\ send' = [send EXCEPT ![c] = IF closed[c] \/ Full(c) THEN @ ELSE Append(@, f)]
    /\ dropped' = [dropped EXCEPT ![c] = IF ~closed[c] /\ Full(c) THEN @ \cup {f} ELSE @]
    /\ UNCHANGED closed

\* A callback publishes; its run may be over, and its client gone.
PublishChunk(c, q) ==
    /\ chunks[c][q] > 0
    /\ chunks' = [chunks EXCEPT ![c][q] = @ - 1]
    /\ Offer(c, [type |-> "chunk", id |-> q])
    /\ UNCHANGED <<ends, inbox, authenticated, reader, expired, writer, wire, registry>>

-----------------------------------------------------------------------------
(* handleWebSocket and readPump. *)

Goto(c, where) == reader' = [reader EXCEPT ![c].pc = where]
Idle(c) == reader' = [reader EXCEPT ![c] = [pc |-> "read", req |-> NoRequest]]

Accept(c) ==
    /\ reader[c].pc = "off"
    /\ peer' = [peer EXCEPT ![c] = "open"]
    /\ sock' = [sock EXCEPT ![c] = "open"]
    /\ clients' = clients \cup {c}
    /\ writer' = [writer EXCEPT ![c] = "select"]
    /\ Idle(c)
    /\ UNCHANGED <<asked, inbox, authenticated, expired, channel, chunks, wire, stopped,
                   panicked>>

\* A frame that is in the buffer already is read in spite of the deadline.
ReadFrame(c) ==
    /\ reader[c].pc = "read"
    /\ sock[c] = "open"
    /\ inbox[c] # <<>>
    /\ reader' = [reader EXCEPT ![c] = [pc |-> "handle", req |-> Head(inbox[c])]]
    /\ inbox' = [inbox EXCEPT ![c] = Tail(@)]
    /\ expired' = [expired EXCEPT ![c] = FALSE]
    /\ UNCHANGED <<ends, authenticated, writer, channel, chunks, wire, registry>>

\* A run of more than 60 seconds: only ReadMessage handles pongs, so no pong of the
\* peer moves the deadline meanwhile.
Expire(c) ==
    /\ reader[c].pc = "run"
    /\ ~expired[c]
    /\ expired' = [expired EXCEPT ![c] = TRUE]
    /\ UNCHANGED <<ends, inbox, authenticated, reader, writer, channel, chunks, wire, registry>>

\* The connection is closed at one end, or the deadline has passed.
ReadFails(c) ==
    /\ reader[c].pc = "read"
    /\ sock[c] = "closed" \/ peer[c] = "gone" \/ expired[c]
    /\ sock' = [sock EXCEPT ![c] = "closed"]
    /\ Goto(c, "unregister")
    /\ UNCHANGED <<peer, asked, inbox, authenticated, expired, writer, channel, chunks, wire,
                   registry>>

\* Mutant: the client stays in the registry.
CloseOnly(c) ==
    /\ reader[c].pc = "unregister"
    /\ Goto(c, "close")
    /\ UNCHANGED <<ends, inbox, authenticated, expired, writer, channel, chunks, wire, registry>>

Unregister(c) ==
    /\ reader[c].pc = "unregister"
    /\ clients' = clients \ {c}
    /\ Goto(c, "close")
    /\ UNCHANGED <<ends, inbox, authenticated, expired, writer, channel, chunks, wire, stopped,
                   panicked>>

\* client.Close(): after Stop it panics, which net/http recovers.
CloseClient(c) ==
    /\ reader[c].pc = "close"
    /\ panicked' = IF closed[c] THEN panicked \cup {"handler"} ELSE panicked
    /\ closed' = [closed EXCEPT ![c] = TRUE]
    /\ Goto(c, "done")
    /\ UNCHANGED <<ends, inbox, authenticated, expired, writer, send, dropped, chunks, wire,
                   clients, stopped>>

-----------------------------------------------------------------------------
(* handleFrame: what becomes of the request that was read. *)

Current(c) == reader[c].req.id
Reply(c) == Offer(c, [type |-> "res", id |-> Current(c)])
quiet == <<ends, inbox, expired, writer, wire, registry>>

Handling(c, method) == reader[c].pc = "handle" /\ reader[c].req.method = method

\* Mutant: a request before connect is ignored.
Ignore(c) ==
    /\ reader[c].pc = "handle"
    /\ ~authenticated[c] /\ reader[c].req.method # "connect"
    /\ Idle(c)
    /\ UNCHANGED <<quiet, channel, authenticated, chunks>>

Refuse(c) ==
    /\ reader[c].pc = "handle"
    /\ ~authenticated[c] /\ reader[c].req.method # "connect"
    /\ Reply(c)
    /\ Idle(c)
    /\ UNCHANGED <<quiet, authenticated, chunks>>

HandleConnect(c) ==
    /\ Handling(c, "connect")
    /\ authenticated' = [authenticated EXCEPT ![c] = TRUE]
    /\ Reply(c)
    /\ Idle(c)
    /\ UNCHANGED <<quiet, chunks>>

\* "aborted": true, whatever runs: a run on this connection is over by now.  As far as
\* this module goes, chat.history, health and sessions.* are handled alike.
HandleAbort(c) ==
    /\ Handling(c, "chat.abort")
    /\ authenticated[c]
    /\ Reply(c)
    /\ Idle(c)
    /\ UNCHANGED <<quiet, authenticated, chunks>>

\* Mutant: the response does not wait for the run.
AnswerAtOnce(c) ==
    /\ Handling(c, "chat.send")
    /\ authenticated[c]
    /\ Reply(c)
    /\ Goto(c, "run")
    /\ UNCHANGED <<quiet, authenticated, chunks>>

StartRun(c) ==
    /\ Handling(c, "chat.send")
    /\ authenticated[c]
    /\ \E n \in 0..MaxChunks : chunks' = [chunks EXCEPT ![c][Current(c)] = n]
    /\ Goto(c, "run")
    /\ UNCHANGED <<quiet, channel, authenticated>>

RunCompletes(c) ==
    /\ reader[c].pc = "run"
    /\ Offer(c, [type |-> "run.completed", id |-> Current(c)])
    /\ Goto(c, "answer")
    /\ UNCHANGED <<quiet, authenticated, chunks>>

AnswerRun(c) ==
    /\ reader[c].pc = "answer"
    /\ Reply(c)
    /\ Idle(c)
    /\ UNCHANGED <<quiet, authenticated, chunks>>

\* Mutant: the error is sent, and the handler goes on.
ErrorAndAnswer(c) ==
    /\ reader[c].pc = "run"
    /\ Reply(c)
    /\ Goto(c, "answer")
    /\ UNCHANGED <<quiet, authenticated, chunks>>

RunFails(c) ==
    /\ reader[c].pc = "run"
    /\ Reply(c)
    /\ Idle(c)
    /\ UNCHANGED <<quiet, authenticated, chunks>>

-----------------------------------------------------------------------------
(* writePump. *)

Peek(q) == q                                            \* mutant
Rest(q) == Tail(q)

WriteFrame(c) ==
    /\ writer[c] = "select"
    /\ sock[c] = "open" /\ peer[c] = "open"
    /\ send[c] # <<>>
    /\ wire' = [wire EXCEPT ![c] = Append(@, Head(send[c]))]
    /\ send' = [send EXCEPT ![c] = Rest(@)]
    /\ UNCHANGED <<ends, inbox, authenticated, reader, expired, writer, closed, dropped,
                   chunks, registry>>

\* A frame, or a ping, cannot be written: the connection is closed, its peer is gone,
\* or it takes more than 10 seconds.
Lost(q) == {q} \cup (IF q = <<>> THEN {} ELSE {Tail(q)})

\* Mutant: the pump ends and leaves the connection open.
LeaveOpen(c) ==
    /\ writer[c] = "select"
    /\ \E q \in Lost(send[c]) : send' = [send EXCEPT ![c] = q]
    /\ writer' = [writer EXCEPT ![c] = "exited"]
    /\ UNCHANGED <<ends, inbox, authenticated, reader, expired, closed, dropped, chunks, wire,
                   registry>>

WriteFails(c) ==
    /\ writer[c] = "select"
    /\ \E q \in Lost(send[c]) : send' = [send EXCEPT ![c] = q]
    /\ writer' = [writer EXCEPT ![c] = "exited"]
    /\ sock' = [sock EXCEPT ![c] = "closed"]
    /\ UNCHANGED <<peer, asked, inbox, authenticated, reader, expired, closed, dropped, chunks,
                   wire, registry>>

\* The channel is closed and empty: say goodbye.
WriterEnds(c) ==
    /\ writer[c] = "select"
    /\ closed[c]
    /\ send[c] = <<>>
    /\ writer' = [writer EXCEPT ![c] = "exited"]
    /\ sock' = [sock EXCEPT ![c] = "closed"]
    /\ UNCHANGED <<peer, asked, inbox, authenticated, reader, expired, channel, chunks, wire,
                   registry>>

-----------------------------------------------------------------------------
(* WSServer.Stop, under s.mu. *)

Stop ==
    /\ ~stopped
    /\ stopped' = TRUE
    /\ panicked' = IF \E c \in clients : closed[c] THEN panicked \cup {"Stop"} ELSE panicked
    /\ closed' = [c \in Conn |-> closed[c] \/ c \in clients]
    /\ UNCHANGED <<ends, inbox, authenticated, reader, expired, writer, send, dropped, chunks,
                   wire, clients>>

-----------------------------------------------------------------------------
HandleFrame(c) == Refuse(c) \/ HandleConnect(c) \/ HandleAbort(c) \/ StartRun(c)
Run(c) == RunCompletes(c) \/ AnswerRun(c) \/ RunFails(c)
ReadPump(c) ==
    ReadFrame(c) \/ HandleFrame(c) \/ Run(c) \/ ReadFails(c) \/ Unregister(c) \/ CloseClient(c)

Next ==
    \/ \E c \in Conn :
        \/ Accept(c) \/ PeerSends(c) \/ PeerLeaves(c)
        \/ ReadPump(c) \/ Expire(c)
        \/ WriteFrame(c) \/ WriteFails(c) \/ WriterEnds(c)
        \/ \E q \in Id : PublishChunk(c, q)
    \/ Stop

\* Goroutines run, runs end, a write on a closed connection fails (by a ping at the
\* latest), and one on an open connection succeeds or fails within 10 seconds.
Fairness == \A c \in Conn :
    /\ WF_vars(ReadPump(c))
    /\ WF_vars(WriteFrame(c) \/ WriterEnds(c))
    /\ WF_vars(sock[c] = "closed" /\ WriteFails(c))

Spec == Init /\ [][Next]_vars
FairSpec == Spec /\ Fairness

-----------------------------------------------------------------------------
\* Types, and a send channel that never holds more than its capacity (websocket_client.go:152).
TypeOK ==
    /\ peer \in [Conn -> {"none", "open", "gone"}]
    /\ inbox \in [Conn -> Seq(Request)]
    /\ asked \in [Conn -> 0..MaxRequests]
    /\ sock \in [Conn -> {"none", "open", "closed"}]
    /\ authenticated \in [Conn -> BOOLEAN]
    /\ reader \in [Conn -> [pc : {"off", "read", "handle", "run", "answer", "unregister",
                                  "close", "done"},
                            req : Request \cup {NoRequest}]]
    /\ expired \in [Conn -> BOOLEAN]
    /\ writer \in [Conn -> {"off", "select", "exited"}]
    /\ send \in [Conn -> Seq(Frame)]
    /\ \A c \in Conn : Len(send[c]) <= Capacity
    /\ closed \in [Conn -> BOOLEAN]
    /\ chunks \in [Conn -> [Id -> 0..MaxChunks]]
    /\ wire \in [Conn -> Seq(Frame)]
    /\ clients \subseteq Conn
    /\ stopped \in BOOLEAN
    /\ panicked \subseteq {"handler", "Stop"}
    /\ dropped \in [Conn -> SUBSET Frame]

\* A peer gets at most one response to a request, and responses in the order of its
\* requests, though runs, their callbacks and drops come in between
\* (websocket_client.go:62-78, websocket_handler_v3.go:84-95).
RepliesInOrder ==
    \A c \in Conn : \A i, j \in 1..Len(wire[c]) :
        i < j /\ wire[c][i].type = "res" /\ wire[c][j].type = "res" =>
            wire[c][i].id < wire[c][j].id

\* When a request has been answered, the runs of it and of the requests before it have
\* completed, or never do: no run.completed of theirs comes later.  So the UI is not told
\* twice of one run, and a chat.abort, answered "aborted", is a chat.abort of no run
\* (loop.go:192, websocket_handler_v3.go:88-95, 124-158).  That is what the code does; its
\* comments say the opposite, that chat.send is answered at once and its run goes on
\* (websocket_handler_v3.go:38-39, 94; agent_logic.go:37-38).
RunThenReply ==
    \A c \in Conn : \A i, j \in 1..Len(wire[c]) :
        i < j /\ wire[c][i].type = "res" /\ wire[c][j].type = "run.completed" =>
            wire[c][i].id < wire[c][j].id

\* Stop may close channels that connections close again, which only panics on a
\* goroutine that recovers; but no connection that ends closes one that Stop then
\* closes, which would end the process: it leaves the registry first
\* (websocket_server.go:69-94).
StopNeverPanics == "Stop" \notin panicked

\* A connection down at either end, or closed by Stop, leaves no goroutine and no
\* registry entry behind, whichever pump notices first (websocket_client.go:52-108).
PumpsEnd ==
    \A c \in Conn :
        sock[c] # "none" /\ (sock[c] = "closed" \/ peer[c] = "gone" \/ closed[c]) ~>
            writer[c] = "exited" /\ reader[c].pc = "done" /\ c \notin clients

\* Every request is answered, unless the send channel was full or the connection
\* went down (websocket_client.go:111-138, websocket_handler_v3.go:40-97).
EveryRequestAnswered ==
    \A c \in Conn, q \in Id : LET res == [type |-> "res", id |-> q] IN
        asked[c] >= q ~>
            \/ \E i \in 1..Len(wire[c]) : wire[c][i] = res
            \/ res \in dropped[c]
            \/ sock[c] = "closed" \/ peer[c] = "gone" \/ stopped

Queues == INSTANCE FrameQueue WITH
             queue <- send, up <- [c \in Conn |-> sock[c] # "closed"]

\* The send channels and write pumps are queues that deliver in order, at most once,
\* and lose what they accepted only with the connection (websocket_client.go:82-176).
ImplementsFrameQueue == Queues!Spec

=============================================================================
