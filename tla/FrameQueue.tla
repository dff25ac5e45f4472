----------------------------- MODULE FrameQueue -----------------------------
(***************************************************************************)
(* The promise of the clients' send buffers (SendResponse and SendEvent of *)
(* internal/handler/websocket_client.go, and the write pump): frames       *)
(* arrive in the order they were accepted, each at most once, and what was *)
(* accepted is lost only with the connection.                              *)
(***************************************************************************)
EXTENDS Naturals, Sequences

CONSTANTS Conn, Frame, Capacity

VARIABLES queue, wire, up

Init ==
    /\ queue = [c \in Conn |-> <<>>]
    /\ wire = [c \in Conn |-> <<>>]
    /\ up = [c \in Conn |-> TRUE]

\* A sender never waits: with a full queue its frame is not accepted.
Accept(c) ==
    /\ Len(queue[c]) < Capacity
    /\ \E f \in Frame : queue' = [queue EXCEPT ![c] = Append(@, f)]
    /\ UNCHANGED <<wire, up>>

Deliver(c) ==
    /\ up[c]
    /\ queue[c] # <<>>
    /\ wire' = [wire EXCEPT ![c] = Append(@, Head(queue[c]))]
    /\ queue' = [queue EXCEPT ![c] = Tail(@)]
    /\ UNCHANGED up

\* The connection goes down, for good, and may take the first frame with it.
GoDown(c) ==
    /\ up' = [up EXCEPT ![c] = FALSE]
    /\ \/ UNCHANGED queue
       \/ queue[c] # <<>> /\ queue' = [queue EXCEPT ![c] = Tail(@)]
    /\ UNCHANGED wire

Next == \E c \in Conn : Accept(c) \/ Deliver(c) \/ GoDown(c)

Spec == Init /\ [][Next]_<<queue, wire, up>>
=============================================================================
