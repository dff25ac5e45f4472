-------------------------- MODULE WsGatewayProofs --------------------------
(***************************************************************************)
(* Theorems about WsGateway, for any connections, and any capacity of the  *)
(* send channel.                                                           *)
(***************************************************************************)
EXTENDS WsGateway, SequenceTheorems, TLAPS

-----------------------------------------------------------------------------
(* The inductive invariant. *)

\* What may follow a response: a response or the end of a run of a later request only.
Before(f, g) == f.type = "res" /\ g.type \in {"res", "run.completed"} => f.id < g.id
InOrder(q) == \A i, j \in 1..Len(q) : i < j => Before(q[i], q[j])
Follows(q, r) == \A i \in 1..Len(q), j \in 1..Len(r) : Before(q[i], r[j])

\* The responses in q are all to requests before n.
Answers(q, n) == \A i \in 1..Len(q) : q[i].type = "res" => q[i].id < n
Answered(c, n) == Answers(wire[c], n) /\ Answers(send[c], n)

Busy(c) == reader[c].pc \in {"handle", "run", "answer"}

\* The frames that were written, and then those in the channel, are in order.
Ordered == \A c \in Conn :
    InOrder(wire[c]) /\ InOrder(send[c]) /\ Follows(wire[c], send[c])

\* The requests that wait are in order too, and like the one that is handled unanswered.
Unanswered == \A c \in Conn :
    /\ Answered(c, asked[c] + 1)
    /\ \A i \in 1..Len(inbox[c]) : inbox[c][i].id <= asked[c] /\ Answered(c, inbox[c][i].id)
    /\ \A i, j \in 1..Len(inbox[c]) : i < j => inbox[c][i].id < inbox[c][j].id
    /\ Busy(c) => /\ reader[c].req \in Request /\ reader[c].req.id <= asked[c]
                  /\ Answered(c, reader[c].req.id)
                  /\ \A i \in 1..Len(inbox[c]) : reader[c].req.id < inbox[c][i].id

\* A connection is in the registry from Accept until it unregisters, which is before it
\* closes its channel; so Stop alone closes the channel of a registered one.
Registered == \A c \in Conn :
    /\ reader[c].pc = "off" => c \notin clients /\ ~closed[c]
    /\ reader[c].pc \in {"close", "done"} => c \notin clients
    /\ closed[c] /\ c \in clients => stopped

IInv == TypeOK /\ Ordered /\ Unanswered /\ Registered /\ StopNeverPanics

-----------------------------------------------------------------------------
(* Queues of frames: appending, removing the head, moving it to the wire. *)

LEMMA AppendOrder ==
    ASSUME NEW q \in Seq(Frame), NEW f \in Frame, InOrder(q),
           \A i \in 1..Len(q) : Before(q[i], f)
    PROVE  Append(q, f) \in Seq(Frame) /\ InOrder(Append(q, f))
<1>1. Len(q) \in Nat /\ Append(q, f) \in Seq(Frame) /\ Len(Append(q, f)) = Len(q) + 1
  BY LenProperties, AppendProperties
<1>2. Append(q, f)[Len(q) + 1] = f /\ \A i \in 1..Len(q) : Append(q, f)[i] = q[i]
  BY AppendProperties
<1>3. ASSUME NEW i \in 1..(Len(q) + 1), NEW j \in 1..(Len(q) + 1), i < j
      PROVE  Before(Append(q, f)[i], Append(q, f)[j])
  <2>1. i \in 1..Len(q)
    BY <1>1, <1>3
  <2>2. CASE j = Len(q) + 1
    BY <1>2, <2>1, <2>2
  <2>3. CASE j \in 1..Len(q)
    BY <1>2, <1>3, <2>1, <2>3 DEF InOrder
  <2> QED
    BY <1>1, <2>2, <2>3
<1> QED
  BY <1>1, <1>3 DEF InOrder

LEMMA AppendFollows ==
    ASSUME NEW w \in Seq(Frame), NEW q \in Seq(Frame), NEW f \in Frame, Follows(w, q),
           \A i \in 1..Len(w) : Before(w[i], f)
    PROVE  Follows(w, Append(q, f))
<1>1. Len(q) \in Nat /\ Len(Append(q, f)) = Len(q) + 1
  BY LenProperties, AppendProperties
<1>2. Append(q, f)[Len(q) + 1] = f /\ \A i \in 1..Len(q) : Append(q, f)[i] = q[i]
  BY AppendProperties
<1>3. \A j \in 1..(Len(q) + 1) : j = Len(q) + 1 \/ j \in 1..Len(q)
  BY <1>1
<1> QED
  BY <1>1, <1>2, <1>3 DEF Follows

LEMMA AppendAnswers ==
    ASSUME NEW q \in Seq(Frame), NEW f \in Frame, NEW n, Answers(q, n),
           f.type = "res" => f.id < n
    PROVE  Answers(Append(q, f), n)
<1>1. Len(q) \in Nat /\ Len(Append(q, f)) = Len(q) + 1
  BY LenProperties, AppendProperties
<1>2. Append(q, f)[Len(q) + 1] = f /\ \A i \in 1..Len(q) : Append(q, f)[i] = q[i]
  BY AppendProperties
<1>3. \A j \in 1..(Len(q) + 1) : j = Len(q) + 1 \/ j \in 1..Len(q)
  BY <1>1
<1> QED
  BY <1>1, <1>2, <1>3 DEF Answers

LEMMA TailKeeps ==
    ASSUME NEW w \in Seq(Frame), NEW q \in Seq(Frame), q # <<>>
    PROVE  /\ Tail(q) \in Seq(Frame) /\ Len(Tail(q)) < Len(q)
           /\ InOrder(q) => InOrder(Tail(q))
           /\ Follows(w, q) => Follows(w, Tail(q))
           /\ \A n : Answers(q, n) => Answers(Tail(q), n)
<1>1. /\ Len(q) \in Nat \ {0} /\ Tail(q) \in Seq(Frame) /\ Len(Tail(q)) = Len(q) - 1
      /\ \A i \in 1..Len(Tail(q)) : Tail(q)[i] = q[i + 1]
  BY EmptySeq, LenProperties, HeadTailProperties
<1>2. \A i \in 1..Len(Tail(q)) : i + 1 \in 1..Len(q)
  BY <1>1
<1>3. InOrder(q) => InOrder(Tail(q))
  BY <1>1, <1>2 DEF InOrder
<1>4. Follows(w, q) => Follows(w, Tail(q))
  BY <1>1, <1>2 DEF Follows
<1>5. \A n : Answers(q, n) => Answers(Tail(q), n)
  BY <1>1, <1>2 DEF Answers
<1> QED
  BY <1>1, <1>3, <1>4, <1>5

LEMMA HeadMoves ==
    ASSUME NEW w \in Seq(Frame), NEW q \in Seq(Frame), q # <<>>,
           InOrder(w), InOrder(q), Follows(w, q)
    PROVE  /\ Append(w, Head(q)) \in Seq(Frame)
           /\ InOrder(Append(w, Head(q))) /\ Follows(Append(w, Head(q)), Tail(q))
           /\ \A n : Answers(w, n) /\ Answers(q, n) => Answers(Append(w, Head(q)), n)
<1>1. /\ Len(q) \in Nat \ {0} /\ Len(w) \in Nat /\ Head(q) = q[1] /\ Head(q) \in Frame
      /\ Tail(q) \in Seq(Frame) /\ Len(Tail(q)) = Len(q) - 1
      /\ \A i \in 1..Len(Tail(q)) : Tail(q)[i] = q[i + 1]
  BY EmptySeq, LenProperties, HeadTailProperties
<1>2. /\ Len(Append(w, Head(q))) = Len(w) + 1 /\ Append(w, Head(q))[Len(w) + 1] = q[1]
      /\ \A i \in 1..Len(w) : Append(w, Head(q))[i] = w[i]
  BY <1>1, AppendProperties
<1>3. \A i \in 1..Len(w) : Before(w[i], Head(q))
  BY <1>1 DEF Follows
<1>4. Append(w, Head(q)) \in Seq(Frame) /\ InOrder(Append(w, Head(q)))
  BY <1>1, <1>3, AppendOrder
<1>5. Follows(Append(w, Head(q)), Tail(q))
  <2> SUFFICES ASSUME NEW i \in 1..(Len(w) + 1), NEW j \in 1..Len(Tail(q))
               PROVE  Before(Append(w, Head(q))[i], q[j + 1])
    BY <1>1, <1>2 DEF Follows
  <2>1. j + 1 \in 1..Len(q) /\ 1 \in 1..Len(q) /\ 1 < j + 1
    BY <1>1
  <2>2. CASE i = Len(w) + 1
    BY <1>2, <2>1, <2>2 DEF InOrder
  <2>3. CASE i \in 1..Len(w)
    BY <1>2, <2>1, <2>3 DEF Follows
  <2> QED
    BY <1>1, <2>2, <2>3
<1>6. ASSUME NEW n, Answers(w, n), Answers(q, n) PROVE Answers(Append(w, Head(q)), n)
  <2>1. 1 \in 1..Len(q)
    BY <1>1
  <2>2. Head(q).type = "res" => Head(q).id < n
    BY <1>1, <1>6, <2>1 DEF Answers
  <2> QED
    BY <1>1, <1>6, <2>2, AppendAnswers
<1> QED
  BY <1>4, <1>5, <1>6

-----------------------------------------------------------------------------
(* What a step does to the queues. *)

\* SendResponse and SendEvent keep the order, if the frame comes after all responses.
LEMMA OfferKeeps ==
    ASSUME TypeOK, Ordered, NEW c \in Conn, NEW f \in Frame, Offer(c, f), UNCHANGED wire,
           f.type # "chunk" => Answered(c, f.id)
    PROVE  /\ send' \in [Conn -> Seq(Frame)] /\ \A o \in Conn : Len(send'[o]) <= Capacity
           /\ dropped' \in [Conn -> SUBSET Frame] /\ closed' = closed
           /\ Ordered'
           /\ \A o \in Conn : \A n :
                 /\ Answered(o, n)
                 /\ o = c /\ f.type = "res" => f.id < n
                 => Answers(wire'[o], n) /\ Answers(send'[o], n)
<1>1. /\ send \in [Conn -> Seq(Frame)] /\ wire \in [Conn -> Seq(Frame)]
      /\ dropped \in [Conn -> SUBSET Frame] /\ \A o \in Conn : Len(send[o]) <= Capacity
  BY DEF TypeOK
<1>2. \A o \in Conn \ {c} : send'[o] = send[o]
  BY <1>1 DEF Offer
<1>3. dropped' \in [Conn -> SUBSET Frame] /\ closed' = closed
  BY <1>1 DEF Offer
<1>4. CASE closed[c] \/ Full(c)
  <2>1. send' = send
    BY <1>1, <1>4 DEF Offer
  <2> QED
    BY <1>1, <1>3, <2>1 DEF Ordered, Answered
<1>5. CASE ~(closed[c] \/ Full(c))
  <2>1. send'[c] = Append(send[c], f)
    BY <1>1, <1>5 DEF Offer
  <2>2. /\ \A i \in 1..Len(wire[c]) : wire[c][i] \in Frame /\ Before(wire[c][i], f)
        /\ \A i \in 1..Len(send[c]) : send[c][i] \in Frame /\ Before(send[c][i], f)
    BY <1>1, ElementOfSeq DEF Before, Answered, Answers
  <2>3. Append(send[c], f) \in Seq(Frame) /\ InOrder(Append(send[c], f))
    BY <1>1, <2>2, AppendOrder DEF Ordered
  <2>4. Follows(wire[c], Append(send[c], f))
    BY <1>1, <2>2, AppendFollows DEF Ordered
  <2>5. Len(Append(send[c], f)) <= Capacity
    <3>1. Len(send[c]) \in Nat /\ Len(Append(send[c], f)) = Len(send[c]) + 1
      BY <1>1, LenProperties, AppendProperties
    <3> QED
      BY <1>1, <1>5, <3>1, GatewayAssumption DEF Full
  <2>6. send' \in [Conn -> Seq(Frame)] /\ \A o \in Conn : Len(send'[o]) <= Capacity
    <3>1. send' = [send EXCEPT ![c] = Append(send[c], f)]
      BY <1>5 DEF Offer
    <3> QED
      BY <1>1, <1>2, <2>1, <2>3, <2>5, <3>1
  <2>7. Ordered'
    BY <1>2, <2>1, <2>3, <2>4 DEF Ordered
  <2>8. ASSUME NEW o \in Conn, NEW n, Answered(o, n), o = c /\ f.type = "res" => f.id < n
        PROVE  Answers(wire'[o], n) /\ Answers(send'[o], n)
    <3>1. CASE o = c
      BY <1>1, <2>1, <2>8, <3>1, AppendAnswers DEF Answered
    <3>2. CASE o # c
      BY <1>2, <2>8, <3>2 DEF Answered
    <3> QED
      BY <3>1, <3>2
  <2> QED
    BY <1>3, <2>6, <2>7, <2>8
<1> QED
  BY <1>4, <1>5

\* A step that leaves frames and requests alone, and begins to handle nothing.
LEMMA QuietKeeps ==
    ASSUME Ordered, Unanswered, UNCHANGED <<wire, send, inbox, asked>>,
           \A o \in Conn : Busy(o)' => Busy(o) /\ reader'[o].req = reader[o].req
    PROVE  Ordered' /\ Unanswered'
<1>1. Ordered'
  BY DEF Ordered
<1>2. \A o \in Conn : \A n : Answered(o, n) => Answers(wire'[o], n) /\ Answers(send'[o], n)
  BY DEF Answered
<1>3. Unanswered'
  BY <1>2 DEF Unanswered, Answered
<1> QED
  BY <1>1, <1>3

\* Where a step leaves the reader of its connection.
LEMMA GotoReader ==
    ASSUME TypeOK, NEW c \in Conn,
           NEW where \in {"off", "read", "handle", "run", "answer", "unregister", "close", "done"}
    PROVE  /\ Goto(c, where) =>
                 /\ reader'[c].pc = where /\ reader'[c].req = reader[c].req
                 /\ \A o \in Conn \ {c} : reader'[o] = reader[o]
                 /\ reader' \in [Conn -> [pc : {"off", "read", "handle", "run", "answer",
                                               "unregister", "close", "done"},
                                         req : Request \cup {NoRequest}]]
           /\ Idle(c) =>
                 /\ reader'[c].pc = "read" /\ \A o \in Conn \ {c} : reader'[o] = reader[o]
                 /\ reader' \in [Conn -> [pc : {"off", "read", "handle", "run", "answer",
                                               "unregister", "close", "done"},
                                         req : Request \cup {NoRequest}]]
<1>1. reader \in [Conn -> [pc : {"off", "read", "handle", "run", "answer", "unregister",
                                 "close", "done"},
                           req : Request \cup {NoRequest}]]
  BY DEF TypeOK
<1>2. ASSUME Goto(c, where)
      PROVE  /\ reader'[c] = [reader[c] EXCEPT !.pc = where]
             /\ \A o \in Conn \ {c} : reader'[o] = reader[o]
             /\ reader' = [reader EXCEPT ![c] = [reader[c] EXCEPT !.pc = where]]
  BY <1>1, <1>2 DEF Goto
<1>3. /\ [reader[c] EXCEPT !.pc = where].pc = where
      /\ [reader[c] EXCEPT !.pc = where].req = reader[c].req
      /\ [reader[c] EXCEPT !.pc = where] \in
            [pc : {"off", "read", "handle", "run", "answer", "unregister", "close", "done"},
             req : Request \cup {NoRequest}]
  BY <1>1
<1>4. ASSUME Idle(c)
      PROVE  /\ reader'[c].pc = "read" /\ \A o \in Conn \ {c} : reader'[o] = reader[o]
             /\ reader' \in [Conn -> [pc : {"off", "read", "handle", "run", "answer",
                                            "unregister", "close", "done"},
                                      req : Request \cup {NoRequest}]]
  BY <1>1, <1>4 DEF Idle
<1> QED
  BY <1>1, <1>2, <1>3, <1>4

-----------------------------------------------------------------------------
(* The steps. *)

\* A step that neither closes a channel nor changes the registry.
LEMMA SameRegistry ==
    ASSUME Registered, StopNeverPanics, UNCHANGED <<registry, closed>>,
           \A o \in Conn :
               reader'[o].pc = reader[o].pc \/ reader'[o].pc \in {"read", "handle", "run", "answer", "unregister"}
    PROVE  Registered' /\ StopNeverPanics'
BY DEF Registered, StopNeverPanics, registry

\* A response, an event or a chunk of c; only the response ends what it handles.
LEMMA OfferStep ==
    ASSUME IInv, NEW c \in Conn, NEW f \in Frame, Offer(c, f),
           UNCHANGED <<wire, inbox, asked, registry>>,
           f.type # "chunk" => Busy(c) /\ f.id = reader[c].req.id,
           f.type = "res" => ~Busy(c)',
           \A o \in Conn : Busy(o)' => Busy(o) /\ reader'[o].req = reader[o].req,
           \A o \in Conn : reader'[o].pc = reader[o].pc \/ reader'[o].pc \in {"read", "answer"}
    PROVE  /\ send' \in [Conn -> Seq(Frame)] /\ \A o \in Conn : Len(send'[o]) <= Capacity
           /\ dropped' \in [Conn -> SUBSET Frame] /\ closed' = closed
           /\ Ordered' /\ Unanswered' /\ Registered' /\ StopNeverPanics'
<1> USE DEF IInv
<1>1. f.type # "chunk" => Answered(c, f.id)
  BY DEF Unanswered
<1>2. /\ send' \in [Conn -> Seq(Frame)] /\ \A o \in Conn : Len(send'[o]) <= Capacity
      /\ dropped' \in [Conn -> SUBSET Frame] /\ closed' = closed
      /\ Ordered'
      /\ \A o \in Conn : \A n :
            /\ Answered(o, n)
            /\ o = c /\ f.type = "res" => f.id < n
            => Answers(wire'[o], n) /\ Answers(send'[o], n)
  BY <1>1, OfferKeeps
<1>3. /\ asked \in [Conn -> 0..MaxRequests] /\ inbox \in [Conn -> Seq(Request)] /\ MaxRequests \in Nat
  BY GatewayAssumption DEF TypeOK
<1>4. ASSUME NEW o \in Conn
      PROVE  /\ Answered(o, asked[o] + 1)'
             /\ \A i \in 1..Len(inbox[o]) : Answered(o, inbox[o][i].id)'
             /\ Busy(o)' => Answered(o, reader[o].req.id)'
  <2>1. f.type = "res" /\ o = c =>
            f.id < asked[o] + 1 /\ \A i \in 1..Len(inbox[o]) : f.id < inbox[o][i].id
    <3>1. f.type = "res" /\ o = c => f.id <= asked[o] /\ f.id \in Int
      BY DEF Unanswered, Frame, Id
    <3> QED
      BY <1>3, <3>1 DEF Unanswered
  <2>2. Answered(o, asked[o] + 1) /\ \A i \in 1..Len(inbox[o]) : Answered(o, inbox[o][i].id)
    BY DEF Unanswered
  <2>3. Answers(wire'[o], asked[o] + 1) /\ Answers(send'[o], asked[o] + 1)
    BY <1>2, <2>1, <2>2
  <2>4. \A i \in 1..Len(inbox[o]) : Answers(wire'[o], inbox[o][i].id) /\ Answers(send'[o], inbox[o][i].id)
    BY <1>2, <2>1, <2>2
  <2>5. Busy(o)' => Answers(wire'[o], reader[o].req.id) /\ Answers(send'[o], reader[o].req.id)
    <3>1. Busy(o)' => Answered(o, reader[o].req.id) /\ ~(o = c /\ f.type = "res")
      BY DEF Unanswered
    <3> QED
      BY <1>2, <3>1
  <2> QED
    BY <2>3, <2>4, <2>5 DEF Answered, Answers
<1>5. Unanswered'
  BY <1>4 DEF Unanswered, Answered
<1>6. Registered' /\ StopNeverPanics'
  BY <1>2, SameRegistry
<1> QED
  BY <1>2, <1>5, <1>6

LEMMA InitInv == Init => IInv
<1> SUFFICES ASSUME Init PROVE IInv
  OBVIOUS
<1>1. TypeOK
  <2>1. <<>> \in Seq(Request) /\ <<>> \in Seq(Frame) /\ Len(<<>>) = 0 /\ Len(<<>>) <= Capacity
    BY EmptySeq, GatewayAssumption
  <2>2. \A c \in Conn : Len(send[c]) <= Capacity
    BY <2>1 DEF Init
  <2>3. /\ inbox \in [Conn -> Seq(Request)]
        /\ send \in [Conn -> Seq(Frame)] /\ wire \in [Conn -> Seq(Frame)]
    BY <2>1 DEF Init
  <2>4. /\ asked \in [Conn -> 0..MaxRequests] /\ chunks \in [Conn -> [Id -> 0..MaxChunks]]
    BY GatewayAssumption DEF Init
  <2>5. reader \in [Conn -> [pc : {"off", "read", "handle", "run", "answer", "unregister",
                                  "close", "done"},
                            req : Request \cup {NoRequest}]]
    BY DEF Init, Off
  <2> QED
    BY <2>2, <2>3, <2>4, <2>5 DEF Init, TypeOK
<1>2. Ordered /\ Unanswered
  <2>1. \A c \in Conn : wire[c] = <<>> /\ send[c] = <<>> /\ inbox[c] = <<>> /\ ~Busy(c)
    BY DEF Init, Off, Busy
  <2>2. \A n : Answers(<<>>, n)
    BY DEF Answers
  <2> QED
    BY <2>1, <2>2 DEF Ordered, Unanswered, Answered, InOrder, Follows
<1>3. Registered /\ StopNeverPanics
  BY DEF Init, Off, Registered, StopNeverPanics
<1> QED
  BY <1>1, <1>2, <1>3 DEF IInv

\* A request is refused, answered, or its run fails.
LEMMA ReplyStep ==
    ASSUME IInv, NEW c \in Conn,
           Refuse(c) \/ HandleConnect(c) \/ HandleAbort(c) \/ AnswerRun(c) \/ RunFails(c)
    PROVE  IInv'
<1> USE DEF IInv
<1> DEFINE f == [type |-> "res", id |-> reader[c].req.id]
<1>1. Busy(c) /\ Offer(c, f) /\ Idle(c) /\ UNCHANGED <<quiet, chunks>>
  BY DEF Refuse, HandleConnect, HandleAbort, AnswerRun, RunFails, Handling, Busy, Reply,
     Current
<1>2. f \in Frame /\ f.type = "res" /\ f.id = reader[c].req.id
  BY <1>1 DEF Unanswered, Request, Frame
<1> HIDE DEF f
<1>3. /\ reader'[c].pc = "read" /\ \A o \in Conn \ {c} : reader'[o] = reader[o]
      /\ reader' \in [Conn -> [pc : {"off", "read", "handle", "run", "answer",
                                     "unregister", "close", "done"},
                               req : Request \cup {NoRequest}]]
  BY <1>1, GotoReader
<1>4. /\ ~Busy(c)' /\ \A o \in Conn : Busy(o)' => Busy(o) /\ reader'[o].req = reader[o].req
      /\ \A o \in Conn : reader'[o].pc = reader[o].pc \/ reader'[o].pc \in {"read", "answer"}
  BY <1>3 DEF Busy
<1>5. UNCHANGED <<wire, inbox, asked, registry>>
  BY <1>1 DEF quiet, ends
<1>6. /\ send' \in [Conn -> Seq(Frame)] /\ \A o \in Conn : Len(send'[o]) <= Capacity
      /\ dropped' \in [Conn -> SUBSET Frame] /\ closed' = closed
      /\ Ordered' /\ Unanswered' /\ Registered' /\ StopNeverPanics'
  BY <1>1, <1>2, <1>4, <1>5, OfferStep
<1>7. authenticated' \in [Conn -> BOOLEAN]
  BY DEF Refuse, HandleConnect, HandleAbort, AnswerRun, RunFails, TypeOK
<1>8. TypeOK'
  BY <1>1, <1>3, <1>6, <1>7 DEF TypeOK, quiet, ends, registry
<1> QED
  BY <1>6, <1>8

LEMMA CompleteStep == ASSUME IInv, NEW c \in Conn, RunCompletes(c) PROVE IInv'
<1> USE DEF IInv
<1> DEFINE f == [type |-> "run.completed", id |-> reader[c].req.id]
<1>1. Busy(c) /\ Offer(c, f) /\ Goto(c, "answer") /\ UNCHANGED <<quiet, authenticated, chunks>>
  BY DEF RunCompletes, Busy, Current
<1>2. f \in Frame /\ f.type = "run.completed" /\ f.id = reader[c].req.id
  BY <1>1 DEF Unanswered, Request, Frame
<1> HIDE DEF f
<1>3. /\ reader'[c].pc = "answer" /\ reader'[c].req = reader[c].req
      /\ \A o \in Conn \ {c} : reader'[o] = reader[o]
      /\ reader' \in [Conn -> [pc : {"off", "read", "handle", "run", "answer",
                                     "unregister", "close", "done"},
                               req : Request \cup {NoRequest}]]
  BY <1>1, GotoReader
<1>4. /\ \A o \in Conn : Busy(o)' => Busy(o) /\ reader'[o].req = reader[o].req
      /\ \A o \in Conn : reader'[o].pc = reader[o].pc \/ reader'[o].pc \in {"read", "answer"}
  BY <1>1, <1>3 DEF Busy
<1>5. UNCHANGED <<wire, inbox, asked, registry>>
  BY <1>1 DEF quiet, ends
<1>6. /\ send' \in [Conn -> Seq(Frame)] /\ \A o \in Conn : Len(send'[o]) <= Capacity
      /\ dropped' \in [Conn -> SUBSET Frame] /\ closed' = closed
      /\ Ordered' /\ Unanswered' /\ Registered' /\ StopNeverPanics'
  BY <1>1, <1>2, <1>4, <1>5, OfferStep
<1>8. TypeOK'
  BY <1>1, <1>3, <1>6 DEF TypeOK, quiet, ends, registry
<1> QED
  BY <1>6, <1>8

LEMMA PublishStep == ASSUME IInv, NEW c \in Conn, NEW q \in Id, PublishChunk(c, q) PROVE IInv'
<1> USE DEF IInv
<1> DEFINE f == [type |-> "chunk", id |-> q]
<1>1. Offer(c, f) /\ UNCHANGED <<ends, inbox, authenticated, reader, expired, writer, wire, registry>>
  BY DEF PublishChunk
<1>2. f \in Frame /\ f.type = "chunk"
  BY DEF Frame
<1> HIDE DEF f
<1>4. /\ \A o \in Conn : Busy(o)' => Busy(o) /\ reader'[o].req = reader[o].req
      /\ \A o \in Conn : reader'[o].pc = reader[o].pc \/ reader'[o].pc \in {"read", "answer"}
  BY <1>1 DEF Busy
<1>5. UNCHANGED <<wire, inbox, asked, registry>>
  BY <1>1 DEF ends
<1>6. /\ send' \in [Conn -> Seq(Frame)] /\ \A o \in Conn : Len(send'[o]) <= Capacity
      /\ dropped' \in [Conn -> SUBSET Frame] /\ closed' = closed
      /\ Ordered' /\ Unanswered' /\ Registered' /\ StopNeverPanics'
  BY <1>1, <1>2, <1>4, <1>5, OfferStep
<1>7. chunks' \in [Conn -> [Id -> 0..MaxChunks]]
  <2>1. chunks[c][q] \in 0..MaxChunks /\ chunks[c][q] > 0 /\ chunks \in [Conn -> [Id -> 0..MaxChunks]]
    BY DEF TypeOK, PublishChunk
  <2>2. chunks[c][q] - 1 \in 0..MaxChunks
    BY <2>1, GatewayAssumption
  <2>3. chunks' = [chunks EXCEPT ![c] = [chunks[c] EXCEPT ![q] = chunks[c][q] - 1]]
    BY DEF PublishChunk
  <2> QED
    BY <2>1, <2>2, <2>3
<1>8. TypeOK'
  BY <1>1, <1>6, <1>7 DEF TypeOK, ends, registry
<1> QED
  BY <1>6, <1>8

LEMMA StartStep == ASSUME IInv, NEW c \in Conn, StartRun(c) PROVE IInv'
<1> USE DEF IInv
<1>1. Busy(c) /\ Goto(c, "run") /\ UNCHANGED <<quiet, channel, authenticated>>
  BY DEF StartRun, Handling, Busy
<1>2. PICK n \in 0..MaxChunks : chunks' = [chunks EXCEPT ![c][Current(c)] = n]
  BY DEF StartRun
<1>3. /\ reader'[c].pc = "run" /\ reader'[c].req = reader[c].req
      /\ \A o \in Conn \ {c} : reader'[o] = reader[o]
      /\ reader' \in [Conn -> [pc : {"off", "read", "handle", "run", "answer",
                                     "unregister", "close", "done"},
                               req : Request \cup {NoRequest}]]
  BY <1>1, GotoReader
<1>4. \A o \in Conn : Busy(o)' => Busy(o) /\ reader'[o].req = reader[o].req
  BY <1>1, <1>3 DEF Busy
<1>5. Ordered' /\ Unanswered'
  BY <1>1, <1>4, QuietKeeps DEF quiet, channel, ends
<1>6. Registered' /\ StopNeverPanics'
  BY <1>1, <1>3, SameRegistry DEF quiet, channel
<1>7. chunks' \in [Conn -> [Id -> 0..MaxChunks]]
  <2>1. chunks \in [Conn -> [Id -> 0..MaxChunks]]
    BY DEF TypeOK
  <2>2. chunks' = [chunks EXCEPT ![c] = [chunks[c] EXCEPT ![Current(c)] = n]]
    BY <1>2
  <2>3. [chunks[c] EXCEPT ![Current(c)] = n] \in [Id -> 0..MaxChunks]
    BY <2>1
  <2> QED
    BY <2>1, <2>2, <2>3
<1>8. TypeOK'
  BY <1>1, <1>3, <1>7 DEF TypeOK, quiet, channel, ends, registry
<1> QED
  BY <1>5, <1>6, <1>8

LEMMA ReadStep == ASSUME IInv, NEW c \in Conn, ReadFrame(c) PROVE IInv'
<1> USE DEF IInv
<1>1. /\ inbox \in [Conn -> Seq(Request)] /\ inbox[c] # <<>> /\ ~Busy(c)
      /\ reader' = [reader EXCEPT ![c] = [pc |-> "handle", req |-> Head(inbox[c])]]
      /\ inbox' = [inbox EXCEPT ![c] = Tail(inbox[c])]
      /\ UNCHANGED <<ends, authenticated, writer, channel, chunks, wire, registry>>
  BY DEF ReadFrame, TypeOK, Busy
<1>2. /\ Len(inbox[c]) \in Nat \ {0} /\ Head(inbox[c]) = inbox[c][1] /\ Head(inbox[c]) \in Request
      /\ Tail(inbox[c]) \in Seq(Request) /\ Len(Tail(inbox[c])) = Len(inbox[c]) - 1
      /\ \A i \in 1..Len(Tail(inbox[c])) : Tail(inbox[c])[i] = inbox[c][i + 1]
  BY <1>1, EmptySeq, LenProperties, HeadTailProperties
<1>3. 1 \in 1..Len(inbox[c]) /\ \A i \in 1..Len(Tail(inbox[c])) : i + 1 \in 1..Len(inbox[c]) /\ 1 < i + 1
  BY <1>2
<1>4. /\ reader'[c] = [pc |-> "handle", req |-> inbox[c][1]] /\ inbox'[c] = Tail(inbox[c])
      /\ \A o \in Conn \ {c} : reader'[o] = reader[o] /\ inbox'[o] = inbox[o]
  BY <1>1, <1>2 DEF TypeOK
<1>5. UNCHANGED <<asked, wire, send>>
  BY <1>1 DEF ends, channel
<1>6. Ordered'
  BY <1>5 DEF Ordered
<1>7. /\ Answered(c, asked[c] + 1)'
      /\ \A i \in 1..Len(inbox'[c]) : inbox'[c][i].id <= asked'[c] /\ Answered(c, inbox[c][i].id)'
      /\ \A i, j \in 1..Len(inbox'[c]) : i < j => inbox'[c][i].id < inbox'[c][j].id
  <2>1. \A i \in 1..Len(Tail(inbox[c])) :
            Tail(inbox[c])[i] = inbox[c][i + 1] /\ i + 1 \in 1..Len(inbox[c])
    BY <1>2, <1>3
  <2>2. \A i, j \in 1..Len(Tail(inbox[c])) : i < j => i + 1 < j + 1
    BY <1>2
  <2>3. \A i \in 1..Len(Tail(inbox[c])) :
            Tail(inbox[c])[i].id <= asked[c] /\ Answered(c, Tail(inbox[c])[i].id)
    BY <2>1 DEF Unanswered
  <2>4. \A i, j \in 1..Len(Tail(inbox[c])) : i < j => Tail(inbox[c])[i].id < Tail(inbox[c])[j].id
    BY <2>1, <2>2 DEF Unanswered
  <2> QED
    BY <1>4, <1>5, <2>3, <2>4 DEF Unanswered, Answered
<1>8. /\ reader'[c].req \in Request /\ reader'[c].req.id <= asked'[c]
      /\ Answered(c, reader[c].req.id)'
      /\ \A i \in 1..Len(inbox'[c]) : reader'[c].req.id < inbox'[c][i].id
  <2>1. /\ inbox[c][1] \in Request /\ inbox[c][1].id <= asked[c] /\ Answered(c, inbox[c][1].id)
        /\ \A i \in 1..Len(Tail(inbox[c])) : inbox[c][1].id < Tail(inbox[c])[i].id
    BY <1>2, <1>3 DEF Unanswered
  <2> QED
    BY <1>4, <1>5, <2>1 DEF Answered
<1>9. Unanswered'
  BY ZenonT(30), <1>4, <1>5, <1>7, <1>8 DEF Unanswered, Answered, Busy
<1>10. Registered' /\ StopNeverPanics'
  BY <1>1, <1>4, SameRegistry DEF channel
<1>11. TypeOK'
  <2>1. reader' \in [Conn -> [pc : {"off", "read", "handle", "run", "answer", "unregister",
                                    "close", "done"},
                              req : Request \cup {NoRequest}]]
    BY <1>1, <1>2 DEF TypeOK
  <2>2. inbox' \in [Conn -> Seq(Request)]
    BY <1>1, <1>2
  <2>3. expired' \in [Conn -> BOOLEAN]
    BY DEF ReadFrame, TypeOK
  <2> QED
    BY <1>1, <2>1, <2>2, <2>3 DEF TypeOK, ends, channel, registry
<1> QED
  BY <1>6, <1>9, <1>10, <1>11

LEMMA PeerSendsStep == ASSUME IInv, NEW c \in Conn, PeerSends(c) PROVE IInv'
<1> USE DEF IInv
<1>1. PICK m \in Method :
          inbox' = [inbox EXCEPT ![c] = Append(inbox[c], [id |-> asked[c] + 1, method |-> m])]
  BY DEF PeerSends
<1> DEFINE r == [id |-> asked[c] + 1, method |-> m]
<1>2. /\ inbox \in [Conn -> Seq(Request)] /\ asked \in [Conn -> 0..MaxRequests]
      /\ asked' = [asked EXCEPT ![c] = asked[c] + 1] /\ asked[c] < MaxRequests
      /\ UNCHANGED <<peer, sock, authenticated, reader, expired, writer, channel, chunks, wire,
                     registry>>
  BY DEF PeerSends, TypeOK
<1>3. asked[c] + 1 \in Id /\ asked[c] \in Nat /\ asked[c] + 1 \in 0..MaxRequests
  BY <1>2, GatewayAssumption DEF Id
<1>4. r \in Request /\ r.id = asked[c] + 1
  BY <1>3 DEF Request
<1> HIDE DEF r
<1>5. inbox' = [inbox EXCEPT ![c] = Append(inbox[c], r)]
  BY <1>1 DEF r
<1>6. /\ Len(inbox[c]) \in Nat /\ Append(inbox[c], r) \in Seq(Request)
      /\ Len(Append(inbox[c], r)) = Len(inbox[c]) + 1
      /\ Append(inbox[c], r)[Len(inbox[c]) + 1] = r
      /\ \A i \in 1..Len(inbox[c]) : Append(inbox[c], r)[i] = inbox[c][i]
  BY <1>2, <1>4, LenProperties, AppendProperties
<1>7. /\ inbox'[c] = Append(inbox[c], r) /\ asked'[c] = asked[c] + 1
      /\ \A o \in Conn \ {c} : inbox'[o] = inbox[o] /\ asked'[o] = asked[o]
      /\ UNCHANGED <<wire, send, reader>>
  BY <1>2, <1>5 DEF channel
<1>8. \A i \in 1..Len(inbox'[c]) : i \in 1..Len(inbox[c]) \/ i = Len(inbox[c]) + 1
  BY <1>6, <1>7
<1>9. Ordered'
  BY <1>7 DEF Ordered
<1>10. Answered(c, asked[c] + 2)
  <2>1. \A q \in Seq(Frame) : Answers(q, asked[c] + 1) => Answers(q, asked[c] + 2)
    <3> SUFFICES ASSUME NEW q \in Seq(Frame), Answers(q, asked[c] + 1), NEW i \in 1..Len(q), q[i].type = "res"
                 PROVE  q[i].id < asked[c] + 2
      BY DEF Answers
    <3>1. q[i] \in Frame /\ q[i].id < asked[c] + 1
      BY ElementOfSeq DEF Answers
    <3> QED
      BY <1>3, <3>1 DEF Frame, Id
  <2> QED
    BY <2>1 DEF Unanswered, Answered, TypeOK
<1>11. \A i \in 1..Len(inbox[c]) : inbox[c][i] \in Request /\ inbox[c][i].id <= asked[c] /\ inbox[c][i].id \in Nat
  <2>1. \A i \in 1..Len(inbox[c]) : inbox[c][i] \in Request
    BY <1>2, ElementOfSeq
  <2> QED
    BY <2>1 DEF Unanswered, Request, Id
<1>12. /\ \A i \in 1..Len(inbox'[c]) : inbox'[c][i].id <= asked[c] + 1 /\ Answered(c, inbox'[c][i].id)
       /\ \A i, j \in 1..Len(inbox'[c]) : i < j => inbox'[c][i].id < inbox'[c][j].id
  <2>1. ASSUME NEW i \in 1..Len(inbox'[c])
        PROVE  inbox'[c][i].id <= asked[c] + 1 /\ Answered(c, inbox'[c][i].id)
    <3>1. CASE i \in 1..Len(inbox[c])
      BY <1>3, <1>6, <1>7, <1>11, <3>1 DEF Unanswered
    <3>2. CASE i = Len(inbox[c]) + 1
      BY <1>3, <1>4, <1>6, <1>7, <3>2 DEF Unanswered
    <3> QED
      BY <1>8, <3>1, <3>2
  <2>2. ASSUME NEW i \in 1..Len(inbox'[c]), NEW j \in 1..Len(inbox'[c]), i < j
        PROVE  inbox'[c][i].id < inbox'[c][j].id
    <3>1. i \in 1..Len(inbox[c])
      BY <1>6, <1>7, <2>2
    <3>2. CASE j \in 1..Len(inbox[c])
      BY <1>6, <1>7, <2>2, <3>1, <3>2 DEF Unanswered
    <3>3. CASE j = Len(inbox[c]) + 1
      <4>1. inbox'[c][j].id = asked[c] + 1 /\ inbox'[c][i].id = inbox[c][i].id
        BY <1>4, <1>6, <1>7, <3>1, <3>3
      <4> QED
        BY <1>3, <1>11, <3>1, <4>1
    <3> QED
      BY <1>8, <3>2, <3>3
  <2> QED
    BY <2>1, <2>2
<1>13. Busy(c) => /\ reader[c].req.id <= asked[c] + 1
                  /\ \A i \in 1..Len(inbox'[c]) : reader[c].req.id < inbox'[c][i].id
  <2>1. ASSUME Busy(c), NEW i \in 1..Len(inbox'[c]) PROVE reader[c].req.id < inbox'[c][i].id
    <3>1. reader[c].req.id \in Nat /\ reader[c].req.id <= asked[c]
      BY <2>1 DEF Unanswered, Request, Id
    <3>2. CASE i \in 1..Len(inbox[c])
      BY <1>6, <1>7, <2>1, <3>2 DEF Unanswered
    <3>3. CASE i = Len(inbox[c]) + 1
      BY <1>3, <1>4, <1>6, <1>7, <3>1, <3>3
    <3> QED
      BY <1>8, <3>2, <3>3
  <2>2. Busy(c) => reader[c].req.id <= asked[c] + 1
    BY <1>3 DEF Unanswered, Request, Id
  <2> QED
    BY <2>1, <2>2
<1>14. Unanswered'
  <2> SUFFICES ASSUME NEW o \in Conn
      PROVE /\ Answered(o, asked'[o] + 1)
            /\ \A i \in 1..Len(inbox'[o]) : inbox'[o][i].id <= asked'[o] /\ Answered(o, inbox'[o][i].id)
            /\ \A i, j \in 1..Len(inbox'[o]) : i < j => inbox'[o][i].id < inbox'[o][j].id
            /\ Busy(o) => /\ reader[o].req \in Request /\ reader[o].req.id <= asked'[o]
                          /\ Answered(o, reader[o].req.id)
                          /\ \A i \in 1..Len(inbox'[o]) : reader[o].req.id < inbox'[o][i].id
    BY <1>7 DEF Unanswered, Answered, Busy
  <2>1. CASE o = c
    <3>1. Answered(c, asked'[c] + 1)
      <4>1. asked'[c] + 1 = asked[c] + 2
        BY <1>3, <1>7
      <4> QED
        BY <1>10, <4>1
    <3>2. Busy(c) => reader[c].req \in Request /\ Answered(c, reader[c].req.id)
      BY DEF Unanswered
    <3> QED
      BY <1>7, <1>12, <1>13, <2>1, <3>1, <3>2
  <2>2. CASE o # c
    BY <1>7, <2>2 DEF Unanswered
  <2> QED
    BY <2>1, <2>2
<1>15. Registered' /\ StopNeverPanics'
  BY <1>2, SameRegistry DEF channel
<1>16. TypeOK'
  <2>1. inbox' \in [Conn -> Seq(Request)] /\ asked' \in [Conn -> 0..MaxRequests]
    BY <1>2, <1>3, <1>5, <1>6
  <2> QED
    BY <1>2, <2>1 DEF TypeOK, channel, registry
<1> QED
  BY <1>9, <1>14, <1>15, <1>16

\* The write pump writes a frame.
LEMMA WriteStep == ASSUME IInv, NEW c \in Conn, WriteFrame(c) PROVE IInv'
<1> USE DEF IInv
<1>1. /\ send \in [Conn -> Seq(Frame)] /\ wire \in [Conn -> Seq(Frame)] /\ send[c] # <<>>
      /\ \A o \in Conn : Len(send[o]) <= Capacity
      /\ wire' = [wire EXCEPT ![c] = Append(wire[c], Head(send[c]))]
      /\ send' = [send EXCEPT ![c] = Tail(send[c])]
      /\ UNCHANGED <<ends, inbox, authenticated, reader, expired, writer, closed, dropped,
                     chunks, registry>>
  BY DEF WriteFrame, Rest, TypeOK
<1>2. /\ Append(wire[c], Head(send[c])) \in Seq(Frame)
      /\ InOrder(Append(wire[c], Head(send[c])))
      /\ Follows(Append(wire[c], Head(send[c])), Tail(send[c]))
      /\ \A n : Answered(c, n) => Answers(Append(wire[c], Head(send[c])), n)
  BY <1>1, HeadMoves DEF Ordered, Answered
<1>3. /\ Tail(send[c]) \in Seq(Frame) /\ Len(Tail(send[c])) < Len(send[c])
      /\ InOrder(Tail(send[c]))
      /\ \A n : Answered(c, n) => Answers(Tail(send[c]), n)
  BY <1>1, TailKeeps DEF Ordered, Answered
<1>4. /\ wire'[c] = Append(wire[c], Head(send[c])) /\ send'[c] = Tail(send[c])
      /\ \A o \in Conn \ {c} : wire'[o] = wire[o] /\ send'[o] = send[o]
  BY <1>1
<1>5. Ordered'
  BY <1>2, <1>3, <1>4 DEF Ordered
<1>6. \A o \in Conn : \A n : Answered(o, n) => Answers(wire'[o], n) /\ Answers(send'[o], n)
  BY <1>2, <1>3, <1>4 DEF Answered
<1>7. Unanswered'
  BY <1>1, <1>6 DEF Unanswered, Answered, Busy, ends
<1>8. Registered' /\ StopNeverPanics'
  BY <1>1, SameRegistry
<1>9. TypeOK'
  <2>1. \A o \in Conn : Len(send'[o]) <= Capacity
    <3>1. Len(Tail(send[c])) <= Capacity
      BY <1>1, <1>3, LenProperties, GatewayAssumption
    <3> QED
      BY <1>1, <1>4, <3>1
  <2>2. send' \in [Conn -> Seq(Frame)] /\ wire' \in [Conn -> Seq(Frame)]
    BY <1>1, <1>2, <1>3
  <2> QED
    BY <1>1, <2>1, <2>2 DEF TypeOK, ends, registry
<1> QED
  BY <1>5, <1>7, <1>8, <1>9

LEMMA WriteFailsStep == ASSUME IInv, NEW c \in Conn, WriteFails(c) PROVE IInv'
<1> USE DEF IInv
<1>1. /\ send \in [Conn -> Seq(Frame)] /\ \A o \in Conn : Len(send[o]) <= Capacity
      /\ UNCHANGED <<peer, asked, inbox, authenticated, reader, expired, closed, dropped, chunks,
                     wire, registry>>
  BY DEF WriteFails, TypeOK
<1>2. PICK q \in Lost(send[c]) : send' = [send EXCEPT ![c] = q]
  BY DEF WriteFails
<1>3. /\ q \in Seq(Frame) /\ Len(q) <= Capacity /\ InOrder(q) /\ Follows(wire[c], q)
      /\ \A n : Answered(c, n) => Answers(q, n)
  <2>1. CASE q = send[c]
    BY <1>1, <2>1 DEF Ordered, Answered
  <2>2. CASE q # send[c]
    <3>1. q = Tail(send[c]) /\ send[c] # <<>>
      BY <2>2 DEF Lost
    <3>2. Len(q) <= Capacity
      BY <1>1, <3>1, TailKeeps, LenProperties, GatewayAssumption
    <3>3. wire[c] \in Seq(Frame)
      BY DEF TypeOK
    <3> QED
      BY <1>1, <3>1, <3>2, <3>3, TailKeeps DEF Ordered, Answered
  <2> QED
    BY <2>1, <2>2
<1>4. send'[c] = q /\ \A o \in Conn \ {c} : send'[o] = send[o]
  BY <1>1, <1>2
<1>5. Ordered'
  BY <1>1, <1>3, <1>4 DEF Ordered
<1>6. \A o \in Conn : \A n : Answered(o, n) => Answers(wire'[o], n) /\ Answers(send'[o], n)
  BY <1>1, <1>3, <1>4 DEF Answered
<1>7. Unanswered'
  BY <1>1, <1>6 DEF Unanswered, Answered, Busy
<1>8. Registered' /\ StopNeverPanics'
  BY <1>1, SameRegistry
<1>9. TypeOK'
  <2>1. send' \in [Conn -> Seq(Frame)] /\ \A o \in Conn : Len(send'[o]) <= Capacity
    BY <1>1, <1>2, <1>3, <1>4
  <2>2. writer' \in [Conn -> {"off", "select", "exited"}] /\ sock' \in [Conn -> {"none", "open", "closed"}]
    BY DEF WriteFails, TypeOK
  <2> QED
    BY <1>1, <2>1, <2>2 DEF TypeOK, registry
<1> QED
  BY <1>5, <1>7, <1>8, <1>9

\* The rest moves neither frames nor requests.
LEMMA OtherStep ==
    ASSUME IInv, NEW c \in Conn,
           \/ Accept(c) \/ PeerLeaves(c) \/ Expire(c) \/ ReadFails(c) \/ Unregister(c)
           \/ CloseClient(c) \/ WriterEnds(c)
    PROVE  IInv'
<1> USE DEF IInv
<1>1. CASE Accept(c)
  <2>1. Idle(c) /\ UNCHANGED <<wire, send, inbox, asked, closed>> /\ clients' = clients \cup {c} /\ stopped' = stopped
        /\ reader[c].pc = "off" /\ panicked' = panicked
    BY <1>1 DEF Accept, channel
  <2>2. /\ reader'[c].pc = "read" /\ \A o \in Conn \ {c} : reader'[o] = reader[o]
        /\ reader' \in [Conn -> [pc : {"off", "read", "handle", "run", "answer",
                                       "unregister", "close", "done"},
                                 req : Request \cup {NoRequest}]]
    BY <2>1, GotoReader
  <2>3. Ordered' /\ Unanswered'
    BY <2>1, <2>2, QuietKeeps DEF Busy
  <2>4. Registered' /\ StopNeverPanics'
    BY <2>1, <2>2 DEF Registered, StopNeverPanics
  <2>5. TypeOK'
    BY <1>1, <2>2 DEF Accept, channel, TypeOK
  <2> QED
    BY <2>3, <2>4, <2>5
<1>2. CASE PeerLeaves(c) \/ Expire(c) \/ WriterEnds(c)
  <2>1. UNCHANGED <<reader, wire, send, inbox, asked, closed, registry>>
    BY <1>2 DEF PeerLeaves, Expire, WriterEnds, channel, ends
  <2>2. Ordered' /\ Unanswered'
    BY <2>1, QuietKeeps DEF Busy
  <2>3. Registered' /\ StopNeverPanics'
    BY <2>1, SameRegistry
  <2>4. TypeOK'
    BY ZenonT(30), <1>2 DEF PeerLeaves, Expire, WriterEnds, channel, ends, registry, TypeOK
  <2> QED
    BY <2>2, <2>3, <2>4
<1>3. CASE ReadFails(c)
  <2>1. Goto(c, "unregister") /\ UNCHANGED <<wire, send, inbox, asked, closed, registry>>
    BY <1>3 DEF ReadFails, channel
  <2>2. /\ reader'[c].pc = "unregister" /\ \A o \in Conn \ {c} : reader'[o] = reader[o]
        /\ reader' \in [Conn -> [pc : {"off", "read", "handle", "run", "answer",
                                       "unregister", "close", "done"},
                                 req : Request \cup {NoRequest}]]
    BY <2>1, GotoReader
  <2>3. Ordered' /\ Unanswered'
    BY <2>1, <2>2, QuietKeeps DEF Busy
  <2>4. Registered' /\ StopNeverPanics'
    BY <2>1, <2>2, SameRegistry
  <2>5. TypeOK'
    BY <1>3, <2>2 DEF ReadFails, channel, registry, TypeOK
  <2> QED
    BY <2>3, <2>4, <2>5
<1>4. CASE Unregister(c)
  <2>1. Goto(c, "close") /\ UNCHANGED <<wire, send, inbox, asked, closed, stopped, panicked>> /\ clients' = clients \ {c}
    BY <1>4 DEF Unregister, channel, ends
  <2>2. /\ reader'[c].pc = "close" /\ \A o \in Conn \ {c} : reader'[o] = reader[o]
        /\ reader' \in [Conn -> [pc : {"off", "read", "handle", "run", "answer",
                                       "unregister", "close", "done"},
                                 req : Request \cup {NoRequest}]]
    BY <2>1, GotoReader
  <2>3. Ordered' /\ Unanswered'
    BY <2>1, <2>2, QuietKeeps DEF Busy
  <2>4. Registered' /\ StopNeverPanics'
    BY <2>1, <2>2 DEF Registered, StopNeverPanics
  <2>5. TypeOK'
    BY <1>4, <2>2 DEF Unregister, channel, ends, TypeOK
  <2> QED
    BY <2>3, <2>4, <2>5
<1>5. CASE CloseClient(c)
  <2>1. /\ Goto(c, "done") /\ UNCHANGED <<wire, send, inbox, asked, stopped, clients>>
        /\ closed' = [closed EXCEPT ![c] = TRUE] /\ reader[c].pc = "close"
        /\ panicked' \in {panicked, panicked \cup {"handler"}}
    BY <1>5 DEF CloseClient, ends
  <2>2. /\ reader'[c].pc = "done" /\ \A o \in Conn \ {c} : reader'[o] = reader[o]
        /\ reader' \in [Conn -> [pc : {"off", "read", "handle", "run", "answer",
                                       "unregister", "close", "done"},
                                 req : Request \cup {NoRequest}]]
    BY <2>1, GotoReader
  <2>3. Ordered' /\ Unanswered'
    BY <2>1, <2>2, QuietKeeps DEF Busy
  <2>4. closed' \in [Conn -> BOOLEAN] /\ \A o \in Conn \ {c} : closed'[o] = closed[o]
    BY <2>1 DEF TypeOK
  <2>5. Registered' /\ StopNeverPanics'
    BY <2>1, <2>2, <2>4 DEF Registered, StopNeverPanics
  <2>6. TypeOK'
    BY <1>5, <2>1, <2>2, <2>4 DEF CloseClient, ends, TypeOK
  <2> QED
    BY <2>3, <2>5, <2>6
<1> QED
  BY <1>1, <1>2, <1>3, <1>4, <1>5

\* Stop runs once, so none of the channels it closes was closed.
LEMMA StopStep == ASSUME IInv, Stop PROVE IInv'
<1> USE DEF IInv
<1>1. /\ UNCHANGED <<reader, wire, send, inbox, asked, clients>> /\ ~stopped /\ stopped'
      /\ closed' = [o \in Conn |-> closed[o] \/ o \in clients]
  BY DEF Stop, ends
<1>2. panicked' = panicked
  BY <1>1 DEF Stop, Registered, TypeOK
<1>3. Ordered' /\ Unanswered'
  BY <1>1, QuietKeeps DEF Busy
<1>4. Registered' /\ StopNeverPanics'
  BY <1>1, <1>2 DEF Registered, StopNeverPanics
<1>5. TypeOK'
  <2>1. closed' \in [Conn -> BOOLEAN]
    BY <1>1 DEF TypeOK
  <2> QED
    BY <1>1, <1>2, <2>1 DEF Stop, ends, TypeOK
<1> QED
  BY <1>3, <1>4, <1>5

LEMMA StutterStep == IInv /\ UNCHANGED vars => IInv'
<1> SUFFICES ASSUME IInv, UNCHANGED vars PROVE IInv'
  OBVIOUS
<1>1. Ordered' /\ Unanswered'
  BY QuietKeeps DEF IInv, vars, Busy
<1>2. Registered' /\ StopNeverPanics'
  BY SameRegistry DEF IInv, vars, registry
<1>3. TypeOK'
  BY DEF IInv, vars, TypeOK
<1> QED
  BY <1>1, <1>2, <1>3 DEF IInv

LEMMA NextInv == IInv /\ [Next]_vars => IInv'
<1> SUFFICES ASSUME IInv, [Next]_vars PROVE IInv'
  OBVIOUS
<1>1. ASSUME NEW c \in Conn,
             Refuse(c) \/ HandleConnect(c) \/ HandleAbort(c) \/ AnswerRun(c) \/ RunFails(c)
      PROVE  IInv'
  BY <1>1, ReplyStep
<1>2. ASSUME NEW c \in Conn, RunCompletes(c) PROVE IInv'
  BY <1>2, CompleteStep
<1>3. ASSUME NEW c \in Conn, StartRun(c) PROVE IInv'
  BY <1>3, StartStep
<1>4. ASSUME NEW c \in Conn, ReadFrame(c) PROVE IInv'
  BY <1>4, ReadStep
<1>5. ASSUME NEW c \in Conn, PeerSends(c) PROVE IInv'
  BY <1>5, PeerSendsStep
<1>6. ASSUME NEW c \in Conn, WriteFrame(c) PROVE IInv'
  BY <1>6, WriteStep
<1>7. ASSUME NEW c \in Conn, WriteFails(c) PROVE IInv'
  BY <1>7, WriteFailsStep
<1>8. ASSUME NEW c \in Conn, NEW q \in Id, PublishChunk(c, q) PROVE IInv'
  BY <1>8, PublishStep
<1>9. ASSUME NEW c \in Conn,
             \/ Accept(c) \/ PeerLeaves(c) \/ Expire(c) \/ ReadFails(c) \/ Unregister(c)
             \/ CloseClient(c) \/ WriterEnds(c)
      PROVE  IInv'
  BY <1>9, OtherStep
<1> QED
  BY <1>1, <1>2, <1>3, <1>4, <1>5, <1>6, <1>7, <1>8, <1>9, StopStep, StutterStep
     DEF Next, ReadPump, HandleFrame, Run

LEMMA Invariant == Spec => []IInv
<1>1. Init => IInv
  BY InitInv
<1>2. IInv /\ [Next]_vars => IInv'
  BY NextInv
<1> QED
  BY <1>1, <1>2, PTL DEF Spec

-----------------------------------------------------------------------------
(* The theorems. *)

\* The gateway keeps the types of its variables (websocket_client.go, websocket_server.go);
\* in particular no send channel ever holds more than its capacity.
THEOREM TypeCorrect == Spec => []TypeOK
<1>1. IInv => TypeOK
  BY DEF IInv
<1> QED
  BY <1>1, Invariant, PTL

\* No peer ever gets two responses to a request, or responses out of order, however many
\* requests wait and whatever is dropped (websocket_client.go:62-78).
THEOREM RepliesFollowRequests == Spec => []RepliesInOrder
<1>1. IInv => RepliesInOrder
  <2> SUFFICES ASSUME IInv, NEW c \in Conn, NEW i \in 1..Len(wire[c]), NEW j \in 1..Len(wire[c]),
                      i < j, wire[c][i].type = "res", wire[c][j].type = "res"
               PROVE  wire[c][i].id < wire[c][j].id
    BY DEF RepliesInOrder
  <2> QED
    BY DEF IInv, Ordered, InOrder, Before
<1> QED
  BY <1>1, Invariant, PTL

\* After a response no run of its request or of an earlier one completes
\* (loop.go:192, websocket_handler_v3.go:84-95, 124-158).
THEOREM RunsCompleteBeforeReplies == Spec => []RunThenReply
<1>1. IInv => RunThenReply
  <2> SUFFICES ASSUME IInv, NEW c \in Conn, NEW i \in 1..Len(wire[c]), NEW j \in 1..Len(wire[c]),
                      i < j, wire[c][i].type = "res", wire[c][j].type = "run.completed"
               PROVE  wire[c][i].id < wire[c][j].id
    BY DEF RunThenReply
  <2> QED
    BY DEF IInv, Ordered, InOrder, Before
<1> QED
  BY <1>1, Invariant, PTL

\* The call of Stop never panics: no channel that it closes has been closed before
\* (websocket_server.go:69-94).  It says nothing of the connections that close theirs again
\* after Stop, which panic on goroutines that recover.
THEOREM StopIsSafe == Spec => []StopNeverPanics
<1>1. IInv => StopNeverPanics
  BY DEF IInv
<1> QED
  BY <1>1, Invariant, PTL

-----------------------------------------------------------------------------
(* The channels and write pumps implement the queues. *)

upNow == [c \in Conn |-> sock[c] # "closed"]

\* A connection that was not accepted has no socket to close, and no write pump.
NotAccepted == \A c \in Conn : reader[c].pc = "off" => sock[c] = "none" /\ writer[c] = "off"

LEMMA NotAcceptedStep == IInv /\ NotAccepted /\ [Next]_vars => NotAccepted'
<1> SUFFICES ASSUME IInv, NotAccepted, [Next]_vars PROVE NotAccepted'
  OBVIOUS
<1> USE DEF NotAccepted, IInv, TypeOK, ends, registry, channel, quiet
<1>1. ASSUME NEW c \in Conn,
             \/ ReadFrame(c) \/ HandleFrame(c) \/ Run(c) \/ ReadFails(c)
             \/ Unregister(c) \/ CloseClient(c)
      PROVE  NotAccepted'
  <2>1. reader[c].pc # "off" /\ UNCHANGED writer /\ \A o \in Conn \ {c} : sock'[o] = sock[o]
    BY <1>1 DEF ReadFrame, HandleFrame, Refuse, HandleConnect, HandleAbort, StartRun, Handling,
                Run, RunCompletes, AnswerRun, RunFails, ReadFails, Unregister, CloseClient
  <2>2. \/ \E r \in [pc : {"read", "handle"}, req : Request \cup {NoRequest}] :
              reader' = [reader EXCEPT ![c] = r]
        \/ \E p \in {"run", "answer", "unregister", "close", "done"} : Goto(c, p)
    <3>1. CASE ReadFrame(c)
      BY <1>1, <3>1, HeadTailProperties DEF ReadFrame
    <3>2. CASE Refuse(c) \/ HandleConnect(c) \/ HandleAbort(c) \/ AnswerRun(c) \/ RunFails(c)
      BY <3>2 DEF Refuse, HandleConnect, HandleAbort, AnswerRun, RunFails, Idle
    <3>3. CASE StartRun(c) \/ RunCompletes(c) \/ ReadFails(c) \/ Unregister(c) \/ CloseClient(c)
      BY <3>3 DEF StartRun, RunCompletes, ReadFails, Unregister, CloseClient
    <3> QED
      BY <1>1, <3>1, <3>2, <3>3 DEF HandleFrame, Run
  <2>3. reader'[c].pc # "off" /\ \A o \in Conn \ {c} : reader'[o] = reader[o]
    BY <2>2, GotoReader DEF TypeOK
  <2> QED
    BY <2>1, <2>3
<1>2. ASSUME NEW c \in Conn, Accept(c) \/ PeerSends(c) \/ PeerLeaves(c) \/ Expire(c)
      PROVE  NotAccepted'
  BY <1>2 DEF Accept, Idle, PeerSends, PeerLeaves, Expire
<1>3. ASSUME NEW c \in Conn, WriteFrame(c) \/ WriteFails(c) \/ WriterEnds(c)
      PROVE  NotAccepted'
  BY <1>3 DEF WriteFrame, WriteFails, WriterEnds
<1>4. ASSUME NEW c \in Conn, NEW q \in Id, PublishChunk(c, q) PROVE NotAccepted'
  BY <1>4 DEF PublishChunk, Offer
<1>5. CASE Stop \/ UNCHANGED vars
  BY <1>5 DEF Stop, vars
<1> QED
  BY <1>1, <1>2, <1>3, <1>4, <1>5 DEF Next, ReadPump

\* What SendResponse and SendEvent do is to accept a frame, or nothing.
LEMMA OfferAccepts ==
    ASSUME IInv, NEW c \in Conn, NEW f \in Frame, Offer(c, f), UNCHANGED <<wire, sock>>
    PROVE  [Queues!Accept(c)]_<<send, wire, upNow>>
<1> USE DEF IInv, TypeOK, Offer, upNow
<1>1. CASE closed[c] \/ Full(c)
  BY <1>1
<1>2. CASE ~closed[c] /\ ~Full(c)
  <2>1. send' = [send EXCEPT ![c] = Append(@, f)]
    BY <1>2
  <2>2. Len(send[c]) < Capacity
    BY <1>2, LenProperties, GatewayAssumption DEF Full
  <2> QED
    BY <2>1, <2>2 DEF Queues!Accept
<1> QED
  BY <1>1, <1>2

LEMMA QueuesInit == Init => Queues!Init
  BY DEF Init, Queues!Init

LEMMA QueuesStep ==
    IInv /\ NotAccepted /\ [Next]_vars => [Queues!Next]_<<send, wire, upNow>>
<1> SUFFICES ASSUME IInv, NotAccepted, [Next]_vars
             PROVE  [Queues!Next]_<<send, wire, upNow>>
  OBVIOUS
<1> USE DEF IInv, TypeOK, ends, registry, channel, quiet, Queues!Next
<1>1. ASSUME NEW c \in Conn,
             \/ Refuse(c) \/ HandleConnect(c) \/ HandleAbort(c) \/ RunCompletes(c)
             \/ AnswerRun(c) \/ RunFails(c)
      PROVE  [Queues!Next]_<<send, wire, upNow>>
  <2>1. reader[c].req \in Request
    BY <1>1 DEF Unanswered, Busy, Refuse, HandleConnect, HandleAbort, Handling, RunCompletes,
                AnswerRun, RunFails
  <2>2. \A t \in {"res", "run.completed"} : [type |-> t, id |-> Current(c)] \in Frame
    BY <2>1 DEF Current, Request, Frame
  <2>3. UNCHANGED <<wire, sock>>
    BY <1>1 DEF Refuse, HandleConnect, HandleAbort, RunCompletes, AnswerRun, RunFails
  <2>4. \E t \in {"res", "run.completed"} : Offer(c, [type |-> t, id |-> Current(c)])
    BY <1>1 DEF Refuse, HandleConnect, HandleAbort, RunCompletes, AnswerRun, RunFails, Reply
  <2>5. [Queues!Accept(c)]_<<send, wire, upNow>>
    BY <2>2, <2>3, <2>4, OfferAccepts
  <2> QED
    BY <2>5
<1>2. ASSUME NEW c \in Conn, NEW q \in Id, PublishChunk(c, q)
      PROVE  [Queues!Next]_<<send, wire, upNow>>
  <2>1. [type |-> "chunk", id |-> q] \in Frame
    BY DEF Frame
  <2>2. [Queues!Accept(c)]_<<send, wire, upNow>>
    BY <1>2, <2>1, OfferAccepts DEF PublishChunk
  <2> QED
    BY <2>2
<1>3. ASSUME NEW c \in Conn, WriteFrame(c) PROVE Queues!Deliver(c)
  BY <1>3 DEF WriteFrame, Queues!Deliver, upNow, Rest
<1>4. ASSUME NEW c \in Conn, WriteFails(c) PROVE Queues!GoDown(c)
  <2>1. PICK q \in Lost(send[c]) : send' = [send EXCEPT ![c] = q]
    BY <1>4 DEF WriteFails
  <2>2. upNow' = [upNow EXCEPT ![c] = FALSE] /\ UNCHANGED wire
    BY <1>4 DEF WriteFails, upNow
  <2>3. CASE q = send[c]
    BY <2>1, <2>2, <2>3 DEF Queues!GoDown, upNow
  <2>4. CASE q # send[c]
    BY <2>1, <2>2, <2>4 DEF Queues!GoDown, upNow, Lost
  <2> QED
    BY <2>3, <2>4
<1>5. ASSUME NEW c \in Conn, WriterEnds(c) \/ ReadFails(c) PROVE Queues!GoDown(c)
  <2>1. UNCHANGED <<send, wire>> /\ sock' = [sock EXCEPT ![c] = "closed"]
    BY <1>5 DEF WriterEnds, ReadFails
  <2>2. upNow' = [upNow EXCEPT ![c] = FALSE]
    BY <2>1 DEF upNow
  <2> QED
    BY <2>1, <2>2 DEF Queues!GoDown, upNow
<1>6. ASSUME NEW c \in Conn, Accept(c) PROVE UNCHANGED <<send, wire, upNow>>
  BY <1>6 DEF Accept, NotAccepted, upNow
<1>7. ASSUME NEW c \in Conn,
             \/ PeerSends(c) \/ PeerLeaves(c) \/ Expire(c) \/ ReadFrame(c) \/ StartRun(c)
             \/ Unregister(c) \/ CloseClient(c)
      PROVE  UNCHANGED <<send, wire, upNow>>
  BY <1>7 DEF PeerSends, PeerLeaves, Expire, ReadFrame, StartRun, Unregister, CloseClient, upNow
<1>8. CASE Stop \/ UNCHANGED vars
  BY <1>8 DEF Stop, vars, upNow
<1> QED
  BY <1>1, <1>2, <1>3, <1>4, <1>5, <1>6, <1>7, <1>8 DEF Next, ReadPump, HandleFrame, Run

\* Every behaviour of the send channels and write pumps is one of FrameQueue: whatever
\* handlers, callbacks, both pumps and Stop do to a channel that may be full or closed,
\* accepted frames arrive in order and are lost only with the connection
\* (websocket_client.go:82-176).
THEOREM GatewayImplementsQueues == Spec => ImplementsFrameQueue
<1>1. Init => NotAccepted
  BY DEF Init, NotAccepted
<1> QED
  BY <1>1, Invariant, NotAcceptedStep, QueuesInit, QueuesStep, PTL
     DEF Spec, ImplementsFrameQueue, Queues!Spec, upNow
=============================================================================
