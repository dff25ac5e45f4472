------------------------------ MODULE AgentRun ------------------------------
(***************************************************************************)
(* A chat.send as internal/agent/loop.go runs it over the session store,   *)
(* with the goroutines that internal/callback/stream_callback.go spawns,   *)
(* one for each stream that the eino graph opens: a model stream (a tool   *)
(* call, an answer, or nothing), or the results of the tools it called.    *)
(*                                                                         *)
(* eino (external) hands each stream to two readers: the graph, which      *)
(* feeds the agent loop, and the callback goroutine, which publishes and   *)
(* records it.  Neither waits for the other.                               *)
(***************************************************************************)
EXTENDS Naturals, Sequences, FiniteSets

CONSTANTS
    Run,           \* chat.send requests
    SessionOf,     \* the session each names
    MaxStreams,    \* bound: streams eino opens for each
    MaxSessions,   \* bound: see SessionStore
    DbMayFail,
    LoadOutcomes

ASSUME RunAssumption ==
    /\ SessionOf \in [Run -> 1..MaxSessions]
    /\ MaxStreams \in [Run -> Nat]
    /\ MaxSessions \in Nat
    /\ DbMayFail \in BOOLEAN
    /\ LoadOutcomes \subseteq BOOLEAN

VARIABLES
    pc,        \* where the agent loop of each run is
    prompt,    \* the messages it hands to the model
    streams,   \* the streams eino opened for it, each with its reader
    events,    \* what was published to the client, in order
    cached, messages, adding, saves, rows, row, nextId, loaded, overtaken

store == <<cached, messages, adding, saves, rows, row, nextId, loaded, overtaken>>
vars == <<pc, prompt, streams, events, store>>

Stream == UNION {1..MaxStreams[r] : r \in Run}
Goroutine == Run \X ({0} \cup Stream)
ModelKind == {"call", "final", "empty"}
Kind == ModelKind \cup {"tools"}
Content == [run : Run, kind : {"user", "call", "tools", "final"}, k : {0} \cup Stream]
Nothing == [run |-> "", kind |-> "blank", k |-> 0]

Store == INSTANCE SessionStore WITH
            Thread <- Goroutine, Message <- Content, Blank <- Nothing,
            LongLabel <- {}, MaxLen <- Cardinality(Content)

User(r) == [run |-> r, kind |-> "user", k |-> 0]
Said(r, k) == [run |-> r, kind |-> streams[r][k].kind, k |-> k]

Init ==
    /\ pc = [r \in Run |-> "idle"]
    /\ prompt = [r \in Run |-> <<>>]
    /\ streams = [r \in Run |-> <<>>]
    /\ events = [r \in Run |-> <<>>]
    /\ Store!Init

Publish(r, type, k) == events' = [events EXCEPT ![r] = Append(@, [type |-> type, k |-> k])]

-----------------------------------------------------------------------------
(* runEinoLoop up to the start of the run. *)

\* BuildMessages: the history without its leading tool results, then the request.
\* (The system prompt that precedes them is left out.)
BuildMessages(history, r) ==
    LET kept == {i \in 1..Len(history) :
                    \E j \in 1..i : history[j].kind # "tools"}
    IN SubSeq(history, Len(history) - Cardinality(kept) + 1, Len(history)) \o <<User(r)>>

RequestForgotten == "start"                             \* mutant
AfterHistory == "add"

ReadHistory(r) ==
    /\ pc[r] = "idle"
    /\ SessionOf[r] < nextId
    /\ Store!CanRead
    /\ prompt' = [prompt EXCEPT ![r] = BuildMessages(Store!GetHistory(SessionOf[r]), r)]
    /\ pc' = [pc EXCEPT ![r] = AfterHistory]
    /\ UNCHANGED <<streams, events, store>>

AddUser(r) ==
    /\ pc[r] = "add"
    /\ Store!AddBegin(<<r, 0>>, SessionOf[r], User(r))
    /\ pc' = [pc EXCEPT ![r] = "adding"]
    /\ UNCHANGED <<prompt, streams, events>>

\* Mutant: the prompt is built from a history that holds the request already.
UserAddedThenRead(r) ==
    /\ pc[r] = "adding"
    /\ Store!AddEnd(<<r, 0>>)
    /\ prompt' = [prompt EXCEPT ![r] = BuildMessages(messages'[SessionOf[r]], r)]
    /\ pc' = [pc EXCEPT ![r] = "start"]
    /\ UNCHANGED <<streams, events>>

UserAdded(r) ==
    /\ pc[r] = "adding"
    /\ Store!AddEnd(<<r, 0>>)
    /\ pc' = [pc EXCEPT ![r] = "start"]
    /\ UNCHANGED <<prompt, streams, events>>

RunStarted(r) ==
    /\ pc[r] = "start"
    /\ Publish(r, "run.started", 0)
    /\ pc' = [pc EXCEPT ![r] = "running"]
    /\ UNCHANGED <<prompt, streams, store>>

-----------------------------------------------------------------------------
(* eino: streams open one after the other, each when the last has ended. *)

Opened(r) == Len(streams[r])
LastStream(r) == streams[r][Opened(r)]

\* The graph is about to call the model (first, and after tools) or the tools.
Turn(r) ==
    CASE Opened(r) = 0 -> ModelKind
      [] Opened(r) > 0 /\ LastStream(r).state = "eof" /\ LastStream(r).kind = "call" -> {"tools"}
      [] Opened(r) > 0 /\ LastStream(r).state = "eof" /\ LastStream(r).kind = "tools" -> ModelKind
      [] OTHER -> {}

OpenStream(r) ==
    /\ pc[r] = "running"
    /\ Opened(r) < MaxStreams[r]
    /\ \E kind \in Turn(r) :
          streams' = [streams EXCEPT ![r] =
                        Append(@, [kind |-> kind, state |-> "open", reader |-> "recv"])]
    /\ UNCHANGED <<pc, prompt, events, store>>

\* The stream ends, or breaks off.
CloseStream(r) ==
    /\ Opened(r) > 0
    /\ LastStream(r).state = "open"
    /\ \E how \in {"eof", "error"} :
          streams' = [streams EXCEPT ![r][Opened(r)].state = how]
    /\ UNCHANGED <<pc, prompt, events, store>>

-----------------------------------------------------------------------------
(* StreamCallback.OnEndWithStreamOutput: the goroutine that reads stream k. *)

Reader(r, k) == streams[r][k].reader
MoveTo(r, k, where) == streams' = [streams EXCEPT ![r][k].reader = where]

\* Mutant: the callbacks stop when the request has been answered.
ReceiveWhileRunning(r, k) ==
    /\ pc[r] = "running"
    /\ Reader(r, k) = "recv"
    /\ Publish(r, "chunk", k)
    /\ MoveTo(r, k, IF streams[r][k].kind = "tools" THEN "add" ELSE "tail")
    /\ UNCHANGED <<pc, prompt, store>>

\* A frame arrives: publish it, and record it at once if it is a tool result.
ReceiveFrame(r, k) ==
    /\ Reader(r, k) = "recv"
    /\ \/ /\ streams[r][k].kind = "tools"
          /\ Publish(r, "tool.result", k)
          /\ MoveTo(r, k, "add")
       \/ /\ streams[r][k].kind \in ModelKind
          /\ Publish(r, "chunk", k)
          /\ MoveTo(r, k, "tail")
    /\ UNCHANGED <<pc, prompt, store>>

ReceiveError(r, k) ==
    /\ Reader(r, k) \in {"recv", "tail"}
    /\ streams[r][k].state = "error"
    /\ MoveTo(r, k, "done")
    /\ UNCHANGED <<pc, prompt, events, store>>

\* After the last frame of a model stream the message, if there is any, is recorded.
RecordEmpty(kind) == IF kind = "tools" THEN "done" ELSE "add"                     \* mutant
AnnounceFirst(kind) == IF kind = "call" THEN "announce" ELSE "done"               \* mutant
AfterEof(kind) == IF kind \in {"call", "final"} THEN "add" ELSE "done"

ReceiveEof(r, k) ==
    /\ Reader(r, k) = "tail"
    /\ streams[r][k].state = "eof"
    /\ MoveTo(r, k, AfterEof(streams[r][k].kind))
    /\ UNCHANGED <<pc, prompt, events, store>>

Record(r, k) ==
    /\ Reader(r, k) = "add"
    /\ Store!AddBegin(<<r, k>>, SessionOf[r], Said(r, k))
    /\ MoveTo(r, k, "adding")
    /\ UNCHANGED <<pc, prompt, events>>

AfterRecord(kind) == CASE kind = "tools" -> "tail"
                       [] kind = "call" -> "announce"
                       [] OTHER -> "done"

Recorded(r, k) ==
    /\ Reader(r, k) = "adding"
    /\ Store!AddEnd(<<r, k>>)
    /\ MoveTo(r, k, AfterRecord(streams[r][k].kind))
    /\ UNCHANGED <<pc, prompt, events>>

AnnounceCall(r, k) ==
    /\ Reader(r, k) = "announce"
    /\ Publish(r, "tool.call", k)
    /\ MoveTo(r, k, "done")
    /\ UNCHANGED <<pc, prompt, store>>

-----------------------------------------------------------------------------
(* The rest of runEinoLoop. *)

Ended(r, how) == Opened(r) > 0 /\ LastStream(r).state \in how
Answer(r) == LastStream(r).kind \in {"final", "empty"}

\* iter.Next is exhausted: the answer has been read to its end.
Answered(r) == Ended(r, {"eof"}) /\ Answer(r)

Collected(r) ==
    /\ pc[r] = "running"
    /\ Answered(r)
    /\ pc' = [pc EXCEPT ![r] = "save"]
    /\ UNCHANGED <<prompt, streams, events, store>>

\* A stream broke, or a model or tool call failed without opening one.
CallError(r) == Turn(r) # {}                                                      \* mutant
AnyError(r) == Turn(r) # {} \/ Ended(r, {"error"})

RunError(r) ==
    /\ pc[r] = "running"
    /\ AnyError(r)
    /\ pc' = [pc EXCEPT ![r] = "failed"]
    /\ UNCHANGED <<prompt, streams, events, store>>

SaveStart(r) ==
    /\ pc[r] = "save"
    /\ Store!SaveBegin(<<r, 0>>, SessionOf[r])
    /\ pc' = [pc EXCEPT ![r] = "saving"]
    /\ UNCHANGED <<prompt, streams, events>>

SaveStep(r) ==
    /\ pc[r] = "saving"
    /\ Store!SaveMarshal(<<r, 0>>) \/ Store!SaveCount(<<r, 0>>)
    /\ UNCHANGED <<pc, prompt, streams, events>>

\* An error of Save is logged, and the run completes all the same.
SaveEnd(r) ==
    /\ pc[r] = "saving"
    /\ Store!SaveUpdate(<<r, 0>>) \/ Store!SaveMiss(<<r, 0>>)
    /\ pc' = [pc EXCEPT ![r] = "saved"]
    /\ UNCHANGED <<prompt, streams, events>>

RunCompleted(r) ==
    /\ pc[r] = "saved"
    /\ Publish(r, "run.completed", 0)
    /\ pc' = [pc EXCEPT ![r] = "completed"]
    /\ UNCHANGED <<prompt, streams, store>>

-----------------------------------------------------------------------------
(* Around the runs: the session handlers, and a restart of the process. *)

SessionHandlers ==
    /\ Store!Create \/ \E s \in 1..MaxSessions : Store!Delete(s)
    /\ UNCHANGED <<pc, prompt, streams, events>>

Restart(ok) ==
    /\ Store!Restart(ok)
    /\ pc' = [r \in Run |-> IF pc[r] \in {"idle", "completed", "failed"} THEN pc[r] ELSE "dead"]
    /\ streams' = [r \in Run |-> <<>>]
    /\ UNCHANGED <<prompt, events>>

Callback(r, k) ==
    \/ ReceiveFrame(r, k) \/ ReceiveError(r, k) \/ ReceiveEof(r, k)
    \/ Record(r, k) \/ Recorded(r, k) \/ AnnounceCall(r, k)

Loop(r) ==
    \/ ReadHistory(r) \/ AddUser(r) \/ UserAdded(r) \/ RunStarted(r)
    \/ Collected(r) \/ RunError(r)
    \/ SaveStart(r) \/ SaveStep(r) \/ SaveEnd(r) \/ RunCompleted(r)

Next ==
    \/ \E r \in Run :
        \/ Loop(r)
        \/ OpenStream(r)
        \/ CloseStream(r)
        \/ \E k \in 1..Opened(r) : Callback(r, k)
    \/ SessionHandlers
    \/ \E ok \in LoadOutcomes : Restart(ok)

\* The scheduler runs every goroutine that can run, and every stream ends or breaks.
Fairness == \A r \in Run :
    /\ WF_vars(Loop(r))
    /\ WF_vars(CloseStream(r))
    /\ WF_vars(OpenStream(r))
    /\ \A k \in Stream : WF_vars(k <= Opened(r) /\ Callback(r, k))

Spec == Init /\ [][Next]_vars
FairSpec == Spec /\ Fairness

-----------------------------------------------------------------------------
\* Types; of them the kinds of stream a run reads and of event it publishes
\* (loop.go:138-193, stream_callback.go:80-142).
TypeOK ==
    /\ pc \in [Run -> {"idle", "add", "adding", "start", "running", "save", "saving",
                       "saved", "completed", "failed", "dead"}]
    /\ prompt \in [Run -> Seq(Content \cup {Nothing})]
    /\ streams \in [Run -> Seq([kind : Kind, state : {"open", "eof", "error"},
                               reader : {"recv", "tail", "add", "adding", "announce", "done"}])]
    /\ \A r \in Run : \A i \in 1..Len(events[r]) :
          events[r][i] \in [type : {"run.started", "chunk", "tool.call", "tool.result",
                                   "run.completed"}, k : {0} \cup Stream]
    /\ Store!TypeOK

AskedBefore(log, i) == \E j \in 1..(i - 1) : log[j] = User(log[i].run)
Occurs(m, log) == \E i \in 1..Len(log) : log[i] = m

\* In a session's history, and in any prompt built from it, what a run said stands
\* after the request it answers, though the request and the answers are appended by
\* different goroutines (loop.go:117, stream_callback.go:115,129).
AnswersFollowRequest ==
    \A log \in {messages[s] : s \in 1..MaxSessions} \cup {prompt[r] : r \in Run} :
        \A i \in 1..Len(log) :
            log[i].kind \in {"call", "tools", "final"} => AskedBefore(log, i)

\* A prompt holds its own request exactly once, as its last message: the history is
\* read before the request is appended to it (loop.go:110-117).
RequestOnceInPrompt ==
    \A r \in Run : prompt[r] # <<>> =>
        {i \in 1..Len(prompt[r]) : prompt[r][i] = User(r)} = {Len(prompt[r])}

\* A tool call is announced only once it can be read back with chat.history
\* (stream_callback.go:129-138), though the announcer is not the goroutine that runs it.
CallRecordedFirst ==
    [][\A r \in Run : Len(events'[r]) > Len(events[r]) =>
          LET e == events'[r][Len(events'[r])]
          IN e.type = "tool.call" => Occurs(Said(r, e.k), messages[SessionOf[r]])]_vars

\* A request that has been read ends: in run.completed or in an error.
RunEnds ==
    \A r \in Run : pc[r] = "add" ~> pc[r] \in {"completed", "failed", "dead"}

\* All that a completed run said is in the session's history in the end, though the
\* loop does not wait for the goroutines that record it.
AnswersRecorded ==
    \A r \in Run : pc[r] = "completed" ~>
        \A k \in 1..Opened(r) : streams[r][k].kind # "empty" =>
            Occurs(Said(r, k), messages[SessionOf[r]])

-----------------------------------------------------------------------------
(* What comments and docs say of a run, and the code does not do. *)

\* "save the final message" (loop.go:185, in Chinese): when Save is done, the answer
\* is in the row of a session that has one.
FinalMessageSaved ==
    \A r \in Run :
        pc[r] = "saved" /\ SessionOf[r] \in rows /\ LastStream(r).kind = "final" =>
            Occurs(Said(r, Opened(r)), row[SessionOf[r]].messages)
=============================================================================
