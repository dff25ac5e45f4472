------------------------------ MODULE ChatPage ------------------------------
(***************************************************************************)
(* The chat page of the UI: pages/chat/chat-page.tsx with its hooks        *)
(* use-chat-messages.ts and use-chat-send.ts over the store of             *)
(* stores/use-chat-messages-store.ts, for one agent, against the gateway   *)
(* of one connection (see WsGateway), which handles its requests one at a  *)
(* time and a run to its end, while the run's callback goroutine publishes *)
(* and records the answer on its own (see AgentRun).                       *)
(*                                                                         *)
(* React renders a navigation at once (sessionIdRef), and runs the effects *)
(* of the render later: frames may come in between.                        *)
(***************************************************************************)
EXTENDS Naturals, Sequences, FiniteSets

CONSTANTS
    Session,      \* sessions that exist, or that a new chat creates
    Old,          \* those that exist at the start
    New,          \* the placeholder key of a chat not saved yet
    Empty,        \* no key: /chat
    MaxCached,    \* MAX_CACHED_SESSIONS
    MaxSends, MaxSelects, MaxDrops   \* bounds

ASSUME PageAssumption ==
    /\ Old \subseteq Session
    /\ New \notin Session /\ Empty \notin Session /\ New # Empty
    /\ MaxCached \in Nat /\ MaxSends \in Nat /\ MaxSelects \in Nat /\ MaxDrops \in Nat

Key == Session \cup {New, Empty}
Run == 1..MaxSends      \* a chat.send and the run it starts
NoRun == 0

VARIABLES
    view, prevKey,           \* sessionIdRef, and the key the effects last saw
    shown, running,          \* the store: messages and isRunning of each key,
    kept, older,             \* the keys it has, and for each those accessed before it
    runId, expecting,        \* refs of the event handler
    streamed,                \* streamRef: "none", "part" or "whole" of an answer's text
    tools,                   \* toolStreamRef is not empty
    creating,                \* how many createSession calls of handleSend are under way
    of,                      \* the chat.send calls: the session of each
    connected, up, down,     \* the connection: requests and frames
    busy,                    \* the run the gateway's reader is in
    callback,                \* the callback goroutine of each run
    log,                     \* the history the gateway keeps
    created,                 \* the sessions there are
    selects, drops,
    gone,                    \* history: runs whose connection was lost
    excused,                 \* history: runs whose answer the page may miss
    evicted,                 \* history: runs of sessions that were evicted since
    overtaken,               \* history: runs that completed before their last chunk was sent
    cut                      \* history: answers shown from a part of their text, not read since

store == <<shown, running, kept, older, evicted>>
refs == <<runId, expecting, streamed, tools>>
wire == <<connected, up, down>>
server == <<busy, callback, log>>
nav == <<view, prevKey, creating, of, created, selects>>
page == <<nav, store, refs>>
texts == <<overtaken, cut>>
ghosts == <<gone, excused, texts>>
vars == <<page, wire, server, drops, ghosts>>

Asked(k) == [who |-> "user", run |-> k]
Said(k) == [who |-> "agent", run |-> k]
Has(msgs, m) == \E i \in 1..Len(msgs) : msgs[i] = m
RunsOf(s) == {k \in 1..Len(of) : of[k] = s}

Init ==
    /\ view = Empty /\ prevKey = Empty /\ creating = 0
    /\ shown = [s \in Key |-> <<>>] /\ running = [s \in Key |-> FALSE]
    /\ kept = {} /\ older = [s \in Key |-> {}]
    /\ runId = NoRun /\ expecting = FALSE /\ streamed = "none" /\ tools = FALSE
    /\ of = <<>>
    /\ connected = TRUE /\ up = <<>> /\ down = <<>>
    /\ busy = NoRun /\ callback = [k \in Run |-> "none"] /\ log = [s \in Session |-> <<>>]
    /\ created = Old
    /\ selects = 0 /\ drops = 0
    /\ gone = {} /\ excused = {} /\ evicted = {} /\ overtaken = {} /\ cut = {}

-----------------------------------------------------------------------------
(* The store. *)

OlderKeepsPlace(s) == [older EXCEPT ![s] = kept \ {s}]   \* mutant: s stays before others

\* The order of access once s has been accessed.
Older(s) == [x \in Key |-> IF x = s THEN kept \ {s} ELSE older[x] \ {s}]

Touch(s) == kept' = kept \cup {s} /\ older' = Older(s)

\* evictStale: beyond the limit, the keys accessed longest ago that do not run.
Evicted(s, runs) ==
    LET keys == kept \cup {s}
        idle == {x \in keys : ~runs[x]}
    IN {x \in idle : Cardinality(Older(s)[x] \cap idle) + MaxCached < Cardinality(keys)}

\* setSessionMessages and updateSessionMessages, with the running flags as they are then.
SetMessages(s, msgs, runs) ==
    LET out == Evicted(s, runs)
    IN /\ kept' = (kept \cup {s}) \ out
       /\ older' = [x \in Key |-> IF x \in out THEN {} ELSE Older(s)[x] \ out]
       /\ shown' = [x \in Key |-> IF x \in out THEN <<>> ELSE IF x = s THEN msgs ELSE shown[x]]
       /\ running' = runs
       /\ evicted' = evicted \cup {k \in 1..Len(of') : of'[k] \in out}

\* setSessionRunning, and the stream setters beside it: none of them evicts.
SetRunning(s, b) ==
    /\ running' = [running EXCEPT ![s] = b]
    /\ Touch(s)
    /\ UNCHANGED <<shown, evicted>>

Request(type, k, s) == [type |-> type, run |-> k, session |-> s]
Frame(type, k, s, msgs) == [type |-> type, run |-> k, session |-> s, msgs |-> msgs]

\* loadHistory for the key of the last render: nothing without a connection or a real key.
LoadHistory ==
    up' = IF connected /\ view \in Session
          THEN Append(up, Request("history", Len(of), view))
          ELSE up

-----------------------------------------------------------------------------
(* The user, and the effects of a render. *)

Effective == prevKey = view

\* The answer to a run that was left is shown if its session is opened again.
Navigate(s) ==
    /\ view' = s
    /\ excused' = excused \cup RunsOf(view)

\* The sidebar: a session, a new chat, or /chat itself.
Select(s) ==
    /\ Effective /\ selects < MaxSelects
    /\ s \in created \cup {New, Empty} /\ s # view
    /\ selects' = selects + 1
    /\ Navigate(s)
    /\ UNCHANGED <<prevKey, creating, of, created, store, refs, wire, server, drops, gone, texts>>

EffectsClear ==   \* mutant: the messages of the new session are reset as well
    /\ ~Effective
    /\ prevKey' = view
    /\ IF prevKey = Empty
       THEN UNCHANGED <<store, refs>>
       ELSE /\ running' = [running EXCEPT ![view] = FALSE] /\ Touch(view)
            /\ shown' = [shown EXCEPT ![view] = <<>>] /\ UNCHANGED evicted
            /\ runId' = NoRun /\ expecting' = FALSE /\ streamed' = "none" /\ tools' = FALSE
    /\ IF prevKey = Empty /\ expecting THEN UNCHANGED up ELSE LoadHistory
    /\ UNCHANGED <<view, creating, of, created, selects, connected, down, server, drops, ghosts>>

\* The session-change effect resets the page and the flags of the new session, except
\* after an empty key; then the load effect, which a send from an empty key skips.
Effects ==
    /\ ~Effective
    /\ prevKey' = view
    /\ IF prevKey = Empty
       THEN UNCHANGED <<store, refs>>
       ELSE /\ SetRunning(view, FALSE)
            /\ runId' = NoRun /\ expecting' = FALSE /\ streamed' = "none" /\ tools' = FALSE
    /\ IF prevKey = Empty /\ expecting THEN UNCHANGED up ELSE LoadHistory
    /\ UNCHANGED <<view, creating, of, created, selects, connected, down, server, drops, ghosts>>

\* send without files: the optimistic message, expectRun and the call, in one task.
Send(s) ==
    IF connected
    THEN /\ of' = Append(of, s)
         /\ SetMessages(s, Append(shown[s], Asked(Len(of'))), running)
         /\ expecting' = TRUE
         /\ up' = Append(up, Request("send", Len(of'), s))
    ELSE UNCHANGED <<of, store, expecting, up>>

SendHere ==
    /\ Effective /\ view \in Session
    /\ connected /\ Len(of) < MaxSends
    /\ Send(view)
    /\ UNCHANGED <<view, prevKey, creating, created, selects, runId, streamed, tools,
                   connected, down, server, drops, ghosts>>

\* handleSend of a new chat asks the server for a session first, and for another one if the
\* user sends again before it is there.  A call that fails is one that is not answered.
SendNew ==
    /\ Effective /\ view \in {New, Empty}
    /\ creating < Cardinality(Session \ created) /\ Len(of) + creating < MaxSends
    /\ creating' = creating + 1
    /\ UNCHANGED <<view, prevKey, of, created, selects, store, refs, wire, server, drops, ghosts>>

\* It goes to the session wherever the user is by then, and sends before React renders it.
SessionCreated ==
    /\ creating > 0 /\ Effective /\ Len(of) < MaxSends
    /\ \E s \in Session \ created :
        /\ created' = created \cup {s}
        /\ Navigate(s)
        /\ Send(s)
    /\ creating' = creating - 1
    /\ UNCHANGED <<prevKey, selects, runId, streamed, tools, connected, down, server, drops, gone, texts>>

-----------------------------------------------------------------------------
(* The gateway: its reader, the run in it, and the callback goroutines. *)

\* Runs whose answer is still to be recorded.
Unrecorded(s) == {k \in RunsOf(s) : callback[k] \in {"stream", "rest", "record"}}

AnswerHistory(s, since) ==
    /\ down' = Append(down, Frame("history", since, s, log[s]))
    /\ excused' = excused \cup Unrecorded(s)

TakeHistoryAnyTime ==   \* mutant: the gateway answers during a run
    /\ up # <<>> /\ Head(up).type = "history"
    /\ up' = Tail(up)
    /\ AnswerHistory(Head(up).session, Head(up).run)
    /\ UNCHANGED <<page, connected, server, drops, gone, texts>>

TakeHistory ==
    /\ busy = NoRun /\ up # <<>> /\ Head(up).type = "history"
    /\ up' = Tail(up)
    /\ AnswerHistory(Head(up).session, Head(up).run)
    /\ UNCHANGED <<page, connected, server, drops, gone, texts>>

TakeSend ==
    /\ busy = NoRun /\ up # <<>> /\ Head(up).type = "send"
    /\ up' = Tail(up)
    /\ busy' = Head(up).run
    /\ log' = [log EXCEPT ![of[busy']] = Append(@, Asked(busy'))]
    /\ callback' = [callback EXCEPT ![busy'] = "stream"]
    /\ down' = Append(down, Frame("started", busy', of[busy'], <<>>))
    /\ UNCHANGED <<page, connected, drops, ghosts>>

\* A send that is refused before anything is kept or told of it: a parameter is missing, the
\* agent or its provider is not found, the model cannot be initialised.  The call is
\* answered with an error; the page shows it, and still expects a run.
RefuseSend ==
    /\ busy = NoRun /\ up # <<>> /\ Head(up).type = "send"
    /\ up' = Tail(up)
    /\ callback' = [callback EXCEPT ![Head(up).run] = "refused"]
    /\ excused' = excused \cup {Head(up).run}
    /\ UNCHANGED <<page, connected, down, busy, log, drops, gone, texts>>

\* A run whose connection is gone publishes to nobody.
Publish(types, k) ==
    down' = IF k \in gone THEN down
            ELSE down \o [i \in 1..Len(types) |-> Frame(types[i], k, of[k], <<>>)]

\* The events of the answer, with those of a tool before them or not.  Chunks that go out in
\* a row are one frame: all of the text, or the part of it that run.completed overtakes.
Stream(k) ==
    /\ callback[k] = "stream"
    /\ \/ /\ callback' = [callback EXCEPT ![k] = "record"]
          /\ Publish(<<"chunk">>, k) \/ Publish(<<"tool", "chunk">>, k)
       \/ /\ busy = k
          /\ callback' = [callback EXCEPT ![k] = "rest"]
          /\ Publish(<<"part">>, k) \/ Publish(<<"tool", "part">>, k)
    /\ UNCHANGED <<page, connected, up, busy, log, drops, ghosts>>

StreamRest(k) ==
    /\ callback[k] = "rest" /\ busy # k
    /\ callback' = [callback EXCEPT ![k] = "record"]
    /\ Publish(<<"chunk">>, k)
    /\ UNCHANGED <<page, connected, up, busy, log, drops, ghosts>>

Record(k) ==
    /\ callback[k] = "record"
    /\ callback' = [callback EXCEPT ![k] = "done"]
    /\ log' = [log EXCEPT ![of[k]] = Append(@, Said(k))]
    /\ UNCHANGED <<page, wire, busy, drops, ghosts>>

\* The loop does not wait for the callback goroutine.
Complete ==
    /\ busy # NoRun
    /\ busy' = NoRun
    /\ Publish(<<"completed">>, busy)
    /\ overtaken' = IF callback[busy] \in {"stream", "rest"} THEN overtaken \cup {busy}
                    ELSE overtaken
    /\ UNCHANGED <<page, connected, up, callback, log, drops, gone, excused, cut>>

\* A stream breaks: the call is answered with an error, and no event is sent.
Fail ==
    /\ busy # NoRun /\ callback[busy] \in {"stream", "rest"}
    /\ busy' = NoRun
    /\ callback' = [callback EXCEPT ![busy] = "done"]
    /\ excused' = excused \cup {busy}
    /\ UNCHANGED <<page, wire, log, drops, gone, texts>>

-----------------------------------------------------------------------------
(* Frames at the page, timeouts, and the loss of the connection. *)

Deliver(type) == down # <<>> /\ Head(down).type = type /\ down' = Tail(down)

elsewhere == <<nav, connected, server, drops, gone, excused, overtaken>>

Started ==
    /\ Deliver("started")
    /\ IF Head(down).session = view /\ expecting
       THEN /\ runId' = Head(down).run
            /\ expecting' = FALSE /\ streamed' = "none" /\ tools' = FALSE
            /\ SetRunning(view, TRUE)
            /\ UNCHANGED excused
       ELSE excused' = excused \cup {Head(down).run} /\ UNCHANGED <<refs, store>>
    /\ UNCHANGED <<nav, connected, up, server, drops, gone, texts>>

Ours(f) == f.session = view /\ runId = f.run

Content ==
    /\ Deliver("tool") \/ Deliver("part") \/ Deliver("chunk")
    /\ IF Ours(Head(down))
       THEN /\ streamed' = CASE Head(down).type = "tool" -> streamed
                             [] Head(down).type = "part" -> "part"
                             [] Head(down).type = "chunk" -> "whole"
            /\ tools' = (tools \/ Head(down).type = "tool")
            /\ Touch(view)
       ELSE UNCHANGED <<streamed, tools, kept, older>>
    /\ UNCHANGED <<elsewhere, cut, runId, expecting, shown, running, evicted, up>>

CompletedForgetsLoad ==   \* mutant: what was not streamed is not read
    /\ Deliver("completed")
    /\ UNCHANGED <<elsewhere, cut, expecting, up>>
    /\ IF Ours(Head(down))
       THEN /\ runId' = NoRun /\ streamed' = "none" /\ tools' = FALSE
            /\ IF streamed # "none" /\ ~tools
               THEN SetMessages(view, Append(shown[view], Said(runId)),
                                [running EXCEPT ![view] = FALSE])
               ELSE SetRunning(view, FALSE)
       ELSE UNCHANGED <<runId, streamed, tools, store>>

\* run.completed appends what was streamed so far, or reads the history.
Completed ==
    /\ Deliver("completed")
    /\ UNCHANGED <<elsewhere, expecting>>
    /\ IF Ours(Head(down))
       THEN /\ runId' = NoRun /\ streamed' = "none" /\ tools' = FALSE
            /\ IF streamed # "none" /\ ~tools
               THEN /\ SetMessages(view, Append(shown[view], Said(runId)),
                                   [running EXCEPT ![view] = FALSE])
                    /\ cut' = IF streamed = "part" THEN cut \cup {runId} ELSE cut
                    /\ UNCHANGED up
               ELSE SetRunning(view, FALSE) /\ LoadHistory /\ UNCHANGED cut
       ELSE UNCHANGED <<runId, streamed, tools, store, up, cut>>

HistoryOnView ==   \* mutant: the answer goes to the session on view
    /\ Deliver("history")
    /\ UNCHANGED <<elsewhere, cut, refs, up>>
    /\ SetMessages(view, Head(down).msgs, running)

\* The answer goes to the session that was asked for, on view or not.
History ==
    /\ Deliver("history")
    /\ UNCHANGED <<elsewhere, refs, up>>
    /\ SetMessages(Head(down).session, Head(down).msgs, running)
    /\ cut' = cut \ RunsOf(Head(down).session)

\* A chat.history call waits 30 seconds, and a run before it may take longer.
LoadTimesOut ==
    /\ busy # NoRun
    /\ \E i \in 1..Len(up) :
        /\ up[i].type = "history"
        /\ up' = SubSeq(up, 1, i - 1) \o SubSeq(up, i + 1, Len(up))
        /\ excused' = excused \cup RunsOf(up[i].session)
    /\ UNCHANGED <<page, connected, down, server, drops, gone, texts>>

\* What was on the way is lost; the run goes on, and the page hears no more of it.
Drop ==
    /\ connected /\ drops < MaxDrops
    /\ drops' = drops + 1
    /\ connected' = FALSE /\ up' = <<>> /\ down' = <<>>
    /\ gone' = 1..Len(of)
    /\ excused' = 1..Len(of)
    /\ busy' = NoRun      \* the next connection has a reader of its own
    /\ UNCHANGED <<page, callback, log, texts>>

Reconnect ==
    /\ ~connected
    /\ connected' = TRUE
    /\ UNCHANGED <<page, up, down, server, drops, ghosts>>

-----------------------------------------------------------------------------
Gateway == TakeHistory \/ TakeSend \/ RefuseSend \/ Complete \/ Fail
Goroutine(k) == Stream(k) \/ StreamRest(k) \/ Record(k)
Frames == Started \/ Content \/ Completed \/ History

Next ==
    \/ \E s \in Key : Select(s)
    \/ SendHere \/ SendNew \/ SessionCreated \/ Effects
    \/ Gateway
    \/ \E k \in 1..Len(of) : Goroutine(k)
    \/ Frames \/ LoadTimesOut
    \/ Drop \/ Reconnect

Spec == Init /\ [][Next]_vars

-----------------------------------------------------------------------------
Message == [who : {"user", "agent"}, run : Run]
Messages(msgs) == Len(msgs) <= 2 * MaxSends /\ \A i \in 1..Len(msgs) : msgs[i] \in Message
Keyed(type) == type \in {"history", "send", "started", "tool", "part", "chunk", "completed"}

\* The order of access is total.
AccessOrder ==
    /\ \A x \in Key : older[x] \subseteq kept \ {x} /\ (x \notin kept => older[x] = {})
    /\ \A x, y \in kept : x # y => (x \in older[y] <=> y \notin older[x])
    /\ \A x, y \in kept : y \in older[x] => older[y] \subseteq older[x]

\* Types; the store orders its keys, and no session shows more than was ever said.
TypeOK ==
    /\ view \in Key /\ prevKey \in Key /\ creating \in 0..MaxSends
    /\ \A s \in Key : Messages(shown[s]) /\ running[s] \in BOOLEAN
    /\ kept \subseteq Key /\ AccessOrder
    /\ runId \in Run \cup {NoRun} /\ expecting \in BOOLEAN
    /\ streamed \in {"none", "part", "whole"} /\ tools \in BOOLEAN
    /\ Len(of) <= MaxSends /\ \A k \in 1..Len(of) : of[k] \in Session
    /\ connected \in BOOLEAN
    /\ \A i \in 1..Len(up) : up[i].session \in Session /\ Keyed(up[i].type)
    /\ \A i \in 1..Len(down) : Keyed(down[i].type) /\ Messages(down[i].msgs)
    /\ busy \in Run \cup {NoRun}
    /\ \A k \in Run : callback[k] \in {"none", "refused", "stream", "rest", "record", "done"}
    /\ \A s \in Session : Messages(log[s])
    /\ created \subseteq Session
    /\ gone \subseteq Run /\ excused \subseteq Run /\ evicted \subseteq Run
    /\ overtaken \subseteq Run /\ cut \subseteq Run

\* A message is shown once, although the page adds it itself and a history answer that
\* overlaps with the run may bring it too (use-chat-messages.ts:112, 252;
\* use-chat-send.ts:57): the gateway answers a history between runs only.
NothingTwice ==
    \A s \in Key : \A i, j \in 1..Len(shown[s]) : i < j => shown[s][i] # shown[s][j]

\* What is kept for a session belongs to it, whatever the user does between a call or
\* an event and its arrival: events are compared with the session on view, and history
\* goes where it was asked for (use-chat-messages.ts:112, 141).
OwnMessages ==
    \A s \in Key : \A i \in 1..Len(shown[s]) : of[shown[s][i].run] = s

\* An optimistic message stays on the page: only eviction takes it, or a history that was
\* asked for before it was sent, or one after its connection was lost or after the gateway
\* had refused it, which keeps nothing of it (agent_logic.go:50-96).
SentStays ==
    [][\A k \in 1..Len(of) :
        Has(shown[of[k]], Asked(k)) /\ ~Has(shown'[of[k]], Asked(k)) =>
            \/ of[k] \notin kept'
            \/ /\ down # <<>> /\ Head(down).type = "history"
               /\ Head(down).run < k \/ k \in gone \/ callback[k] = "refused"]_vars

Quiet == connected /\ Effective /\ up = <<>> /\ down = <<>> /\ busy = NoRun

\* When all is quiet the page shows the answer of every run that it followed: streamed,
\* or read from the history when tools ran (use-chat-messages.ts:251-253).  The text is cut
\* short only if run.completed had overtaken the last chunks, which the gateway sends from a
\* goroutine of their own (loop.go:192).  The page may miss the answer when it left the
\* session, lost the connection or did not adopt the run, when the run was refused or failed,
\* when its history was read before the callback goroutine had recorded the answer, and
\* when the store evicted the session on view, because every other one it keeps counts as
\* running.
AnswerShown ==
    Quiet => \A k \in RunsOf(view) \ (excused \cup evicted) :
                Has(shown[view], Said(k)) /\ (k \in cut => k \in overtaken)
=============================================================================
