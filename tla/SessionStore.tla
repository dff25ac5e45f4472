---------------------------- MODULE SessionStore ----------------------------
(***************************************************************************)
(* The chat history: pkg/postgres/session_store.go (the in-memory cache    *)
(* that every chat request reads and appends to) in front of the sessions  *)
(* table (internal/model/sessionsmodel*.go), which the REST and WebSocket  *)
(* session handlers create and delete rows of without telling the cache.   *)
(*                                                                         *)
(* Threads are goroutines: the agent loop of a request and the stream      *)
(* callbacks it spawns.  AddFullMessage holds the mutex from AddBegin to   *)
(* AddEnd; Save holds it only to look the session up, and then reads       *)
(* s.Messages with no lock, which races with append: the last slot may not *)
(* be stored yet, and a new length may be read with an old array.  What    *)
(* such a read finds in the slots it should not read is Blank.             *)
(***************************************************************************)
EXTENDS Naturals, Sequences

CONSTANTS
    Thread,        \* goroutines that use the store
    Message,       \* message contents
    Blank,         \* a slot that is not stored yet, or read outside its array
    LongLabel,     \* messages longer than the label column, varchar(64)
    DbMayFail,     \* may an UPDATE fail?
    LoadOutcomes,  \* what loadAll's query may do at start: subset of BOOLEAN
    MaxSessions,   \* bound: session ids the database hands out
    MaxLen         \* bound: messages of one session

ASSUME StoreAssumption ==
    /\ Blank \notin Message
    /\ LongLabel \subseteq Message
    /\ DbMayFail \in BOOLEAN
    /\ LoadOutcomes \subseteq BOOLEAN
    /\ MaxSessions \in Nat
    /\ MaxLen \in Nat

VARIABLES
    cached,    \* keys of ss.sessions
    messages,  \* messages[s]: Messages of the cached session s
    adding,    \* the append in progress, {} when ss.mu is free
    saves,     \* the Save call of each thread
    rows,      \* ids that have a row in the sessions table
    row,       \* messages and messages_count of those rows
    nextId,    \* the id sequence of the table
    loaded,    \* did this process's loadAll succeed?
    overtaken  \* history: threads whose snapshot another Save has outdated

vars == <<cached, messages, adding, saves, rows, row, nextId, loaded, overtaken>>

Session == 1..MaxSessions
Slot == Message \cup {Blank}
Row == [messages : Seq(Slot), count : Nat]
Append1 == [thread : Thread, session : Session, message : Message]
Save == [pc : {"idle", "found", "marshalled", "ready"}, session : Session \cup {0},
         messages : Seq(Slot), count : Nat, label : Slot]

EmptyRow == [messages |-> <<>>, count |-> 0]
Idle == [pc |-> "idle", session |-> 0, messages |-> <<>>, count |-> 0, label |-> Blank]

Init ==
    /\ cached = {}
    /\ messages = [s \in Session |-> <<>>]
    /\ adding = {}
    /\ saves = [t \in Thread |-> Idle]
    /\ rows = {}
    /\ row = [s \in Session |-> EmptyRow]
    /\ nextId = 1
    /\ loaded = TRUE
    /\ overtaken = {}

-----------------------------------------------------------------------------
(* The table, as the session handlers use it. *)

\* CreateSession inserts a row whose messages are NULL; the cache hears nothing.
Create ==
    /\ nextId \in Session
    /\ rows' = rows \cup {nextId}
    /\ nextId' = nextId + 1
    /\ UNCHANGED <<cached, messages, adding, saves, row, loaded, overtaken>>

\* DELETE /v1/sessions/:id and sessions.delete remove the row only.
Delete(s) ==
    /\ s \in rows
    /\ rows' = rows \ {s}
    /\ row' = [row EXCEPT ![s] = EmptyRow]
    /\ UNCHANGED <<cached, messages, adding, saves, nextId, loaded, overtaken>>

-----------------------------------------------------------------------------
(* AddFullMessage: look up or create the entry, append, unlock. *)

\* A client names ids CreateSession has returned; nothing checks the row.
AddBegin(t, s, m) ==
    /\ adding = {}
    /\ saves[t].pc = "idle"
    /\ s < nextId
    /\ Len(messages[s]) < MaxLen
    /\ adding' = {[thread |-> t, session |-> s, message |-> m]}
    /\ cached' = cached \cup {s}
    /\ messages' = [messages EXCEPT ![s] = Append(@, Blank)]
    /\ UNCHANGED <<saves, rows, row, nextId, loaded, overtaken>>

AddEnd(t) == \E a \in adding :
    /\ a.thread = t
    /\ messages' = [messages EXCEPT ![a.session][Len(messages[a.session])] = a.message]
    /\ adding' = {}
    /\ UNCHANGED <<cached, saves, rows, row, nextId, loaded, overtaken>>

\* GetHistory copies the entry under the read lock.
CanRead == adding = {}
GetHistory(s) == messages[s]

-----------------------------------------------------------------------------
(* Save: look up under the read lock, then read three times without it. *)

\* A Save of a session that is not cached returns an error and changes nothing.
SaveBegin(t, s) ==
    /\ adding = {}
    /\ saves[t].pc = "idle"
    /\ s \in cached
    /\ saves' = [saves EXCEPT ![t] = [@ EXCEPT !.pc = "found", !.session = s,
                                             !.count = Len(messages[s])]]
    /\ UNCHANGED <<cached, messages, adding, rows, row, nextId, loaded, overtaken>>

\* The slots of the array as it was at some time since the lookup, and the length
\* as it is now.
NewestOnly(log, n) == SubSeq(log, 2, Len(log))         \* mutant
Snapshot(log, n) == [i \in 1..Len(log) |-> IF i <= n THEN log[i] ELSE Blank]

SaveMarshal(t) ==
    /\ saves[t].pc = "found"
    /\ \E n \in saves[t].count..Len(messages[saves[t].session]) :
          saves' = [saves EXCEPT ![t] =
             [@ EXCEPT !.pc = "marshalled",
                       !.messages = Snapshot(messages[saves[t].session], n)]]
    /\ overtaken' = overtaken \ {t}
    /\ UNCHANGED <<cached, messages, adding, rows, row, nextId, loaded>>

\* label := Messages[0].Content and messages_count := len(Messages).
MessagesCount(t) == Len(messages[saves[t].session])

SaveCount(t) ==
    LET now == messages[saves[t].session] IN
    /\ saves[t].pc = "marshalled"
    /\ saves' = [saves EXCEPT ![t] =
          [@ EXCEPT !.pc = "ready",
                    !.count = MessagesCount(t),
                    !.label = IF now = <<>> THEN Blank ELSE now[1]]]
    /\ UNCHANGED <<cached, messages, adding, rows, row, nextId, loaded, overtaken>>

Outdated(t, s) == {u \in Thread \ {t} :
                      saves[u].session = s /\ saves[u].pc \in {"marshalled", "ready"}}

SaveUpsert(t) ==                                       \* mutant: ON CONFLICT, not UPDATE
    LET s == saves[t].session IN
    /\ saves[t].pc = "ready"
    /\ saves[t].label \notin LongLabel
    /\ rows' = rows \cup {s}
    /\ row' = [row EXCEPT ![s] = [messages |-> saves[t].messages, count |-> saves[t].count]]
    /\ overtaken' = (overtaken \cup Outdated(t, s)) \ {t}
    /\ saves' = [saves EXCEPT ![t] = Idle]
    /\ UNCHANGED <<cached, messages, adding, nextId, loaded>>

\* The UPDATE takes effect (its reply may still be lost: Save only logs it).
SaveUpdate(t) ==
    LET s == saves[t].session IN
    /\ saves[t].pc = "ready"
    /\ s \in rows
    /\ saves[t].label \notin LongLabel
    /\ row' = [row EXCEPT ![s] = [messages |-> saves[t].messages, count |-> saves[t].count]]
    /\ overtaken' = (overtaken \cup Outdated(t, s)) \ {t}
    /\ saves' = [saves EXCEPT ![t] = Idle]
    /\ UNCHANGED <<cached, messages, adding, rows, nextId, loaded>>

\* It matches no row (and returns nil), does not fit the label, or fails.
SaveMiss(t) ==
    /\ saves[t].pc = "ready"
    /\ \/ saves[t].session \notin rows
       \/ saves[t].label \in LongLabel
       \/ DbMayFail
    /\ saves' = [saves EXCEPT ![t] = Idle]
    /\ overtaken' = overtaken \ {t}
    /\ UNCHANGED <<cached, messages, adding, rows, row, nextId, loaded>>

-----------------------------------------------------------------------------
LoadHeader(s) == <<>>                                   \* mutant

\* What a row holds was written by Create or Save, as the JSON of messages.  A text that is
\* not, which neither writes, would be loaded as an empty history (session_store.go:200-206).
Load(s) == row[s].messages

\* The process stops at any point and starts again; loadAll caches every row,
\* or, when its query fails, logs the error and leaves the cache empty.
Restart(ok) ==
    /\ cached' = IF ok THEN rows ELSE {}
    /\ messages' = [s \in Session |-> IF ok /\ s \in rows THEN Load(s) ELSE <<>>]
    /\ adding' = {}
    /\ saves' = [t \in Thread |-> Idle]
    /\ loaded' = ok
    /\ overtaken' = {}
    /\ UNCHANGED <<rows, row, nextId>>

Next ==
    \/ Create
    \/ \E s \in Session : Delete(s)
    \/ \E t \in Thread :
        \/ \E s \in Session, m \in Message : AddBegin(t, s, m)
        \/ AddEnd(t)
        \/ \E s \in Session : SaveBegin(t, s)
        \/ SaveMarshal(t)
        \/ SaveCount(t)
        \/ SaveUpdate(t)
        \/ SaveMiss(t)
    \/ \E ok \in LoadOutcomes : Restart(ok)

Spec == Init /\ [][Next]_vars

-----------------------------------------------------------------------------
\* Types; a slot is a message, or blank for as long as an append has not stored it
\* (session_store.go:52-69).
TypeOK ==
    /\ cached \subseteq Session
    /\ messages \in [Session -> Seq(Slot)]
    /\ adding \subseteq Append1
    /\ saves \in [Thread -> Save]
    /\ rows \subseteq Session
    /\ row \in [Session -> Row]
    /\ nextId \in 1..(MaxSessions + 1)
    /\ loaded \in BOOLEAN
    /\ overtaken \subseteq Thread

\* What the table may hold of a log: a prefix of it, its empty slots aside.
StoredPrefix(stored, log) ==
    /\ Len(stored) <= Len(log)
    /\ \A i \in 1..Len(stored) : stored[i] \in {log[i], Blank}

\* However appends, unlocked Saves and restarts interleave, the row of a session
\* is a prefix of its history in memory: Save never writes a message out of
\* place, twice, or of another session (session_store.go:145-185).
RowIsPrefix ==
    loaded => \A s \in rows \cap cached : StoredPrefix(row[s].messages, messages[s])

\* messages_count, read after the messages were marshalled, never promises fewer
\* messages than the row holds (session_store.go:155-173; sessions.list shows it).
CountCovers ==
    \A s \in rows : Len(row[s].messages) <= row[s].count

\* A row loses messages it had only when it is deleted, when loadAll failed in
\* this process, or when two Saves of one session overlapped and the older
\* snapshot was written last (session_store.go:145-185, 193-195).
LossNeedsOverlap ==
    [][\A s \in rows \cap rows' :
          Len(row'[s].messages) < Len(row[s].messages) =>
             \/ ~loaded
             \/ \E t \in overtaken : saves[t].pc = "ready" /\ saves[t].session = s]_vars

\* A deleted session stays deleted.  The cache is not told (websocket_sessions.go:118) and
\* goes on to serve, take and save its history, perhaps in a Save that began before, but
\* nothing brings the row back (session_store.go:161-178).
DeletedStaysDeleted ==
    [][\A s \in Session : s < nextId /\ s \notin rows =>
          s \notin rows' /\ row'[s] = EmptyRow]_vars

-----------------------------------------------------------------------------
\* What the store promises, whatever its callers do: see SessionLog.
Log == INSTANCE SessionLog WITH
          log <- messages,
          durable <- [s \in Session |-> row[s].messages]

\* Every step of the cache and the table is a step of the durable log.
ImplementsLog == Log!Spec
=============================================================================
