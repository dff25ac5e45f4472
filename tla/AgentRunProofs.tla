--------------------------- MODULE AgentRunProofs ---------------------------
(***************************************************************************)
(* Theorems about the agent loop and its callbacks: about AgentRun, for    *)
(* any requests to any sessions, each with any number of streams.          *)
(***************************************************************************)
EXTENDS AgentRun, SequenceTheorems, FiniteSetTheorems, TLAPS

-----------------------------------------------------------------------------
(* First the store that the runs share: its types, what the append in      *)
(* progress has left, and the session of a Save.                           *)

SlotEmpty == \A a \in adding :
    /\ Len(messages[a.session]) > 0
    /\ messages[a.session][Len(messages[a.session])] = Nothing

SaveHasSession == \A t \in Goroutine : saves[t].pc # "idle" => saves[t].session \in Store!Session

StoreInv == Store!TypeOK /\ SlotEmpty /\ SaveHasSession

LEMMA Slots ==
    /\ Store!Slot = Content \cup {Nothing} /\ Nothing \notin Content
    /\ Nothing.kind = "blank"
  BY DEF Store!Slot, Content, Nothing

LEMMA IdleAndEmpty ==
    /\ Store!Idle \in Store!Save /\ Store!Idle.pc = "idle" /\ Store!Idle.messages = <<>>
    /\ Store!EmptyRow \in Store!Row /\ Store!EmptyRow.messages = <<>>
  <1>1. <<>> \in Seq(Store!Slot) /\ Nothing \in Store!Slot
    BY EmptySeq, Slots
  <1> QED
    BY <1>1 DEF Store!Idle, Store!Save, Store!EmptyRow, Store!Row

LEMMA StoreInit == Store!Init => StoreInv
  BY EmptySeq, IdleAndEmpty, RunAssumption
     DEF Store!Init, StoreInv, Store!TypeOK, SlotEmpty, SaveHasSession, Store!Session

LEMMA AddBeginStore ==
    ASSUME StoreInv, NEW t \in Goroutine, NEW s \in Store!Session, NEW m \in Content,
           Store!AddBegin(t, s, m)
    PROVE  StoreInv'
  <1>1. messages[s] \in Seq(Store!Slot) /\ Nothing \in Store!Slot
    BY Slots DEF StoreInv, Store!TypeOK
  <1>2. /\ Append(messages[s], Nothing) \in Seq(Store!Slot)
        /\ Len(Append(messages[s], Nothing)) > 0
        /\ Append(messages[s], Nothing)[Len(Append(messages[s], Nothing))] = Nothing
    BY <1>1, AppendProperties, LenProperties
  <1>3. /\ messages' \in [Store!Session -> Seq(Store!Slot)]
        /\ messages'[s] = Append(messages[s], Nothing)
    BY <1>1, <1>2 DEF Store!AddBegin, StoreInv, Store!TypeOK
  <1>4. Store!TypeOK'
    BY <1>3 DEF Store!AddBegin, StoreInv, Store!TypeOK, Store!Append1
  <1>5. SlotEmpty'
    BY <1>2, <1>3 DEF Store!AddBegin, SlotEmpty
  <1>6. SaveHasSession'
    BY DEF Store!AddBegin, StoreInv, SaveHasSession
  <1> QED
    BY <1>4, <1>5, <1>6 DEF StoreInv

LEMMA AddEndStore ==
    ASSUME StoreInv, NEW t \in Goroutine, Store!AddEnd(t)
    PROVE  StoreInv'
  <1>1. PICK a \in adding :
          /\ messages' = [messages EXCEPT ![a.session][Len(messages[a.session])] = a.message]
          /\ adding' = {}
          /\ UNCHANGED <<cached, saves, rows, row, nextId, loaded, overtaken>>
    BY DEF Store!AddEnd
  <1> DEFINE log == messages[a.session]
             filled == [log EXCEPT ![Len(log)] = a.message]
  <1>2. a.session \in Store!Session /\ a.message \in Store!Slot /\ log \in Seq(Store!Slot)
    BY Slots DEF StoreInv, Store!TypeOK, Store!Append1
  <1>3. Len(log) \in 1..Len(log)
    BY <1>2, LenProperties DEF StoreInv, SlotEmpty
  <1>4. filled \in Seq(Store!Slot)
    BY <1>2, <1>3, ExceptSeq
  <1>5. messages' = [messages EXCEPT ![a.session] = filled]
    BY <1>1
  <1>6. Store!TypeOK'
    BY <1>1, <1>2, <1>4, <1>5 DEF StoreInv, Store!TypeOK
  <1>7. SlotEmpty' /\ SaveHasSession'
    BY <1>1 DEF StoreInv, SlotEmpty, SaveHasSession
  <1> QED
    BY <1>6, <1>7 DEF StoreInv

\* Where the saves and the table move, the logs and the append in progress do not.
LEMMA SameLogs ==
    ASSUME StoreInv, UNCHANGED <<messages, adding>>
    PROVE  SlotEmpty'
  BY DEF StoreInv, SlotEmpty

LEMMA SaveBeginStore ==
    ASSUME StoreInv, NEW t \in Goroutine, NEW s \in Store!Session, Store!SaveBegin(t, s)
    PROVE  /\ StoreInv'
           /\ \A u \in Goroutine : saves'[u].messages = saves[u].messages
  <1>1. Len(messages[s]) \in Nat
    BY LenProperties DEF StoreInv, Store!TypeOK
  <1>2. /\ saves' \in [Goroutine -> Store!Save]
        /\ saves'[t].session = s /\ saves'[t].messages = saves[t].messages
        /\ \A u \in Goroutine \ {t} : saves'[u] = saves[u]
    BY <1>1 DEF Store!SaveBegin, StoreInv, Store!TypeOK, Store!Save
  <1>3. Store!TypeOK'
    BY <1>2 DEF Store!SaveBegin, StoreInv, Store!TypeOK
  <1>4. SaveHasSession'
    BY <1>2 DEF StoreInv, SaveHasSession
  <1> QED
    BY <1>2, <1>3, <1>4, SameLogs DEF Store!SaveBegin, StoreInv

\* A snapshot is a sequence of slots as long as the log, some of them blank.
LEMMA SnapshotSeq ==
    ASSUME NEW log \in Seq(Store!Slot), NEW n
    PROVE  /\ Store!Snapshot(log, n) \in Seq(Store!Slot)
           /\ Len(Store!Snapshot(log, n)) = Len(log)
           /\ \A i \in 1..Len(log) :
                Store!Snapshot(log, n)[i] = IF i <= n THEN log[i] ELSE Nothing
  <1>1. Len(log) \in Nat
    BY LenProperties
  <1>2. \A i \in 1..Len(log) : log[i] \in Store!Slot /\ Nothing \in Store!Slot
    BY ElementOfSeq, Slots
  <1>3. Store!Snapshot(log, n) \in [1..Len(log) -> Store!Slot]
    BY <1>2 DEF Store!Snapshot
  <1>4. Store!Snapshot(log, n) \in Seq(Store!Slot)
    BY <1>1, <1>3
  <1>5. Len(Store!Snapshot(log, n)) = Len(log)
    BY <1>1, <1>3, <1>4
  <1>6. \A i \in 1..Len(log) : Store!Snapshot(log, n)[i] = IF i <= n THEN log[i] ELSE Nothing
    BY DEF Store!Snapshot
  <1> QED
    BY <1>4, <1>5, <1>6

LEMMA SaveMarshalStore ==
    ASSUME StoreInv, NEW t \in Goroutine, Store!SaveMarshal(t)
    PROVE  /\ StoreInv'
           /\ \A u \in Goroutine \ {t} : saves'[u] = saves[u]
           /\ \E s \in Store!Session, n \in Nat : saves'[t].messages = Store!Snapshot(messages[s], n)
  <1> DEFINE s == saves[t].session
             log == messages[s]
  <1>1. PICK n \in saves[t].count..Len(log) :
          saves' = [saves EXCEPT ![t] = [@ EXCEPT !.pc = "marshalled",
                                                  !.messages = Store!Snapshot(log, n)]]
    BY DEF Store!SaveMarshal
  <1>2. s \in Store!Session /\ log \in Seq(Store!Slot) /\ n \in Nat
    <2>1. s \in Store!Session /\ log \in Seq(Store!Slot) /\ saves[t].count \in Nat
      BY DEF Store!SaveMarshal, StoreInv, Store!TypeOK, SaveHasSession, Store!Save
    <2>2. Len(log) \in Nat
      BY <2>1, LenProperties
    <2> QED
      BY <2>1, <2>2
  <1>3. Store!Snapshot(log, n) \in Seq(Store!Slot)
    BY <1>2, SnapshotSeq
  <1> DEFINE new == [saves[t] EXCEPT !.pc = "marshalled", !.messages = Store!Snapshot(log, n)]
  <1>4. saves' = [saves EXCEPT ![t] = new]
    BY <1>1
  <1>5. new \in Store!Save /\ new.session = s /\ new.messages = Store!Snapshot(log, n)
    BY <1>3 DEF StoreInv, Store!TypeOK, Store!Save
  <1> HIDE DEF new
  <1>6. /\ saves' \in [Goroutine -> Store!Save] /\ saves'[t] = new
        /\ \A u \in Goroutine \ {t} : saves'[u] = saves[u]
    BY <1>4, <1>5 DEF StoreInv, Store!TypeOK
  <1>7. Store!TypeOK'
    BY <1>6 DEF Store!SaveMarshal, StoreInv, Store!TypeOK
  <1>8. SaveHasSession'
    BY <1>2, <1>5, <1>6 DEF StoreInv, SaveHasSession
  <1>9. StoreInv'
    BY <1>7, <1>8, SameLogs DEF Store!SaveMarshal, StoreInv
  <1> QED
    BY <1>2, <1>5, <1>6, <1>9

LEMMA SaveCountStore ==
    ASSUME StoreInv, NEW t \in Goroutine, Store!SaveCount(t)
    PROVE  /\ StoreInv'
           /\ \A u \in Goroutine : saves'[u].messages = saves[u].messages
  <1> DEFINE s == saves[t].session
             log == messages[s]
             label == IF log = <<>> THEN Nothing ELSE log[1]
             new == [saves[t] EXCEPT !.pc = "ready", !.count = Len(log), !.label = label]
  <1>1. s \in Store!Session /\ log \in Seq(Store!Slot) /\ Len(log) \in Nat
    BY LenProperties DEF Store!SaveCount, StoreInv, Store!TypeOK, SaveHasSession
  <1>2. label \in Store!Slot
    <2>1. CASE log = <<>>
      BY <2>1, Slots
    <2>2. CASE log # <<>>
      BY <1>1, <2>2, EmptySeq, ElementOfSeq
    <2> QED
      BY <2>1, <2>2
  <1>3. saves' = [saves EXCEPT ![t] = new]
    BY DEF Store!SaveCount, Store!MessagesCount
  <1> HIDE DEF label
  <1>4. new \in Store!Save /\ new.session = s /\ new.messages = saves[t].messages
    BY <1>1, <1>2 DEF StoreInv, Store!TypeOK, Store!Save
  <1> HIDE DEF new
  <1>5. /\ saves' \in [Goroutine -> Store!Save] /\ saves'[t] = new
        /\ \A u \in Goroutine \ {t} : saves'[u] = saves[u]
    BY <1>3, <1>4 DEF StoreInv, Store!TypeOK
  <1>6. Store!TypeOK'
    BY <1>5 DEF Store!SaveCount, StoreInv, Store!TypeOK
  <1>7. SaveHasSession'
    BY <1>1, <1>4, <1>5 DEF StoreInv, SaveHasSession
  <1>8. StoreInv'
    BY <1>6, <1>7, SameLogs DEF Store!SaveCount, StoreInv
  <1> QED
    BY <1>4, <1>5, <1>8

LEMMA SaveUpdateStore ==
    ASSUME StoreInv, NEW t \in Goroutine, Store!SaveUpdate(t)
    PROVE  /\ StoreInv'
           /\ \A u \in Goroutine \ {t} : saves'[u] = saves[u]
           /\ saves'[t] = Store!Idle
           /\ \A s \in Store!Session :
                row'[s].messages = row[s].messages \/ row'[s].messages = saves[t].messages
  <1> DEFINE s == saves[t].session
             new == [messages |-> saves[t].messages, count |-> saves[t].count]
  <1>1. s \in Store!Session /\ new \in Store!Row /\ row' = [row EXCEPT ![s] = new]
    BY DEF Store!SaveUpdate, StoreInv, Store!TypeOK, Store!Save, Store!Row
  <1>2. /\ saves' \in [Goroutine -> Store!Save] /\ saves'[t] = Store!Idle
        /\ \A u \in Goroutine \ {t} : saves'[u] = saves[u]
    BY IdleAndEmpty DEF Store!SaveUpdate, StoreInv, Store!TypeOK
  <1>3. overtaken' \subseteq Goroutine
    BY DEF Store!SaveUpdate, StoreInv, Store!TypeOK, Store!Outdated
  <1>4. Store!TypeOK'
    BY <1>1, <1>2, <1>3 DEF Store!SaveUpdate, StoreInv, Store!TypeOK
  <1>5. SaveHasSession'
    BY <1>2, IdleAndEmpty DEF StoreInv, SaveHasSession
  <1>6. StoreInv'
    BY <1>4, <1>5, SameLogs DEF Store!SaveUpdate, StoreInv
  <1>7. \A x \in Store!Session :
          row'[x].messages = row[x].messages \/ row'[x].messages = saves[t].messages
    BY <1>1 DEF StoreInv, Store!TypeOK
  <1> QED
    BY <1>2, <1>6, <1>7

LEMMA SaveMissStore ==
    ASSUME StoreInv, NEW t \in Goroutine, Store!SaveMiss(t)
    PROVE  /\ StoreInv'
           /\ \A u \in Goroutine \ {t} : saves'[u] = saves[u]
           /\ saves'[t] = Store!Idle
  <1>1. /\ saves' \in [Goroutine -> Store!Save] /\ saves'[t] = Store!Idle
        /\ \A u \in Goroutine \ {t} : saves'[u] = saves[u]
    BY IdleAndEmpty DEF Store!SaveMiss, StoreInv, Store!TypeOK
  <1>2. Store!TypeOK'
    BY <1>1 DEF Store!SaveMiss, StoreInv, Store!TypeOK
  <1>3. SaveHasSession'
    BY <1>1, IdleAndEmpty DEF StoreInv, SaveHasSession
  <1> QED
    BY <1>1, <1>2, <1>3, SameLogs DEF Store!SaveMiss, StoreInv

LEMMA CreateStore ==
    ASSUME StoreInv, Store!Create
    PROVE  StoreInv'
  <1>1. nextId' \in 1..(MaxSessions + 1)
    BY RunAssumption DEF Store!Create, Store!Session
  <1>2. Store!TypeOK'
    BY <1>1 DEF Store!Create, StoreInv, Store!TypeOK
  <1> QED
    BY <1>2, SameLogs DEF Store!Create, StoreInv, SaveHasSession

LEMMA DeleteStore ==
    ASSUME StoreInv, NEW s \in Store!Session, Store!Delete(s)
    PROVE  /\ StoreInv'
           /\ \A x \in Store!Session :
                row'[x].messages = row[x].messages \/ row'[x].messages = <<>>
  <1>1. Store!TypeOK'
    BY IdleAndEmpty DEF Store!Delete, StoreInv, Store!TypeOK
  <1>2. SaveHasSession'
    BY DEF Store!Delete, StoreInv, SaveHasSession
  <1>3. \A x \in Store!Session : row'[x] = row[x] \/ row'[x] = Store!EmptyRow
    BY DEF Store!Delete, StoreInv, Store!TypeOK
  <1> QED
    BY <1>1, <1>2, <1>3, SameLogs, IdleAndEmpty DEF Store!Delete, StoreInv

LEMMA RestartStore ==
    ASSUME StoreInv, NEW ok \in LoadOutcomes, Store!Restart(ok)
    PROVE  /\ StoreInv'
           /\ \A t \in Goroutine : saves'[t] = Store!Idle
           /\ \A s \in Store!Session : messages'[s] = row[s].messages \/ messages'[s] = <<>>
  <1>1. saves' \in [Goroutine -> Store!Save] /\ \A t \in Goroutine : saves'[t] = Store!Idle
    BY IdleAndEmpty DEF Store!Restart
  <1>2. /\ messages' \in [Store!Session -> Seq(Store!Slot)]
        /\ \A s \in Store!Session : messages'[s] = row[s].messages \/ messages'[s] = <<>>
    BY EmptySeq DEF Store!Restart, Store!Load, StoreInv, Store!TypeOK, Store!Row
  <1>3. Store!TypeOK'
    BY <1>1, <1>2, RunAssumption DEF Store!Restart, StoreInv, Store!TypeOK
  <1>4. SlotEmpty' /\ SaveHasSession'
    BY <1>1, IdleAndEmpty DEF Store!Restart, SlotEmpty, SaveHasSession
  <1> QED
    BY <1>1, <1>2, <1>3, <1>4 DEF StoreInv

LEMMA StoreStep == StoreInv /\ [Store!Next]_store => StoreInv'
  <1> SUFFICES ASSUME StoreInv, [Store!Next]_store PROVE StoreInv'
    OBVIOUS
  <1>1. CASE UNCHANGED store
    BY <1>1 DEF store, StoreInv, Store!TypeOK, SlotEmpty, SaveHasSession
  <1>2. CASE Store!Next
    BY <1>2, CreateStore, DeleteStore, AddBeginStore, AddEndStore, SaveBeginStore,
       SaveMarshalStore, SaveCountStore, SaveUpdateStore, SaveMissStore, RestartStore
       DEF Store!Next
  <1> QED
    BY <1>1, <1>2

-----------------------------------------------------------------------------
(* The runs: where each is, its streams and their readers.                 *)

Places == {"idle", "add", "adding", "start", "running", "save", "saving", "saved",
           "completed", "failed", "dead"}

StreamOf == [kind : Kind, state : {"open", "eof", "error"},
             reader : {"recv", "tail", "add", "adding", "announce", "done"}]

EventOf == [type : {"run.started", "chunk", "tool.call", "tool.result", "run.completed"},
            k : {0} \cup Stream]

RunTypes ==
    /\ pc \in [Run -> Places]
    /\ streams \in [Run -> Seq(StreamOf)] /\ \A r \in Run : Opened(r) <= MaxStreams[r]
    /\ events \in [Run -> Seq(EventOf)]

\* What a reader records is a call, the results of tools or an answer; what it announces
\* is a call.
ReadersRecord ==
    \A r \in Run : \A k \in 1..Opened(r) :
        /\ Reader(r, k) \in {"add", "adding", "announce"} =>
              streams[r][k].kind \in {"call", "tools", "final"}
        /\ Reader(r, k) = "announce" => streams[r][k].kind = "call"

\* An append in progress is of its goroutine's own message, to the session of its run.
AddsOwn ==
    \A a \in adding : \A r \in Run, k \in Nat : a.thread = <<r, k>> =>
        /\ a.session = SessionOf[r]
        /\ k = 0 => a.message = User(r)
        /\ k # 0 => k \in 1..Opened(r) /\ a.message = Said(r, k)

RunInv == RunTypes /\ ReadersRecord /\ AddsOwn

LEMMA OfRuns ==
    ASSUME RunInv, NEW r \in Run
    PROVE  /\ Opened(r) \in Nat /\ Opened(r) <= MaxStreams[r] /\ streams[r] \in Seq(StreamOf)
           /\ \A k \in 1..Opened(r) : streams[r][k] \in StreamOf /\ k \in Stream
           /\ 0 \in {0} \cup Stream
           /\ <<r, 0>> \in Goroutine /\ \A k \in 1..Opened(r) : <<r, k>> \in Goroutine
           /\ SessionOf[r] \in Store!Session /\ User(r) \in Content
  <1>1. /\ Opened(r) \in Nat /\ Opened(r) <= MaxStreams[r] /\ streams[r] \in Seq(StreamOf)
        /\ MaxStreams[r] \in Nat
    BY LenProperties, RunAssumption DEF RunInv, RunTypes, Opened
  <1>2. \A k \in 1..Opened(r) : k \in Stream
    <2> SUFFICES ASSUME NEW k \in 1..Opened(r) PROVE k \in Stream
      OBVIOUS
    <2>1. k \in 1..MaxStreams[r]
      BY <1>1
    <2> QED
      BY <2>1 DEF Stream
  <1>3. \A k \in 1..Opened(r) : streams[r][k] \in StreamOf
    BY <1>1, ElementOfSeq DEF Opened
  <1>4. SessionOf[r] \in Store!Session /\ User(r) \in Content
    BY RunAssumption DEF Store!Session, User, Content
  <1> QED
    BY <1>1, <1>2, <1>3, <1>4 DEF Goroutine

LEMMA InitRun == Init => RunInv
  <1> SUFFICES ASSUME Init PROVE RunInv
    OBVIOUS
  <1>1. \A r \in Run : streams[r] = <<>> /\ Opened(r) = 0 /\ MaxStreams[r] \in Nat
    BY EmptySeq, RunAssumption DEF Init, Opened
  <1>2. RunTypes
    BY <1>1, EmptySeq DEF Init, RunTypes, Places
  <1>3. ReadersRecord
    BY <1>1 DEF ReadersRecord
  <1> QED
    BY <1>2, <1>3 DEF Init, Store!Init, RunInv, AddsOwn

\* A step that opens no stream and is no restart leaves what each stream is.
SameStreams ==
    \A r \in Run : /\ Opened(r)' = Opened(r)
                   /\ \A k \in 1..Opened(r) : streams'[r][k].kind = streams[r][k].kind

\* What a goroutine said stays what it said.
LEMMA SameSaid ==
    ASSUME SameStreams, UNCHANGED adding, AddsOwn
    PROVE  AddsOwn'
  <1> SUFFICES ASSUME NEW a \in adding, NEW r \in Run, NEW k \in Nat, a.thread = <<r, k>>
               PROVE  /\ a.session = SessionOf[r]
                      /\ k = 0 => a.message = User(r)
                      /\ k # 0 => k \in 1..Opened(r)' /\ a.message = Said(r, k)'
    BY DEF AddsOwn, User
  <1>1. /\ a.session = SessionOf[r] /\ (k = 0 => a.message = User(r))
        /\ k # 0 => k \in 1..Opened(r) /\ a.message = Said(r, k)
    BY DEF AddsOwn
  <1> QED
    BY <1>1 DEF SameStreams, Said

\* The reader of one stream moves on.
LEMMA Moves ==
    ASSUME RunInv, NEW r \in Run, NEW k \in 1..Opened(r), NEW where, MoveTo(r, k, where),
           where \in {"recv", "tail", "add", "adding", "announce", "done"}
    PROVE  /\ streams' \in [Run -> Seq(StreamOf)] /\ SameStreams
           /\ Reader(r, k)' = where
           /\ \A x \in Run : \A j \in 1..Opened(x) :
                 streams'[x][j].state = streams[x][j].state
                 /\ (<<x, j>> # <<r, k>> => Reader(x, j)' = Reader(x, j))
           /\ \A x \in Run : Opened(x)' <= MaxStreams[x]
  <1> DEFINE st == [streams[r][k] EXCEPT !.reader = where]
             all == [streams[r] EXCEPT ![k] = st]
  <1>1. streams' = [streams EXCEPT ![r] = all]
    BY DEF MoveTo
  <1>2. streams[r] \in Seq(StreamOf) /\ streams[r][k] \in StreamOf /\ k \in 1..Len(streams[r])
    BY OfRuns DEF Opened
  <1>3. /\ st \in StreamOf /\ st.reader = where /\ st.kind = streams[r][k].kind
        /\ st.state = streams[r][k].state
    BY <1>2 DEF StreamOf
  <1> HIDE DEF st
  <1>4. /\ all \in Seq(StreamOf) /\ Len(all) = Len(streams[r])
        /\ \A j \in 1..Len(streams[r]) : all[j] = IF j = k THEN st ELSE streams[r][j]
    BY <1>2, <1>3, ExceptSeq
  <1> HIDE DEF all
  <1>5. /\ streams' \in [Run -> Seq(StreamOf)] /\ streams'[r] = all
        /\ \A x \in Run \ {r} : streams'[x] = streams[x]
    BY <1>1, <1>4 DEF RunInv, RunTypes
  <1>6. SameStreams
    BY <1>3, <1>4, <1>5 DEF SameStreams, Opened
  <1>7. Reader(r, k)' = where
    BY <1>2, <1>3, <1>4, <1>5 DEF Reader
  <1>8. ASSUME NEW x \in Run, NEW j \in 1..Opened(x)
        PROVE  streams'[x][j].state = streams[x][j].state
               /\ (<<x, j>> # <<r, k>> => Reader(x, j)' = Reader(x, j))
    <2>1. CASE x # r
      BY <1>5, <2>1 DEF Reader
    <2>2. CASE x = r
      <3>1. j \in 1..Len(streams[r])
        BY <2>2 DEF Opened
      <3> QED
        BY <1>3, <1>4, <1>5, <2>2, <3>1 DEF Reader
    <2> QED
      BY <2>1, <2>2
  <1>9. \A x \in Run : Opened(x)' <= MaxStreams[x]
    BY <1>6 DEF SameStreams, RunInv, RunTypes
  <1> QED
    BY <1>5, <1>6, <1>7, <1>8, <1>9

\* An event is published.
LEMMA Publishes ==
    ASSUME RunInv, NEW r \in Run, NEW type, NEW k, Publish(r, type, k),
           [type |-> type, k |-> k] \in EventOf
    PROVE  events' \in [Run -> Seq(EventOf)]
  <1>1. events[r] \in Seq(EventOf)
    BY DEF RunInv, RunTypes
  <1>2. Append(events[r], [type |-> type, k |-> k]) \in Seq(EventOf)
    BY <1>1, AppendProperties
  <1> QED
    BY <1>2 DEF Publish, RunInv, RunTypes

\* The loop's own steps leave the streams alone.
LEMMA LoopRun ==
    ASSUME RunInv, NEW r \in Run, Loop(r)
    PROVE  RunInv' /\ SameStreams
  <1>1. UNCHANGED streams
    BY DEF Loop, ReadHistory, AddUser, UserAdded, RunStarted, Collected, RunError, SaveStart,
           SaveStep, SaveEnd, RunCompleted
  <1>2. pc' \in [Run -> Places]
    BY DEF Loop, ReadHistory, AddUser, UserAdded, RunStarted, Collected, RunError, SaveStart,
           SaveStep, SaveEnd, RunCompleted, RunInv, RunTypes, Places, AfterHistory
  <1>3. events' \in [Run -> Seq(EventOf)]
    <2>1. CASE RunStarted(r) \/ RunCompleted(r)
      <3>1. /\ [type |-> "run.started", k |-> 0] \in EventOf
            /\ [type |-> "run.completed", k |-> 0] \in EventOf
        BY DEF EventOf
      <3> QED
        BY <2>1, <3>1, Publishes DEF RunStarted, RunCompleted
    <2>2. CASE UNCHANGED events
      BY <2>2 DEF RunInv, RunTypes
    <2> QED
      BY <2>1, <2>2 DEF Loop, ReadHistory, AddUser, UserAdded, Collected, RunError, SaveStart,
                        SaveStep, SaveEnd
  <1>4. SameStreams
    BY <1>1 DEF SameStreams, Opened
  <1>5. RunTypes' /\ ReadersRecord'
    BY <1>1, <1>2, <1>3 DEF RunInv, RunTypes, ReadersRecord, Opened, Reader
  <1>6. AddsOwn'
    <2>1. CASE UNCHANGED adding
      BY <1>4, <2>1, SameSaid DEF RunInv
    <2>2. CASE adding' = {}
      BY <2>2 DEF AddsOwn
    <2>3. CASE AddUser(r)
      <3>1. adding' = {[thread |-> <<r, 0>>, session |-> SessionOf[r], message |-> User(r)]}
        BY <2>3 DEF AddUser, Store!AddBegin
      <3> QED
        BY <3>1 DEF AddsOwn, User
    <2> QED
      BY <2>1, <2>2, <2>3
         DEF Loop, ReadHistory, UserAdded, RunStarted, Collected, RunError, SaveStart, SaveStep,
             SaveEnd, RunCompleted, store, Store!AddEnd, Store!SaveBegin, Store!SaveMarshal,
             Store!SaveCount, Store!SaveUpdate, Store!SaveMiss
  <1> QED
    BY <1>4, <1>5, <1>6 DEF RunInv

LEMMA OpenStreamRun ==
    ASSUME RunInv, NEW r \in Run, OpenStream(r)
    PROVE  /\ RunInv'
           /\ Opened(r)' = Opened(r) + 1 /\ streams'[r][Opened(r) + 1].reader = "recv"
           /\ \A x \in Run \ {r} : streams'[x] = streams[x]
           /\ \A k \in 1..Opened(r) : streams'[r][k] = streams[r][k]
  <1>1. PICK kind \in Turn(r) :
          streams' = [streams EXCEPT ![r] =
                        Append(@, [kind |-> kind, state |-> "open", reader |-> "recv"])]
    BY DEF OpenStream
  <1> DEFINE st == [kind |-> kind, state |-> "open", reader |-> "recv"]
  <1>2. Turn(r) \subseteq Kind
    BY DEF Turn, Kind, ModelKind
  <1>3. st \in StreamOf /\ st.reader = "recv"
    BY <1>2 DEF StreamOf
  <1>4. streams[r] \in Seq(StreamOf) /\ Opened(r) \in Nat
    BY OfRuns
  <1> HIDE DEF st
  <1>5. /\ Append(streams[r], st) \in Seq(StreamOf) /\ Len(Append(streams[r], st)) = Opened(r) + 1
        /\ Append(streams[r], st)[Opened(r) + 1] = st
        /\ \A k \in 1..Opened(r) : Append(streams[r], st)[k] = streams[r][k]
    BY <1>3, <1>4, AppendProperties DEF Opened
  <1>6. /\ streams' \in [Run -> Seq(StreamOf)] /\ streams'[r] = Append(streams[r], st)
        /\ \A x \in Run \ {r} : streams'[x] = streams[x]
    BY <1>1, <1>5 DEF RunInv, RunTypes, st
  <1>7. /\ Opened(r)' = Opened(r) + 1 /\ streams'[r][Opened(r) + 1].reader = "recv"
        /\ \A k \in 1..Opened(r) : streams'[r][k] = streams[r][k]
    BY <1>3, <1>4, <1>5, <1>6 DEF Opened
  <1>8. \A x \in Run : Opened(x)' <= MaxStreams[x]
    <2>1. Opened(r) + 1 <= MaxStreams[r]
      BY <1>4, RunAssumption DEF OpenStream
    <2> QED
      BY <1>6, <1>7, <2>1 DEF Opened, RunInv, RunTypes
  <1>9. RunTypes'
    BY <1>6, <1>8 DEF OpenStream, RunInv, RunTypes
  <1>10. ReadersRecord'
    <2> SUFFICES ASSUME NEW x \in Run, NEW k \in 1..Opened(x)'
                 PROVE  /\ Reader(x, k)' \in {"add", "adding", "announce"} =>
                              streams'[x][k].kind \in {"call", "tools", "final"}
                        /\ Reader(x, k)' = "announce" => streams'[x][k].kind = "call"
      BY DEF ReadersRecord
    <2>1. CASE x = r /\ k = Opened(r) + 1
      BY <1>7, <2>1 DEF Reader
    <2>2. CASE x = r /\ k # Opened(r) + 1
      <3>1. k \in 1..Opened(r)
        BY <1>4, <1>7, <2>2
      <3> QED
        BY <1>7, <2>2, <3>1 DEF RunInv, ReadersRecord, Reader
    <2>3. CASE x # r
      BY <1>6, <2>3 DEF RunInv, ReadersRecord, Reader, Opened
    <2> QED
      BY <2>1, <2>2, <2>3
  <1>11. AddsOwn'
    <2> SUFFICES ASSUME NEW a \in adding', NEW x \in Run, NEW k \in Nat, a.thread = <<x, k>>
                 PROVE  /\ a.session = SessionOf[x]
                        /\ k = 0 => a.message = User(x)
                        /\ k # 0 => k \in 1..Opened(x)' /\ a.message = Said(x, k)'
      BY DEF AddsOwn, User
    <2>1. a \in adding
      BY DEF OpenStream, store
    <2>2. /\ a.session = SessionOf[x] /\ (k = 0 => a.message = User(x))
          /\ k # 0 => k \in 1..Opened(x) /\ a.message = Said(x, k)
      BY <2>1 DEF RunInv, AddsOwn
    <2>3. ASSUME k # 0 PROVE k \in 1..Opened(x)' /\ streams'[x][k] = streams[x][k]
      <3>1. CASE x = r
        BY <1>4, <1>7, <2>2, <2>3, <3>1
      <3>2. CASE x # r
        BY <1>6, <2>2, <2>3, <3>2 DEF Opened
      <3> QED
        BY <3>1, <3>2
    <2> QED
      BY <2>2, <2>3 DEF Said
  <1> QED
    BY <1>6, <1>7, <1>9, <1>10, <1>11 DEF RunInv

LEMMA CloseStreamRun ==
    ASSUME RunInv, NEW r \in Run, CloseStream(r)
    PROVE  /\ RunInv' /\ SameStreams
           /\ \A x \in Run : \A j \in 1..Opened(x) : Reader(x, j)' = Reader(x, j)
  <1>1. PICK how \in {"eof", "error"} : streams' = [streams EXCEPT ![r][Opened(r)].state = how]
    BY DEF CloseStream
  <1> DEFINE k == Opened(r)
             st == [streams[r][k] EXCEPT !.state = how]
             all == [streams[r] EXCEPT ![k] = st]
  <1>2. streams' = [streams EXCEPT ![r] = all]
    BY <1>1
  <1>3. streams[r] \in Seq(StreamOf) /\ k \in 1..Len(streams[r]) /\ streams[r][k] \in StreamOf
    <2>1. k \in Nat /\ k > 0 /\ streams[r] \in Seq(StreamOf)
      BY OfRuns DEF CloseStream
    <2>2. k \in 1..k
      BY <2>1
    <2> QED
      BY <2>1, <2>2, OfRuns DEF Opened
  <1>4. st \in StreamOf /\ st.reader = streams[r][k].reader /\ st.kind = streams[r][k].kind
    BY <1>3 DEF StreamOf
  <1> HIDE DEF st
  <1>5. /\ all \in Seq(StreamOf) /\ Len(all) = Len(streams[r])
        /\ \A j \in 1..Len(streams[r]) : all[j] = IF j = k THEN st ELSE streams[r][j]
    BY <1>3, <1>4, ExceptSeq
  <1> HIDE DEF all
  <1>6. /\ streams' \in [Run -> Seq(StreamOf)] /\ streams'[r] = all
        /\ \A x \in Run \ {r} : streams'[x] = streams[x]
    BY <1>2, <1>5 DEF RunInv, RunTypes
  <1>7. SameStreams
    BY <1>4, <1>5, <1>6 DEF SameStreams, Opened
  <1>8. \A x \in Run : \A j \in 1..Opened(x) : Reader(x, j)' = Reader(x, j)
    BY <1>4, <1>5, <1>6 DEF Reader, Opened
  <1>9. \A x \in Run : Opened(x)' <= MaxStreams[x]
    BY <1>7 DEF SameStreams, RunInv, RunTypes
  <1>10. RunTypes'
    BY <1>6, <1>9 DEF CloseStream, RunInv, RunTypes
  <1>11. ReadersRecord'
    BY <1>7, <1>8 DEF SameStreams, RunInv, ReadersRecord
  <1>12. AddsOwn'
    BY <1>7, SameSaid DEF CloseStream, store, RunInv
  <1> QED
    BY <1>7, <1>8, <1>10, <1>11, <1>12 DEF RunInv

LEMMA MoveRun ==
    ASSUME RunInv, NEW r \in Run, NEW k \in 1..Opened(r), NEW where, MoveTo(r, k, where),
           where \in {"recv", "tail", "add", "adding", "announce", "done"},
           where \in {"add", "adding", "announce"} =>
              streams[r][k].kind \in {"call", "tools", "final"},
           where = "announce" => streams[r][k].kind = "call",
           UNCHANGED pc, events' \in [Run -> Seq(EventOf)]
    PROVE  RunTypes' /\ ReadersRecord'
  <1>1. /\ streams' \in [Run -> Seq(StreamOf)] /\ SameStreams
        /\ Reader(r, k)' = where
        /\ \A x \in Run : \A j \in 1..Opened(x) :
              <<x, j>> # <<r, k>> => Reader(x, j)' = Reader(x, j)
        /\ \A x \in Run : Opened(x)' <= MaxStreams[x]
    BY Moves
  <1>2. RunTypes'
    BY <1>1 DEF RunInv, RunTypes
  <1>3. ReadersRecord'
    <2> SUFFICES ASSUME NEW x \in Run, NEW j \in 1..Opened(x)
                 PROVE  /\ Reader(x, j)' \in {"add", "adding", "announce"} =>
                              streams'[x][j].kind \in {"call", "tools", "final"}
                        /\ Reader(x, j)' = "announce" => streams'[x][j].kind = "call"
      BY <1>1 DEF ReadersRecord, SameStreams
    <2>1. streams'[x][j].kind = streams[x][j].kind
      BY <1>1 DEF SameStreams
    <2>2. CASE <<x, j>> # <<r, k>>
      BY <1>1, <2>1, <2>2 DEF RunInv, ReadersRecord
    <2>3. CASE x = r /\ j = k
      BY <1>1, <2>1, <2>3
    <2> QED
      BY <2>2, <2>3
  <1> QED
    BY <1>2, <1>3

LEMMA CallbackRun ==
    ASSUME RunInv, NEW r \in Run, NEW k \in 1..Opened(r), Callback(r, k)
    PROVE  /\ RunInv' /\ SameStreams
           /\ \A x \in Run : \A j \in 1..Opened(x) :
                 <<x, j>> # <<r, k>> => Reader(x, j)' = Reader(x, j)
           /\ Reader(r, k)' = "announce" => Recorded(r, k)
           /\ Reader(r, k)' = "announce" => streams[r][k].kind = "call"
  <1>1. streams[r][k] \in StreamOf /\ k \in Stream /\ k \in Nat /\ k # 0
    <2>1. Opened(r) \in Nat /\ streams[r][k] \in StreamOf /\ k \in Stream
      BY OfRuns
    <2> QED
      BY <2>1
  <1>2. \A type \in {"chunk", "tool.call", "tool.result"} : [type |-> type, k |-> k] \in EventOf
    BY <1>1 DEF EventOf
  <1>3. events' \in [Run -> Seq(EventOf)]
    <2>1. CASE ReceiveFrame(r, k) \/ AnnounceCall(r, k)
      BY <1>2, <2>1, Publishes DEF ReceiveFrame, AnnounceCall
    <2>2. CASE UNCHANGED events
      BY <2>2 DEF RunInv, RunTypes
    <2> QED
      BY <2>1, <2>2 DEF Callback, ReceiveError, ReceiveEof, Record, Recorded
  <1>4. PICK where \in {"recv", "tail", "add", "adding", "announce", "done"} :
          /\ MoveTo(r, k, where)
          /\ where \in {"add", "adding", "announce"} =>
               streams[r][k].kind \in {"call", "tools", "final"}
          /\ where = "announce" => streams[r][k].kind = "call"
          /\ where = "announce" => Recorded(r, k)
    <2>1. CASE ReceiveFrame(r, k)
      BY <2>1 DEF ReceiveFrame
    <2>2. CASE ReceiveError(r, k) \/ AnnounceCall(r, k)
      BY <2>2 DEF ReceiveError, AnnounceCall
    <2>3. CASE ReceiveEof(r, k)
      BY <2>3 DEF ReceiveEof, AfterEof
    <2>4. CASE Record(r, k)
      <3>1. streams[r][k].kind \in {"call", "tools", "final"}
        BY <2>4 DEF Record, RunInv, ReadersRecord
      <3> QED
        BY <2>4, <3>1 DEF Record
    <2>5. CASE Recorded(r, k)
      <3>1. streams[r][k].kind \in {"call", "tools", "final"}
        BY <2>5 DEF Recorded, RunInv, ReadersRecord
      <3> QED
        BY <2>5, <3>1 DEF Recorded, AfterRecord
    <2> QED
      BY <2>1, <2>2, <2>3, <2>4, <2>5 DEF Callback
  <1>5. UNCHANGED pc
    BY DEF Callback, ReceiveFrame, ReceiveError, ReceiveEof, Record, Recorded, AnnounceCall
  <1>6. RunTypes' /\ ReadersRecord'
    BY <1>3, <1>4, <1>5, MoveRun
  <1>7. /\ SameStreams /\ Reader(r, k)' = where
        /\ \A x \in Run : \A j \in 1..Opened(x) :
              <<x, j>> # <<r, k>> => Reader(x, j)' = Reader(x, j)
    BY <1>4, Moves
  <1>8. AddsOwn'
    <2>1. CASE UNCHANGED adding
      BY <1>7, <2>1, SameSaid DEF RunInv
    <2>2. CASE Recorded(r, k)
      BY <2>2 DEF Recorded, Store!AddEnd, AddsOwn
    <2>3. CASE Record(r, k)
      <3>1. adding' = {[thread |-> <<r, k>>, session |-> SessionOf[r], message |-> Said(r, k)]}
        BY <2>3 DEF Record, Store!AddBegin
      <3>2. Said(r, k)' = Said(r, k) /\ k \in 1..Opened(r)'
        BY <1>7 DEF SameStreams, Said
      <3> QED
        BY <1>1, <3>1, <3>2 DEF AddsOwn
    <2> QED
      BY <2>1, <2>2, <2>3
         DEF Callback, ReceiveFrame, ReceiveError, ReceiveEof, AnnounceCall, store
  <1> QED
    BY <1>4, <1>6, <1>7, <1>8 DEF RunInv

LEMMA RestartRun ==
    ASSUME RunInv, NEW ok \in LoadOutcomes, Restart(ok)
    PROVE  RunInv' /\ \A r \in Run : Opened(r)' = 0
  <1>1. \A r \in Run : streams'[r] = <<>> /\ Opened(r)' = 0 /\ MaxStreams[r] \in Nat
    BY EmptySeq, RunAssumption DEF Restart, Opened
  <1>2. pc' \in [Run -> Places]
    BY DEF Restart, RunInv, RunTypes, Places
  <1>3. streams' \in [Run -> Seq(StreamOf)]
    BY EmptySeq DEF Restart
  <1>4. RunTypes'
    BY <1>1, <1>2, <1>3 DEF Restart, RunInv, RunTypes
  <1>5. ReadersRecord'
    BY <1>1 DEF ReadersRecord
  <1>6. AddsOwn'
    BY DEF Restart, Store!Restart, AddsOwn
  <1> QED
    BY <1>1, <1>4, <1>5, <1>6 DEF RunInv

LEMMA HandlersRun ==
    ASSUME RunInv, SessionHandlers \/ UNCHANGED vars
    PROVE  RunInv' /\ SameStreams /\ UNCHANGED <<pc, prompt, streams, events, messages, adding, saves>>
  <1>1. UNCHANGED <<pc, prompt, streams, events, messages, adding, saves>>
    BY DEF SessionHandlers, Store!Create, Store!Delete, vars, store
  <1>2. SameStreams
    BY <1>1 DEF SameStreams, Opened
  <1>3. RunTypes' /\ ReadersRecord'
    BY <1>1 DEF RunInv, RunTypes, ReadersRecord, Opened, Reader
  <1> QED
    BY <1>1, <1>2, <1>3, SameSaid DEF RunInv

LEMMA RunStep == RunInv /\ [Next]_vars => RunInv'
  <1> SUFFICES ASSUME RunInv, [Next]_vars PROVE RunInv'
    OBVIOUS
  <1> QED
    BY LoopRun, OpenStreamRun, CloseStreamRun, CallbackRun, RestartRun, HandlersRun DEF Next

-----------------------------------------------------------------------------
(* The runs use the store as its own specification lets any callers use it: *)
(* every step of a run is a step of SessionStore or leaves the store alone.  *)

LEMMA LoopUses ==
    ASSUME RunInv, NEW r \in Run, Loop(r)
    PROVE  [Store!Next]_store
  <1>1. <<r, 0>> \in Goroutine /\ SessionOf[r] \in Store!Session /\ User(r) \in Content
    BY OfRuns
  <1>2. CASE AddUser(r)
    BY <1>1, <1>2 DEF AddUser, Store!Next
  <1>3. CASE UserAdded(r)
    BY <1>1, <1>3 DEF UserAdded, Store!Next
  <1>4. CASE SaveStart(r)
    BY <1>1, <1>4 DEF SaveStart, Store!Next
  <1>5. CASE SaveStep(r) \/ SaveEnd(r)
    BY <1>1, <1>5 DEF SaveStep, SaveEnd, Store!Next
  <1>6. CASE ReadHistory(r) \/ RunStarted(r) \/ Collected(r) \/ RunError(r) \/ RunCompleted(r)
    BY <1>6 DEF ReadHistory, RunStarted, Collected, RunError, RunCompleted
  <1> QED
    BY <1>2, <1>3, <1>4, <1>5, <1>6 DEF Loop

LEMMA CallbackUses ==
    ASSUME RunInv, NEW r \in Run, NEW k \in 1..Opened(r), Callback(r, k)
    PROVE  [Store!Next]_store
  <1>1. <<r, k>> \in Goroutine /\ SessionOf[r] \in Store!Session /\ k \in {0} \cup Stream
    BY OfRuns
  <1>2. CASE Record(r, k)
    <2>1. streams[r][k].kind \in {"call", "tools", "final"}
      BY <1>2 DEF Record, RunInv, ReadersRecord
    <2>2. Said(r, k) \in Content
      BY <1>1, <2>1 DEF Said, Content
    <2> QED
      BY <1>1, <1>2, <2>2 DEF Record, Store!Next
  <1>3. CASE Recorded(r, k)
    BY <1>1, <1>3 DEF Recorded, Store!Next
  <1>4. CASE ReceiveFrame(r, k) \/ ReceiveError(r, k) \/ ReceiveEof(r, k) \/ AnnounceCall(r, k)
    BY <1>4 DEF ReceiveFrame, ReceiveError, ReceiveEof, AnnounceCall
  <1> QED
    BY <1>2, <1>3, <1>4 DEF Callback

LEMMA StepUses == RunInv /\ [Next]_vars => [Store!Next]_store
  <1> SUFFICES ASSUME RunInv, [Next]_vars PROVE [Store!Next]_store
    OBVIOUS
  <1>1. CASE \E r \in Run : Loop(r)
    BY <1>1, LoopUses
  <1>2. CASE \E r \in Run : OpenStream(r) \/ CloseStream(r)
    BY <1>2 DEF OpenStream, CloseStream
  <1>3. CASE \E r \in Run : \E k \in 1..Opened(r) : Callback(r, k)
    BY <1>3, CallbackUses
  <1>4. CASE SessionHandlers
    BY <1>4 DEF SessionHandlers, Store!Next, Store!Session
  <1>5. CASE \E ok \in LoadOutcomes : Restart(ok)
    BY <1>5 DEF Restart, Store!Next
  <1>6. CASE UNCHANGED vars
    BY <1>6 DEF vars
  <1> QED
    BY <1>1, <1>2, <1>3, <1>4, <1>5, <1>6 DEF Next

LEMMA RunInvariance == Spec => [](RunInv /\ StoreInv)
  <1>1. Init => RunInv /\ StoreInv
    BY InitRun, StoreInit DEF Init
  <1>2. RunInv /\ StoreInv /\ [Next]_vars => (RunInv /\ StoreInv)'
    BY RunStep, StepUses, StoreStep
  <1> QED
    BY <1>1, <1>2, PTL DEF Spec

\* What the agent loop and its callbacks do to the session store is what any callers of it
\* may do: AgentRun implements SessionStore, whose theorems hold of it (loop.go:101-194,
\* stream_callback.go:49-148).
THEOREM RunsUseTheStore == Spec => Store!Spec
  <1>1. Init => Store!Init
    BY DEF Init
  <1>2. RunInv /\ [Next]_vars => [Store!Next]_(Store!vars)
    BY StepUses DEF store, Store!vars
  <1> QED
    BY <1>1, <1>2, RunInvariance, PTL DEF Spec, Store!Spec

-----------------------------------------------------------------------------
(* What the histories hold: those in memory, in the table and in the Saves *)
(* under way.                                                              *)

Logs == {messages[s] : s \in Store!Session} \cup {row[s].messages : s \in Store!Session}
        \cup {saves[t].messages : t \in Goroutine}

Grounded(log) ==
    \A i \in 1..Len(log) : log[i].kind \in {"call", "tools", "final"} => AskedBefore(log, i)

\* A request that has not been read is in no history.
Unsaid == \A r \in Run : pc[r] = "idle" => \A log \in Logs : ~Occurs(User(r), log)

\* A run that has started, and whatever still reads a stream of it, finds its request in
\* the history in memory: a restart, which may lose it, ends them both.
Asked ==
    \A r \in Run : pc[r] \in {"start", "running"} \/ Opened(r) > 0 =>
        Occurs(User(r), messages[SessionOf[r]])

Announced ==
    \A r \in Run : \A k \in 1..Opened(r) : Reader(r, k) = "announce" =>
        Occurs(Said(r, k), messages[SessionOf[r]])

HistoryInv == (\A log \in Logs : Grounded(log)) /\ Unsaid /\ Asked /\ Announced

\* A log with its empty last slot filled.
Filled(log, m) == [log EXCEPT ![Len(log)] = m]

Own(r, k) == IF k = 0 THEN User(r) ELSE Said(r, k)

\* The end of an append, by the loop of a run or by one of its readers.
Adds(r, k) == (k = 0 /\ UserAdded(r)) \/ (k \in 1..Opened(r) /\ Recorded(r, k))

LEMMA LogTypes ==
    ASSUME StoreInv
    PROVE  /\ \A log \in Logs : log \in Seq(Store!Slot)
           /\ \A s \in Store!Session : messages[s] \in Logs /\ row[s].messages \in Logs
           /\ \A t \in Goroutine : saves[t].messages \in Logs
  BY DEF Logs, StoreInv, Store!TypeOK, Store!Row, Store!Save

LEMMA FilledSeq ==
    ASSUME NEW log \in Seq(Store!Slot), NEW m \in Content, Len(log) > 0,
           log[Len(log)] = Nothing
    PROVE  /\ Filled(log, m) \in Seq(Store!Slot) /\ Len(Filled(log, m)) = Len(log)
           /\ Len(log) \in 1..Len(log)
           /\ \A i \in 1..Len(log) : Filled(log, m)[i] = IF i = Len(log) THEN m ELSE log[i]
  <1>1. Len(log) \in 1..Len(log) /\ m \in Store!Slot
    BY LenProperties, Slots
  <1> QED
    BY <1>1, ExceptSeq DEF Filled

\* What a log holds when its last slot is reserved, or filled, or when it is copied.
LEMMA OccursAppend ==
    ASSUME NEW log \in Seq(Store!Slot), NEW m \in Content
    PROVE  Occurs(m, Append(log, Nothing)) <=> Occurs(m, log)
  <1>1. /\ Len(Append(log, Nothing)) = Len(log) + 1 /\ Len(log) \in Nat
        /\ \A i \in 1..Len(log) : Append(log, Nothing)[i] = log[i]
        /\ Append(log, Nothing)[Len(log) + 1] = Nothing
    BY AppendProperties, LenProperties, Slots
  <1>2. m # Nothing
    BY Slots
  <1>3. ASSUME NEW i \in 1..(Len(log) + 1), Append(log, Nothing)[i] = m
        PROVE  i \in 1..Len(log)
    BY <1>1, <1>2, <1>3
  <1> QED
    BY <1>1, <1>3 DEF Occurs

LEMMA OccursFilled ==
    ASSUME NEW log \in Seq(Store!Slot), NEW x \in Content, Len(log) > 0, log[Len(log)] = Nothing
    PROVE  \A m \in Content : Occurs(m, Filled(log, x)) <=> m = x \/ Occurs(m, log)
  <1> TAKE m \in Content
  <1>1. /\ Len(Filled(log, x)) = Len(log) /\ Len(log) \in 1..Len(log)
        /\ \A i \in 1..Len(log) : Filled(log, x)[i] = IF i = Len(log) THEN x ELSE log[i]
    BY FilledSeq
  <1>2. m # Nothing
    BY Slots
  <1>3. Filled(log, x)[Len(log)] = x
    BY <1>1
  <1>4. \A i \in 1..Len(log) : log[i] = m => Filled(log, x)[i] = m
    BY <1>1, <1>2
  <1>5. \A i \in 1..Len(log) : Filled(log, x)[i] = m => m = x \/ log[i] = m
    BY <1>1
  <1> QED
    BY <1>1, <1>3, <1>4, <1>5 DEF Occurs

LEMMA OccursSnapshot ==
    ASSUME NEW log \in Seq(Store!Slot), NEW n \in Nat, NEW m \in Content,
           Occurs(m, Store!Snapshot(log, n))
    PROVE  Occurs(m, log)
  BY SnapshotSeq, Slots DEF Occurs

\* An answer stands after its request.
LEMMA GroundedAppend ==
    ASSUME NEW log \in Seq(Store!Slot), NEW m \in Store!Slot, Grounded(log),
           m.kind \in {"blank", "user"}
    PROVE  Grounded(Append(log, m))
  <1> DEFINE new == Append(log, m)
  <1>1. /\ Len(new) = Len(log) + 1 /\ Len(log) \in Nat
        /\ \A i \in 1..Len(log) : new[i] = log[i]
        /\ new[Len(log) + 1] = m
    BY AppendProperties, LenProperties
  <1> HIDE DEF new
  <1> SUFFICES ASSUME NEW i \in 1..Len(new), new[i].kind \in {"call", "tools", "final"}
               PROVE  AskedBefore(new, i)
    BY DEF Grounded, new
  <1>2. i \in 1..Len(log)
    BY <1>1
  <1>3. AskedBefore(log, i)
    BY <1>1, <1>2 DEF Grounded
  <1>4. \A j \in 1..(i - 1) : j \in 1..Len(log)
    BY <1>1, <1>2
  <1> QED
    BY <1>1, <1>2, <1>3, <1>4 DEF AskedBefore

LEMMA GroundedFilled ==
    ASSUME NEW log \in Seq(Store!Slot), NEW m \in Content, Len(log) > 0,
           log[Len(log)] = Nothing, Grounded(log),
           m.kind # "user" => Occurs(User(m.run), log)
    PROVE  Grounded(Filled(log, m))
  <1> DEFINE new == Filled(log, m)
  <1>1. /\ Len(new) = Len(log) /\ Len(log) \in 1..Len(log) /\ Len(log) \in Nat
        /\ \A i \in 1..Len(log) : new[i] = IF i = Len(log) THEN m ELSE log[i]
    BY FilledSeq, LenProperties
  <1> HIDE DEF new
  <1> SUFFICES ASSUME NEW i \in 1..Len(new), new[i].kind \in {"call", "tools", "final"}
               PROVE  AskedBefore(new, i)
    BY DEF Grounded, new
  <1>2. \A j \in 1..(i - 1) : j \in 1..Len(log) /\ j # Len(log) /\ new[j] = log[j]
    BY <1>1
  <1>3. CASE i = Len(log)
    <2>1. new[i] = m /\ Occurs(User(m.run), log)
      BY <1>1, <1>3
    <2>2. PICK j \in 1..Len(log) : log[j] = User(m.run)
      BY <2>1 DEF Occurs
    <2>3. j # Len(log)
      <3>1. User(m.run).kind = "user"
        BY DEF User
      <3> QED
        BY <2>2, <3>1, Slots
    <2>4. j \in 1..(i - 1)
      BY <1>1, <1>3, <2>3
    <2> QED
      BY <1>2, <2>1, <2>2, <2>4 DEF AskedBefore
  <1>4. CASE i # Len(log)
    <2>1. new[i] = log[i] /\ i \in 1..Len(log)
      BY <1>1, <1>4
    <2>2. AskedBefore(log, i)
      BY <2>1 DEF Grounded
    <2> QED
      BY <1>2, <2>1, <2>2 DEF AskedBefore
  <1> QED
    BY <1>3, <1>4

LEMMA GroundedSnapshot ==
    ASSUME NEW log \in Seq(Store!Slot), NEW n \in Nat, Grounded(log)
    PROVE  Grounded(Store!Snapshot(log, n))
  <1> DEFINE new == Store!Snapshot(log, n)
  <1>1. /\ Len(new) = Len(log) /\ Len(log) \in Nat
        /\ \A i \in 1..Len(log) : new[i] = IF i <= n THEN log[i] ELSE Nothing
    BY SnapshotSeq, LenProperties
  <1> HIDE DEF new
  <1> SUFFICES ASSUME NEW i \in 1..Len(new), new[i].kind \in {"call", "tools", "final"}
               PROVE  AskedBefore(new, i)
    BY DEF Grounded, new
  <1>2. i <= n /\ new[i] = log[i]
    BY <1>1, Slots
  <1>3. AskedBefore(log, i)
    BY <1>1, <1>2 DEF Grounded
  <1>4. \A j \in 1..(i - 1) : new[j] = log[j]
    BY <1>1, <1>2
  <1> QED
    BY <1>2, <1>3, <1>4 DEF AskedBefore

LEMMA NothingGrounded == Grounded(<<>>) /\ \A m : ~Occurs(m, <<>>)
  BY EmptySeq DEF Grounded, Occurs

\* The end of an append puts the goroutine's own message in the slot it reserved.
LEMMA AddsFill ==
    ASSUME StoreInv, RunInv, NEW r \in Run, NEW k \in Nat, Adds(r, k)
    PROVE  /\ Own(r, k) \in Content
           /\ messages[SessionOf[r]] \in Seq(Store!Slot) /\ SessionOf[r] \in Store!Session
           /\ Len(messages[SessionOf[r]]) > 0
           /\ messages[SessionOf[r]][Len(messages[SessionOf[r]])] = Nothing
           /\ messages' = [messages EXCEPT ![SessionOf[r]] = Filled(@, Own(r, k))]
           /\ UNCHANGED <<saves, row>>
  <1>1. Store!AddEnd(<<r, k>>)
    BY DEF Adds, UserAdded, Recorded
  <1>2. PICK a \in adding :
          /\ a.thread = <<r, k>>
          /\ messages' = [messages EXCEPT ![a.session][Len(messages[a.session])] = a.message]
          /\ UNCHANGED <<saves, row>>
    BY <1>1 DEF Store!AddEnd
  <1>3. a.session = SessionOf[r] /\ a.message = Own(r, k)
    BY <1>2 DEF RunInv, AddsOwn, Own
  <1>4. a.message \in Content /\ a.session \in Store!Session
    BY <1>2 DEF StoreInv, Store!TypeOK, Store!Append1
  <1>5. /\ messages[a.session] \in Seq(Store!Slot) /\ Len(messages[a.session]) > 0
        /\ messages[a.session][Len(messages[a.session])] = Nothing
    BY <1>2, <1>4 DEF StoreInv, SlotEmpty, Store!TypeOK
  <1> QED
    BY <1>2, <1>3, <1>4, <1>5 DEF Filled

\* How the history of a session changes.
LEMMA LogsGrow ==
    ASSUME StoreInv, RunInv, [Next]_vars, NEW s \in Store!Session
    PROVE  \/ \E ok \in LoadOutcomes : Restart(ok)
           \/ messages'[s] = messages[s]
           \/ messages'[s] = Append(messages[s], Nothing)
           \/ \E r \in Run, k \in Nat : /\ Adds(r, k) /\ s = SessionOf[r]
                                        /\ messages'[s] = Filled(messages[s], Own(r, k))
  <1>1. ASSUME NEW t, NEW x \in Store!Session, NEW m, Store!AddBegin(t, x, m)
        PROVE  messages'[s] \in {messages[s], Append(messages[s], Nothing)}
    BY <1>1 DEF Store!AddBegin, StoreInv, Store!TypeOK
  <1>2. ASSUME NEW r \in Run, NEW k \in Nat, Adds(r, k)
        PROVE  \/ messages'[s] = messages[s]
               \/ s = SessionOf[r] /\ messages'[s] = Filled(messages[s], Own(r, k))
    BY <1>2, AddsFill DEF StoreInv, Store!TypeOK
  <1>3. CASE UNCHANGED messages
    BY <1>3
  <1>4. ASSUME NEW r \in Run, Loop(r)
        PROVE  \/ AddUser(r) \/ Adds(r, 0) \/ UNCHANGED messages
    BY <1>4 DEF Loop, ReadHistory, RunStarted, Collected, RunError, SaveStart, SaveStep, SaveEnd,
                RunCompleted, store, Adds, Store!SaveBegin, Store!SaveMarshal,
                Store!SaveCount, Store!SaveUpdate, Store!SaveMiss
  <1>5. ASSUME NEW r \in Run, NEW k \in 1..Opened(r), Callback(r, k)
        PROVE  \/ Record(r, k) \/ Adds(r, k) \/ UNCHANGED messages
    BY <1>5 DEF Callback, ReceiveFrame, ReceiveError, ReceiveEof, AnnounceCall, store, Adds
  <1>6. CASE (\E r \in Run : OpenStream(r) \/ CloseStream(r)) \/ SessionHandlers \/ UNCHANGED vars
    BY <1>3, <1>6 DEF OpenStream, CloseStream, SessionHandlers, Store!Create, Store!Delete, vars,
                      store
  <1>7. CASE \E r \in Run : Loop(r)
    <2>1. PICK r \in Run : Loop(r)
      BY <1>7
    <2>2. CASE AddUser(r)
      BY <1>1, <2>2, OfRuns DEF AddUser
    <2>3. CASE Adds(r, 0)
      BY <1>2, <2>3
    <2> QED
      BY <1>3, <1>4, <2>1, <2>2, <2>3
  <1>8. CASE \E r \in Run : \E k \in 1..Opened(r) : Callback(r, k)
    <2>1. PICK r \in Run : \E k \in 1..Opened(r) : Callback(r, k)
      BY <1>8
    <2>2. PICK k \in 1..Opened(r) : Callback(r, k)
      BY <2>1
    <2>3. k \in Nat
      BY OfRuns
    <2>4. CASE Record(r, k)
      BY <1>1, <2>4, OfRuns DEF Record
    <2>5. CASE Adds(r, k)
      BY <1>2, <2>3, <2>5
    <2> QED
      BY <1>3, <1>5, <2>2, <2>4, <2>5
  <1> QED
    BY <1>6, <1>7, <1>8 DEF Next

\* Rows and Saves only take over what a history held before, or copy one.
LEMMA CopiesAreOld ==
    ASSUME StoreInv, [Store!Next]_store
    PROVE  /\ \A s \in Store!Session : row'[s].messages \in Logs \cup {<<>>}
           /\ \A t \in Goroutine :
                \/ saves'[t].messages \in Logs \cup {<<>>}
                \/ \E s \in Store!Session, n \in Nat :
                     saves'[t].messages = Store!Snapshot(messages[s], n)
  <1> DEFINE Rows == \A s \in Store!Session : row'[s].messages \in Logs \cup {<<>>}
             Copies == \A t \in Goroutine :
                \/ saves'[t].messages \in Logs \cup {<<>>}
                \/ \E s \in Store!Session, n \in Nat :
                     saves'[t].messages = Store!Snapshot(messages[s], n)
  <1> SUFFICES Rows /\ Copies
    OBVIOUS
  <1>1. UNCHANGED row => Rows
    BY LogTypes
  <1>2. UNCHANGED saves => Copies
    BY LogTypes
  <1>3. \A t \in Goroutine : saves'[t] = saves[t] => saves'[t].messages \in Logs
    BY LogTypes
  <1>4. Store!Idle.messages = <<>>
    BY IdleAndEmpty
  <1> HIDE DEF Rows, Copies
  <1>5. CASE Store!Create \/ UNCHANGED store
    BY <1>1, <1>2, <1>5 DEF Store!Create, store
  <1>6. CASE \E s \in Store!Session : Store!Delete(s)
    <2>1. Rows
      BY <1>6, DeleteStore, LogTypes DEF Rows
    <2> QED
      BY <1>2, <1>6, <2>1 DEF Store!Delete
  <1>7. CASE \E t \in Goroutine : \/ \E s \in Store!Session, m \in Content : Store!AddBegin(t, s, m)
                                 \/ Store!AddEnd(t)
    BY <1>1, <1>2, <1>7 DEF Store!AddBegin, Store!AddEnd
  <1>8. CASE \E t \in Goroutine : (\E s \in Store!Session : Store!SaveBegin(t, s)) \/ Store!SaveCount(t)
    <2>1. \A u \in Goroutine : saves'[u].messages = saves[u].messages
      BY <1>8, SaveBeginStore, SaveCountStore
    <2>2. Copies
      BY <2>1, LogTypes DEF Copies
    <2> QED
      BY <1>1, <1>8, <2>2 DEF Store!SaveBegin, Store!SaveCount
  <1>9. CASE \E t \in Goroutine : Store!SaveMarshal(t)
    <2>1. PICK t \in Goroutine : Store!SaveMarshal(t)
      BY <1>9
    <2>2. Copies
      BY <1>3, <2>1, SaveMarshalStore DEF Copies
    <2> QED
      BY <1>1, <2>1, <2>2 DEF Store!SaveMarshal
  <1>10. CASE \E t \in Goroutine : Store!SaveUpdate(t)
    <2>1. PICK t \in Goroutine : Store!SaveUpdate(t)
      BY <1>10
    <2>2. Copies
      BY <1>3, <1>4, <2>1, SaveUpdateStore DEF Copies
    <2>3. Rows
      BY <2>1, SaveUpdateStore, LogTypes DEF Rows
    <2> QED
      BY <2>2, <2>3
  <1>11. CASE \E t \in Goroutine : Store!SaveMiss(t)
    <2>1. PICK t \in Goroutine : Store!SaveMiss(t)
      BY <1>11
    <2>2. Copies
      BY <1>3, <1>4, <2>1, SaveMissStore DEF Copies
    <2> QED
      BY <1>1, <2>1, <2>2 DEF Store!SaveMiss
  <1>12. CASE \E ok \in LoadOutcomes : Store!Restart(ok)
    <2>1. Copies
      BY <1>4, <1>12, RestartStore DEF Copies
    <2> QED
      BY <1>1, <1>12, <2>1 DEF Store!Restart
  <1> QED
    BY <1>5, <1>6, <1>7, <1>8, <1>9, <1>10, <1>11, <1>12 DEF Store!Next

-----------------------------------------------------------------------------
(* HistoryInv is kept.  First, every history is grounded in its requests.  *)

LEMMA InitLogs == Init => \A log \in Logs : log = <<>>
  BY IdleAndEmpty DEF Init, Store!Init, Logs

LEMMA InitHistory == Init => HistoryInv
  <1> SUFFICES ASSUME Init PROVE HistoryInv
    OBVIOUS
  <1>1. \A r \in Run : Opened(r) = 0 /\ pc[r] = "idle"
    BY EmptySeq DEF Init, Opened
  <1>2. Asked /\ Announced
    BY <1>1 DEF Asked, Announced
  <1> QED
    BY <1>2, InitLogs, NothingGrounded DEF HistoryInv, Unsaid

\* The request of a run that records something is in the history it records it in.
LEMMA AddsAsked ==
    ASSUME StoreInv, RunInv, Asked, NEW r \in Run, NEW k \in Nat, Adds(r, k)
    PROVE  /\ Own(r, k).run = r
           /\ Own(r, k).kind # "user" => Occurs(User(r), messages[SessionOf[r]])
           /\ k # 0 => Own(r, k).kind # "user" /\ k \in 1..Opened(r)
           /\ k = 0 => UserAdded(r) /\ Own(r, k) = User(r) /\ Own(r, k).kind = "user"
  <1>1. CASE k = 0
    <2>1. UserAdded(r)
      BY <1>1 DEF Adds
    <2> QED
      BY <1>1, <2>1 DEF Own, User
  <1>2. CASE k # 0
    <2>1. k \in 1..Opened(r) /\ Recorded(r, k)
      BY <1>2 DEF Adds
    <2>2. streams[r][k].kind \in {"call", "tools", "final"}
      BY <2>1 DEF Recorded, RunInv, ReadersRecord
    <2>3. Opened(r) \in Nat
      BY OfRuns
    <2>4. Opened(r) > 0
      BY <2>1, <2>3
    <2> QED
      BY <1>2, <2>1, <2>2, <2>4 DEF Own, Said, Asked
  <1> QED
    BY <1>1, <1>2

\* The histories there are after a step were there before it, are copies, or have grown.
LEMMA NewLogs ==
    ASSUME StoreInv, RunInv, [Next]_vars, NEW log \in Logs'
    PROVE  \/ log \in Logs \cup {<<>>}
           \/ \E s \in Store!Session, n \in Nat : log = Store!Snapshot(messages[s], n)
           \/ \E s \in Store!Session : log = Append(messages[s], Nothing)
           \/ \E r \in Run, k \in Nat :
                Adds(r, k) /\ log = Filled(messages[SessionOf[r]], Own(r, k))
  <1>1. [Store!Next]_store
    BY StepUses
  <1>2. \/ \E s \in Store!Session : log = messages'[s] \/ log = row'[s].messages
        \/ \E t \in Goroutine : log = saves'[t].messages
    BY DEF Logs
  <1>3. ASSUME NEW s \in Store!Session, log = row'[s].messages
        PROVE  log \in Logs \cup {<<>>}
    BY <1>1, <1>3, CopiesAreOld
  <1>4. ASSUME NEW t \in Goroutine, log = saves'[t].messages
        PROVE  \/ log \in Logs \cup {<<>>}
               \/ \E s \in Store!Session, n \in Nat : log = Store!Snapshot(messages[s], n)
    BY <1>1, <1>4, CopiesAreOld
  <1>5. ASSUME NEW s \in Store!Session, log = messages'[s], ~\E ok \in LoadOutcomes : Restart(ok)
        PROVE  \/ log \in Logs
               \/ log = Append(messages[s], Nothing)
               \/ \E r \in Run, k \in Nat :
                    Adds(r, k) /\ log = Filled(messages[SessionOf[r]], Own(r, k))
    BY <1>5, LogsGrow, LogTypes
  <1>6. ASSUME NEW s \in Store!Session, log = messages'[s], NEW ok \in LoadOutcomes, Restart(ok)
        PROVE  log \in Logs \cup {<<>>}
    <2>1. messages'[s] = row[s].messages \/ messages'[s] = <<>>
      BY <1>6, RestartStore DEF Restart
    <2> QED
      BY <1>6, <2>1, LogTypes
  <1> QED
    BY <1>2, <1>3, <1>4, <1>5, <1>6

LEMMA NextGrounded ==
    ASSUME StoreInv, RunInv, HistoryInv, [Next]_vars
    PROVE  \A log \in Logs' : Grounded(log)
  <1> SUFFICES ASSUME NEW log \in Logs' PROVE Grounded(log)
    OBVIOUS
  <1>1. \A s \in Store!Session : Grounded(messages[s]) /\ messages[s] \in Seq(Store!Slot)
    BY LogTypes DEF HistoryInv
  <1>2. CASE log \in Logs \cup {<<>>}
    BY <1>2, NothingGrounded DEF HistoryInv
  <1>3. CASE \E s \in Store!Session, n \in Nat : log = Store!Snapshot(messages[s], n)
    BY <1>1, <1>3, GroundedSnapshot
  <1>4. CASE \E s \in Store!Session : log = Append(messages[s], Nothing)
    BY <1>1, <1>4, GroundedAppend, Slots
  <1>5. CASE \E r \in Run, k \in Nat :
               Adds(r, k) /\ log = Filled(messages[SessionOf[r]], Own(r, k))
    <2>1. PICK r \in Run, k \in Nat :
            Adds(r, k) /\ log = Filled(messages[SessionOf[r]], Own(r, k))
      BY <1>5
    <2>2. Own(r, k).run = r /\ (Own(r, k).kind # "user" => Occurs(User(r), messages[SessionOf[r]]))
      BY <2>1, AddsAsked DEF HistoryInv
    <2>3. /\ Own(r, k) \in Content /\ SessionOf[r] \in Store!Session
          /\ Len(messages[SessionOf[r]]) > 0
          /\ messages[SessionOf[r]][Len(messages[SessionOf[r]])] = Nothing
      BY <2>1, AddsFill
    <2> QED
      BY <1>1, <2>1, <2>2, <2>3, GroundedFilled
  <1> QED
    BY <1>2, <1>3, <1>4, <1>5, NewLogs

LEMMA NextUnsaid ==
    ASSUME StoreInv, RunInv, HistoryInv, [Next]_vars
    PROVE  Unsaid'
  <1> SUFFICES ASSUME NEW x \in Run, pc'[x] = "idle", NEW log \in Logs'
               PROVE  ~Occurs(User(x), log)
    BY DEF Unsaid, User
  <1>1. pc[x] = "idle"
    <2>1. CASE \E r \in Run : Loop(r)
      BY <2>1 DEF Loop, ReadHistory, AddUser, UserAdded, RunStarted, Collected, RunError,
                  SaveStart, SaveStep, SaveEnd, RunCompleted, RunInv, RunTypes, AfterHistory
    <2>2. CASE \E ok \in LoadOutcomes : Restart(ok)
      BY <2>2 DEF Restart
    <2>3. CASE UNCHANGED pc
      BY <2>3
    <2>4. CASE \E r \in Run : OpenStream(r) \/ CloseStream(r)
      BY <2>3, <2>4 DEF OpenStream, CloseStream
    <2>5. CASE \E r \in Run : \E k \in 1..Opened(r) : Callback(r, k)
      BY <2>3, <2>5 DEF Callback, ReceiveFrame, ReceiveError, ReceiveEof, Record, Recorded,
                        AnnounceCall
    <2>6. CASE SessionHandlers \/ UNCHANGED vars
      BY <2>3, <2>6 DEF SessionHandlers, vars
    <2> QED
      BY <2>1, <2>2, <2>4, <2>5, <2>6 DEF Next
  <1>2. /\ \A l \in Logs : ~Occurs(User(x), l) /\ l \in Seq(Store!Slot)
        /\ User(x) \in Content
    BY <1>1, LogTypes, OfRuns DEF HistoryInv, Unsaid
  <1>3. \A s \in Store!Session : messages[s] \in Logs
    BY LogTypes
  <1>4. CASE log \in Logs \cup {<<>>}
    BY <1>2, <1>4, NothingGrounded
  <1>5. CASE \E s \in Store!Session, n \in Nat : log = Store!Snapshot(messages[s], n)
    BY <1>2, <1>3, <1>5, OccursSnapshot
  <1>6. CASE \E s \in Store!Session : log = Append(messages[s], Nothing)
    BY <1>2, <1>3, <1>6, OccursAppend
  <1>7. CASE \E r \in Run, k \in Nat :
               Adds(r, k) /\ log = Filled(messages[SessionOf[r]], Own(r, k))
    <2>1. PICK r \in Run, k \in Nat :
            Adds(r, k) /\ log = Filled(messages[SessionOf[r]], Own(r, k))
      BY <1>7
    <2>2. Own(r, k) # User(x)
      <3>1. User(x).kind = "user" /\ User(x).run = x
        BY DEF User
      <3>2. CASE k # 0
        BY <2>1, <3>1, <3>2, AddsAsked DEF HistoryInv
      <3>3. CASE k = 0
        <4>1. UserAdded(r) /\ Own(r, k).run = r
          BY <2>1, <3>3, AddsAsked DEF HistoryInv
        <4>2. pc[r] = "adding"
          BY <4>1 DEF UserAdded
        <4> QED
          BY <1>1, <3>1, <4>1, <4>2
      <3> QED
        BY <3>2, <3>3
    <2>3. /\ Own(r, k) \in Content /\ SessionOf[r] \in Store!Session
          /\ Len(messages[SessionOf[r]]) > 0
          /\ messages[SessionOf[r]][Len(messages[SessionOf[r]])] = Nothing
      BY <2>1, AddsFill
    <2> QED
      BY <1>2, <1>3, <2>1, <2>2, <2>3, OccursFilled
  <1> QED
    BY <1>4, <1>5, <1>6, <1>7, NewLogs

\* What a history in memory holds it keeps until the process stops.
LEMMA HistoryKeeps ==
    ASSUME StoreInv, RunInv, [Next]_vars, NEW s \in Store!Session, NEW m \in Content,
           Occurs(m, messages[s])
    PROVE  Occurs(m, messages'[s]) \/ \E ok \in LoadOutcomes : Restart(ok)
  <1>1. messages[s] \in Seq(Store!Slot)
    BY LogTypes
  <1>2. CASE messages'[s] = Append(messages[s], Nothing)
    BY <1>1, <1>2, OccursAppend
  <1>3. CASE \E r \in Run, k \in Nat : /\ Adds(r, k) /\ s = SessionOf[r]
                                       /\ messages'[s] = Filled(messages[s], Own(r, k))
    <2>1. PICK r \in Run, k \in Nat : /\ Adds(r, k) /\ s = SessionOf[r]
                                      /\ messages'[s] = Filled(messages[s], Own(r, k))
      BY <1>3
    <2>2. /\ Own(r, k) \in Content /\ Len(messages[s]) > 0
          /\ messages[s][Len(messages[s])] = Nothing
      BY <2>1, AddsFill
    <2> QED
      BY <1>1, <2>1, <2>2, OccursFilled
  <1> QED
    BY <1>2, <1>3, LogsGrow

\* What an append ends with is in the history.
LEMMA AddsOccurs ==
    ASSUME StoreInv, RunInv, NEW r \in Run, NEW k \in Nat, Adds(r, k)
    PROVE  Occurs(Own(r, k), messages'[SessionOf[r]])
  <1>1. /\ Own(r, k) \in Content
        /\ messages[SessionOf[r]] \in Seq(Store!Slot)
        /\ Len(messages[SessionOf[r]]) > 0
        /\ messages[SessionOf[r]][Len(messages[SessionOf[r]])] = Nothing
        /\ messages'[SessionOf[r]] = Filled(messages[SessionOf[r]], Own(r, k))
    BY AddsFill DEF StoreInv, Store!TypeOK
  <1> QED
    BY <1>1, OccursFilled

LEMMA NextAsked ==
    ASSUME StoreInv, RunInv, HistoryInv, [Next]_vars
    PROVE  Asked'
  <1> SUFFICES ASSUME NEW r \in Run, pc'[r] \in {"start", "running"} \/ Opened(r)' > 0
               PROVE  Occurs(User(r), messages'[SessionOf[r]])
    BY DEF Asked, User
  <1>1. SessionOf[r] \in Store!Session /\ User(r) \in Content
    BY OfRuns
  <1>2. ~\E ok \in LoadOutcomes : Restart(ok)
    <2> SUFFICES ASSUME NEW ok \in LoadOutcomes, Restart(ok) PROVE FALSE
      OBVIOUS
    <2>1. Opened(r)' = 0
      BY RestartRun
    <2>2. pc'[r] \notin {"start", "running"}
      BY DEF Restart
    <2> QED
      BY <2>1, <2>2
  <1>3. ASSUME pc[r] \in {"start", "running"} \/ Opened(r) > 0
        PROVE  Occurs(User(r), messages'[SessionOf[r]])
    BY <1>1, <1>2, <1>3, HistoryKeeps DEF HistoryInv, Asked
  <1>4. CASE UserAdded(r)
    <2>1. Adds(r, 0) /\ Own(r, 0) = User(r)
      BY <1>4 DEF Adds, Own
    <2> QED
      BY <2>1, AddsOccurs
  <1>5. ASSUME ~UserAdded(r)
        PROVE  pc[r] \in {"start", "running"} \/ Opened(r) > 0
    <2>1. CASE pc'[r] \in {"start", "running"} /\ \E x \in Run : Loop(x)
      BY <1>5, <2>1 DEF Loop, ReadHistory, AddUser, UserAdded, RunStarted, Collected, RunError,
                  SaveStart, SaveStep, SaveEnd, RunCompleted, RunInv, RunTypes, AfterHistory
    <2>2. CASE OpenStream(r)
      BY <2>2 DEF OpenStream
    <2>3. ASSUME NEW x \in Run, OpenStream(x), x # r
          PROVE  pc'[r] = pc[r] /\ Opened(r)' = Opened(r)
      BY <2>3, OpenStreamRun DEF OpenStream, Opened
    <2>4. ASSUME SameStreams PROVE Opened(r)' = Opened(r)
      BY <2>4 DEF SameStreams
    <2>5. ASSUME NEW x \in Run, NEW k \in 1..Opened(x), Callback(x, k)
          PROVE  pc'[r] = pc[r] /\ SameStreams
      BY <2>5, CallbackRun DEF Callback, ReceiveFrame, ReceiveError, ReceiveEof, Record, Recorded,
                               AnnounceCall
    <2>6. ASSUME NEW x \in Run, CloseStream(x)
          PROVE  pc'[r] = pc[r] /\ SameStreams
      BY <2>6, CloseStreamRun DEF CloseStream
    <2>7. ASSUME NEW x \in Run, Loop(x)
          PROVE  SameStreams
      BY <2>7, LoopRun
    <2>8. ASSUME SessionHandlers \/ UNCHANGED vars
          PROVE  pc'[r] = pc[r] /\ SameStreams
      BY <2>8, HandlersRun
    <2> QED
      BY <1>2, <2>1, <2>2, <2>3, <2>4, <2>5, <2>6, <2>7, <2>8 DEF Next
  <1> QED
    BY <1>3, <1>4, <1>5


LEMMA NextAnnounced ==
    ASSUME StoreInv, RunInv, HistoryInv, [Next]_vars
    PROVE  Announced'
  <1> SUFFICES ASSUME NEW r \in Run, NEW k \in 1..Opened(r)', Reader(r, k)' = "announce"
               PROVE  Occurs(Said(r, k)', messages'[SessionOf[r]])
    BY DEF Announced
  <1>1. SessionOf[r] \in Store!Session /\ Opened(r) \in Nat
    BY OfRuns
  <1>2. ASSUME NEW ok \in LoadOutcomes, Restart(ok)
        PROVE  FALSE
    BY <1>2, RestartRun
  <1>3. ASSUME k \in 1..Opened(r), Reader(r, k) = "announce",
               streams'[r][k].kind = streams[r][k].kind
        PROVE  Occurs(Said(r, k)', messages'[SessionOf[r]])
    <2>1. Said(r, k)' = Said(r, k)
      BY <1>3 DEF Said
    <2>2. Said(r, k) \in Content
      <3>1. streams[r][k].kind = "call" /\ k \in {0} \cup Stream
        BY <1>3, OfRuns DEF RunInv, ReadersRecord
      <3> QED
        BY <3>1 DEF Said, Content
    <2>3. Occurs(Said(r, k), messages[SessionOf[r]])
      BY <1>3 DEF HistoryInv, Announced
    <2> QED
      BY <1>1, <1>2, <2>1, <2>2, <2>3, HistoryKeeps
  <1>4. ASSUME SameStreams, \A j \in 1..Opened(r) : Reader(r, j)' = Reader(r, j)
        PROVE  Occurs(Said(r, k)', messages'[SessionOf[r]])
    BY <1>3, <1>4 DEF SameStreams
  <1>5. CASE \E x \in Run : Loop(x)
    <2>1. SameStreams /\ UNCHANGED streams
      BY <1>5, LoopRun DEF Loop, ReadHistory, AddUser, UserAdded, RunStarted, Collected, RunError,
                           SaveStart, SaveStep, SaveEnd, RunCompleted
    <2> QED
      BY <1>4, <2>1 DEF Reader
  <1>6. CASE OpenStream(r)
    <2>1. k \in 1..Opened(r) /\ streams'[r][k] = streams[r][k]
      BY <1>1, <1>6, OpenStreamRun DEF Reader
    <2> QED
      BY <1>3, <2>1 DEF Reader
  <1>7. ASSUME NEW x \in Run, OpenStream(x), x # r
        PROVE  Occurs(Said(r, k)', messages'[SessionOf[r]])
    <2>1. streams'[r] = streams[r]
      BY <1>7, OpenStreamRun
    <2> QED
      BY <1>3, <2>1 DEF Reader, Opened
  <1>8. CASE \E x \in Run : CloseStream(x)
    BY <1>4, <1>8, CloseStreamRun
  <1>9. ASSUME NEW x \in Run, NEW j \in 1..Opened(x), Callback(x, j)
        PROVE  Occurs(Said(r, k)', messages'[SessionOf[r]])
    <2>1. /\ SameStreams
          /\ <<r, k>> # <<x, j>> => Reader(r, k)' = Reader(r, k)
          /\ Reader(x, j)' = "announce" => Recorded(x, j)
      BY <1>9, CallbackRun DEF SameStreams
    <2>2. CASE <<r, k>> # <<x, j>>
      BY <1>3, <2>1, <2>2 DEF SameStreams
    <2>3. CASE <<r, k>> = <<x, j>>
      <3>1. Recorded(r, k) /\ k \in 1..Opened(r)
        BY <1>9, <2>1, <2>3
      <3>2. k \in Nat /\ k # 0
        BY <1>1, <3>1
      <3>3. Adds(r, k) /\ Own(r, k) = Said(r, k)
        BY <3>1, <3>2 DEF Adds, Own
      <3>4. Said(r, k)' = Said(r, k)
        BY <2>1, <3>1 DEF SameStreams, Said
      <3> QED
        BY <3>2, <3>3, <3>4, AddsOccurs
    <2> QED
      BY <2>2, <2>3
  <1>10. CASE SessionHandlers \/ UNCHANGED vars
    BY <1>4, <1>10, HandlersRun DEF Reader
  <1> QED
    BY <1>2, <1>5, <1>6, <1>7, <1>8, <1>9, <1>10 DEF Next

LEMMA HistoryStep == StoreInv /\ RunInv /\ HistoryInv /\ [Next]_vars => HistoryInv'
  BY NextGrounded, NextUnsaid, NextAsked, NextAnnounced DEF HistoryInv

-----------------------------------------------------------------------------
(* The prompts.  A grounded history never begins with the results of a tool, *)
(* so BuildMessages drops nothing of it.                                     *)

LEMMA BuildsPrompt ==
    ASSUME NEW h \in Seq(Store!Slot), Grounded(h), NEW r \in Run
    PROVE  BuildMessages(h, r) = Append(h, User(r))
  <1> DEFINE kept == {i \in 1..Len(h) : \E j \in 1..i : h[j].kind # "tools"}
  <1>1. Len(h) \in Nat
    BY LenProperties
  <1>2. \A i \in 1..Len(h) : h[1].kind # "tools"
    <2> SUFFICES ASSUME NEW i \in 1..Len(h), h[1].kind = "tools" PROVE FALSE
      OBVIOUS
    <2>1. 1 \in 1..Len(h)
      BY <1>1
    <2>2. AskedBefore(h, 1)
      BY <2>1 DEF Grounded
    <2> QED
      BY <2>2 DEF AskedBefore
  <1>3. kept = 1..Len(h)
    <2>1. \A i \in 1..Len(h) : 1 \in 1..i
      BY <1>1
    <2> QED
      BY <1>2, <2>1
  <1>4. Cardinality(kept) = Len(h)
    <2>1. 1 \in Int /\ Len(h) \in Int
      BY <1>1
    <2>2. Cardinality(1..Len(h)) = IF 1 > Len(h) THEN 0 ELSE Len(h) - 1 + 1
      BY <2>1, FS_Interval, Zenon
    <2>3. Cardinality(1..Len(h)) = Len(h)
      BY <1>1, <2>2
    <2> QED
      BY <1>3, <2>3
  <1>5. BuildMessages(h, r) = SubSeq(h, Len(h) - Cardinality(kept) + 1, Len(h)) \o <<User(r)>>
    BY DEF BuildMessages
  <1> HIDE DEF kept
  <1>6. Len(h) - Cardinality(kept) + 1 = 1
    BY <1>1, <1>4
  <1>7. SubSeq(h, Len(h) - Cardinality(kept) + 1, Len(h)) = h
    BY <1>6, SubSeqFull
  <1>8. h \o <<User(r)>> = Append(h, User(r))
    <2>1. User(r) \in Store!Slot
      BY Slots DEF User, Content
    <2> QED
      BY <2>1, AppendIsConcat
  <1> QED
    BY <1>5, <1>7, <1>8

LEMMA PromptChanges ==
    ASSUME RunInv, [Next]_vars
    PROVE  UNCHANGED prompt \/ \E r \in Run : ReadHistory(r)
  <1>1. CASE \E r \in Run : Loop(r)
    BY <1>1 DEF Loop, AddUser, UserAdded, RunStarted, Collected, RunError,
                SaveStart, SaveStep, SaveEnd, RunCompleted
  <1>2. CASE \E r \in Run : OpenStream(r) \/ CloseStream(r)
    BY <1>2 DEF OpenStream, CloseStream
  <1>3. CASE \E r \in Run : \E k \in 1..Opened(r) : Callback(r, k)
    BY <1>3 DEF Callback, ReceiveFrame, ReceiveError, ReceiveEof, Record, Recorded, AnnounceCall
  <1>4. CASE SessionHandlers \/ (\E ok \in LoadOutcomes : Restart(ok)) \/ UNCHANGED vars
    BY <1>4 DEF SessionHandlers, Restart, vars
  <1> QED
    BY <1>1, <1>2, <1>3, <1>4 DEF Next

\* A prompt as it is built: the history, which has not the request, and then the request.
LEMMA PromptBuilt ==
    ASSUME StoreInv, RunInv, HistoryInv, [Next]_vars, prompt \in [Run -> Seq(Store!Slot)],
           NEW r \in Run
    PROVE  /\ prompt' \in [Run -> Seq(Store!Slot)]
           /\ \/ prompt'[r] = prompt[r]
              \/ \E h \in Seq(Store!Slot) :
                    Grounded(h) /\ ~Occurs(User(r), h) /\ prompt'[r] = Append(h, User(r))
  <1>1. CASE UNCHANGED prompt
    BY <1>1
  <1>2. CASE \E x \in Run : ReadHistory(x)
    <2>1. PICK x \in Run : ReadHistory(x)
      BY <1>2
    <2> DEFINE h == messages[SessionOf[x]]
    <2>2. h \in Seq(Store!Slot) /\ h \in Logs /\ User(x) \in Content
      BY LogTypes, OfRuns
    <2>3. Grounded(h) /\ ~Occurs(User(x), h)
      BY <2>1, <2>2 DEF HistoryInv, Unsaid, ReadHistory
    <2>4. prompt' = [prompt EXCEPT ![x] = Append(h, User(x))]
      BY <2>1, <2>2, <2>3, BuildsPrompt DEF ReadHistory, Store!GetHistory
    <2>5. Append(h, User(x)) \in Seq(Store!Slot)
      BY <2>2, AppendProperties, Slots
    <2> HIDE DEF h
    <2>6. prompt'[x] = Append(h, User(x)) /\ \A y \in Run \ {x} : prompt'[y] = prompt[y]
      BY <2>4
    <2> QED
      BY <2>2, <2>3, <2>4, <2>5, <2>6
  <1> QED
    BY <1>1, <1>2, PromptChanges

PromptInv ==
    /\ prompt \in [Run -> Seq(Store!Slot)]
    /\ \A r \in Run : Grounded(prompt[r])
    /\ RequestOnceInPrompt

IInv == StoreInv /\ RunInv /\ HistoryInv /\ PromptInv

LEMMA InvInit == Init => IInv
  <1> SUFFICES ASSUME Init PROVE IInv
    OBVIOUS
  <1>1. \A r \in Run : prompt[r] = <<>>
    BY DEF Init
  <1>2. prompt \in [Run -> Seq(Store!Slot)]
    BY EmptySeq DEF Init
  <1>3. PromptInv
    BY <1>1, <1>2, NothingGrounded DEF PromptInv, RequestOnceInPrompt
  <1> QED
    BY <1>3, InitRun, InitHistory, StoreInit DEF Init, IInv

LEMMA PromptStep == IInv /\ [Next]_vars => PromptInv'
  <1> SUFFICES ASSUME IInv, [Next]_vars PROVE PromptInv'
    OBVIOUS
  <1>1. StoreInv /\ RunInv /\ HistoryInv /\ prompt \in [Run -> Seq(Store!Slot)]
    BY DEF IInv, PromptInv
  <1>2. prompt' \in [Run -> Seq(Store!Slot)]
    BY <1>1, PromptBuilt, PromptChanges DEF PromptInv
  <1>3. ASSUME NEW r \in Run
        PROVE  /\ Grounded(prompt'[r])
               /\ prompt'[r] # <<>> =>
                    {i \in 1..Len(prompt'[r]) : prompt'[r][i] = User(r)} = {Len(prompt'[r])}
    <2>1. \/ prompt'[r] = prompt[r]
          \/ \E h \in Seq(Store!Slot) :
                Grounded(h) /\ ~Occurs(User(r), h) /\ prompt'[r] = Append(h, User(r))
      BY <1>1, PromptBuilt
    <2>2. CASE prompt'[r] = prompt[r]
      BY <2>2 DEF IInv, PromptInv, RequestOnceInPrompt
    <2>3. ASSUME NEW h \in Seq(Store!Slot), Grounded(h), ~Occurs(User(r), h),
                 prompt'[r] = Append(h, User(r))
          PROVE  /\ Grounded(prompt'[r])
                 /\ {i \in 1..Len(prompt'[r]) : prompt'[r][i] = User(r)} = {Len(prompt'[r])}
      <3>1. User(r) \in Store!Slot /\ User(r).kind = "user"
        BY Slots DEF User, Content
      <3>2. Grounded(prompt'[r])
        BY <2>3, <3>1, GroundedAppend
      <3>3. /\ Len(prompt'[r]) = Len(h) + 1 /\ Len(h) \in Nat
            /\ \A i \in 1..Len(h) : prompt'[r][i] = h[i]
            /\ prompt'[r][Len(h) + 1] = User(r)
        BY <2>3, <3>1, AppendProperties, LenProperties
      <3>4. \A i \in 1..Len(h) : h[i] # User(r)
        BY <2>3 DEF Occurs
      <3>5. \A i \in 1..(Len(h) + 1) : prompt'[r][i] = User(r) => i = Len(h) + 1
        <4> SUFFICES ASSUME NEW i \in 1..(Len(h) + 1), prompt'[r][i] = User(r), i # Len(h) + 1
                     PROVE  FALSE
          OBVIOUS
        <4>1. i \in 1..Len(h)
          BY <3>3
        <4> QED
          BY <3>3, <3>4, <4>1
      <3>6. Len(h) + 1 \in 1..(Len(h) + 1)
        BY <3>3
      <3> QED
        BY <3>2, <3>3, <3>5, <3>6
    <2> QED
      BY <2>1, <2>2, <2>3
  <1>4. \A r \in Run : Grounded(prompt[r])'
    BY <1>3 DEF Grounded, AskedBefore, User
  <1>5. RequestOnceInPrompt'
    BY <1>3 DEF RequestOnceInPrompt, User
  <1> QED
    BY <1>2, <1>4, <1>5 DEF PromptInv

LEMMA InvStep == IInv /\ [Next]_vars => IInv'
  BY StepUses, StoreStep, RunStep, HistoryStep, PromptStep DEF IInv

LEMMA Invariance == Spec => []IInv
  BY InvInit, InvStep, PTL DEF Spec

-----------------------------------------------------------------------------
(* The theorems. *)

\* The loop, the streams and their readers, what is published and the store hold values of
\* their types (loop.go:101-194, stream_callback.go:49-148).
THEOREM TypeCorrect == Spec => []TypeOK
  <1>1. IInv => TypeOK
    <2> SUFFICES ASSUME IInv PROVE TypeOK
      OBVIOUS
    <2>1. \A r \in Run : \A i \in 1..Len(events[r]) : events[r][i] \in EventOf
      BY ElementOfSeq DEF IInv, RunInv, RunTypes
    <2>2. prompt \in [Run -> Seq(Content \cup {Nothing})]
      BY Slots DEF IInv, PromptInv
    <2> QED
      BY <2>1, <2>2 DEF IInv, RunInv, RunTypes, StoreInv, Places, StreamOf, EventOf, TypeOK
  <1> QED
    BY <1>1, Invariance, PTL

\* In the history of any session, and in any prompt built from it, what a run said stands
\* after its request, whatever the goroutines that append the two, other runs, Saves, deleted
\* rows and restarts do (loop.go:117, stream_callback.go:115,129).
THEOREM AnswersComeAfter == Spec => []AnswersFollowRequest
  <1>1. IInv => AnswersFollowRequest
    <2> SUFFICES ASSUME IInv PROVE AnswersFollowRequest
      OBVIOUS
    <2>1. \A log \in {messages[s] : s \in 1..MaxSessions} \cup {prompt[r] : r \in Run} :
             Grounded(log)
      BY LogTypes DEF IInv, HistoryInv, PromptInv, Store!Session
    <2> QED
      BY <2>1 DEF AnswersFollowRequest, Grounded
  <1> QED
    BY <1>1, Invariance, PTL

\* The model is sent the request of its run exactly once, as the last message of the prompt,
\* though the history that precedes it is shared with other runs (loop.go:110-117).
THEOREM RequestIsLast == Spec => []RequestOnceInPrompt
  <1>1. IInv => RequestOnceInPrompt
    BY DEF IInv, PromptInv
  <1> QED
    BY <1>1, Invariance, PTL

LEMMA Publishing ==
    ASSUME IInv, [Next]_vars, NEW r \in Run, Len(events'[r]) > Len(events[r])
    PROVE  \/ \E k \in 1..Opened(r) : AnnounceCall(r, k) /\ events'[r][Len(events'[r])].k = k
           \/ events'[r][Len(events'[r])].type # "tool.call"
  <1>1. \A x \in Run : events[x] \in Seq(EventOf) /\ Len(events[x]) \in Nat
    BY LenProperties DEF IInv, RunInv, RunTypes
  <1>2. ~(events'[r] = events[r])
    BY <1>1
  <1>3. ASSUME NEW x \in Run, NEW type, NEW k, Publish(x, type, k), [type |-> type, k |-> k] \in EventOf
        PROVE  x = r /\ events'[r][Len(events'[r])] = [type |-> type, k |-> k]
    <2>1. events' = [events EXCEPT ![x] = Append(@, [type |-> type, k |-> k])]
      BY <1>3 DEF Publish
    <2>2. x = r /\ events'[r] = Append(events[r], [type |-> type, k |-> k])
      BY <1>2, <2>1 DEF IInv, RunInv, RunTypes
    <2> QED
      BY <1>1, <1>3, <2>2, AppendProperties
  <1>4. \A x \in Run : 0 \in {0} \cup Stream /\ \A k \in 1..Opened(x) : k \in {0} \cup Stream
    BY OfRuns DEF IInv
  <1>5. CASE \E x \in Run : RunStarted(x) \/ RunCompleted(x)
    <2>1. /\ [type |-> "run.started", k |-> 0] \in EventOf
          /\ [type |-> "run.completed", k |-> 0] \in EventOf
      BY DEF EventOf
    <2> QED
      BY <1>3, <1>5, <2>1 DEF RunStarted, RunCompleted
  <1>6. ASSUME NEW x \in Run, NEW k \in 1..Opened(x), Callback(x, k)
        PROVE  \/ x = r /\ AnnounceCall(r, k) /\ events'[r][Len(events'[r])].k = k
               \/ events'[r][Len(events'[r])].type # "tool.call"
    <2>1. \A type \in {"chunk", "tool.call", "tool.result"} : [type |-> type, k |-> k] \in EventOf
      BY <1>4 DEF EventOf
    <2>2. CASE ReceiveFrame(x, k)
      BY <1>3, <2>1, <2>2 DEF ReceiveFrame
    <2>3. CASE AnnounceCall(x, k)
      <3>1. x = r /\ events'[r][Len(events'[r])] = [type |-> "tool.call", k |-> k]
        BY <1>3, <2>1, <2>3 DEF AnnounceCall
      <3> QED
        BY <2>3, <3>1
    <2>4. CASE ReceiveError(x, k) \/ ReceiveEof(x, k) \/ Record(x, k) \/ Recorded(x, k)
      BY <1>2, <2>4 DEF ReceiveError, ReceiveEof, Record, Recorded
    <2> QED
      BY <1>6, <2>2, <2>3, <2>4 DEF Callback
  <1>7. CASE \E x \in Run : /\ Loop(x)
                            /\ ~(RunStarted(x) \/ RunCompleted(x))
    BY <1>2, <1>7 DEF Loop, ReadHistory, AddUser, UserAdded, Collected, RunError, SaveStart,
                      SaveStep, SaveEnd
  <1>8. CASE \/ \E x \in Run : OpenStream(x) \/ CloseStream(x)
             \/ SessionHandlers \/ (\E ok \in LoadOutcomes : Restart(ok)) \/ UNCHANGED vars
    BY <1>2, <1>8 DEF OpenStream, CloseStream, SessionHandlers, Restart, vars
  <1> QED
    BY <1>5, <1>6, <1>7, <1>8 DEF Next

\* When a tool call is announced to the client it is in the history of its session, so that
\* chat.history returns it: no other run, Save or restart takes it away between the append and
\* the announcement (stream_callback.go:129-138).
THEOREM CallsAreReadable == Spec => CallRecordedFirst
  <1> DEFINE Step ==
        \A r \in Run : Len(events'[r]) > Len(events[r]) =>
          LET e == events'[r][Len(events'[r])]
          IN e.type = "tool.call" => Occurs(Said(r, e.k), messages[SessionOf[r]])
  <1>1. IInv /\ [Next]_vars => Step
    <2> SUFFICES ASSUME IInv, [Next]_vars, NEW r \in Run, Len(events'[r]) > Len(events[r]),
                        events'[r][Len(events'[r])].type = "tool.call"
                 PROVE  Occurs(Said(r, events'[r][Len(events'[r])].k), messages[SessionOf[r]])
      OBVIOUS
    <2>1. PICK k \in 1..Opened(r) :
            AnnounceCall(r, k) /\ events'[r][Len(events'[r])].k = k
      BY Publishing
    <2> QED
      BY <2>1 DEF AnnounceCall, IInv, HistoryInv, Announced
  <1>2. IInv /\ [Next]_vars => [Step]_vars
    BY <1>1
  <1> QED
    BY <1>2, Invariance, PTL DEF Spec, CallRecordedFirst
=============================================================================
