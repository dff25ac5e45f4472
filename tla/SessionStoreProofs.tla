------------------------- MODULE SessionStoreProofs -------------------------
(***************************************************************************)
(* Proofs about SessionStore for any threads, messages and bounds.         *)
(***************************************************************************)
EXTENDS SessionStore, SequenceTheorems, TLAPS

-----------------------------------------------------------------------------
(* The inductive invariant, beyond the types. *)

\* A row that does not exist holds nothing: CreateSession inserts NULL messages.
NoRowNoMessages == \A s \in Session \ rows : row[s] = EmptyRow

\* While an append is in progress its slot is the last one, and still empty.
SlotEmpty == \A a \in adding :
    /\ Len(messages[a.session]) > 0
    /\ messages[a.session][Len(messages[a.session])] = Blank

HasSnapshot(t) == saves[t].pc \in {"marshalled", "ready"}

\* What a Save is about to write is a prefix of the session, and its count covers it.
SnapshotIsPrefix == \A t \in Thread : HasSnapshot(t) =>
    /\ StoredPrefix(saves[t].messages, messages[saves[t].session])
    /\ saves[t].pc = "ready" => Len(saves[t].messages) <= saves[t].count

\* A Save that has begun is of some session.
SaveHasSession == \A t \in Thread : saves[t].pc # "idle" => saves[t].session \in Session

\* RowIsPrefix, for the sessions without a row or an entry too.
RowsArePrefixes == loaded => \A s \in Session : StoredPrefix(row[s].messages, messages[s])

\* A Save that no other Save has overtaken holds at least what the row holds.
CurrentSnapshotsCover == loaded => \A t \in Thread \ overtaken : HasSnapshot(t) =>
    Len(row[saves[t].session].messages) <= Len(saves[t].messages)

IInv ==
    /\ TypeOK
    /\ NoRowNoMessages
    /\ SlotEmpty
    /\ SaveHasSession
    /\ SnapshotIsPrefix
    /\ RowsArePrefixes
    /\ CountCovers
    /\ CurrentSnapshotsCover

-----------------------------------------------------------------------------
(* Sequences: appending, filling the last slot, taking a snapshot. *)

\* A snapshot is a sequence of slots as long as the log (Save's marshalling).
LEMMA SnapshotSeq ==
    ASSUME NEW log \in Seq(Slot), NEW n
    PROVE  /\ Snapshot(log, n) \in Seq(Slot)
           /\ Len(Snapshot(log, n)) = Len(log)
           /\ \A i \in 1..Len(log) : Snapshot(log, n)[i] \in {log[i], Blank}
<1>1. Len(log) \in Nat
  BY LenProperties
<1>2. \A i \in 1..Len(log) : log[i] \in Slot /\ Blank \in Slot
  BY ElementOfSeq DEF Slot
<1>3. Snapshot(log, n) \in [1..Len(log) -> Slot]
  BY <1>2 DEF Snapshot
<1>4. Snapshot(log, n) \in Seq(Slot)
  BY <1>1, <1>3
<1>5. Len(Snapshot(log, n)) = Len(log)
  BY <1>1, <1>3, <1>4
<1>6. \A i \in 1..Len(log) : Snapshot(log, n)[i] \in {log[i], Blank}
  BY DEF Snapshot
<1> QED
  BY <1>4, <1>5, <1>6

\* What was a prefix of a log is one of the log with another slot (AddFullMessage).
LEMMA PrefixOfAppend ==
    ASSUME NEW stored \in Seq(Slot), NEW log \in Seq(Slot), NEW x \in Slot,
           StoredPrefix(stored, log)
    PROVE  StoredPrefix(stored, Append(log, x))
<1>1. Len(stored) \in Nat /\ Len(log) \in Nat
  BY LenProperties
<1>2. Len(Append(log, x)) = Len(log) + 1
  OBVIOUS
<1>3. \A i \in 1..Len(log) : Append(log, x)[i] = log[i]
  OBVIOUS
<1> QED
  BY <1>1, <1>2, <1>3 DEF StoredPrefix

\* ... and of the log whose empty last slot is filled.
LEMMA PrefixOfFilled ==
    ASSUME NEW stored \in Seq(Slot), NEW log \in Seq(Slot), NEW x \in Slot,
           Len(log) > 0, log[Len(log)] = Blank,
           StoredPrefix(stored, log)
    PROVE  StoredPrefix(stored, [log EXCEPT ![Len(log)] = x])
<1> DEFINE filled == [log EXCEPT ![Len(log)] = x]
<1>1. Len(stored) \in Nat /\ Len(log) \in Nat
  BY LenProperties
<1>2. Len(log) \in 1..Len(log)
  BY <1>1
<1>3. /\ Len(filled) = Len(log)
      /\ \A j \in 1..Len(log) : filled[j] = IF j = Len(log) THEN x ELSE log[j]
  BY <1>2, ExceptSeq
<1>4. ASSUME NEW i \in 1..Len(stored)
      PROVE  stored[i] \in {filled[i], Blank}
  <2>1. i \in 1..Len(log) /\ stored[i] \in {log[i], Blank}
    BY <1>1 DEF StoredPrefix
  <2> QED
    BY <1>3, <2>1
<1> QED
  BY <1>1, <1>3, <1>4 DEF StoredPrefix

\* Every log is a prefix of itself (loadAll).
LEMMA PrefixOfItself ==
    ASSUME NEW log \in Seq(Slot)
    PROVE  StoredPrefix(log, log)
  BY LenProperties DEF StoredPrefix

\* Nothing is a prefix of any log.
LEMMA NothingIsPrefix ==
    ASSUME NEW log \in Seq(Slot)
    PROVE  StoredPrefix(<<>>, log)
  BY LenProperties DEF StoredPrefix

-----------------------------------------------------------------------------
(* IInv is an invariant: it holds at first, and every action keeps it. *)

USE StoreAssumption

LEMMA IdleAndEmpty ==
    /\ Idle \in Save
    /\ Idle.pc = "idle"
    /\ EmptyRow \in Row
    /\ EmptyRow.messages = <<>>
    /\ Len(EmptyRow.messages) = 0
    /\ EmptyRow.count = 0
  BY EmptySeq DEF Idle, Save, Slot, EmptyRow, Row

LEMMA InvInit == Init => IInv
<1> SUFFICES ASSUME Init PROVE IInv
  OBVIOUS
<1>1. TypeOK
  BY EmptySeq, IdleAndEmpty DEF Init, TypeOK
<1>2. NoRowNoMessages /\ SlotEmpty /\ CountCovers
  BY DEF Init, NoRowNoMessages, SlotEmpty, CountCovers
<1>3. SaveHasSession /\ SnapshotIsPrefix /\ CurrentSnapshotsCover
  BY IdleAndEmpty
  DEF Init, SaveHasSession, SnapshotIsPrefix, CurrentSnapshotsCover, HasSnapshot
<1>4. RowsArePrefixes
  BY EmptySeq, NothingIsPrefix, IdleAndEmpty DEF Init, RowsArePrefixes
<1> QED
  BY <1>1, <1>2, <1>3, <1>4 DEF IInv

LEMMA CreateStep ==
    ASSUME IInv, Create
    PROVE  IInv'
<1> USE DEF IInv, Create
<1>1. TypeOK'
  BY DEF TypeOK, Session
<1>2. NoRowNoMessages' /\ SlotEmpty' /\ SaveHasSession'
  BY DEF NoRowNoMessages, SlotEmpty, SaveHasSession
<1>3. SnapshotIsPrefix' /\ RowsArePrefixes' /\ CurrentSnapshotsCover'
  BY DEF SnapshotIsPrefix, RowsArePrefixes, CurrentSnapshotsCover, HasSnapshot
<1>4. CountCovers'
  BY IdleAndEmpty DEF CountCovers, NoRowNoMessages
<1> QED
  BY <1>1, <1>2, <1>3, <1>4

LEMMA DeleteStep ==
    ASSUME IInv, NEW s \in Session, Delete(s)
    PROVE  IInv'
<1> USE DEF IInv, Delete
<1>1. TypeOK'
  BY IdleAndEmpty DEF TypeOK
<1>2. NoRowNoMessages' /\ SlotEmpty' /\ SaveHasSession' /\ SnapshotIsPrefix'
  BY DEF TypeOK, NoRowNoMessages, SlotEmpty, SaveHasSession, SnapshotIsPrefix, HasSnapshot
<1>3. RowsArePrefixes'
  BY NothingIsPrefix, IdleAndEmpty DEF TypeOK, RowsArePrefixes
<1>4. CountCovers'
  BY DEF TypeOK, CountCovers
<1>5. CurrentSnapshotsCover'
  <2> SUFFICES ASSUME loaded, NEW t \in Thread \ overtaken, HasSnapshot(t)
               PROVE  Len(row'[saves[t].session].messages) <= Len(saves[t].messages)
    BY DEF CurrentSnapshotsCover, HasSnapshot
  <2>1. Len(saves[t].messages) \in Nat
    BY LenProperties DEF TypeOK, Save
  <2> QED
    BY <2>1, IdleAndEmpty DEF TypeOK, CurrentSnapshotsCover, SaveHasSession, HasSnapshot
<1> QED
  BY <1>1, <1>2, <1>3, <1>4, <1>5

LEMMA AddBeginStep ==
    ASSUME IInv, NEW t \in Thread, NEW s \in Session, NEW m \in Message, AddBegin(t, s, m)
    PROVE  IInv'
<1> USE DEF IInv, AddBegin
<1>1. /\ messages[s] \in Seq(Slot)
      /\ Blank \in Slot
      /\ Append(messages[s], Blank) \in Seq(Slot)
      /\ Len(messages[s]) \in Nat
  BY LenProperties DEF TypeOK, Slot
<1>2. messages' \in [Session -> Seq(Slot)]
  BY <1>1 DEF TypeOK
<1>3. TypeOK'
  BY <1>2 DEF TypeOK, Append1
<1>4. \A x \in Session : \A stored \in Seq(Slot) :
         StoredPrefix(stored, messages[x]) => StoredPrefix(stored, messages'[x])
  BY <1>1, PrefixOfAppend DEF TypeOK
<1>5. SlotEmpty'
  <2>1. messages'[s] = Append(messages[s], Blank)
    BY DEF TypeOK
  <2>2. /\ Len(messages'[s]) = Len(messages[s]) + 1
        /\ messages'[s][Len(messages'[s])] = Blank
    BY <1>1, <2>1
  <2> QED
    BY <1>1, <2>2 DEF SlotEmpty
<1>6. NoRowNoMessages' /\ SaveHasSession' /\ CountCovers' /\ CurrentSnapshotsCover'
  BY DEF NoRowNoMessages, SaveHasSession, CountCovers, CurrentSnapshotsCover, HasSnapshot
<1>7. SnapshotIsPrefix'
  BY <1>4 DEF TypeOK, Save, SnapshotIsPrefix, SaveHasSession, HasSnapshot
<1>8. RowsArePrefixes'
  BY <1>4 DEF TypeOK, Row, RowsArePrefixes
<1> QED
  BY <1>3, <1>5, <1>6, <1>7, <1>8

LEMMA AddEndStep ==
    ASSUME IInv, NEW t \in Thread, AddEnd(t)
    PROVE  IInv'
<1> USE DEF IInv
<1>1. PICK a \in adding :
         /\ messages' = [messages EXCEPT ![a.session][Len(messages[a.session])] = a.message]
         /\ adding' = {}
         /\ UNCHANGED <<cached, saves, rows, row, nextId, loaded, overtaken>>
  BY DEF AddEnd
<1> DEFINE log == messages[a.session]
           filled == [log EXCEPT ![Len(log)] = a.message]
<1>2. a.session \in Session /\ a.message \in Slot /\ log \in Seq(Slot)
  BY DEF TypeOK, Append1, Slot
<1>3. Len(log) \in 1..Len(log) /\ log[Len(log)] = Blank
  BY <1>2, LenProperties DEF SlotEmpty
<1>4. filled \in Seq(Slot)
  BY <1>2, <1>3, ExceptSeq
<1>5. messages' = [messages EXCEPT ![a.session] = filled]
  BY <1>1
<1>6. TypeOK'
  BY <1>1, <1>2, <1>4, <1>5 DEF TypeOK
<1>7. \A x \in Session : \A stored \in Seq(Slot) :
         StoredPrefix(stored, messages[x]) => StoredPrefix(stored, messages'[x])
  BY <1>2, <1>3, <1>5, PrefixOfFilled DEF TypeOK
<1>8. NoRowNoMessages' /\ SlotEmpty' /\ SaveHasSession' /\ CountCovers' /\ CurrentSnapshotsCover'
  BY <1>1
  DEF NoRowNoMessages, SlotEmpty, SaveHasSession, CountCovers, CurrentSnapshotsCover, HasSnapshot
<1>9. SnapshotIsPrefix'
  BY <1>1, <1>7 DEF TypeOK, Save, SnapshotIsPrefix, SaveHasSession, HasSnapshot
<1>10. RowsArePrefixes'
  BY <1>1, <1>7 DEF TypeOK, Row, RowsArePrefixes
<1> QED
  BY <1>6, <1>8, <1>9, <1>10

LEMMA SaveBeginStep ==
    ASSUME IInv, NEW t \in Thread, NEW s \in Session, SaveBegin(t, s)
    PROVE  IInv'
<1> USE DEF IInv, SaveBegin
<1>1. Len(messages[s]) \in Nat
  BY LenProperties DEF TypeOK
<1>2. /\ saves' \in [Thread -> Save]
      /\ saves'[t].pc = "found" /\ saves'[t].session = s
      /\ \A u \in Thread \ {t} : saves'[u] = saves[u]
  BY <1>1 DEF TypeOK, Save
<1>3. TypeOK'
  BY <1>2 DEF TypeOK
<1>4. NoRowNoMessages' /\ SlotEmpty' /\ CountCovers' /\ RowsArePrefixes'
  BY DEF NoRowNoMessages, SlotEmpty, CountCovers, RowsArePrefixes
<1>5. SaveHasSession'
  BY <1>2 DEF SaveHasSession
<1>6. SnapshotIsPrefix'
  BY <1>2 DEF SnapshotIsPrefix, HasSnapshot
<1>7. CurrentSnapshotsCover'
  BY <1>2 DEF CurrentSnapshotsCover, HasSnapshot
<1> QED
  BY <1>3, <1>4, <1>5, <1>6, <1>7

LEMMA SaveMarshalStep ==
    ASSUME IInv, NEW t \in Thread, SaveMarshal(t)
    PROVE  IInv'
<1> USE DEF IInv, SaveMarshal
<1> DEFINE s == saves[t].session
           log == messages[s]
<1>1. PICK n : saves' = [saves EXCEPT ![t] = [@ EXCEPT !.pc = "marshalled",
                                                     !.messages = Snapshot(log, n)]]
  OBVIOUS
<1>2. s \in Session /\ log \in Seq(Slot) /\ Len(log) \in Nat
  BY LenProperties DEF TypeOK, SaveHasSession
<1>3. Snapshot(log, n) \in Seq(Slot) /\ StoredPrefix(Snapshot(log, n), log)
  BY <1>2, SnapshotSeq DEF StoredPrefix
<1>4. /\ saves' \in [Thread -> Save]
      /\ saves'[t].pc = "marshalled" /\ saves'[t].session = s
      /\ saves'[t].messages = Snapshot(log, n)
      /\ \A u \in Thread \ {t} : saves'[u] = saves[u]
  <2> DEFINE new == [saves[t] EXCEPT !.pc = "marshalled", !.messages = Snapshot(log, n)]
  <2>1. saves' = [saves EXCEPT ![t] = new]
    BY <1>1
  <2>2. new \in Save /\ new.pc = "marshalled" /\ new.session = s
        /\ new.messages = Snapshot(log, n)
    BY <1>3 DEF TypeOK, Save
  <2> HIDE DEF new
  <2> QED
    BY <2>1, <2>2 DEF TypeOK
<1>5. TypeOK'
  BY <1>4 DEF TypeOK
<1>6. NoRowNoMessages' /\ SlotEmpty' /\ CountCovers' /\ RowsArePrefixes'
  BY DEF NoRowNoMessages, SlotEmpty, CountCovers, RowsArePrefixes
<1>7. SaveHasSession'
  BY <1>2, <1>4 DEF SaveHasSession
<1>8. SnapshotIsPrefix'
  BY <1>3, <1>4 DEF SnapshotIsPrefix, HasSnapshot
<1>9. CurrentSnapshotsCover'
  <2>1. loaded => Len(row[s].messages) <= Len(Snapshot(log, n))
    BY <1>2, SnapshotSeq DEF RowsArePrefixes, StoredPrefix
  <2> QED
    BY <1>4, <2>1 DEF CurrentSnapshotsCover, HasSnapshot
<1> QED
  BY <1>5, <1>6, <1>7, <1>8, <1>9

LEMMA SaveCountStep ==
    ASSUME IInv, NEW t \in Thread, SaveCount(t)
    PROVE  IInv'
<1> USE DEF IInv, SaveCount
<1> DEFINE s == saves[t].session
           log == messages[s]
<1>1. s \in Session /\ log \in Seq(Slot) /\ Len(log) \in Nat
  BY LenProperties DEF TypeOK, SaveHasSession
<1>2. (IF log = <<>> THEN Blank ELSE log[1]) \in Slot
  <2>1. CASE log = <<>>
    BY <2>1 DEF Slot
  <2>2. CASE log # <<>>
    BY <1>1, <2>2, EmptySeq, ElementOfSeq
  <2> QED
    BY <2>1, <2>2
<1>3. /\ saves' \in [Thread -> Save]
      /\ saves'[t].pc = "ready" /\ saves'[t].session = s
      /\ saves'[t].messages = saves[t].messages
      /\ saves'[t].count = Len(log)
      /\ \A u \in Thread \ {t} : saves'[u] = saves[u]
  <2> DEFINE label == IF log = <<>> THEN Blank ELSE log[1]
             new == [saves[t] EXCEPT !.pc = "ready", !.count = Len(log), !.label = label]
  <2>1. saves' = [saves EXCEPT ![t] = new]
    BY DEF MessagesCount
  <2>2. label \in Slot
    BY <1>2
  <2> HIDE DEF label
  <2>3. new \in Save /\ new.pc = "ready" /\ new.session = s
        /\ new.messages = saves[t].messages /\ new.count = Len(log)
    BY <1>1, <2>2 DEF TypeOK, Save
  <2> HIDE DEF new
  <2> QED
    BY <2>1, <2>3 DEF TypeOK
<1>4. TypeOK'
  BY <1>3 DEF TypeOK
<1>5. NoRowNoMessages' /\ SlotEmpty' /\ CountCovers' /\ RowsArePrefixes'
  BY DEF NoRowNoMessages, SlotEmpty, CountCovers, RowsArePrefixes
<1>6. SaveHasSession'
  BY <1>1, <1>3 DEF SaveHasSession
<1>7. SnapshotIsPrefix'
  BY <1>3 DEF SnapshotIsPrefix, HasSnapshot, StoredPrefix
<1>8. CurrentSnapshotsCover'
  BY <1>3 DEF CurrentSnapshotsCover, HasSnapshot
<1> QED
  BY <1>4, <1>5, <1>6, <1>7, <1>8

LEMMA SaveUpdateStep ==
    ASSUME IInv, NEW t \in Thread, SaveUpdate(t)
    PROVE  IInv'
<1> USE DEF IInv, SaveUpdate
<1> DEFINE s == saves[t].session
           new == [messages |-> saves[t].messages, count |-> saves[t].count]
<1>1. /\ s \in rows /\ s \in Session
      /\ new \in Row
      /\ row' = [row EXCEPT ![s] = new]
  BY DEF TypeOK, Save, Row
<1>2. /\ saves' \in [Thread -> Save]
      /\ saves'[t].pc = "idle"
      /\ \A u \in Thread \ {t} : saves'[u] = saves[u]
  BY IdleAndEmpty DEF TypeOK
<1>3. StoredPrefix(new.messages, messages[s]) /\ Len(new.messages) <= new.count
  BY DEF SnapshotIsPrefix, HasSnapshot
<1>4. TypeOK'
  BY <1>1, <1>2 DEF TypeOK, Outdated
<1>5. NoRowNoMessages' /\ SlotEmpty' /\ SaveHasSession' /\ SnapshotIsPrefix'
  BY <1>1, <1>2
  DEF TypeOK, NoRowNoMessages, SlotEmpty, SaveHasSession, SnapshotIsPrefix, HasSnapshot
<1>6. CountCovers' /\ RowsArePrefixes'
  BY <1>1, <1>3 DEF TypeOK, CountCovers, RowsArePrefixes
<1>7. CurrentSnapshotsCover'
  <2> SUFFICES ASSUME loaded, NEW u \in Thread \ overtaken', HasSnapshot(u)'
               PROVE  Len(row'[saves'[u].session].messages) <= Len(saves'[u].messages)
    BY DEF CurrentSnapshotsCover
  <2>1. u # t /\ saves'[u] = saves[u] /\ u \notin overtaken /\ HasSnapshot(u)
    BY <1>2 DEF HasSnapshot
  <2>2. saves[u].session # s
    BY <2>1 DEF Outdated, HasSnapshot
  <2>3. saves[u].session \in Session
    BY <2>1 DEF SaveHasSession, HasSnapshot
  <2> QED
    BY <1>1, <2>1, <2>2, <2>3 DEF TypeOK, CurrentSnapshotsCover
<1> QED
  BY <1>4, <1>5, <1>6, <1>7

LEMMA SaveMissStep ==
    ASSUME IInv, NEW t \in Thread, SaveMiss(t)
    PROVE  IInv'
<1> USE DEF IInv, SaveMiss
<1>1. /\ saves' \in [Thread -> Save]
      /\ saves'[t].pc = "idle"
      /\ \A u \in Thread \ {t} : saves'[u] = saves[u]
  BY IdleAndEmpty DEF TypeOK
<1>2. TypeOK'
  BY <1>1 DEF TypeOK
<1>3. NoRowNoMessages' /\ SlotEmpty' /\ CountCovers' /\ RowsArePrefixes'
  BY DEF NoRowNoMessages, SlotEmpty, CountCovers, RowsArePrefixes
<1>4. SaveHasSession' /\ SnapshotIsPrefix' /\ CurrentSnapshotsCover'
  BY <1>1 DEF SaveHasSession, SnapshotIsPrefix, CurrentSnapshotsCover, HasSnapshot
<1> QED
  BY <1>2, <1>3, <1>4

LEMMA RestartStep ==
    ASSUME IInv, NEW ok \in LoadOutcomes, Restart(ok)
    PROVE  IInv'
<1> USE DEF IInv, Restart, Load
<1>1. /\ saves' \in [Thread -> Save]
      /\ \A t \in Thread : saves'[t].pc = "idle"
  BY IdleAndEmpty
<1>2. TypeOK'
  BY <1>1, EmptySeq DEF TypeOK, Row
<1>3. NoRowNoMessages' /\ SlotEmpty' /\ CountCovers'
  BY DEF NoRowNoMessages, SlotEmpty, CountCovers
<1>4. SaveHasSession' /\ SnapshotIsPrefix' /\ CurrentSnapshotsCover'
  BY <1>1 DEF SaveHasSession, SnapshotIsPrefix, CurrentSnapshotsCover, HasSnapshot
<1>5. RowsArePrefixes'
  <2> SUFFICES ASSUME ok = TRUE, NEW s \in Session
               PROVE  StoredPrefix(row[s].messages, messages'[s])
    BY DEF RowsArePrefixes
  <2>1. CASE s \in rows
    BY <2>1, PrefixOfItself DEF TypeOK, Row
  <2>2. CASE s \notin rows
    BY <2>2, IdleAndEmpty, EmptySeq, NothingIsPrefix DEF NoRowNoMessages
  <2> QED
    BY <2>1, <2>2
<1> QED
  BY <1>2, <1>3, <1>4, <1>5

LEMMA InvStep == IInv /\ [Next]_vars => IInv'
<1> SUFFICES ASSUME IInv, [Next]_vars PROVE IInv'
  OBVIOUS
<1>1. CASE Next
  BY <1>1, CreateStep, DeleteStep, AddBeginStep, AddEndStep, SaveBeginStep, SaveMarshalStep,
     SaveCountStep, SaveUpdateStep, SaveMissStep, RestartStep DEF Next
<1>2. CASE UNCHANGED vars
  BY <1>2 DEF vars, IInv, TypeOK, NoRowNoMessages, SlotEmpty, SaveHasSession, SnapshotIsPrefix,
              RowsArePrefixes, CountCovers, CurrentSnapshotsCover, HasSnapshot
<1> QED
  BY <1>1, <1>2

-----------------------------------------------------------------------------
(* The theorems. *)

LEMMA Invariance == Spec => []IInv
  BY InvInit, InvStep, PTL DEF Spec

\* Every variable keeps its type.
THEOREM TypeCorrect == Spec => []TypeOK
<1>1. IInv => TypeOK
  BY DEF IInv
<1> QED
  BY <1>1, Invariance, PTL

\* The row of a session is a prefix of its history in memory, however appends,
\* unlocked Saves, deletions and restarts interleave (session_store.go:145-224).
THEOREM RowsAreHistories == Spec => []RowIsPrefix
<1>1. IInv => RowIsPrefix
  BY DEF IInv, TypeOK, RowsArePrefixes, RowIsPrefix
<1> QED
  BY <1>1, Invariance, PTL

\* messages_count covers the messages a row holds (session_store.go:155-173).
THEOREM CountsCover == Spec => []CountCovers
<1>1. IInv => CountCovers
  BY DEF IInv
<1> QED
  BY <1>1, Invariance, PTL

\* A row loses messages only when loadAll failed, or to a Save that another Save of
\* the session has overtaken (session_store.go:145-185).
THEOREM LossesNeedOverlap == Spec => LossNeedsOverlap
<1> DEFINE A == \A s \in rows \cap rows' :
                   Len(row'[s].messages) < Len(row[s].messages) =>
                      \/ ~loaded
                      \/ \E t \in overtaken : saves[t].pc = "ready" /\ saves[t].session = s
<1>1. IInv /\ [Next]_vars => [A]_vars
  <2> SUFFICES ASSUME IInv, Next,
                      NEW s \in rows \cap rows', loaded,
                      Len(row'[s].messages) < Len(row[s].messages)
               PROVE  \E t \in overtaken : saves[t].pc = "ready" /\ saves[t].session = s
    BY DEF IInv, TypeOK
  <2> USE DEF IInv, TypeOK
  <2>1. s \in Session /\ Len(row[s].messages) \in Nat
    BY LenProperties DEF Row
  <2>2. row'[s] # row[s]
    BY <2>1
  <2>3. ~ \E x \in Session : Delete(x)
    BY <2>1, <2>2 DEF Delete
  <2>4. PICK t \in Thread : SaveUpdate(t)
    BY <2>1, <2>2, <2>3
    DEF Next, Create, AddBegin, AddEnd, SaveBegin, SaveMarshal, SaveCount, SaveMiss, Restart
  <2>5. /\ saves[t].pc = "ready" /\ saves[t].session = s
        /\ row'[s].messages = saves[t].messages
    BY <2>1, <2>2, <2>4 DEF SaveUpdate
  <2>6. Len(saves[t].messages) \in Nat
    BY LenProperties DEF Save
  <2>7. t \in overtaken
    BY <2>1, <2>5, <2>6 DEF CurrentSnapshotsCover, HasSnapshot
  <2> QED
    BY <2>5, <2>7
<1> QED
  BY <1>1, Invariance, PTL DEF Spec, LossNeedsOverlap

\* No Save, begun before the deletion or after it, brings back a session that was
\* deleted: ids are not used again, and an UPDATE adds no row (session_store.go:161-178).
THEOREM DeletedForGood == Spec => DeletedStaysDeleted
<1> DEFINE A == \A s \in Session : s < nextId /\ s \notin rows =>
                   s \notin rows' /\ row'[s] = EmptyRow
<1>1. IInv /\ [Next]_vars => [A]_vars
  <2> SUFFICES ASSUME IInv, Next, NEW s \in Session, s < nextId, s \notin rows
               PROVE  s \notin rows' /\ row'[s] = EmptyRow
    OBVIOUS
  <2> USE DEF IInv, TypeOK
  <2>1. row[s] = EmptyRow
    BY DEF NoRowNoMessages
  <2>2. CASE Create
    BY <2>1, <2>2 DEF Create
  <2>3. CASE \E x \in Session : Delete(x)
    BY <2>1, <2>3 DEF Delete
  <2>4. CASE \E t \in Thread : SaveUpdate(t)
    BY <2>1, <2>4 DEF SaveUpdate
  <2>5. CASE UNCHANGED <<rows, row>>
    BY <2>1, <2>5
  <2> QED
    BY <2>2, <2>3, <2>4, <2>5
    DEF Next, AddBegin, AddEnd, SaveBegin, SaveMarshal, SaveCount, SaveMiss, Restart
<1> QED
  BY <1>1, Invariance, PTL DEF Spec, DeletedStaysDeleted

-----------------------------------------------------------------------------
(* The store implements the durable log. *)

durableLog == [s \in Session |-> row[s].messages]

LEMMA LogInit == Init => Log!Init
  BY IdleAndEmpty DEF Init, Log!Init, Log!Session, Session

\* What a Save writes is a prefix of the log with some slots empty.
LEMMA UpdatePersists ==
    ASSUME IInv, NEW t \in Thread, SaveUpdate(t)
    PROVE  Log!Persist(saves[t].session)
<1> USE DEF IInv, TypeOK, SaveUpdate
<1> DEFINE s == saves[t].session
           stored == saves[t].messages
           log == messages[s]
           torn == {i \in 1..Len(stored) : stored[i] # log[i]}
<1>1. s \in Session /\ stored \in Seq(Slot) /\ Len(stored) \in Nat
      /\ log \in Seq(Slot) /\ Len(log) \in Nat
  BY LenProperties DEF Save
<1>2. StoredPrefix(stored, log)
  BY DEF SnapshotIsPrefix, HasSnapshot
<1>3. Len(stored) \in 0..Len(log) /\ torn \in SUBSET (1..Len(stored))
  BY <1>1, <1>2 DEF StoredPrefix
<1>4. stored = Log!Prefix(s, Len(stored), torn)
  <2>1. stored = [i \in 1..Len(stored) |-> stored[i]]
    BY <1>1, LenProperties
  <2>2. \A i \in 1..Len(stored) : stored[i] = IF i \in torn THEN Blank ELSE log[i]
    BY <1>2 DEF StoredPrefix
  <2> QED
    BY <2>1, <2>2 DEF Log!Prefix
<1>5. durableLog' = [durableLog EXCEPT ![s] = stored]
  BY <1>1 DEF durableLog, Row
<1>6. durableLog' = [durableLog EXCEPT ![s] = Log!Prefix(s, Len(stored), torn)]
  BY <1>4, <1>5
<1> QED
  BY <1>3, <1>6 DEF Log!Persist, durableLog

LEMMA LogStep == IInv /\ [Next]_vars => [Log!Next]_<<messages, durableLog>>
<1> SUFFICES ASSUME IInv, [Next]_vars
             PROVE  [Log!Next]_<<messages, durableLog>>
  OBVIOUS
<1> USE DEF IInv, TypeOK, durableLog, Session, Log!Session
<1>1. ASSUME NEW s \in Session, Delete(s)
      PROVE  Log!Forget(s)
  BY <1>1, IdleAndEmpty DEF Delete, Log!Forget, Row
<1>2. ASSUME NEW t \in Thread, NEW s \in Session, NEW m \in Message, AddBegin(t, s, m)
      PROVE  Log!Grow(s)
  BY <1>2 DEF AddBegin, Log!Grow
<1>3. ASSUME NEW t \in Thread, AddEnd(t)
      PROVE  \E s \in Session : Log!Fill(s)
  <2>1. PICK a \in adding :
          /\ messages' = [messages EXCEPT ![a.session][Len(messages[a.session])] = a.message]
          /\ UNCHANGED row
    BY <1>3 DEF AddEnd
  <2>2. a.session \in Session /\ a.message \in Message
    BY DEF Append1
  <2>3. /\ messages[a.session] # <<>>
        /\ messages[a.session][Len(messages[a.session])] = Blank
    BY <2>2, EmptySeq DEF SlotEmpty
  <2>4. Log!Fill(a.session)
    BY <2>1, <2>2, <2>3 DEF Log!Fill
  <2> QED
    BY <2>2, <2>4
<1>4. ASSUME NEW t \in Thread, SaveUpdate(t)
      PROVE  \E s \in Session : Log!Persist(s)
  <2>1. saves[t].session \in Session
    BY <1>4 DEF SaveHasSession, SaveUpdate
  <2>2. Log!Persist(saves[t].session)
    BY <1>4, UpdatePersists DEF SaveUpdate
  <2> QED
    BY <2>1, <2>2 DEF Log!Persist, Log!Prefix
<1>5. ASSUME NEW ok \in LoadOutcomes, Restart(ok)
      PROVE  Log!Recover
  <2>1. \A s \in Session \ rows : row[s].messages = <<>>
    BY IdleAndEmpty DEF NoRowNoMessages
  <2>2. CASE ok = TRUE
    BY <1>5, <2>1, <2>2 DEF Restart, Load, Log!Recover
  <2>3. CASE ok = FALSE
    BY <1>5, <2>3 DEF Restart, Load, Log!Recover
  <2> QED
    BY <2>2, <2>3
<1>6. CASE Create \/ \E t \in Thread : \/ \E s \in Session : SaveBegin(t, s)
                                       \/ SaveMarshal(t) \/ SaveCount(t) \/ SaveMiss(t)
  BY <1>6 DEF Create, SaveBegin, SaveMarshal, SaveCount, SaveMiss
<1>7. CASE UNCHANGED vars
  BY <1>7 DEF vars
<1> QED
  BY <1>1, <1>2, <1>3, <1>4, <1>5, <1>6, <1>7 DEF Next, Log!Next

\* Every behaviour of cache and table is one of the append-only log with a durable
\* copy (SessionLog): nothing but Save, a deletion and a restart moves messages.
THEOREM StoreImplementsLog == Spec => ImplementsLog
  BY LogInit, LogStep, Invariance, PTL DEF Spec, ImplementsLog, Log!Spec, durableLog
=============================================================================
