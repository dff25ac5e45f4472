--------------------------- MODULE ChatPageProofs ---------------------------
(***************************************************************************)
(* Theorems about the chat page of the UI: about ChatPage, for any         *)
(* sessions, sends, selections and losses of the connection, and about     *)
(* ChatInput, its input, for any files and any number of recordings.       *)
(***************************************************************************)
EXTENDS ChatPage, ChatInput, SequenceTheorems, FiniteSetTheorems, TLAPS

-----------------------------------------------------------------------------
(* The invariant is built in layers, each inductive given those before it: *)
(* first what every variable ranges over.  Whatever holds or carries       *)
(* messages of a session holds and carries those of runs sent to it.       *)

Runs == 1..Len(of)

IsRunOf(k, s) == k \in Runs /\ of[k] = s

MessagesOf(s) == {m \in Message : IsRunOf(m.run, s)}

\* What is on the wire: a send, and every event of a run, names the session of the run.
Requests == {r \in [type : {"history", "send"}, run : 0..Len(of), session : Session] :
                r.type = "send" => IsRunOf(r.run, r.session)}

Events == {f \in [type : {"history", "started", "tool", "part", "chunk", "completed"},
                  run : 0..Len(of), session : Session, msgs : Seq(Message)] :
              /\ f.msgs \in Seq(MessagesOf(f.session))
              /\ f.type # "history" => IsRunOf(f.run, f.session) /\ f.msgs = <<>>}

NavInv ==
    /\ of \in Seq(Session) /\ Len(of) <= MaxSends
    /\ view \in Key /\ prevKey \in Key /\ creating \in 0..MaxSends
    /\ created \subseteq Session

StoreInv == \A s \in Key : shown[s] \in Seq(MessagesOf(s))

KeysInv == running \in [Key -> BOOLEAN] /\ kept \subseteq Key /\ AccessOrder

RefsInv ==
    /\ runId \in 0..Len(of) /\ expecting \in BOOLEAN
    /\ streamed \in {"none", "part", "whole"} /\ tools \in BOOLEAN

WireInv == connected \in BOOLEAN /\ up \in Seq(Requests) /\ down \in Seq(Events)

ServerInv ==
    /\ busy \in 0..Len(of)
    /\ callback \in [Run -> {"none", "refused", "stream", "rest", "record", "done"}]
    /\ log \in [Session -> Seq(Message)] /\ \A s \in Session : log[s] \in Seq(MessagesOf(s))

GhostInv == gone \subseteq excused /\ excused \subseteq Runs /\ evicted \subseteq Runs

TypeInv ==
    /\ NavInv /\ StoreInv /\ KeysInv /\ RefsInv
    /\ WireInv /\ ServerInv /\ GhostInv

-----------------------------------------------------------------------------
(* Sets and sequences. *)

LEMMA SeqSubset ==
    ASSUME NEW S, NEW T, S \subseteq T
    PROVE  Seq(S) \subseteq Seq(T)
  <1> SUFFICES ASSUME NEW q \in Seq(S) PROVE q \in Seq(T)
    OBVIOUS
  <1>1. Len(q) \in Nat /\ q \in [1..Len(q) -> S] /\ \A i \in 1..Len(q) : q[i] \in T
    BY LenProperties
  <1>2. q = [i \in 1..Len(q) |-> q[i]]
    BY <1>1
  <1> QED
    BY <1>1, <1>2

LEMMA HasAppend ==
    ASSUME NEW S, NEW q \in Seq(S), NEW e \in S, NEW m
    PROVE  Has(Append(q, e), m) <=> Has(q, m) \/ m = e
  <1>1. /\ Len(q) \in Nat /\ Len(Append(q, e)) = Len(q) + 1
        /\ \A i \in 1..Len(q) : Append(q, e)[i] = q[i]
        /\ Append(q, e)[Len(q) + 1] = e
    BY AppendProperties, LenProperties
  <1> QED
    BY <1>1 DEF Has

LEMMA HasEmpty == \A m : ~Has(<<>>, m)
  BY EmptySeq DEF Has

\* A sequence without its i-th element, and without its first.
Without(q, i) == SubSeq(q, 1, i - 1) \o SubSeq(q, i + 1, Len(q))

LEMMA WithoutProperties ==
    ASSUME NEW S, NEW q \in Seq(S), NEW i \in 1..Len(q)
    PROVE  /\ Without(q, i) \in Seq(S)
           /\ Len(q) \in Nat /\ Len(Without(q, i)) = Len(q) - 1
           /\ \A j \in 1..(Len(q) - 1) : Without(q, i)[j] = q[IF j < i THEN j ELSE j + 1]
  <1>1. Len(q) \in Nat /\ \A j \in 1..Len(q) : q[j] \in S
    BY LenProperties, ElementOfSeq
  <1>2. PICK a : a = SubSeq(q, 1, i - 1)
    OBVIOUS
  <1>3. PICK b : b = SubSeq(q, i + 1, Len(q))
    OBVIOUS
  <1>4. a \in Seq(S) /\ Len(a) = i - 1 /\ \A j \in 1..(i - 1) : a[j] = q[j]
    BY <1>1, <1>2, SubSeqProperties
  <1>5. /\ b \in Seq(S) /\ Len(b) = Len(q) - i
        /\ \A j \in 1..(Len(q) - i) : b[j] = q[i + j]
    BY <1>1, <1>3, SubSeqProperties
  <1>6. /\ a \o b \in Seq(S) /\ Len(a \o b) = Len(q) - 1
        /\ \A j \in 1..(Len(q) - 1) : (a \o b)[j] = IF j < i THEN a[j] ELSE b[j - i + 1]
    <2>1. /\ a \o b \in Seq(S) /\ Len(a \o b) = Len(a) + Len(b)
          /\ \A j \in 1..(Len(a) + Len(b)) :
                (a \o b)[j] = IF j <= Len(a) THEN a[j] ELSE b[j - Len(a)]
      BY <1>4, <1>5, ConcatProperties
    <2>2. Len(a) + Len(b) = Len(q) - 1
      BY <1>1, <1>4, <1>5
    <2>3. ASSUME NEW j \in 1..(Len(q) - 1)
          PROVE  (a \o b)[j] = IF j < i THEN a[j] ELSE b[j - i + 1]
      <3>1. (j <= Len(a) <=> j < i) /\ j - Len(a) = j - i + 1
        BY <1>1, <1>4
      <3> QED
        BY <2>1, <2>2, <3>1
    <2> QED
      BY <2>1, <2>2, <2>3
  <1>7. ASSUME NEW j \in 1..(Len(q) - 1)
        PROVE  (a \o b)[j] = q[IF j < i THEN j ELSE j + 1]
    <2>1. CASE j < i
      BY <1>1, <1>4, <1>6, <2>1
    <2>2. CASE j >= i
      <3>1. PICK x \in 1..(Len(q) - i) : x = j - i + 1 /\ i + x = j + 1
        BY <1>1, <2>2
      <3>2. (a \o b)[j] = b[x]
        BY <1>1, <1>6, <2>2, <3>1
      <3>3. b[x] = q[j + 1]
        BY <1>5, <3>1
      <3> QED
        BY <1>1, <2>2, <3>2, <3>3
    <2>3. j < i \/ j >= i
      BY <1>1
    <2> QED
      BY <2>1, <2>2, <2>3
  <1> QED
    BY <1>1, <1>2, <1>3, <1>6, <1>7 DEF Without

LEMMA TailIsWithout ==
    ASSUME NEW S, NEW q \in Seq(S), q # <<>>
    PROVE  1 \in 1..Len(q) /\ Head(q) = q[1] /\ Head(q) \in S /\ Tail(q) = Without(q, 1)
  <1>1. Len(q) \in Nat /\ Len(q) >= 1
    BY LenProperties, EmptySeq
  <1>2. PICK t : t = Tail(q)
    OBVIOUS
  <1>3. PICK w : w = Without(q, 1)
    OBVIOUS
  <1>4. t \in Seq(S) /\ Len(t) = Len(q) - 1 /\ \A j \in 1..Len(t) : t[j] = q[j + 1]
    BY <1>1, <1>2, HeadTailProperties
  <1>5. /\ w \in Seq(S) /\ Len(w) = Len(q) - 1
        /\ \A j \in 1..(Len(q) - 1) : w[j] = q[IF j < 1 THEN j ELSE j + 1]
    BY <1>1, <1>3, WithoutProperties
  <1>6. ASSUME NEW j \in 1..Len(t) PROVE t[j] = w[j]
    <2>1. j \in 1..(Len(q) - 1) /\ ~(j < 1)
      BY <1>1, <1>4
    <2>2. w[j] = q[j + 1]
      BY <1>5, <2>1
    <2> QED
      BY <1>4, <2>2
  <1>7. t = w
    BY <1>4, <1>5, <1>6, SeqEqual
  <1> QED
    BY <1>1, <1>2, <1>3, <1>7, HeadTailProperties, ElementOfSeq

LEMMA SameRuns ==
    ASSUME UNCHANGED of
    PROVE  /\ Runs' = Runs /\ \A k, s : IsRunOf(k, s)' <=> IsRunOf(k, s)
           /\ \A s : MessagesOf(s)' = MessagesOf(s)
           /\ Requests' = Requests /\ Events' = Events
  BY DEF Runs, IsRunOf, MessagesOf, Requests, Events

\* One more send: nothing that was sent is of another session now.
LEMMA MoreRuns ==
    ASSUME NavInv, NEW s \in Session, of' = Append(of, s)
    PROVE  /\ \A k, x : IsRunOf(k, x) => IsRunOf(k, x)'
           /\ IsRunOf(Len(of), s)'
           /\ of' \in Seq(Session) /\ Len(of') = Len(of) + 1 /\ Len(of) \in Nat
           /\ Runs' = Runs \cup {Len(of')}
           /\ \A k \in Runs : of'[k] = of[k]
           /\ \A x : MessagesOf(x) \subseteq MessagesOf(x)'
           /\ Requests \subseteq Requests' /\ Events \subseteq Events'
  <1>1. /\ of' \in Seq(Session) /\ Len(of') = Len(of) + 1 /\ Len(of) \in Nat
        /\ \A i \in 1..Len(of) : of'[i] = of[i]
        /\ of'[Len(of')] = s
    BY AppendProperties, LenProperties DEF NavInv
  <1>2. \A k, x : IsRunOf(k, x) => IsRunOf(k, x)'
    BY <1>1 DEF IsRunOf, Runs
  <1>3. IsRunOf(Len(of), s)'
    BY <1>1 DEF IsRunOf, Runs
  <1>4. \A x : MessagesOf(x) \subseteq MessagesOf(x)'
    BY <1>2 DEF MessagesOf
  <1>5. \A x : Seq(MessagesOf(x)) \subseteq Seq(MessagesOf(x)')
    BY <1>4, SeqSubset
  <1>6. 0..Len(of) \subseteq 0..Len(of') /\ Runs' = Runs \cup {Len(of')}
    BY <1>1 DEF Runs
  <1>7. Requests \subseteq Requests'
    BY <1>2, <1>6 DEF Requests
  <1>8. Events \subseteq Events'
    BY <1>2, <1>5, <1>6 DEF Events
  <1> QED
    BY <1>1, <1>2, <1>3, <1>4, <1>6, <1>7, <1>8 DEF Runs

-----------------------------------------------------------------------------
(* The helpers of the page and of the gateway. *)

\* An access leaves the keys in one order, the key accessed last.
LEMMA TouchKeeps ==
    ASSUME KeysInv, NEW s \in Key, Touch(s)
    PROVE  kept' \subseteq Key /\ AccessOrder'
  BY DEF KeysInv, Touch, Older, AccessOrder

\* So does an eviction.
LEMMA SetMessagesOrders ==
    ASSUME KeysInv, NEW s \in Key, NEW msgs, NEW runs, SetMessages(s, msgs, runs)
    PROVE  kept' \subseteq Key /\ AccessOrder'
  <1>1. PICK out : /\ kept' = (kept \cup {s}) \ out
                   /\ older' = [x \in Key |-> IF x \in out THEN {} ELSE Older(s)[x] \ out]
    BY DEF SetMessages
  <1>2. \A x \in Key : older'[x] = IF x \in out THEN {}
                                   ELSE (IF x = s THEN kept \ {s} ELSE older[x] \ {s}) \ out
    BY <1>1 DEF Older
  <1>3. /\ kept \subseteq Key
        /\ \A x \in Key : older[x] \subseteq kept \ {x} /\ (x \notin kept => older[x] = {})
        /\ \A x, y \in kept : x # y => (x \in older[y] <=> y \notin older[x])
        /\ \A x, y \in kept : y \in older[x] => older[y] \subseteq older[x]
    BY DEF KeysInv, AccessOrder
  <1>4. kept' \subseteq Key /\ \A x \in kept' : x \in Key /\ x \notin out /\ (x = s \/ x \in kept)
    BY <1>1, <1>3
  <1>5. \A x \in Key : older'[x] \subseteq kept' \ {x} /\ (x \notin kept' => older'[x] = {})
    <2> SUFFICES ASSUME NEW x \in Key
                 PROVE  older'[x] \subseteq kept' \ {x} /\ (x \notin kept' => older'[x] = {})
      OBVIOUS
    <2>1. CASE x \in out
      BY <1>2, <2>1
    <2>2. CASE x \notin out /\ x = s
      <3>1. older'[x] = (kept \ {s}) \ out
        BY <1>2, <2>2
      <3> QED
        BY <1>1, <2>2, <3>1
    <2>3. CASE x \notin out /\ x # s
      <3>1. older'[x] = (older[x] \ {s}) \ out
        BY <1>2, <2>3
      <3> QED
        BY <1>1, <1>3, <2>3, <3>1
    <2> QED
      BY <2>1, <2>2, <2>3
  <1>6. \A x, y \in kept' : y \in older'[x] <=> y # s /\ (x = s \/ y \in older[x]) /\ (x = s => y \in kept)
    <2> SUFFICES ASSUME NEW x \in kept', NEW y \in kept'
                 PROVE  y \in older'[x] <=> y # s /\ (x = s \/ y \in older[x]) /\ (x = s => y \in kept)
      OBVIOUS
    <2>1. x \in Key /\ x \notin out /\ y \notin out
      BY <1>4
    <2>2. older'[x] = (IF x = s THEN kept \ {s} ELSE older[x] \ {s}) \ out
      BY <1>2, <2>1
    <2>3. CASE x = s
      <3>1. older'[x] = (kept \ {s}) \ out
        BY <2>2, <2>3
      <3> QED
        BY <2>1, <2>3, <3>1
    <2>4. CASE x # s
      <3>1. older'[x] = (older[x] \ {s}) \ out
        BY <2>2, <2>4
      <3> QED
        BY <2>1, <2>4, <3>1
    <2> QED
      BY <2>3, <2>4
  <1>7. \A x, y \in kept' : x # y => (x \in older'[y] <=> y \notin older'[x])
    BY <1>3, <1>4, <1>6
  <1>8. \A x, y \in kept' : y \in older'[x] => older'[y] \subseteq older'[x]
    <2> SUFFICES ASSUME NEW x \in kept', NEW y \in kept', y \in older'[x], NEW z \in older'[y]
                 PROVE  z \in older'[x]
      OBVIOUS
    <2>1. z \in kept'
      BY <1>4, <1>5
    <2> QED
      BY <1>3, <1>4, <1>6, <2>1
  <1> QED
    BY <1>4, <1>5, <1>7, <1>8 DEF AccessOrder

\* A session shows what is set, what it showed, or nothing once its runs are evicted.
LEMMA SetMessagesShows ==
    ASSUME NEW s \in Key, NEW msgs, NEW runs, SetMessages(s, msgs, runs),
           NEW x \in Key
    PROVE  /\ \/ x \notin kept' /\ shown'[x] = <<>> /\ \A k \in Runs' : of'[k] = x => k \in evicted'
              \/ shown'[x] = IF x = s THEN msgs ELSE shown[x]
           /\ evicted \subseteq evicted' /\ evicted' \subseteq evicted \cup Runs'
           /\ running' = runs
  <1>1. PICK out : /\ kept' = (kept \cup {s}) \ out /\ running' = runs
                   /\ shown' = [y \in Key |-> IF y \in out THEN <<>> ELSE IF y = s THEN msgs
                                              ELSE shown[y]]
                   /\ evicted' = evicted \cup {k \in 1..Len(of') : of'[k] \in out}
    BY DEF SetMessages
  <1> QED
    BY <1>1 DEF Runs

LEMMA SetMessagesKeeps ==
    ASSUME NEW s \in Key, NEW msgs \in Seq(MessagesOf(s)'), NEW runs, SetMessages(s, msgs, runs),
           \A x \in Key : shown[x] \in Seq(MessagesOf(x)')
    PROVE  StoreInv'
  <1>1. \A x \in Key : shown'[x] \in {<<>>, shown[x]} \/ (x = s /\ shown'[x] = msgs)
    BY SetMessagesShows
  <1>2. \A S : <<>> \in Seq(S)
    BY EmptySeq
  <1> QED
    BY <1>1, <1>2 DEF StoreInv

LEMMA LoadHistoryKeeps ==
    ASSUME NavInv, WireInv, LoadHistory
    PROVE  up' \in Seq(Requests)
  <1>1. CASE up' = up
    BY <1>1 DEF WireInv
  <1>2. CASE view \in Session /\ up' = Append(up, Request("history", Len(of), view))
    <2>1. Len(of) \in 0..Len(of)
      BY LenProperties DEF NavInv
    <2>2. Request("history", Len(of), view) \in Requests
      BY <1>2, <2>1 DEF Request, Requests
    <2> QED
      BY <1>2, <2>2, AppendProperties DEF WireInv
  <1> QED
    BY <1>1, <1>2 DEF LoadHistory

\* The events that a run publishes are its own.
LEMMA EventOfRun ==
    ASSUME NavInv, NEW k \in Runs, NEW type \in {"started", "tool", "part", "chunk", "completed"}
    PROVE  Frame(type, k, of[k], <<>>) \in Events
  <1>1. Len(of) \in Nat /\ k \in 0..Len(of) /\ of[k] \in Session
    BY LenProperties, ElementOfSeq DEF NavInv, Runs
  <1>2. <<>> \in Seq(Message) /\ <<>> \in Seq(MessagesOf(of[k]))
    BY EmptySeq
  <1> QED
    BY <1>1, <1>2 DEF Frame, Events, IsRunOf

Streamed == {<<"chunk">>, <<"part">>, <<"tool", "chunk">>, <<"tool", "part">>}
Published(types) == types \in Streamed \cup {<<"completed">>}

\* What a run publishes comes last, if anybody is there to hear it.
LEMMA PublishedLast ==
    ASSUME NavInv, WireInv, NEW k \in Runs, NEW types, Published(types), Publish(types, k)
    PROVE  /\ down' \in Seq(Events) /\ Len(down) \in Nat
           /\ IF k \in gone THEN down' = down ELSE Len(down') = Len(down) + Len(types)
           /\ \A i \in 1..Len(down) : down'[i] = down[i]
           /\ \A i \in (Len(down) + 1)..Len(down') :
                down'[i] = Frame(types[i - Len(down)], k, of[k], <<>>)
  <1> DEFINE sent == [i \in 1..Len(types) |-> Frame(types[i], k, of[k], <<>>)]
  <1>1. Len(types) \in Nat /\ \A i \in 1..Len(types) : types[i] \in {"tool", "part", "chunk", "completed"}
    BY DEF Published, Streamed
  <1>2. \A i \in 1..Len(types) : Frame(types[i], k, of[k], <<>>) \in Events
    BY <1>1, EventOfRun
  <1>3. sent \in Seq(Events) /\ Len(sent) = Len(types)
    BY <1>1, <1>2
  <1>4. down' = IF k \in gone THEN down ELSE down \o sent
    BY DEF Publish
  <1>5. Len(down) \in Nat /\ down \in Seq(Events)
    BY LenProperties DEF WireInv
  <1>6. CASE k \in gone
    BY <1>4, <1>5, <1>6
  <1>7. CASE k \notin gone
    <2>1. \A i \in 1..Len(types) : sent[i] = Frame(types[i], k, of[k], <<>>)
      OBVIOUS
    <2> HIDE DEF sent
    <2>2. /\ down \o sent \in Seq(Events) /\ Len(down \o sent) = Len(down) + Len(sent)
          /\ \A i \in 1..(Len(down) + Len(sent)) :
               (down \o sent)[i] = IF i <= Len(down) THEN down[i] ELSE sent[i - Len(down)]
      BY <1>3, <1>5, ConcatProperties
    <2>3. /\ down' \in Seq(Events) /\ Len(down') = Len(down) + Len(types)
          /\ \A i \in 1..(Len(down) + Len(types)) :
               down'[i] = IF i <= Len(down) THEN down[i] ELSE sent[i - Len(down)]
      BY <1>3, <1>4, <1>7, <2>2
    <2>4. ASSUME NEW i \in (Len(down) + 1)..Len(down')
          PROVE  down'[i] = Frame(types[i - Len(down)], k, of[k], <<>>)
      <3>1. i \in 1..(Len(down) + Len(types)) /\ ~(i <= Len(down)) /\ i - Len(down) \in 1..Len(types)
        BY <1>1, <1>5, <2>3
      <3> QED
        BY <2>1, <2>3, <3>1
    <2>5. \A i \in 1..Len(down) : down'[i] = down[i]
      BY <1>1, <1>5, <2>3
    <2> QED
      BY <1>5, <1>7, <2>3, <2>4, <2>5
  <1> QED
    BY <1>6, <1>7

\* What the callback goroutine of a run sends.
LEMMA StreamSends ==
    ASSUME NEW k, Stream(k) \/ StreamRest(k)
    PROVE  /\ UNCHANGED <<page, connected, up, busy, log, drops, ghosts>>
           /\ callback[k] \in {"stream", "rest"}
           /\ \E c \in {"rest", "record"} : callback' = [callback EXCEPT ![k] = c]
           /\ \E types \in Streamed : Publish(types, k)
  BY DEF Stream, StreamRest, Streamed

LEMMA StreamedTypes ==
    \A types \in Streamed :
        /\ Published(types) /\ Len(types) \in Nat
        /\ \A i \in 1..Len(types) : types[i] \in {"tool", "part", "chunk"}
  BY DEF Published, Streamed

\* A frame that arrives is the first of those on the way.
LEMMA Delivered ==
    ASSUME WireInv, NEW type, Deliver(type)
    PROVE  /\ 1 \in 1..Len(down) /\ Head(down) = down[1] /\ down[1].type = type
           /\ down[1] \in Events /\ down[1].session \in Session
           /\ down[1].msgs \in Seq(MessagesOf(down[1].session))
           /\ down # <<>> /\ down' = Without(down, 1) /\ down' \in Seq(Events)
  <1>1. down \in Seq(Events) /\ down # <<>> /\ Head(down).type = type /\ down' = Tail(down)
    BY DEF WireInv, Deliver
  <1>2. 1 \in 1..Len(down) /\ Head(down) = down[1] /\ Head(down) \in Events /\ down' = Without(down, 1)
    BY <1>1, TailIsWithout
  <1>3. Without(down, 1) \in Seq(Events)
    BY <1>1, <1>2, WithoutProperties
  <1>4. Head(down).session \in Session /\ Head(down).msgs \in Seq(MessagesOf(Head(down).session))
    BY <1>2 DEF Events
  <1> QED
    BY <1>1, <1>2, <1>3, <1>4

\* A request that the gateway takes likewise.
LEMMA Taking ==
    ASSUME WireInv, up # <<>>, up' = Tail(up)
    PROVE  /\ 1 \in 1..Len(up) /\ Head(up) = up[1] /\ up[1] \in Requests
           /\ up[1].session \in Session /\ up[1].run \in 0..Len(of)
           /\ (up[1].type = "send" => IsRunOf(up[1].run, up[1].session))
           /\ up' = Without(up, 1) /\ up' \in Seq(Requests)
  <1>1. 1 \in 1..Len(up) /\ Head(up) = up[1] /\ Head(up) \in Requests /\ up' = Without(up, 1)
    BY TailIsWithout DEF WireInv
  <1>2. Without(up, 1) \in Seq(Requests)
    BY <1>1, WithoutProperties DEF WireInv
  <1> QED
    BY <1>1, <1>2 DEF Requests

-----------------------------------------------------------------------------
(* The first layer. *)

LEMMA InitTypes == Init => TypeInv
  <1> SUFFICES ASSUME Init PROVE TypeInv
    OBVIOUS
  <1>1. \A S : <<>> \in Seq(S) /\ Len(<<>>) = 0
    BY EmptySeq
  <1>2. NavInv /\ StoreInv /\ WireInv
    <2>1. NavInv
      <3>1. of = <<>> /\ view = Empty /\ prevKey = Empty /\ creating = 0 /\ created = Old
        BY DEF Init
      <3>2. Len(of) = 0 /\ of \in Seq(Session)
        BY <1>1, <3>1
      <3>3. Len(of) <= MaxSends /\ created \subseteq Session
        BY <3>1, <3>2, PageAssumption
      <3>4. view \in Key /\ prevKey \in Key
        BY <3>1 DEF Key
      <3>5. creating \in 0..MaxSends
        BY <3>1, PageAssumption
      <3> QED
        BY <3>1, <3>2, <3>3, <3>4, <3>5, Zenon DEF NavInv
    <2>2. \A s \in Key : shown[s] = <<>>
      BY DEF Init
    <2>3. WireInv
      BY <1>1 DEF Init, WireInv
    <2> QED
      BY <1>1, <2>1, <2>2, <2>3 DEF StoreInv
  <1>3. KeysInv
    <2>1. kept = {} /\ (\A x \in Key : older[x] = {}) /\ running \in [Key -> BOOLEAN]
      BY DEF Init
    <2> QED
      BY <2>1 DEF KeysInv, AccessOrder
  <1>4. RefsInv /\ ServerInv /\ GhostInv
    <2>1. of = <<>> /\ Len(of) = 0
      BY <1>1 DEF Init
    <2>2. runId \in 0..Len(of) /\ busy \in 0..Len(of)
      BY <2>1 DEF Init, NoRun
    <2>3. RefsInv
      BY <2>2, Zenon DEF Init, RefsInv
    <2>4. callback \in [Run -> {"none", "refused", "stream", "rest", "record", "done"}]
      BY DEF Init
    <2>5. log \in [Session -> Seq(Message)] /\ \A s \in Session : log[s] \in Seq(MessagesOf(s))
      <3>1. log = [s \in Session |-> <<>>]
        BY DEF Init
      <3> QED
        BY <1>1, <3>1
    <2>6. GhostInv
      BY DEF Init, GhostInv
    <2> QED
      BY <2>2, <2>3, <2>4, <2>5, <2>6 DEF ServerInv
  <1> QED
    BY <1>2, <1>3, <1>4 DEF TypeInv

LEMMA SameTypes ==
    ASSUME TypeInv, UNCHANGED of
    PROVE  /\ UNCHANGED nav => NavInv'
           /\ UNCHANGED shown => StoreInv'
           /\ UNCHANGED <<running, kept, older>> => KeysInv'
           /\ UNCHANGED refs => RefsInv'
           /\ connected' \in BOOLEAN /\ up' \in Seq(Requests) /\ down' \in Seq(Events) => WireInv'
           /\ UNCHANGED server => ServerInv'
           /\ UNCHANGED <<gone, excused, evicted>> => GhostInv'
  <1>1. (UNCHANGED nav => NavInv') /\ (UNCHANGED shown => StoreInv')
    BY SameRuns DEF TypeInv, NavInv, StoreInv, nav
  <1>2. UNCHANGED <<running, kept, older>> => KeysInv'
    BY DEF TypeInv, KeysInv, AccessOrder
  <1>3. UNCHANGED refs => RefsInv'
    BY DEF TypeInv, RefsInv, refs
  <1>4. connected' \in BOOLEAN /\ up' \in Seq(Requests) /\ down' \in Seq(Events) => WireInv'
    BY SameRuns DEF WireInv
  <1>5. UNCHANGED server => ServerInv'
    BY SameRuns DEF TypeInv, ServerInv, server
  <1>6. UNCHANGED <<gone, excused, evicted>> => GhostInv'
    BY SameRuns DEF TypeInv, GhostInv, ghosts
  <1> QED
    BY <1>1, <1>2, <1>3, <1>4, <1>5, <1>6

LEMMA RunsOfRuns == \A s : RunsOf(s) \subseteq Runs
  BY DEF RunsOf, Runs

LEMMA SelectTypes == ASSUME TypeInv, NEW s \in Key, Select(s) PROVE TypeInv'
  <1>1. /\ UNCHANGED <<of, shown, running, kept, older, refs, wire, server, prevKey, creating, created>>
        /\ UNCHANGED <<gone, evicted>>
        /\ view' = s /\ excused' = excused \cup RunsOf(view)
    BY DEF Select, Navigate, store
  <1>2. NavInv'
    BY <1>1 DEF TypeInv, NavInv
  <1>3. GhostInv'
    BY <1>1, RunsOfRuns, SameRuns DEF TypeInv, GhostInv
  <1>4. up' \in Seq(Requests) /\ down' \in Seq(Events) /\ connected' \in BOOLEAN
    BY <1>1 DEF TypeInv, WireInv, wire
  <1> QED
    BY <1>1, <1>2, <1>3, <1>4, SameTypes DEF TypeInv

LEMMA EffectsTypes == ASSUME TypeInv, Effects PROVE TypeInv'
  <1>1. /\ UNCHANGED <<of, shown, view, creating, created, connected, down, server, gone, excused, evicted>>
        /\ prevKey' = view
    BY DEF Effects, SetRunning, store, ghosts
  <1>2. NavInv'
    BY <1>1 DEF TypeInv, NavInv
  <1>3. KeysInv' /\ RefsInv'
    <2>1. CASE prevKey = Empty
      <3>1. UNCHANGED <<running, kept, older, refs>>
        BY <2>1 DEF Effects, store
      <3> QED
        BY <1>1, <3>1, SameTypes
    <2>2. CASE prevKey # Empty
      <3>1. /\ running' = [running EXCEPT ![view] = FALSE] /\ Touch(view)
            /\ runId' = NoRun /\ expecting' = FALSE /\ streamed' = "none" /\ tools' = FALSE
        BY <2>2 DEF Effects, SetRunning
      <3>2. running' \in [Key -> BOOLEAN]
        BY <3>1 DEF TypeInv, KeysInv
      <3>3. kept' \subseteq Key /\ AccessOrder'
        BY <3>1, TouchKeeps DEF TypeInv, NavInv
      <3>4. RefsInv'
        <4>1. Len(of') \in Nat
          BY <1>1, LenProperties DEF TypeInv, NavInv
        <4>2. runId' \in 0..Len(of')
          BY <3>1, <4>1 DEF NoRun
        <4> QED
          BY <3>1, <4>2, Zenon DEF RefsInv
      <3> QED
        BY <3>2, <3>3, <3>4 DEF KeysInv
    <2> QED
      BY <2>1, <2>2
  <1>4. up' \in Seq(Requests)
    <2>1. up' = up \/ LoadHistory
      BY DEF Effects
    <2> QED
      BY <2>1, LoadHistoryKeeps DEF TypeInv, WireInv
  <1> QED
    BY <1>1, <1>2, <1>3, <1>4, SameTypes DEF TypeInv, WireInv

\* The message, the call and the run of a send are of the session it goes to.
LEMMA SendTypes ==
    ASSUME TypeInv, NEW s \in Session, Send(s), Len(of) < MaxSends,
           view' \in Key, prevKey' \in Key, creating' \in 0..MaxSends, created' \subseteq Session,
           UNCHANGED <<runId, streamed, tools, connected, down, server, gone>>,
           excused' \in {excused, excused \cup RunsOf(view)}
    PROVE  TypeInv'
  <1> USE DEF TypeInv
  <1>1. CASE ~connected
    <2>1. UNCHANGED <<of, shown, running, kept, older, refs, up, evicted>>
      BY <1>1 DEF Send, store, refs
    <2>2. NavInv'
      BY <2>1 DEF NavInv
    <2>3. GhostInv'
      BY <2>1, RunsOfRuns, SameRuns DEF GhostInv
    <2>4. up' \in Seq(Requests) /\ down' \in Seq(Events) /\ connected' \in BOOLEAN
      BY <2>1 DEF WireInv
    <2> QED
      BY <2>1, <2>2, <2>3, <2>4, SameTypes
  <1>2. CASE connected
    <2>1. /\ of' = Append(of, s)
          /\ SetMessages(s, Append(shown[s], Asked(Len(of'))), running)
          /\ expecting' = TRUE
          /\ up' = Append(up, Request("send", Len(of'), s))
      BY <1>2 DEF Send
    <2>2. /\ \A k, x : IsRunOf(k, x) => IsRunOf(k, x)'
          /\ IsRunOf(Len(of), s)'
          /\ of' \in Seq(Session) /\ Len(of') = Len(of) + 1 /\ Len(of) \in Nat
          /\ Runs' = Runs \cup {Len(of')}
          /\ \A x : MessagesOf(x) \subseteq MessagesOf(x)'
          /\ Requests \subseteq Requests' /\ Events \subseteq Events'
      BY <2>1, MoreRuns
    <2>3. Len(of') \in 1..MaxSends
      BY <2>2, PageAssumption
    <2>4. Asked(Len(of')) \in MessagesOf(s)'
      BY <2>2, <2>3 DEF Asked, MessagesOf, Message, Run
    <2>5. Request("send", Len(of'), s) \in Requests'
      BY <2>2, <2>3 DEF Request, Requests
    <2>6. \A x : Seq(MessagesOf(x)) \subseteq Seq(MessagesOf(x)')
      BY <2>2, SeqSubset
    <2>7. up \in Seq(Requests') /\ down \in Seq(Events')
      BY <2>2, SeqSubset DEF WireInv
    <2>8. s \in Key
      BY DEF Key
    <2>9. \A x \in Key : shown[x] \in Seq(MessagesOf(x)')
      BY <2>6 DEF StoreInv
    <2>10. Append(shown[s], Asked(Len(of'))) \in Seq(MessagesOf(s)')
      BY <2>4, <2>8, <2>9, AppendProperties
    <2>11. StoreInv'
      BY <2>1, <2>8, <2>9, <2>10, SetMessagesKeeps
    <2>12. KeysInv' /\ GhostInv'
      <3>1. /\ evicted \subseteq evicted' /\ evicted' \subseteq evicted \cup Runs'
            /\ running' = running
        BY <2>1, <2>8, SetMessagesShows
      <3>2. kept' \subseteq Key /\ AccessOrder'
        BY <2>1, <2>8, SetMessagesOrders
      <3> QED
        BY <2>2, <3>1, <3>2, RunsOfRuns DEF KeysInv, GhostInv
    <2>13. WireInv'
      BY <2>1, <2>5, <2>7, AppendProperties DEF WireInv
    <2>14. ServerInv'
      BY <2>2, <2>6 DEF ServerInv, server
    <2>15. NavInv' /\ RefsInv'
      BY <2>1, <2>2, <2>3 DEF NavInv, RefsInv
    <2> QED
      BY <2>11, <2>12, <2>13, <2>14, <2>15
  <1> QED
    BY <1>1, <1>2

LEMMA UserTypes == ASSUME TypeInv, SendHere \/ SendNew \/ SessionCreated PROVE TypeInv'
  <1>1. CASE SendHere
    <2>1. view \in Session /\ Send(view) /\ Len(of) < MaxSends
          /\ UNCHANGED <<view, prevKey, creating, created, runId, streamed, tools,
                         connected, down, server, gone, excused>>
      BY <1>1 DEF SendHere, ghosts
    <2>2. view' \in Key /\ prevKey' \in Key /\ creating' \in 0..MaxSends /\ created' \subseteq Session
      BY <2>1 DEF TypeInv, NavInv
    <2> QED
      BY <2>1, <2>2, SendTypes
  <1>2. CASE SendNew
    <2>1. /\ UNCHANGED <<of, shown, running, kept, older, evicted, refs, wire, server, gone, excused>>
          /\ UNCHANGED <<view, prevKey, created>> /\ creating' = creating + 1
      BY <1>2 DEF SendNew, store, ghosts
    <2>2. NavInv'
      <3>1. creating' \in 0..MaxSends
        <4>1. Len(of) \in Nat /\ creating \in Nat /\ MaxSends \in Nat /\ Len(of) + creating < MaxSends
          BY <1>2, LenProperties, PageAssumption DEF SendNew, TypeInv, NavInv
        <4> QED
          BY <2>1, <4>1
      <3> QED
        BY <2>1, <3>1 DEF TypeInv, NavInv
    <2>3. up' \in Seq(Requests) /\ down' \in Seq(Events) /\ connected' \in BOOLEAN
      BY <2>1 DEF TypeInv, WireInv, wire
    <2> QED
      BY <2>1, <2>2, <2>3, SameTypes DEF TypeInv
  <1>3. CASE SessionCreated
    <2>1. PICK s \in Session \ created :
             created' = created \cup {s} /\ Navigate(s) /\ Send(s)
      BY <1>3 DEF SessionCreated
    <2>2. /\ view' \in Key /\ prevKey' \in Key /\ created' \subseteq Session
          /\ Len(of) < MaxSends
          /\ UNCHANGED <<runId, streamed, tools, connected, down, server, gone>>
          /\ excused' = excused \cup RunsOf(view)
      BY <1>3, <2>1 DEF Navigate, Key, TypeInv, NavInv, SessionCreated
    <2>3. creating' \in 0..MaxSends
      <3>1. creating \in 0..MaxSends /\ MaxSends \in Nat /\ creating > 0 /\ creating' = creating - 1
        BY <1>3, PageAssumption DEF SessionCreated, TypeInv, NavInv
      <3> QED
        BY <3>1
    <2> QED
      BY <2>1, <2>2, <2>3, SendTypes
  <1> QED
    BY <1>1, <1>2, <1>3

LEMMA TakeHistoryTypes == ASSUME TypeInv, TakeHistory PROVE TypeInv'
  <1> USE DEF TypeInv
  <1>1. /\ up # <<>> /\ up' = Tail(up)
        /\ down' = Append(down, Frame("history", Head(up).run, Head(up).session,
                                      log[Head(up).session]))
        /\ excused' = excused \cup Unrecorded(Head(up).session)
        /\ UNCHANGED <<nav, store, refs, connected, server, gone>>
        /\ UNCHANGED <<of, shown, running, kept, older, evicted>>
    BY DEF TakeHistory, AnswerHistory, page, nav, store
  <1>2. Head(up).session \in Session /\ Head(up).run \in 0..Len(of) /\ up' \in Seq(Requests)
    BY <1>1, Taking
  <1>3. log[Head(up).session] \in Seq(MessagesOf(Head(up).session))
        /\ log[Head(up).session] \in Seq(Message)
    BY <1>2 DEF ServerInv
  <1>4. Frame("history", Head(up).run, Head(up).session, log[Head(up).session]) \in Events
    BY <1>2, <1>3 DEF Frame, Events
  <1>5. down' \in Seq(Events) /\ connected' \in BOOLEAN
    BY <1>1, <1>4, AppendProperties DEF WireInv
  <1>6. GhostInv'
    BY <1>1, RunsOfRuns, SameRuns DEF GhostInv, Unrecorded
  <1> QED
    BY <1>1, <1>2, <1>5, <1>6, SameTypes

\* A request that is logged, or an answer, is of the session of its run.
LEMMA LogKeeps ==
    ASSUME TypeInv, NEW k \in Runs, NEW m \in {Asked(k), Said(k)},
           log' = [log EXCEPT ![of[k]] = Append(@, m)], UNCHANGED of
    PROVE  /\ log' \in [Session -> Seq(Message)] /\ \A s \in Session : log'[s] \in Seq(MessagesOf(s)')
           /\ k \in Run /\ of[k] \in Session
           /\ \A s \in Session : log'[s] = IF s = of[k] THEN Append(log[s], m) ELSE log[s]
           /\ \A s \in Session : \A x : Has(log'[s], x) <=> Has(log[s], x) \/ (s = of[k] /\ x = m)
  <1>1. of[k] \in Session /\ k \in Run
    BY LenProperties, ElementOfSeq, PageAssumption DEF TypeInv, NavInv, Run, Runs
  <1>2. m \in MessagesOf(of[k]) /\ m \in Message
    BY <1>1 DEF MessagesOf, Message, Asked, Said, IsRunOf
  <1>3. \A s \in Session : log'[s] = IF s = of[k] THEN Append(log[s], m) ELSE log[s]
    BY DEF TypeInv, ServerInv
  <1>4. \A s \in Session : log[s] \in Seq(Message) /\ log[s] \in Seq(MessagesOf(s))
    BY DEF TypeInv, ServerInv
  <1>5. /\ Append(log[of[k]], m) \in Seq(MessagesOf(of[k]))
        /\ Append(log[of[k]], m) \in Seq(Message)
    BY <1>1, <1>2, <1>4, AppendProperties
  <1>6. log' \in [Session -> Seq(Message)]
    BY <1>1, <1>5 DEF TypeInv, ServerInv
  <1>7. \A s \in Session : \A x : Has(log'[s], x) <=> Has(log[s], x) \/ (s = of[k] /\ x = m)
    BY <1>2, <1>3, <1>4, HasAppend
  <1> QED
    BY <1>1, <1>3, <1>4, <1>5, <1>6, <1>7, SameRuns

LEMMA TakeSendTypes == ASSUME TypeInv, TakeSend PROVE TypeInv'
  <1> USE DEF TypeInv
  <1> DEFINE k == Head(up).run
  <1>1. /\ up # <<>> /\ Head(up).type = "send" /\ up' = Tail(up) /\ busy' = k
        /\ log' = [log EXCEPT ![of[k]] = Append(@, Asked(k))]
        /\ callback' = [callback EXCEPT ![k] = "stream"]
        /\ down' = Append(down, Frame("started", k, of[k], <<>>))
        /\ UNCHANGED <<nav, refs, connected, gone, excused>>
        /\ UNCHANGED <<of, shown, running, kept, older, evicted>>
    BY DEF TakeSend, page, nav, store, ghosts
  <1>2. k \in Runs /\ up' \in Seq(Requests)
    BY <1>1, Taking DEF IsRunOf
  <1> HIDE DEF k
  <1>3. down' \in Seq(Events) /\ connected' \in BOOLEAN
    BY <1>1, <1>2, EventOfRun, AppendProperties DEF WireInv
  <1>4. ServerInv'
    <2>1. busy' \in 0..Len(of')
      BY <1>1, <1>2, LenProperties DEF NavInv, Runs
    <2>2. callback' \in [Run -> {"none", "refused", "stream", "rest", "record", "done"}]
      BY <1>1 DEF ServerInv
    <2>3. log' \in [Session -> Seq(Message)] /\ \A s \in Session : log'[s] \in Seq(MessagesOf(s)')
      BY <1>1, <1>2, LogKeeps
    <2> QED
      BY <2>1, <2>2, <2>3 DEF ServerInv
  <1> QED
    BY <1>1, <1>2, <1>3, <1>4, SameTypes

LEMMA RefuseSendTypes == ASSUME TypeInv, RefuseSend PROVE TypeInv'
  <1> USE DEF TypeInv
  <1> DEFINE k == Head(up).run
  <1>1. /\ up # <<>> /\ Head(up).type = "send" /\ up' = Tail(up)
        /\ callback' = [callback EXCEPT ![k] = "refused"]
        /\ excused' = excused \cup {k}
        /\ UNCHANGED <<nav, refs, connected, down, busy, log, gone>>
        /\ UNCHANGED <<of, shown, running, kept, older, evicted>>
    BY DEF RefuseSend, page, nav, store
  <1>2. k \in Runs /\ up' \in Seq(Requests)
    BY <1>1, Taking DEF IsRunOf
  <1> HIDE DEF k
  <1>3. down' \in Seq(Events) /\ connected' \in BOOLEAN
    BY <1>1 DEF WireInv
  <1>4. ServerInv'
    BY <1>1, SameRuns DEF ServerInv
  <1>5. GhostInv'
    BY <1>1, <1>2, SameRuns DEF GhostInv
  <1> QED
    BY <1>1, <1>2, <1>3, <1>4, <1>5, SameTypes

LEMMA RunTypes ==
    ASSUME TypeInv, Complete \/ Fail \/ \E k \in 1..Len(of) : Stream(k) \/ StreamRest(k)
    PROVE  TypeInv'
  <1> USE DEF TypeInv
  <1>1. /\ UNCHANGED <<nav, refs, connected, up, log, gone>>
        /\ UNCHANGED <<of, shown, running, kept, older, evicted>>
        /\ busy' \in {busy, NoRun}
    BY DEF Complete, Fail, Stream, StreamRest, page, nav, store, wire, ghosts
  <1>2. Len(of) \in Nat /\ busy' \in 0..Len(of) /\ (busy # NoRun => busy \in Runs)
    BY <1>1, LenProperties DEF NavInv, ServerInv, NoRun, Runs
  <1>3. down' \in Seq(Events)
    <2>1. CASE Complete
      BY <1>2, <2>1, PublishedLast DEF Published, Streamed, Complete
    <2>2. CASE Fail
      BY <2>2 DEF Fail, wire, WireInv
    <2>3. ASSUME NEW k \in 1..Len(of), Stream(k) \/ StreamRest(k) PROVE down' \in Seq(Events)
      BY <2>3, PublishedLast DEF Published, Streamed, Stream, StreamRest, Runs
    <2> QED
      BY <2>1, <2>2, <2>3
  <1>4. callback' \in [Run -> {"none", "refused", "stream", "rest", "record", "done"}]
    BY DEF Complete, Fail, Stream, StreamRest, ServerInv
  <1>5. excused \subseteq excused' /\ excused' \subseteq Runs
    BY <1>2 DEF Complete, Fail, Stream, StreamRest, ghosts, GhostInv
  <1>6. ServerInv' /\ GhostInv'
    BY <1>1, <1>2, <1>4, <1>5, SameRuns DEF ServerInv, GhostInv
  <1>7. up' \in Seq(Requests) /\ connected' \in BOOLEAN
    BY <1>1 DEF WireInv
  <1> QED
    BY <1>1, <1>3, <1>6, <1>7, SameTypes

LEMMA RecordTypes == ASSUME TypeInv, NEW k \in 1..Len(of), Record(k) PROVE TypeInv'
  <1> USE DEF TypeInv
  <1>1. /\ UNCHANGED <<nav, refs, wire, busy, gone, excused>>
        /\ UNCHANGED <<of, shown, running, kept, older, evicted>>
        /\ callback' = [callback EXCEPT ![k] = "done"]
        /\ log' = [log EXCEPT ![of[k]] = Append(@, Said(k))]
    BY DEF Record, page, nav, store, ghosts
  <1>2. log' \in [Session -> Seq(Message)] /\ \A s \in Session : log'[s] \in Seq(MessagesOf(s)')
    BY <1>1, LogKeeps DEF Runs
  <1>3. ServerInv'
    BY <1>1, <1>2 DEF ServerInv
  <1>4. up' \in Seq(Requests) /\ down' \in Seq(Events) /\ connected' \in BOOLEAN
    BY <1>1 DEF WireInv, wire
  <1> QED
    BY <1>1, <1>3, <1>4, SameTypes

LEMMA StartedTypes == ASSUME TypeInv, Started PROVE TypeInv'
  <1> USE DEF TypeInv
  <1>1. /\ Deliver("started") /\ UNCHANGED <<nav, connected, up, server, gone, of, shown, evicted>>
        /\ excused' \in {excused, excused \cup {Head(down).run}}
    BY DEF Started, SetRunning, store, nav
  <1>2. /\ down[1] \in Events /\ down[1].type = "started" /\ Head(down) = down[1]
        /\ down' \in Seq(Events)
    BY <1>1, Delivered
  <1>3. down[1].run \in Runs
    BY <1>2 DEF Events, IsRunOf
  <1>4. KeysInv' /\ RefsInv'
    <2>1. CASE UNCHANGED <<running, kept, older, refs>>
      BY <1>1, <2>1, SameTypes
    <2>2. CASE /\ runId' = Head(down).run /\ expecting' = FALSE /\ streamed' = "none"
               /\ tools' = FALSE /\ SetRunning(view, TRUE)
      <3>1. running' \in [Key -> BOOLEAN]
        BY <2>2 DEF SetRunning, KeysInv
      <3>2. kept' \subseteq Key /\ AccessOrder'
        BY <2>2, TouchKeeps DEF SetRunning, NavInv
      <3>3. runId' \in 0..Len(of')
        BY <1>1, <1>2, <1>3, <2>2, LenProperties DEF Runs, NavInv
      <3> QED
        BY <2>2, <3>1, <3>2, <3>3, Zenon DEF KeysInv, RefsInv
    <2> QED
      BY <2>1, <2>2 DEF Started, store
  <1>5. GhostInv'
    BY <1>1, <1>2, <1>3, SameRuns DEF GhostInv
  <1>6. up' \in Seq(Requests) /\ connected' \in BOOLEAN
    BY <1>1 DEF WireInv
  <1> QED
    BY <1>1, <1>2, <1>4, <1>5, <1>6, SameTypes

LEMMA ContentTypes == ASSUME TypeInv, Content PROVE TypeInv'
  <1> USE DEF TypeInv
  <1>1. /\ UNCHANGED <<nav, connected, server, gone, excused, of>>
        /\ UNCHANGED <<runId, expecting, shown, running, evicted, up>>
        /\ \E type : Deliver(type)
    BY DEF Content, elsewhere, nav
  <1>2. down' \in Seq(Events)
    BY <1>1, Delivered
  <1>3. KeysInv'
    <2>1. Touch(view) \/ UNCHANGED <<kept, older>>
      BY DEF Content
    <2>2. kept' \subseteq Key /\ AccessOrder'
      BY <2>1, TouchKeeps DEF NavInv, KeysInv, AccessOrder
    <2> QED
      BY <1>1, <2>2 DEF KeysInv
  <1>4. RefsInv'
    <2>1. streamed' \in {"none", "part", "whole"}
      BY DEF Content, Deliver, RefsInv
    <2>2. tools' \in BOOLEAN
      BY DEF Content, RefsInv
    <2> QED
      BY <1>1, <2>1, <2>2 DEF RefsInv
  <1>5. up' \in Seq(Requests) /\ connected' \in BOOLEAN
    BY <1>1 DEF WireInv
  <1> QED
    BY <1>1, <1>2, <1>3, <1>4, <1>5, SameTypes

\* What is streamed is shown in the session on view only if it is that of the run.
LEMMA CompletedTypes == ASSUME TypeInv, Completed PROVE TypeInv'
  <1> USE DEF TypeInv
  <1>1. /\ Deliver("completed") /\ UNCHANGED <<nav, connected, server, gone, excused, expecting>>
        /\ UNCHANGED <<of, view>>
    BY DEF Completed, elsewhere, nav
  <1>2. /\ down[1] \in Events /\ down[1].type = "completed" /\ Head(down) = down[1]
        /\ down' \in Seq(Events)
    BY <1>1, Delivered
  <1>3. up' \in Seq(Requests) /\ connected' \in BOOLEAN
    <2>1. up' = up \/ LoadHistory
      BY DEF Completed
    <2> QED
      BY <1>1, <2>1, LoadHistoryKeeps DEF WireInv
  <1>4. RefsInv'
    <2>1. UNCHANGED refs \/ (runId' = NoRun /\ streamed' = "none" /\ tools' = FALSE)
      BY <1>1 DEF Completed, refs
    <2>2. CASE UNCHANGED refs
      BY <1>1, <2>2, SameTypes
    <2>3. CASE runId' = NoRun /\ streamed' = "none" /\ tools' = FALSE
      <3>1. runId' \in 0..Len(of')
        BY <1>1, <2>3, LenProperties DEF NavInv, NoRun
      <3> QED
        BY <1>1, <2>3, <3>1, Zenon DEF RefsInv
    <2> QED
      BY <2>1, <2>2, <2>3
  <1>5. StoreInv' /\ KeysInv' /\ GhostInv'
    <2>1. CASE UNCHANGED store
      BY <1>1, <2>1, SameTypes DEF store
    <2>2. CASE SetRunning(view, FALSE)
      <3>1. running' \in [Key -> BOOLEAN] /\ UNCHANGED <<shown, evicted>>
        BY <2>2 DEF SetRunning, KeysInv
      <3>2. kept' \subseteq Key /\ AccessOrder'
        BY <2>2, TouchKeeps DEF SetRunning, NavInv
      <3> QED
        BY <1>1, <3>1, <3>2, SameTypes DEF KeysInv
    <2>3. CASE /\ Ours(Head(down))
               /\ SetMessages(view, Append(shown[view], Said(runId)), [running EXCEPT ![view] = FALSE])
      <3>1. IsRunOf(runId, view) /\ view \in Key
        BY <1>2, <2>3 DEF Ours, Events, NavInv
      <3>2. runId \in Run
        BY <3>1, LenProperties, PageAssumption DEF IsRunOf, NavInv, Run, Runs
      <3>3. Said(runId) \in MessagesOf(view)
        BY <3>1, <3>2 DEF Said, MessagesOf, Message
      <3>4. Append(shown[view], Said(runId)) \in Seq(MessagesOf(view)')
        BY <1>1, <3>1, <3>3, SameRuns, AppendProperties DEF StoreInv
      <3>5. StoreInv'
        BY <1>1, <2>3, <3>1, <3>4, SetMessagesKeeps, SameRuns DEF StoreInv
      <3>6. /\ evicted \subseteq evicted' /\ evicted' \subseteq evicted \cup Runs'
            /\ running' = [running EXCEPT ![view] = FALSE]
        BY <2>3, <3>1, SetMessagesShows
      <3>7. kept' \subseteq Key /\ AccessOrder'
        BY <2>3, <3>1, SetMessagesOrders
      <3>8. GhostInv'
        BY <1>1, <3>6, SameRuns DEF GhostInv, ghosts
      <3>9. running' \in [Key -> BOOLEAN]
        BY <3>6 DEF KeysInv
      <3> QED
        BY <3>5, <3>7, <3>8, <3>9 DEF KeysInv
    <2> QED
      BY <2>1, <2>2, <2>3 DEF Completed
  <1> QED
    BY <1>1, <1>2, <1>3, <1>4, <1>5, SameTypes

LEMMA HistoryTypes == ASSUME TypeInv, History PROVE TypeInv'
  <1> USE DEF TypeInv
  <1>1. UNCHANGED <<nav, connected, server, gone, excused, refs, up, of>> /\ Deliver("history")
        /\ SetMessages(Head(down).session, Head(down).msgs, running)
    BY DEF History, elsewhere, nav
  <1>2. /\ down[1].session \in Session /\ down[1].msgs \in Seq(MessagesOf(down[1].session))
        /\ Head(down) = down[1] /\ down' \in Seq(Events)
    BY <1>1, Delivered
  <1>3. PICK s, msgs : s \in Session /\ msgs \in Seq(MessagesOf(s)) /\ SetMessages(s, msgs, running)
    BY <1>1, <1>2
  <1>4. s \in Key /\ msgs \in Seq(MessagesOf(s)')
    BY <1>1, <1>3, SameRuns DEF Key
  <1>5. \A x \in Key : shown[x] \in Seq(MessagesOf(x)')
    BY <1>1, SameRuns DEF StoreInv
  <1>6. StoreInv'
    BY <1>3, <1>4, <1>5, SetMessagesKeeps
  <1>7. /\ evicted \subseteq evicted' /\ evicted' \subseteq evicted \cup Runs' /\ running' = running
    BY <1>3, <1>4, SetMessagesShows
  <1>8. kept' \subseteq Key /\ AccessOrder'
    BY <1>3, <1>4, SetMessagesOrders
  <1>9. KeysInv' /\ GhostInv'
    BY <1>1, <1>7, <1>8, SameRuns DEF KeysInv, GhostInv, ghosts
  <1>10. up' \in Seq(Requests) /\ connected' \in BOOLEAN
    BY <1>1 DEF WireInv
  <1> QED
    BY <1>1, <1>2, <1>6, <1>9, <1>10, SameTypes

LEMMA ConnectionTypes == ASSUME TypeInv, LoadTimesOut \/ Drop \/ Reconnect PROVE TypeInv'
  <1> USE DEF TypeInv
  <1>1. /\ UNCHANGED <<nav, refs, callback, log>> /\ busy' \in {busy, NoRun}
        /\ UNCHANGED <<of, shown, running, kept, older, evicted>>
        /\ connected' \in BOOLEAN
    BY DEF LoadTimesOut, Drop, Reconnect, page, nav, store, server, WireInv
  <1>2. ServerInv'
    <2>1. busy' \in 0..Len(of)
      BY <1>1, LenProperties DEF NavInv, ServerInv, NoRun
    <2> QED
      BY <1>1, <2>1, SameRuns DEF ServerInv
  <1>3. up' \in Seq(Requests)
    <2>1. CASE LoadTimesOut
      <3>1. PICK i \in 1..Len(up) : up' = Without(up, i)
        BY <2>1 DEF LoadTimesOut, Without
      <3> QED
        BY <3>1, WithoutProperties DEF WireInv
    <2>2. CASE Drop
      BY <2>2, EmptySeq DEF Drop
    <2>3. CASE Reconnect
      BY <2>3 DEF Reconnect, WireInv
    <2> QED
      BY <2>1, <2>2, <2>3
  <1>4. down' \in Seq(Events)
    BY EmptySeq DEF LoadTimesOut, Drop, Reconnect, WireInv
  <1>5. GhostInv'
    <2>1. CASE LoadTimesOut
      BY <1>1, <2>1, RunsOfRuns, SameRuns DEF LoadTimesOut, GhostInv
    <2>2. CASE Drop
      BY <1>1, <2>2, SameRuns DEF Drop, GhostInv, Runs
    <2>3. CASE Reconnect
      BY <1>1, <2>3, SameRuns DEF Reconnect, GhostInv, ghosts
    <2> QED
      BY <2>1, <2>2, <2>3
  <1> QED
    BY <1>1, <1>2, <1>3, <1>4, <1>5, SameTypes

LEMMA StutterTypes == ASSUME TypeInv, UNCHANGED vars PROVE TypeInv'
  <1>1. /\ UNCHANGED <<nav, refs, wire, server, gone, excused>>
        /\ UNCHANGED <<of, shown, running, kept, older, evicted>>
    BY DEF vars, page, nav, store, ghosts
  <1>2. up' \in Seq(Requests) /\ down' \in Seq(Events) /\ connected' \in BOOLEAN
    BY <1>1 DEF TypeInv, WireInv, wire
  <1> QED
    BY <1>1, <1>2, SameTypes DEF TypeInv

LEMMA NextTypes == TypeInv /\ [Next]_vars => TypeInv'
  <1> SUFFICES ASSUME TypeInv, [Next]_vars PROVE TypeInv'
    OBVIOUS
  <1>1. CASE UNCHANGED vars
    BY <1>1, StutterTypes
  <1>2. CASE (\E s \in Key : Select(s)) \/ SendHere \/ SendNew \/ SessionCreated \/ Effects
    BY <1>2, SelectTypes, UserTypes, EffectsTypes
  <1>3. CASE Gateway \/ \E k \in 1..Len(of) : Goroutine(k)
    BY <1>3, TakeHistoryTypes, TakeSendTypes, RefuseSendTypes, RunTypes, RecordTypes DEF Gateway, Goroutine
  <1>4. CASE Frames \/ LoadTimesOut \/ Drop \/ Reconnect
    BY <1>4, StartedTypes, ContentTypes, CompletedTypes, HistoryTypes, ConnectionTypes DEF Frames
  <1> QED
    BY <1>1, <1>2, <1>3, <1>4 DEF Next

\* Whatever the user selects between a call or an event and its arrival, and whatever is
\* evicted or lost, a session shows messages of its own only: histories go where they were
\* asked for, and of the events only those that name the session on view are taken
\* (use-chat-messages.ts:112, 141).
THEOREM SessionsAreSeparate == Spec => []OwnMessages
  <1>1. TypeInv => OwnMessages
    <2> SUFFICES ASSUME TypeInv, NEW s \in Key, NEW i \in 1..Len(shown[s])
                 PROVE  of[shown[s][i].run] = s
      BY DEF OwnMessages
    <2>1. shown[s][i] \in MessagesOf(s)
      BY ElementOfSeq DEF TypeInv, StoreInv
    <2> QED
      BY <2>1 DEF MessagesOf, IsRunOf
  <1> QED
    BY <1>1, InitTypes, NextTypes, PTL DEF Spec

-----------------------------------------------------------------------------
(* The second layer: the order of requests and frames on the wire.         *)

Taken(k) == callback[k] # "none"      \* the gateway has taken the send of run k
SendIn(k) == \E i \in 1..Len(up) : up[i].type = "send" /\ up[i].run = k
FrameIn(type, k) == \E i \in 1..Len(down) : down[i].type = type /\ down[i].run = k
Bounds(f) == f.type \in {"started", "completed"}
SameTaken == \A k \in Run : Taken(k)' <=> Taken(k)

\* The gateway has one run at a time, the last it took, and none without a connection.
RunInv ==
    /\ \A k \in Run : Taken(k) => k \in Runs
    /\ busy # NoRun => /\ connected /\ Taken(busy) /\ busy \notin gone
                       /\ \A k \in Runs : Taken(k) => k <= busy
    /\ runId # NoRun => Taken(runId)
    /\ ~connected => up = <<>> /\ down = <<>> /\ Runs \subseteq gone

\* Sends arrive in their order, and a history that was asked for before a send is answered
\* before it.
UpInv ==
    /\ \A i, j \in 1..Len(up) : i < j /\ up[j].type = "send" => up[i].run < up[j].run
    /\ \A i \in 1..Len(up) : up[i].type = "send" =>
         up[i].run \notin gone /\ \A k \in Runs : Taken(k) => k < up[i].run
    /\ \A k \in Runs : k \in gone \/ Taken(k) \/ SendIn(k)

\* The frames of one run come between its run.started and its run.completed, and the runs
\* one after the other, the one the page is in before those on the way.
DownInv ==
    /\ \A i \in 1..Len(down) : down[i].type # "history" => Taken(down[i].run) /\ down[i].run \notin gone
    /\ \A i, j \in 1..Len(down) : i < j /\ Bounds(down[i]) /\ Bounds(down[j]) =>
         \/ down[i].run < down[j].run
         \/ down[i].run = down[j].run /\ down[i].type = "started" /\ down[j].type = "completed"
    /\ busy # NoRun => \A i \in 1..Len(down) : Bounds(down[i]) =>
         down[i].run < busy \/ (down[i].run = busy /\ down[i].type = "started")
    /\ runId # NoRun => \A i \in 1..Len(down) : Bounds(down[i]) =>
         down[i].run > runId \/ (down[i].run = runId /\ down[i].type = "completed")
    /\ \A i \in 1..Len(down) : down[i].type = "started" =>
         \/ down[i].run = busy \/ down[i].run \in excused
         \/ \E j \in (i + 1)..Len(down) : down[j].type = "completed" /\ down[j].run = down[i].run

OrderInv == RunInv /\ UpInv /\ DownInv


\* What the types say of a request, a frame and a run.
LEMMA OfTypes ==
    ASSUME TypeInv
    PROVE  /\ Len(up) \in Nat /\ Len(down) \in Nat /\ Len(of) \in Nat /\ Runs \subseteq Run
           /\ \A i \in 1..Len(up) : /\ up[i].run \in 0..Len(of) /\ up[i].session \in Session
                                    /\ up[i].type \in {"history", "send"}
                                    /\ up[i].type = "send" => IsRunOf(up[i].run, up[i].session)
           /\ \A i \in 1..Len(down) :
                /\ down[i].run \in 0..Len(of) /\ down[i].session \in Session
                /\ down[i].type \in {"history", "started", "tool", "part", "chunk", "completed"}
                /\ down[i].msgs \in Seq(MessagesOf(down[i].session))
                /\ down[i].type # "history" => /\ IsRunOf(down[i].run, down[i].session)
                                               /\ down[i].run \in Run /\ down[i].msgs = <<>>
           /\ \A k \in Runs : of[k] \in Session
           /\ gone \subseteq excused /\ excused \subseteq Runs
           /\ busy \in 0..Len(of) /\ runId \in 0..Len(of)
           /\ (busy # NoRun => busy \in Runs) /\ (runId # NoRun => runId \in Runs)
  <1>1. Len(up) \in Nat /\ Len(down) \in Nat /\ Len(of) \in Nat /\ Runs \subseteq Run
    BY LenProperties, PageAssumption DEF TypeInv, WireInv, NavInv, Runs, Run
  <1>2. \A i \in 1..Len(up) : up[i] \in Requests
    BY ElementOfSeq DEF TypeInv, WireInv
  <1>3. \A i \in 1..Len(up) : /\ up[i].run \in 0..Len(of) /\ up[i].session \in Session
                              /\ up[i].type \in {"history", "send"}
                              /\ up[i].type = "send" => IsRunOf(up[i].run, up[i].session)
    BY <1>2 DEF Requests
  <1>4. \A i \in 1..Len(down) : down[i] \in Events
    BY ElementOfSeq DEF TypeInv, WireInv
  <1>5. \A i \in 1..Len(down) :
           /\ down[i].run \in 0..Len(of) /\ down[i].session \in Session
           /\ down[i].type \in {"history", "started", "tool", "part", "chunk", "completed"}
           /\ down[i].msgs \in Seq(MessagesOf(down[i].session))
           /\ down[i].type # "history" => IsRunOf(down[i].run, down[i].session) /\ down[i].msgs = <<>>
    BY <1>4 DEF Events
  <1>6. \A k \in Runs : of[k] \in Session
    BY ElementOfSeq DEF TypeInv, NavInv, Runs
  <1>7. busy \in 0..Len(of) /\ runId \in 0..Len(of)
    BY DEF TypeInv, ServerInv, RefsInv
  <1>8. (busy # NoRun => busy \in Runs) /\ (runId # NoRun => runId \in Runs)
    BY <1>1, <1>7 DEF NoRun, Runs
  <1> QED
    BY <1>1, <1>3, <1>5, <1>6, <1>7, <1>8 DEF TypeInv, GhostInv, IsRunOf

\* Where the i-th element was before the n-th went.
Place(i, n) == IF i < n THEN i ELSE i + 1

\* A sequence that has lost one element: which, and where the others are now.
LEMMA Shifted ==
    ASSUME NEW S, NEW q \in Seq(S), NEW n \in 1..Len(q), NEW r, r = Without(q, n)
    PROVE  /\ Len(q) \in Nat /\ Len(r) \in Nat
           /\ \A i \in 1..Len(r) : Place(i, n) \in 1..Len(q) /\ Place(i, n) # n /\ r[i] = q[Place(i, n)]
           /\ \A i, j \in 1..Len(r) : i < j => Place(i, n) < Place(j, n)
           /\ \A x \in 1..Len(q) : x # n => \E i \in 1..Len(r) : x = Place(i, n)
  <1>1. /\ Len(q) \in Nat /\ Len(r) = Len(q) - 1
        /\ \A j \in 1..(Len(q) - 1) : r[j] = q[Place(j, n)]
    BY WithoutProperties DEF Place
  <1>2. \A i \in 1..Len(r) : Place(i, n) \in 1..Len(q) /\ Place(i, n) # n
    BY <1>1 DEF Place
  <1>3. Len(r) \in Nat /\ \A i \in 1..Len(r) : r[i] = q[Place(i, n)]
    BY <1>1
  <1>4. \A i, j \in 1..Len(r) : i < j => Place(i, n) < Place(j, n)
    BY <1>1 DEF Place
  <1>5. ASSUME NEW x \in 1..Len(q), x # n
        PROVE  \E i \in 1..Len(r) : x = Place(i, n)
    <2>1. PICK i : i = IF x < n THEN x ELSE x - 1
      OBVIOUS
    <2>2. i \in 1..Len(r) /\ x = Place(i, n)
      BY <1>1, <1>5, <2>1 DEF Place
    <2> QED
      BY <2>2
  <1> HIDE DEF Place
  <1>6. Len(q) \in Nat
    BY <1>1
  <1> QED
    BY <1>2, <1>4, <1>5, <1>3, <1>6

\* What is not taken out of a sequence is still in it.
LEMMA ShiftedKeeps ==
    ASSUME NEW S, NEW q \in Seq(S), NEW n \in 1..Len(q), NEW r, r = Without(q, n),
           NEW x \in 1..Len(q), x # n
    PROVE  \E j \in 1..Len(r) : r[j] = q[x]
  <1>1. PICK j \in 1..Len(r) : x = Place(j, n)
    BY Shifted
  <1>2. r[j] = q[Place(j, n)]
    BY Shifted
  <1> QED
    BY <1>1, <1>2

LEMMA UpSame ==
    ASSUME TypeInv, UpInv, UNCHANGED <<of, up, gone>>, SameTaken
    PROVE  UpInv'
  <1>1. \A k \in Runs : Taken(k)' <=> Taken(k)
    BY OfTypes DEF SameTaken
  <1>2. \A k : SendIn(k)' <=> SendIn(k)
    BY DEF SendIn
  <1> QED
    BY <1>1, <1>2, SameRuns DEF UpInv

LEMMA UpLoad ==
    ASSUME TypeInv, UpInv, UNCHANGED <<of, gone>>, SameTaken,
           NEW s \in Session, up' = Append(up, Request("history", Len(of), s))
    PROVE  UpInv'
  <1>1. \A k \in Runs : Taken(k)' <=> Taken(k)
    BY OfTypes DEF SameTaken
  <1>2. PICK r : r = Request("history", Len(of), s)
    OBVIOUS
  <1>3. r.type = "history" /\ r \in Requests
    BY <1>2, OfTypes DEF Request, Requests
  <1>4. /\ Len(up) \in Nat /\ Len(up') = Len(up) + 1 /\ up'[Len(up) + 1] = r
        /\ \A i \in 1..Len(up) : up'[i] = up[i]
    BY <1>2, <1>3, OfTypes, AppendProperties DEF TypeInv, WireInv
  <1>5. \A i \in 1..Len(up') : up'[i].type = "send" => i \in 1..Len(up)
    BY <1>3, <1>4
  <1>6. \A k : SendIn(k) => SendIn(k)'
    BY <1>4 DEF SendIn
  <1>7. \A i, j \in 1..Len(up') : i < j /\ up'[j].type = "send" => up'[i].run < up'[j].run
    BY <1>4, <1>5 DEF UpInv
  <1>8. \A i \in 1..Len(up') : up'[i].type = "send" =>
          up'[i].run \notin gone' /\ \A k \in Runs' : Taken(k)' => k < up'[i].run
    BY <1>1, <1>4, <1>5, SameRuns DEF UpInv
  <1> QED
    BY <1>1, <1>6, <1>7, <1>8, SameRuns DEF UpInv

LEMMA UpSent ==
    ASSUME TypeInv, RunInv, UpInv, UNCHANGED gone, SameTaken, Len(of) < MaxSends, NEW s \in Session,
           of' = Append(of, s), up' = Append(up, Request("send", Len(of'), s))
    PROVE  UpInv'
  <1>1. /\ Len(of') = Len(of) + 1 /\ Len(of) \in Nat /\ Runs' = Runs \cup {Len(of')}
        /\ Runs = 1..Len(of) /\ Requests \subseteq Requests' /\ IsRunOf(Len(of), s)'
    BY MoreRuns DEF TypeInv, Runs
  <1>2. PICK r : r = Request("send", Len(of'), s)
    OBVIOUS
  <1>3. r.type = "send" /\ r.run = Len(of) + 1 /\ r \in Requests'
    BY <1>1, <1>2 DEF Request, Requests
  <1>4. /\ Len(up) \in Nat /\ Len(up') = Len(up) + 1 /\ up'[Len(up) + 1] = r
        /\ \A i \in 1..Len(up) : up'[i] = up[i]
    <2>1. up \in Seq(Requests')
      BY <1>1, SeqSubset DEF TypeInv, WireInv
    <2> QED
      BY <1>2, <1>3, <2>1, OfTypes, AppendProperties
  <1>5. \A i, j \in 1..Len(up') : i < j /\ up'[j].type = "send" => up'[i].run < up'[j].run
    <2> SUFFICES ASSUME NEW i \in 1..Len(up'), NEW j \in 1..Len(up'), i < j, up'[j].type = "send"
                 PROVE  up'[i].run < up'[j].run
      OBVIOUS
    <2>1. i \in 1..Len(up) /\ up'[i] = up[i] /\ up[i].run \in 0..Len(of)
      BY <1>4, OfTypes
    <2>2. CASE j = Len(up) + 1
      <3>1. up'[j].run = Len(of) + 1
        BY <1>3, <1>4, <2>2
      <3> QED
        BY <1>1, <2>1, <3>1
    <2>3. CASE j # Len(up) + 1
      <3>1. j \in 1..(Len(up) + 1) /\ Len(up) \in Nat
        BY <1>4
      <3>2. j \in 1..Len(up)
        BY <2>3, <3>1
      <3>3. up'[j] = up[j]
        BY <1>4, <3>2
      <3> QED
        BY <2>1, <3>2, <3>3 DEF UpInv
    <2> QED
      BY <2>2, <2>3
  <1>6. \A k \in Runs' : Taken(k)' => k \in Runs /\ Taken(k)
    <2>1. Runs' \subseteq Run
      BY <1>1, PageAssumption DEF Run
    <2> QED
      BY <2>1 DEF SameTaken, RunInv
  <1>7. \A i \in 1..Len(up') : up'[i].type = "send" =>
          up'[i].run \notin gone' /\ \A k \in Runs' : Taken(k)' => k < up'[i].run
    <2> SUFFICES ASSUME NEW i \in 1..Len(up'), up'[i].type = "send"
                 PROVE  up'[i].run \notin gone' /\ \A k \in Runs' : Taken(k)' => k < up'[i].run
      OBVIOUS
    <2>1. CASE i = Len(up) + 1
      BY <1>1, <1>3, <1>4, <1>6, <2>1, OfTypes
    <2>2. CASE i # Len(up) + 1
      BY <1>4, <1>6, <2>2 DEF UpInv
    <2> QED
      BY <2>1, <2>2
  <1>8. \A k : SendIn(k) \/ k = Len(of') => SendIn(k)'
    BY <1>1, <1>3, <1>4 DEF SendIn
  <1>9. \A k \in Runs : Taken(k) => Taken(k)'
    BY OfTypes DEF SameTaken
  <1> QED
    BY <1>1, <1>5, <1>7, <1>8, <1>9 DEF UpInv

\* A request is gone: a history, or the send of a run that is taken now.
LEMMA UpRemoved ==
    ASSUME TypeInv, UpInv, UNCHANGED <<of, gone>>, NEW n \in 1..Len(up), up' = Without(up, n),
           \A k \in Runs : Taken(k) => Taken(k)',
           \A k \in Runs : Taken(k)' => \/ Taken(k)
                                        \/ n = 1 /\ up[1].type = "send" /\ k = up[1].run,
           \A k \in Runs : up[n].type = "send" /\ up[n].run = k => Taken(k)'
    PROVE  UpInv'
  <1>1. /\ \A i \in 1..Len(up') : Place(i, n) \in 1..Len(up) /\ Place(i, n) # n /\ up'[i] = up[Place(i, n)]
        /\ \A i, j \in 1..Len(up') : i < j => Place(i, n) < Place(j, n)
        /\ \A x \in 1..Len(up) : x # n => \E i \in 1..Len(up') : x = Place(i, n)
    <2>1. up \in Seq(Requests)
      BY DEF TypeInv, WireInv
    <2> QED
      BY <2>1, Shifted
  <1>2. \A i, j \in 1..Len(up') : i < j /\ up'[j].type = "send" => up'[i].run < up'[j].run
    BY <1>1 DEF UpInv
  <1>3. \A i \in 1..Len(up') : up'[i].type = "send" =>
          up'[i].run \notin gone' /\ \A k \in Runs' : Taken(k)' => k < up'[i].run
    <2> SUFFICES ASSUME NEW i \in 1..Len(up'), up'[i].type = "send"
                 PROVE  up'[i].run \notin gone' /\ \A k \in Runs : Taken(k)' => k < up'[i].run
      BY SameRuns
    <2>1. PICK x \in 1..Len(up) : x # n /\ up'[i] = up[x]
      BY <1>1
    <2>2. n = 1 => 1 \in 1..Len(up) /\ 1 < x
      BY <2>1
    <2> QED
      BY <2>1, <2>2 DEF UpInv
  <1>4. \A k \in Runs : SendIn(k) => SendIn(k)' \/ Taken(k)'
    <2> SUFFICES ASSUME NEW k \in Runs, SendIn(k) PROVE SendIn(k)' \/ Taken(k)'
      OBVIOUS
    <2>1. PICK x \in 1..Len(up) : up[x].type = "send" /\ up[x].run = k
      BY DEF SendIn
    <2>2. CASE x = n
      BY <2>1, <2>2
    <2>3. CASE x # n
      <3>1. PICK i \in 1..Len(up') : up'[i] = up[x]
        BY <1>1, <2>1, <2>3
      <3> QED
        BY <2>1, <3>1 DEF SendIn
    <2> QED
      BY <2>2, <2>3
  <1> QED
    BY <1>2, <1>3, <1>4, SameRuns DEF UpInv

LEMMA DownSame ==
    ASSUME TypeInv, DownInv, UNCHANGED <<down, gone>>, \A k \in Run : Taken(k) => Taken(k)',
           busy' = busy \/ (busy' = NoRun /\ busy \in excused'), excused \subseteq excused',
           runId' \in {runId, NoRun}
    PROVE  DownInv'
  <1>1. \A i \in 1..Len(down) : down[i].type # "history" =>
           callback'[down[i].run] # "none" /\ down[i].run \notin gone
    <2> SUFFICES ASSUME NEW i \in 1..Len(down), down[i].type # "history"
                 PROVE  callback'[down[i].run] # "none" /\ down[i].run \notin gone
      OBVIOUS
    <2>1. PICK k \in Run : k = down[i].run
      BY OfTypes
    <2>2. Taken(k)' /\ k \notin gone
      BY <2>1 DEF DownInv
    <2> QED
      BY <2>1, <2>2 DEF Taken
  <1> QED
    BY <1>1 DEF DownInv, Taken

\* The first frame has arrived.
LEMMA DownFirst ==
    ASSUME TypeInv, DownInv, 1 \in 1..Len(down), down' = Without(down, 1), UNCHANGED <<busy, gone>>,
           SameTaken, excused \subseteq excused',
           \/ runId' \in {runId, NoRun}
           \/ down[1].type = "started" /\ runId' = down[1].run
    PROVE  DownInv'
  <1>1. /\ Len(down) \in Nat /\ Len(down') \in Nat /\ Len(down') = Len(down) - 1
        /\ \A i \in 1..Len(down') : i + 1 \in 1..Len(down) /\ down'[i] = down[i + 1]
    <2>1. down \in Seq(Events)
      BY DEF TypeInv, WireInv
    <2>2. /\ Len(down) \in Nat /\ Len(down') = Len(down) - 1
          /\ \A i \in 1..(Len(down) - 1) : down'[i] = down[IF i < 1 THEN i ELSE i + 1]
      BY <2>1, WithoutProperties
    <2> QED
      BY <2>2
  <1>2. \A i \in 1..Len(down') : down'[i].type # "history" =>
           callback'[down'[i].run] # "none" /\ down'[i].run \notin gone'
    <2> SUFFICES ASSUME NEW i \in 1..Len(down'), down'[i].type # "history"
                 PROVE  callback'[down'[i].run] # "none" /\ down'[i].run \notin gone
      OBVIOUS
    <2>1. PICK k \in Run : k = down'[i].run /\ k = down[i + 1].run
      BY <1>1, OfTypes
    <2>2. Taken(k) /\ k \notin gone
      BY <1>1, <2>1 DEF DownInv
    <2> QED
      BY <2>1, <2>2 DEF SameTaken, Taken
  <1>3. \A i, j \in 1..Len(down') : i < j /\ Bounds(down'[i]) /\ Bounds(down'[j]) =>
          \/ down'[i].run < down'[j].run
          \/ down'[i].run = down'[j].run /\ down'[i].type = "started" /\ down'[j].type = "completed"
    <2> SUFFICES ASSUME NEW i \in 1..Len(down'), NEW j \in 1..Len(down'), i < j,
                        Bounds(down'[i]), Bounds(down'[j])
                 PROVE  \/ down'[i].run < down'[j].run
                        \/ /\ down'[i].run = down'[j].run
                           /\ down'[i].type = "started" /\ down'[j].type = "completed"
      OBVIOUS
    <2>1. PICK x, y \in 1..Len(down) : x < y /\ down'[i] = down[x] /\ down'[j] = down[y]
      <3>1. i + 1 < j + 1
        BY <1>1
      <3> QED
        BY <1>1, <3>1
    <2> QED
      BY <2>1 DEF DownInv
  <1>4. busy' # NoRun => \A i \in 1..Len(down') : Bounds(down'[i]) =>
          down'[i].run < busy' \/ (down'[i].run = busy' /\ down'[i].type = "started")
    BY <1>1 DEF DownInv
  <1>5. runId' # NoRun => \A i \in 1..Len(down') : Bounds(down'[i]) =>
          down'[i].run > runId' \/ (down'[i].run = runId' /\ down'[i].type = "completed")
    <2> SUFFICES ASSUME runId' # NoRun, NEW i \in 1..Len(down'), Bounds(down'[i])
                 PROVE  down'[i].run > runId' \/ (down'[i].run = runId' /\ down'[i].type = "completed")
      OBVIOUS
    <2>1. PICK x \in 1..Len(down) : 1 < x /\ down'[i] = down[x] /\ down[x].run \in Nat
      <3>1. PICK x : x = i + 1
        OBVIOUS
      <3>2. 1 < x /\ x \in 1..Len(down) /\ down'[i] = down[x]
        BY <1>1, <3>1
      <3>3. \A y \in 1..Len(down) : down[y].run \in Nat
        BY OfTypes
      <3> QED
        BY <3>2, <3>3
    <2>2. CASE runId' = runId
      BY <2>1, <2>2 DEF DownInv
    <2>3. CASE down[1].type = "started" /\ runId' = down[1].run
      <3>1. Bounds(down[1]) /\ Bounds(down[x])
        BY <2>1, <2>3 DEF Bounds
      <3>2. down[1].run \in Nat
        BY OfTypes
      <3>3. \/ down[1].run < down[x].run
            \/ down[1].run = down[x].run /\ down[x].type = "completed"
        BY <2>1, <3>1 DEF DownInv
      <3> QED
        BY <2>1, <2>3, <3>1, <3>3, <3>2
    <2> QED
      BY <2>2, <2>3
  <1>6. \A i \in 1..Len(down') : down'[i].type = "started" =>
          \/ down'[i].run = busy' \/ down'[i].run \in excused'
          \/ \E j \in (i + 1)..Len(down') : down'[j].type = "completed" /\ down'[j].run = down'[i].run
    <2> SUFFICES ASSUME NEW i \in 1..Len(down'), down'[i].type = "started",
                        down'[i].run # busy, down'[i].run \notin excused'
                 PROVE  \E j \in (i + 1)..Len(down') : /\ down'[j].type = "completed"
                                                       /\ down'[j].run = down'[i].run
      OBVIOUS
    <2>1. PICK y \in (i + 1 + 1)..Len(down) : down[y].type = "completed" /\ down[y].run = down'[i].run
      <3>1. i + 1 \in 1..Len(down) /\ down[i + 1] = down'[i] /\ excused \subseteq excused'
        BY <1>1
      <3> QED
        BY <3>1 DEF DownInv
    <2>2. PICK j : j = y - 1
      OBVIOUS
    <2>3. j \in (i + 1)..Len(down') /\ j + 1 = y /\ j \in 1..Len(down')
      BY <1>1, <2>1, <2>2
    <2> QED
      BY <1>1, <2>1, <2>3
  <1> QED
    BY <1>2, <1>3, <1>4, <1>5, <1>6 DEF DownInv, Taken

\* Frames are sent after those on the way, none of them a run.started or a run.completed.
LEMMA DownMore ==
    ASSUME TypeInv, DownInv, UNCHANGED <<busy, gone, runId>>, SameTaken, excused \subseteq excused',
           Len(down') \in Nat, Len(down') >= Len(down), \A i \in 1..Len(down) : down'[i] = down[i],
           \A i \in (Len(down) + 1)..Len(down') :
              \/ down'[i].type = "history"
              \/ /\ down'[i].type \in {"tool", "part", "chunk"} /\ down'[i].run \in Run \ gone
                 /\ callback[down'[i].run] # "none"
    PROVE  DownInv'
  <1>1. Len(down) \in Nat
    BY OfTypes
  <1>2. \A i \in 1..Len(down') : i \in 1..Len(down) \/ i \in (Len(down) + 1)..Len(down')
    BY <1>1
  <1>3. \A i \in 1..Len(down') : Bounds(down'[i]) => i \in 1..Len(down)
    BY <1>2 DEF Bounds
  <1>4. \A i \in 1..Len(down') : down'[i].type # "history" =>
           callback'[down'[i].run] # "none" /\ down'[i].run \notin gone'
    <2> SUFFICES ASSUME NEW i \in 1..Len(down'), down'[i].type # "history"
                 PROVE  callback'[down'[i].run] # "none" /\ down'[i].run \notin gone
      OBVIOUS
    <2>1. PICK k : k = down'[i].run
      OBVIOUS
    <2>2. k \in Run /\ k \notin gone /\ Taken(k)
      <3>1. CASE i \in 1..Len(down)
        <4>1. k \in Run
          BY <2>1, <3>1, OfTypes
        <4> QED
          BY <2>1, <3>1, <4>1 DEF DownInv
      <3>2. CASE i \in (Len(down) + 1)..Len(down')
        BY <2>1, <3>2 DEF Taken
      <3> QED
        BY <1>2, <3>1, <3>2
    <2> QED
      BY <2>1, <2>2 DEF SameTaken, Taken
  <1>5. \A i, j \in 1..Len(down') : i < j /\ Bounds(down'[i]) /\ Bounds(down'[j]) =>
          \/ down'[i].run < down'[j].run
          \/ down'[i].run = down'[j].run /\ down'[i].type = "started" /\ down'[j].type = "completed"
    BY <1>3 DEF DownInv
  <1>6. busy' # NoRun => \A i \in 1..Len(down') : Bounds(down'[i]) =>
          down'[i].run < busy' \/ (down'[i].run = busy' /\ down'[i].type = "started")
    BY <1>3 DEF DownInv
  <1>7. runId' # NoRun => \A i \in 1..Len(down') : Bounds(down'[i]) =>
          down'[i].run > runId' \/ (down'[i].run = runId' /\ down'[i].type = "completed")
    BY <1>3 DEF DownInv
  <1>8. \A i \in 1..Len(down') : down'[i].type = "started" =>
          \/ down'[i].run = busy' \/ down'[i].run \in excused'
          \/ \E j \in (i + 1)..Len(down') : down'[j].type = "completed" /\ down'[j].run = down'[i].run
    <2> SUFFICES ASSUME NEW i \in 1..Len(down'), down'[i].type = "started",
                        down'[i].run # busy, down'[i].run \notin excused'
                 PROVE  \E j \in (i + 1)..Len(down') : /\ down'[j].type = "completed"
                                                       /\ down'[j].run = down'[i].run
      OBVIOUS
    <2>1. i \in 1..Len(down) /\ down'[i] = down[i]
      BY <1>3 DEF Bounds
    <2>2. PICK j \in (i + 1)..Len(down) : down[j].type = "completed" /\ down[j].run = down[i].run
      BY <2>1 DEF DownInv
    <2>3. j \in 1..Len(down) /\ j \in (i + 1)..Len(down')
      BY <1>1, <2>2
    <2> QED
      BY <2>1, <2>2, <2>3
  <1> QED
    BY <1>4, <1>5, <1>6, <1>7, <1>8 DEF DownInv, Taken

LEMMA RunSame ==
    ASSUME TypeInv, RunInv, UNCHANGED gone, SameTaken, Runs \subseteq Runs', Runs' \subseteq Run,
           busy' \in {busy, NoRun}, connected => connected',
           ~connected' => up' = <<>> /\ down' = <<>> /\ Runs' \subseteq gone',
           runId' \in {runId, NoRun} \/ (runId' \in Run /\ Taken(runId)')
    PROVE  RunInv'
  <1>1. \A k \in Run : Taken(k)' => k \in Runs /\ Taken(k)
    BY DEF RunInv, SameTaken
  <1>2. (busy # NoRun => busy \in Run) /\ (runId # NoRun => runId \in Run)
    BY OfTypes
  <1>3. busy' # NoRun => /\ busy' = busy /\ connected' /\ Taken(busy)' /\ busy' \notin gone'
                         /\ \A k \in Runs' : Taken(k)' => k <= busy'
    <2> SUFFICES ASSUME busy' # NoRun
                 PROVE  /\ busy' = busy /\ connected' /\ Taken(busy)' /\ busy' \notin gone'
                        /\ \A k \in Runs' : Taken(k)' => k <= busy'
      OBVIOUS
    <2>1. busy' = busy /\ busy \in Run /\ connected' /\ Taken(busy) /\ busy \notin gone
      BY <1>2 DEF RunInv
    <2>2. Taken(busy)'
      BY <2>1 DEF SameTaken, Taken
    <2> QED
      BY <1>1, <2>1, <2>2 DEF RunInv
  <1>4. runId' # NoRun => Taken(runId)'
    <2>1. CASE runId' = runId
      BY <1>2, <2>1 DEF RunInv, SameTaken, Taken
    <2> QED
      BY <2>1
  <1> QED
    BY <1>1, <1>3, <1>4 DEF RunInv

\* Steps that neither send nor deliver nor take anything.
LEMMA OrderSame ==
    ASSUME TypeInv, OrderInv, UNCHANGED <<of, up, down, gone>>, SameTaken,
           busy' = busy \/ (busy' = NoRun /\ busy \in excused'), excused \subseteq excused',
           runId' \in {runId, NoRun}, connected => connected'
    PROVE  OrderInv'
  <1>1. \A k \in Run : Taken(k) => Taken(k)'
    BY DEF SameTaken
  <1>2. connected \/ (up = <<>> /\ down = <<>> /\ Runs \subseteq gone)
    BY DEF OrderInv, RunInv
  <1>3. Runs' = Runs /\ Runs \subseteq Run
    BY SameRuns, OfTypes
  <1> QED
    BY <1>1, <1>2, <1>3, UpSame, DownSame, RunSame DEF OrderInv

LEMMA UpLoads ==
    ASSUME TypeInv, RunInv, UpInv, UNCHANGED <<of, gone, connected>>, SameTaken,
           up' = up \/ LoadHistory
    PROVE  UpInv' /\ (~connected' => up' = <<>>)
  <1>1. CASE up' = up
    BY <1>1, UpSame DEF RunInv
  <1>2. CASE connected /\ view \in Session /\ up' = Append(up, Request("history", Len(of), view))
    BY <1>2, UpLoad
  <1> QED
    BY <1>1, <1>2 DEF LoadHistory

LEMMA OrderEffects == ASSUME TypeInv, OrderInv, Effects PROVE OrderInv'
  <1>1. UNCHANGED <<of, view, connected, down, server, gone, excused, busy, callback, gone, excused>>
    BY DEF Effects, server, ghosts
  <1>2. runId' \in {runId, NoRun}
    BY DEF Effects, refs
  <1>3. SameTaken
    BY <1>1 DEF SameTaken, Taken
  <1>4. up' = up \/ LoadHistory
    BY DEF Effects
  <1>5. UpInv' /\ (~connected' => up' = <<>>)
    BY <1>1, <1>3, <1>4, UpLoads DEF OrderInv
  <1>6. DownInv'
    BY <1>1, <1>2, <1>3, DownSame DEF OrderInv, SameTaken
  <1>7. RunInv'
    <2>1. Runs' = Runs /\ Runs \subseteq Run
      BY <1>1, SameRuns, OfTypes
    <2>2. ~connected' => down' = <<>> /\ Runs' \subseteq gone'
      BY <1>1, <2>1 DEF OrderInv, RunInv
    <2> QED
      BY <1>1, <1>2, <1>3, <1>5, <2>1, <2>2, RunSame DEF OrderInv
  <1> QED
    BY <1>5, <1>6, <1>7 DEF OrderInv

LEMMA OrderSend ==
    ASSUME TypeInv, OrderInv, NEW s \in Session, Send(s), Len(of) < MaxSends,
           UNCHANGED <<runId, connected, down, server, gone>>, excused \subseteq excused'
    PROVE  OrderInv'
  <1>1. UNCHANGED <<busy, callback>> /\ SameTaken
    BY DEF server, SameTaken, Taken
  <1>2. CASE ~connected
    <2>1. UNCHANGED <<of, up>>
      BY <1>2 DEF Send
    <2> QED
      BY <1>1, <2>1, OrderSame
  <1>3. CASE connected
    <2>1. of' = Append(of, s) /\ up' = Append(up, Request("send", Len(of'), s))
      BY <1>3 DEF Send
    <2>2. UpInv'
      BY <1>1, <2>1, UpSent DEF OrderInv
    <2>3. DownInv'
      BY <1>1, DownSame DEF OrderInv, SameTaken
    <2>4. RunInv'
      <3>1. Runs' = Runs \cup {Len(of')} /\ Len(of') = Len(of) + 1 /\ Len(of) \in Nat
        BY <2>1, MoreRuns DEF TypeInv
      <3>2. Runs \subseteq Runs' /\ Runs' \subseteq Run
        BY <3>1, OfTypes, PageAssumption DEF Run
      <3> QED
        BY <1>1, <1>3, <3>2, RunSame DEF OrderInv
    <2> QED
      BY <2>2, <2>3, <2>4 DEF OrderInv
  <1> QED
    BY <1>2, <1>3

LEMMA OrderUser ==
    ASSUME TypeInv, OrderInv, (\E s \in Key : Select(s)) \/ SendHere \/ SendNew \/ SessionCreated
    PROVE  OrderInv'
  <1>1. CASE (\E s \in Key : Select(s)) \/ SendNew
    <2>1. /\ UNCHANGED <<of, up, down, gone, busy, runId, connected, callback>>
          /\ excused \subseteq excused'
      BY <1>1 DEF Select, SendNew, Navigate, refs, wire, server, ghosts
    <2>2. SameTaken
      BY <2>1 DEF SameTaken, Taken
    <2> QED
      BY <2>1, <2>2, OrderSame
  <1>2. CASE SendHere
    <2>1. /\ view \in Session /\ Send(view) /\ Len(of) < MaxSends
          /\ UNCHANGED <<runId, connected, down, server, gone, excused>>
      BY <1>2 DEF SendHere, ghosts
    <2> QED
      BY <2>1, OrderSend
  <1>3. CASE SessionCreated
    <2>1. PICK s \in Session : Send(s) /\ Navigate(s)
      BY <1>3 DEF SessionCreated
    <2>2. /\ Len(of) < MaxSends /\ UNCHANGED <<runId, connected, down, server, gone>>
          /\ excused \subseteq excused'
      BY <1>3, <2>1 DEF SessionCreated, Navigate
    <2> QED
      BY <2>1, <2>2, OrderSend
  <1> QED
    BY <1>1, <1>2, <1>3

LEMMA OrderTakeHistory == ASSUME TypeInv, OrderInv, TakeHistory PROVE OrderInv'
  <1>1. /\ up # <<>> /\ up' = Tail(up) /\ Head(up).type = "history"
        /\ down' = Append(down, Frame("history", Head(up).run, Head(up).session,
                                      log[Head(up).session]))
        /\ UNCHANGED <<of, runId, connected, busy, callback, gone>> /\ excused \subseteq excused'
    BY DEF TakeHistory, AnswerHistory, page, nav, refs, server
  <1>2. /\ 1 \in 1..Len(up) /\ up[1].type = "history" /\ up' = Without(up, 1)
    BY <1>1, Taking DEF TypeInv
  <1>3. SameTaken
    BY <1>1 DEF SameTaken, Taken
  <1>4. Runs' = Runs /\ Runs \subseteq Run
    BY <1>1, SameRuns, OfTypes
  <1>5. UpInv'
    <2>1. \A k \in Runs : Taken(k)' <=> Taken(k)
      BY <1>3, <1>4 DEF SameTaken
    <2> QED
      BY <1>1, <1>2, <2>1, UpRemoved DEF OrderInv
  <1>6. PICK f : f = Frame("history", Head(up).run, Head(up).session, log[Head(up).session])
    OBVIOUS
  <1>7. f.type = "history"
    BY <1>6 DEF Frame
  <1>8. /\ Len(down) \in Nat /\ Len(down') = Len(down) + 1 /\ down'[Len(down) + 1] = f
        /\ \A i \in 1..Len(down) : down'[i] = down[i]
    BY <1>1, <1>6, AppendProperties, OfTypes DEF TypeInv, WireInv
  <1>9. DownInv'
    <2>1. Len(down') \in Nat /\ Len(down') >= Len(down)
      BY <1>8
    <2>2. \A i \in (Len(down) + 1)..Len(down') : down'[i].type = "history"
      BY <1>7, <1>8
    <2>3. DownInv /\ UNCHANGED <<busy, gone, runId>>
      BY <1>1 DEF OrderInv
    <2> QED
      BY <1>1, <1>3, <1>8, <2>1, <2>2, <2>3, DownMore
  <1>10. RunInv'
    <2>1. connected'
      BY <1>1 DEF OrderInv, RunInv
    <2> QED
      BY <1>1, <1>3, <1>4, <2>1, RunSame DEF OrderInv
  <1> QED
    BY <1>5, <1>9, <1>10 DEF OrderInv

LEMMA OrderTakeSend == ASSUME TypeInv, OrderInv, TakeSend PROVE OrderInv'
  <1>1. PICK k : k = Head(up).run
    OBVIOUS
  <1>2. /\ up # <<>> /\ Head(up).type = "send" /\ up' = Tail(up) /\ busy = NoRun /\ busy' = k
        /\ callback' = [callback EXCEPT ![k] = "stream"]
        /\ down' = Append(down, Frame("started", k, of[k], <<>>))
        /\ UNCHANGED <<of, runId, connected, gone, excused>>
    BY <1>1 DEF TakeSend, page, nav, refs, ghosts
  <1>3. /\ 1 \in 1..Len(up) /\ up[1].type = "send" /\ up[1].run = k /\ up' = Without(up, 1)
        /\ k \in Runs
    BY <1>1, <1>2, Taking DEF TypeInv, IsRunOf
  <1>4. Runs' = Runs /\ Runs \subseteq Run /\ Len(of) \in Nat /\ k \in Nat /\ k # 0 /\ Runs \subseteq Nat
    BY <1>2, <1>3, SameRuns, OfTypes DEF Runs
  <1>5. \A x \in Run : Taken(x)' <=> Taken(x) \/ x = k
    BY <1>2, <1>3, <1>4 DEF Taken, TypeInv, ServerInv
  <1>6. k \notin gone /\ \A x \in Runs : Taken(x) => x < k
    BY <1>3 DEF OrderInv, UpInv
  <1>7. UpInv'
    BY <1>2, <1>3, <1>4, <1>5, UpRemoved DEF OrderInv
  <1>8. RunInv'
    <2>1. \A x \in Run : Taken(x)' => x \in Runs'
      BY <1>3, <1>4, <1>5 DEF OrderInv, RunInv
    <2>2. busy' # NoRun => /\ connected' /\ Taken(busy)' /\ busy' \notin gone'
                           /\ \A x \in Runs' : Taken(x)' => x <= busy'
      <3>1. connected'
        BY <1>2 DEF OrderInv, RunInv
      <3>2. Taken(busy)'
        BY <1>2, <1>3, <1>4, <1>5 DEF Taken
      <3>3. \A x \in Runs' : Taken(x)' => x <= busy'
        BY <1>2, <1>4, <1>5, <1>6
      <3> QED
        BY <1>2, <1>6, <3>1, <3>2, <3>3
    <2>3. runId' # NoRun => Taken(runId)'
      BY <1>2, <1>4, <1>5, OfTypes DEF OrderInv, RunInv, Taken
    <2>4. connected'
      BY <1>2 DEF OrderInv, RunInv
    <2> QED
      BY <2>1, <2>2, <2>3, <2>4 DEF RunInv
  <1>9. DownInv'
    <2>1. PICK f : f = Frame("started", k, of[k], <<>>)
      OBVIOUS
    <2>2. f.type = "started" /\ f.run = k
      BY <2>1 DEF Frame
    <2>3. f \in Events
      BY <1>3, <2>1, EventOfRun DEF TypeInv
    <2>4. /\ Len(down) \in Nat /\ Len(down') = Len(down) + 1 /\ down'[Len(down) + 1] = f
          /\ \A i \in 1..Len(down) : down'[i] = down[i]
      BY <1>2, <2>1, <2>3, AppendProperties, OfTypes DEF TypeInv, WireInv
    <2>5. \A i \in 1..Len(down') : i \in 1..Len(down) \/ (i = Len(down) + 1 /\ down'[i] = f)
      BY <2>4
    <2>6. \A i \in 1..Len(down) : down[i].type # "history" =>
             down[i].run \in Runs /\ Taken(down[i].run) /\ down[i].run < k
      BY <1>6, OfTypes DEF OrderInv, DownInv, IsRunOf
    <2>7. \A i \in 1..Len(down') : down'[i].type # "history" =>
             callback'[down'[i].run] # "none" /\ down'[i].run \notin gone'
      <3>1. \A x \in Run : Taken(x) \/ x = k => callback'[x] # "none"
        BY <1>5 DEF Taken
      <3>2. \A i \in 1..Len(down) : down[i].type # "history" =>
               callback'[down[i].run] # "none" /\ down[i].run \notin gone
        BY <1>4, <2>6, <3>1 DEF OrderInv, DownInv
      <3>3. callback'[f.run] # "none" /\ f.run \notin gone
        BY <1>3, <1>4, <1>6, <2>2, <3>1
      <3> QED
        BY <1>2, <2>4, <2>5, <3>2, <3>3
    <2>8. \A i, j \in 1..Len(down') : i < j /\ Bounds(down'[i]) /\ Bounds(down'[j]) =>
            \/ down'[i].run < down'[j].run
            \/ down'[i].run = down'[j].run /\ down'[i].type = "started" /\ down'[j].type = "completed"
      <3> SUFFICES ASSUME NEW i \in 1..Len(down'), NEW j \in 1..Len(down'), i < j,
                          Bounds(down'[i]), Bounds(down'[j])
                   PROVE  \/ down'[i].run < down'[j].run
                          \/ /\ down'[i].run = down'[j].run
                             /\ down'[i].type = "started" /\ down'[j].type = "completed"
        OBVIOUS
      <3>1. i \in 1..Len(down) /\ down'[i] = down[i]
        BY <2>4, <2>5
      <3>2. CASE j \in 1..Len(down)
        BY <2>4, <3>1, <3>2 DEF OrderInv, DownInv
      <3>3. CASE down'[j] = f
        BY <2>2, <2>6, <3>1, <3>3 DEF Bounds
      <3> QED
        BY <2>5, <3>2, <3>3
    <2>9. busy' # NoRun => \A i \in 1..Len(down') : Bounds(down'[i]) =>
            down'[i].run < busy' \/ (down'[i].run = busy' /\ down'[i].type = "started")
      BY <1>2, <2>2, <2>4, <2>5, <2>6 DEF Bounds
    <2>10. runId' # NoRun => \A i \in 1..Len(down') : Bounds(down'[i]) =>
            down'[i].run > runId' \/ (down'[i].run = runId' /\ down'[i].type = "completed")
      <3>1. runId # NoRun => runId \in Runs /\ runId < k
        BY <1>6, OfTypes DEF OrderInv, RunInv
      <3> QED
        BY <1>2, <1>4, <2>2, <2>4, <2>5, <3>1 DEF OrderInv, DownInv
    <2>11. \A i \in 1..Len(down') : down'[i].type = "started" =>
             \/ down'[i].run = busy' \/ down'[i].run \in excused'
             \/ \E j \in (i + 1)..Len(down') : down'[j].type = "completed" /\ down'[j].run = down'[i].run
      <3> SUFFICES ASSUME NEW i \in 1..Len(down'), down'[i].type = "started",
                          down'[i].run # k, down'[i].run \notin excused
                   PROVE  \E j \in (i + 1)..Len(down') : /\ down'[j].type = "completed"
                                                         /\ down'[j].run = down'[i].run
        BY <1>2
      <3>1. i \in 1..Len(down) /\ down'[i] = down[i]
        BY <2>2, <2>4, <2>5
      <3>2. down[i].run # NoRun
        BY <1>4, <2>6, <3>1 DEF NoRun, Runs
      <3>3. PICK j \in (i + 1)..Len(down) : down[j].type = "completed" /\ down[j].run = down[i].run
        BY <1>2, <3>1, <3>2 DEF OrderInv, DownInv
      <3>4. j \in 1..Len(down) /\ j \in (i + 1)..Len(down')
        BY <2>4, <3>3
      <3> QED
        BY <2>4, <3>1, <3>3, <3>4
    <2> QED
      BY <2>7, <2>8, <2>9, <2>10, <2>11 DEF DownInv, Taken
  <1> QED
    BY <1>7, <1>8, <1>9 DEF OrderInv

LEMMA OrderRefuseSend == ASSUME TypeInv, OrderInv, RefuseSend PROVE OrderInv'
  <1>1. PICK k : k = Head(up).run
    OBVIOUS
  <1>2. /\ up # <<>> /\ Head(up).type = "send" /\ up' = Tail(up) /\ busy = NoRun
        /\ callback' = [callback EXCEPT ![k] = "refused"]
        /\ excused \subseteq excused'
        /\ UNCHANGED <<of, runId, connected, down, busy, gone>>
    BY <1>1 DEF RefuseSend, page, nav, refs
  <1>3. /\ 1 \in 1..Len(up) /\ up[1].type = "send" /\ up[1].run = k /\ up' = Without(up, 1)
        /\ k \in Runs
    BY <1>1, <1>2, Taking DEF TypeInv, IsRunOf
  <1>4. Runs' = Runs /\ Runs \subseteq Run
    BY <1>2, SameRuns, OfTypes
  <1>5. \A x \in Run : Taken(x)' <=> Taken(x) \/ x = k
    BY <1>2, <1>3, <1>4 DEF Taken, TypeInv, ServerInv
  <1>6. UpInv'
    BY <1>2, <1>3, <1>4, <1>5, UpRemoved DEF OrderInv
  <1>7. DownInv'
    BY <1>2, <1>5, DownSame DEF OrderInv
  <1>8. RunInv'
    <2>1. \A x \in Run : Taken(x)' => x \in Runs'
      BY <1>3, <1>4, <1>5 DEF OrderInv, RunInv
    <2>2. runId' # NoRun => Taken(runId)'
      BY <1>2, <1>4, <1>5, OfTypes DEF OrderInv, RunInv, Taken
    <2>3. connected'
      BY <1>2 DEF OrderInv, RunInv
    <2> QED
      BY <1>2, <2>1, <2>2, <2>3 DEF RunInv
  <1> QED
    BY <1>6, <1>7, <1>8 DEF OrderInv

LEMMA OrderGoroutine ==
    ASSUME TypeInv, OrderInv, NEW k \in Runs, Goroutine(k)
    PROVE  OrderInv'
  <1>1. /\ UNCHANGED <<of, up, gone, busy, runId, connected, excused>>
        /\ callback[k] \in {"stream", "rest", "record"}
        /\ \E c \in {"rest", "record", "done"} : callback' = [callback EXCEPT ![k] = c]
    BY StreamSends DEF Goroutine, Record, page, nav, refs, wire, ghosts
  <1>2. k \in Run /\ Runs' = Runs /\ Runs \subseteq Run
    BY <1>1, OfTypes, SameRuns
  <1>3. SameTaken
    BY <1>1, <1>2 DEF SameTaken, Taken, TypeInv, ServerInv
  <1>4. CASE down' = down
    BY <1>1, <1>3, <1>4, OrderSame
  <1>5. CASE (Stream(k) \/ StreamRest(k)) /\ down' # down
    <2>1. PICK types \in Streamed : Publish(types, k)
      BY <1>5, StreamSends
    <2>2. k \notin gone /\ NavInv /\ WireInv
      BY <1>5, <2>1 DEF Publish, TypeInv
    <2>3. /\ Len(down) \in Nat /\ Len(down') = Len(down) + Len(types)
          /\ \A i \in 1..Len(down) : down'[i] = down[i]
          /\ \A i \in (Len(down) + 1)..Len(down') :
               down'[i] = Frame(types[i - Len(down)], k, of[k], <<>>)
      <3>1. Published(types)
        BY <2>1, StreamedTypes
      <3>2. /\ Len(down) \in Nat
            /\ IF k \in gone THEN down' = down ELSE Len(down') = Len(down) + Len(types)
            /\ \A i \in 1..Len(down) : down'[i] = down[i]
            /\ \A i \in (Len(down) + 1)..Len(down') :
                 down'[i] = Frame(types[i - Len(down)], k, of[k], <<>>)
        BY <2>1, <2>2, <3>1, PublishedLast
      <3> QED
        BY <2>2, <3>2
    <2>4. Len(types) \in Nat /\ \A i \in 1..Len(types) : types[i] \in {"tool", "part", "chunk"}
      BY <2>1, StreamedTypes
    <2>5. ASSUME NEW i \in (Len(down) + 1)..Len(down')
          PROVE  /\ down'[i].type \in {"tool", "part", "chunk"} /\ down'[i].run \in Run \ gone
                 /\ callback[down'[i].run] # "none"
      <3>1. i - Len(down) \in 1..Len(types)
        BY <2>3, <2>4
      <3>2. PICK type \in {"tool", "part", "chunk"} : down'[i] = Frame(type, k, of[k], <<>>)
        BY <2>3, <2>4, <3>1
      <3>3. down'[i].type = type /\ down'[i].run = k
        BY <3>2 DEF Frame
      <3> QED
        BY <1>1, <1>2, <2>2, <3>3
    <2>6. Len(down') \in Nat /\ Len(down') >= Len(down)
      BY <2>3, <2>4
    <2>7. DownInv'
      BY <1>1, <1>3, <2>3, <2>5, <2>6, DownMore DEF OrderInv
    <2>8. UpInv'
      BY <1>1, <1>3, UpSame DEF OrderInv
    <2>9. connected'
      BY <1>1, <2>2 DEF OrderInv, RunInv
    <2>10. RunInv'
      BY <1>1, <1>2, <1>3, <2>9, RunSame DEF OrderInv
    <2> QED
      BY <2>7, <2>8, <2>10 DEF OrderInv
  <1> QED
    BY <1>4, <1>5 DEF Goroutine, Record, wire

LEMMA OrderComplete == ASSUME TypeInv, OrderInv, Complete PROVE OrderInv'
  <1>1. PICK k : k = busy
    OBVIOUS
  <1>2. /\ k # NoRun /\ busy' = NoRun /\ Publish(<<"completed">>, k)
        /\ UNCHANGED <<of, up, gone, runId, connected, callback, excused>>
    BY <1>1 DEF Complete, page, nav, refs, ghosts
  <1>3. /\ k \in Runs /\ Runs' = Runs /\ Runs \subseteq Run /\ k \in Run
        /\ k \notin gone /\ connected /\ Taken(k) /\ \A x \in Runs : Taken(x) => x <= k
    BY <1>1, <1>2, OfTypes, SameRuns DEF OrderInv, RunInv
  <1>4. SameTaken
    BY <1>2 DEF SameTaken, Taken
  <1>5. PICK f : f = Frame("completed", k, of[k], <<>>)
    OBVIOUS
  <1>6. f.type = "completed" /\ f.run = k
    BY <1>5 DEF Frame
  <1>7. /\ Len(down) \in Nat /\ Len(down') = Len(down) + 1 /\ down'[Len(down) + 1] = f
        /\ \A i \in 1..Len(down) : down'[i] = down[i]
    <2>1. PICK types : types = <<"completed">>
      OBVIOUS
    <2>2. Len(types) = 1 /\ types[1] = "completed"
      BY <2>1
    <2>3. /\ Len(down) \in Nat /\ Len(down') = Len(down) + Len(types)
          /\ \A i \in 1..Len(down) : down'[i] = down[i]
          /\ \A i \in (Len(down) + 1)..Len(down') :
               down'[i] = Frame(types[i - Len(down)], k, of[k], <<>>)
      BY <1>2, <1>3, <2>1, PublishedLast DEF Published, Streamed, TypeInv
    <2>4. Len(down) + 1 - Len(down) = 1 /\ Len(down) + 1 \in (Len(down) + 1)..Len(down')
      BY <2>2, <2>3
    <2> QED
      BY <1>5, <2>2, <2>3, <2>4
  <1>8. \A i \in 1..Len(down') : i \in 1..Len(down) \/ (i = Len(down) + 1 /\ down'[i] = f)
    BY <1>7
  <1>9. \A i \in 1..Len(down) : Bounds(down[i]) =>
          down[i].run < k \/ (down[i].run = k /\ down[i].type = "started")
    BY <1>1, <1>2 DEF OrderInv, DownInv
  <1>10. DownInv'
    <2>1. \A i \in 1..Len(down') : down'[i].type # "history" =>
             callback'[down'[i].run] # "none" /\ down'[i].run \notin gone'
      BY <1>2, <1>3, <1>6, <1>7, <1>8 DEF OrderInv, DownInv, Taken
    <2>2. \A i, j \in 1..Len(down') : i < j /\ Bounds(down'[i]) /\ Bounds(down'[j]) =>
            \/ down'[i].run < down'[j].run
            \/ down'[i].run = down'[j].run /\ down'[i].type = "started" /\ down'[j].type = "completed"
      <3> SUFFICES ASSUME NEW i \in 1..Len(down'), NEW j \in 1..Len(down'), i < j,
                          Bounds(down'[i]), Bounds(down'[j])
                   PROVE  \/ down'[i].run < down'[j].run
                          \/ /\ down'[i].run = down'[j].run
                             /\ down'[i].type = "started" /\ down'[j].type = "completed"
        OBVIOUS
      <3>1. i \in 1..Len(down) /\ down'[i] = down[i]
        BY <1>7, <1>8
      <3>2. CASE j \in 1..Len(down)
        BY <1>7, <3>1, <3>2 DEF OrderInv, DownInv
      <3>3. CASE down'[j] = f
        BY <1>6, <1>9, <3>1, <3>3
      <3> QED
        BY <1>8, <3>2, <3>3
    <2>3. runId' # NoRun => \A i \in 1..Len(down') : Bounds(down'[i]) =>
            down'[i].run > runId' \/ (down'[i].run = runId' /\ down'[i].type = "completed")
      <3>1. runId # NoRun => runId \in Nat /\ runId <= k
        BY <1>3, OfTypes DEF OrderInv, RunInv, Runs
      <3>2. k \in Nat
        BY <1>3 DEF Runs
      <3>3. runId # NoRun => k > runId \/ k = runId
        BY <3>1, <3>2
      <3> QED
        BY <1>2, <1>6, <1>7, <1>8, <3>3 DEF OrderInv, DownInv
    <2>4. \A i \in 1..Len(down') : down'[i].type = "started" =>
            \/ down'[i].run = busy' \/ down'[i].run \in excused'
            \/ \E j \in (i + 1)..Len(down') : down'[j].type = "completed" /\ down'[j].run = down'[i].run
      <3> SUFFICES ASSUME NEW i \in 1..Len(down'), down'[i].type = "started", down'[i].run \notin excused
                   PROVE  \E j \in (i + 1)..Len(down') : /\ down'[j].type = "completed"
                                                         /\ down'[j].run = down'[i].run
        BY <1>2
      <3>1. i \in 1..Len(down) /\ down'[i] = down[i]
        BY <1>6, <1>7, <1>8
      <3>2. CASE down[i].run = k
        <4>1. Len(down) + 1 \in (i + 1)..Len(down')
          BY <1>7, <3>1
        <4> QED
          BY <1>6, <1>7, <3>1, <3>2, <4>1
      <3>3. CASE down[i].run # k
        <4>1. PICK j \in (i + 1)..Len(down) : down[j].type = "completed" /\ down[j].run = down[i].run
          BY <1>1, <3>1, <3>3 DEF OrderInv, DownInv
        <4>2. j \in 1..Len(down) /\ j \in (i + 1)..Len(down')
          BY <1>7, <3>1, <4>1
        <4> QED
          BY <1>7, <3>1, <4>1, <4>2
      <3> QED
        BY <3>2, <3>3
    <2> QED
      BY <1>2, <2>1, <2>2, <2>3, <2>4 DEF DownInv, Taken
  <1>11. UpInv'
    BY <1>2, <1>4, UpSame DEF OrderInv
  <1>12. RunInv'
    BY <1>2, <1>3, <1>4, RunSame DEF OrderInv
  <1> QED
    BY <1>10, <1>11, <1>12 DEF OrderInv

LEMMA OrderFail == ASSUME TypeInv, OrderInv, Fail PROVE OrderInv'
  <1>1. /\ UNCHANGED <<of, up, down, gone, runId, connected>> /\ excused \subseteq excused'
        /\ busy # NoRun /\ callback[busy] # "none" /\ busy' = NoRun /\ busy \in excused'
        /\ callback' = [callback EXCEPT ![busy] = "done"]
    BY DEF Fail, page, nav, refs, wire
  <1>2. SameTaken
    BY <1>1 DEF SameTaken, Taken, TypeInv, ServerInv
  <1> QED
    BY <1>1, <1>2, OrderSame

LEMMA OrderFrames == ASSUME TypeInv, OrderInv, Frames PROVE OrderInv'
  <1>1. /\ UNCHANGED <<of, view, gone, busy, callback, connected>> /\ excused \subseteq excused'
        /\ up' = up \/ LoadHistory
        /\ \/ runId' \in {runId, NoRun}
           \/ Head(down).type = "started" /\ runId' = Head(down).run
    BY DEF Frames, Started, Content, Completed, History, Deliver, elsewhere, nav, server, ghosts, refs
  <1>2. \E type : Deliver(type)
    BY DEF Frames, Started, Content, Completed, History
  <1>3. 1 \in 1..Len(down) /\ Head(down) = down[1] /\ down # <<>> /\ down' = Without(down, 1)
    BY <1>2, Delivered DEF TypeInv
  <1>4. SameTaken /\ Runs' = Runs /\ Runs \subseteq Run
    BY <1>1, SameRuns, OfTypes DEF SameTaken, Taken
  <1>5. UpInv'
    BY <1>1, <1>4, UpLoads DEF OrderInv
  <1>6. DownInv'
    BY <1>1, <1>3, <1>4, DownFirst DEF OrderInv
  <1>7. RunInv'
    <2>1. connected'
      BY <1>1, <1>3 DEF OrderInv, RunInv
    <2>2. down[1].type = "started" => down[1].run \in Run /\ callback[down[1].run] # "none"
      BY <1>3, OfTypes DEF OrderInv, DownInv, Taken
    <2>3. runId' \in {runId, NoRun} \/ (runId' \in Run /\ Taken(runId)')
      BY <1>1, <1>3, <2>2 DEF Taken
    <2> QED
      BY <1>1, <1>4, <2>1, <2>3, RunSame DEF OrderInv
  <1> QED
    BY <1>5, <1>6, <1>7 DEF OrderInv

LEMMA OrderConnection == ASSUME TypeInv, OrderInv, LoadTimesOut \/ Drop \/ Reconnect PROVE OrderInv'
  <1>1. CASE LoadTimesOut
    <2>1. PICK n \in 1..Len(up) :
             up[n].type = "history" /\ up' = Without(up, n) /\ excused \subseteq excused'
      BY <1>1 DEF LoadTimesOut, Without
    <2>2. UNCHANGED <<of, gone, busy, callback, connected, down, runId>>
      BY <1>1 DEF LoadTimesOut, page, nav, refs, server
    <2>3. SameTaken /\ Runs' = Runs /\ Runs \subseteq Run
      BY <2>2, SameRuns, OfTypes DEF SameTaken, Taken
    <2>4. UpInv'
      <3>1. \A k \in Runs : Taken(k)' <=> Taken(k)
        BY <2>3 DEF SameTaken
      <3> QED
        BY <2>1, <2>2, <3>1, UpRemoved DEF OrderInv
    <2>5. DownInv'
      BY <2>1, <2>2, <2>3, DownSame DEF OrderInv, SameTaken
    <2>6. RunInv'
      <3>1. connected'
        BY <2>1, <2>2, EmptySeq DEF OrderInv, RunInv
      <3> QED
        BY <2>2, <2>3, <3>1, RunSame DEF OrderInv
    <2> QED
      BY <2>4, <2>5, <2>6 DEF OrderInv
  <1>2. CASE Drop
    <2>1. /\ UNCHANGED <<of, callback, runId>> /\ connected' = FALSE /\ up' = <<>> /\ down' = <<>>
          /\ gone' = 1..Len(of) /\ busy' = NoRun
      BY <1>2 DEF Drop, page, nav, refs
    <2>2. Len(up') = 0 /\ Len(down') = 0 /\ Runs' = Runs /\ gone' = Runs
      BY <2>1, EmptySeq, SameRuns DEF Runs
    <2>3. UpInv'
      BY <2>1, <2>2 DEF UpInv
    <2>4. DownInv'
      BY <2>1, <2>2 DEF DownInv
    <2>5. RunInv'
      BY <2>1, <2>2 DEF OrderInv, RunInv, Taken
    <2> QED
      BY <2>3, <2>4, <2>5 DEF OrderInv
  <1>3. CASE Reconnect
    <2>1. /\ UNCHANGED <<of, up, down, gone, busy, runId, callback, excused>> /\ connected' = TRUE
      BY <1>3 DEF Reconnect, page, nav, refs, server, ghosts
    <2>2. SameTaken
      BY <2>1 DEF SameTaken, Taken
    <2> QED
      BY <2>1, <2>2, OrderSame
  <1> QED
    BY <1>1, <1>2, <1>3

LEMMA InitOrder == Init => OrderInv
  <1> SUFFICES ASSUME Init PROVE OrderInv
    OBVIOUS
  <1>1. /\ up = <<>> /\ down = <<>> /\ of = <<>> /\ busy = NoRun /\ runId = NoRun
        /\ connected = TRUE /\ \A k \in Run : ~Taken(k)
    BY DEF Init, Taken
  <1>2. Len(up) = 0 /\ Len(down) = 0 /\ Runs = {}
    BY <1>1, EmptySeq DEF Runs
  <1> QED
    BY <1>1, <1>2 DEF OrderInv, RunInv, UpInv, DownInv

LEMMA NextOrder == TypeInv /\ OrderInv /\ [Next]_vars => OrderInv'
  <1> SUFFICES ASSUME TypeInv, OrderInv, [Next]_vars PROVE OrderInv'
    OBVIOUS
  <1>1. CASE UNCHANGED vars
    <2>1. UNCHANGED <<of, up, down, gone, busy, runId, connected, callback, excused>>
      BY <1>1 DEF vars, page, nav, refs, wire, server, ghosts
    <2>2. SameTaken
      BY <2>1 DEF SameTaken, Taken
    <2> QED
      BY <2>1, <2>2, OrderSame
  <1>2. CASE (\E s \in Key : Select(s)) \/ SendHere \/ SendNew \/ SessionCreated \/ Effects
    BY <1>2, OrderUser, OrderEffects
  <1>3. CASE Gateway \/ \E k \in 1..Len(of) : Goroutine(k)
    BY <1>3, OrderTakeHistory, OrderTakeSend, OrderRefuseSend, OrderComplete, OrderFail, OrderGoroutine
       DEF Gateway, Runs
  <1>4. CASE Frames \/ LoadTimesOut \/ Drop \/ Reconnect
    BY <1>4, OrderFrames, OrderConnection
  <1> QED
    BY <1>1, <1>2, <1>3, <1>4 DEF Next

-----------------------------------------------------------------------------
(* The third layer: no message is twice in the history of the gateway, in  *)
(* an answer on the way, or on the page.                                   *)

NoTwice(q) == \A i, j \in 1..Len(q) : i < j => q[i] # q[j]

LogOnce ==
    \A s \in Session :
        /\ NoTwice(log[s])
        /\ \A k \in Run : /\ Has(log[s], Asked(k)) => Taken(k)
                          /\ Has(log[s], Said(k)) => callback[k] = "done"

\* An answer that a history brings is of a run that is over: what its run.completed may
\* add to the page came before the history.
FramesOnce ==
    \A i \in 1..Len(down) :
        /\ NoTwice(down[i].msgs)
        /\ \A k \in Run : Has(down[i].msgs, Said(k)) =>
              /\ Taken(k) /\ k # busy
              /\ \A j \in (i + 1)..Len(down) : down[j].type = "completed" => down[j].run # k

ShownOnce ==
    \A s \in Key :
        /\ NoTwice(shown[s])
        /\ \A k \in Run : Has(shown[s], Said(k)) => Taken(k) /\ k # busy /\ ~FrameIn("completed", k)

OnceInv == LogOnce /\ FramesOnce /\ ShownOnce

LEMMA NoTwiceAppend ==
    ASSUME NEW S, NEW q \in Seq(S), NEW e \in S, NoTwice(q), ~Has(q, e)
    PROVE  NoTwice(Append(q, e))
  <1>1. /\ Len(q) \in Nat /\ Len(Append(q, e)) = Len(q) + 1
        /\ \A i \in 1..Len(q) : Append(q, e)[i] = q[i]
        /\ Append(q, e)[Len(q) + 1] = e
    BY AppendProperties, LenProperties
  <1> SUFFICES ASSUME NEW i \in 1..(Len(q) + 1), NEW j \in 1..(Len(q) + 1), i < j
               PROVE  Append(q, e)[i] # Append(q, e)[j]
    BY <1>1 DEF NoTwice
  <1>2. i \in 1..Len(q) /\ Append(q, e)[i] = q[i]
    BY <1>1
  <1>3. CASE j = Len(q) + 1
    BY <1>1, <1>2, <1>3 DEF Has
  <1>4. CASE j # Len(q) + 1
    <2>1. j \in 1..Len(q) /\ Append(q, e)[j] = q[j]
      BY <1>1, <1>4
    <2> QED
      BY <1>2, <2>1 DEF NoTwice
  <1> QED
    BY <1>3, <1>4

LEMMA NoTwiceEmpty == NoTwice(<<>>)
  BY EmptySeq DEF NoTwice

LEMMA WhoDiffers == \A k, x : Asked(k) # Said(x) /\ (Asked(k) = Asked(x) => k = x) /\ (Said(k) = Said(x) => k = x)
  <1> SUFFICES ASSUME NEW k, NEW x
               PROVE  Asked(k) # Said(x) /\ (Asked(k) = Asked(x) => k = x) /\ (Said(k) = Said(x) => k = x)
    OBVIOUS
  <1>1. /\ Asked(k).who = "user" /\ Asked(k).run = k /\ Asked(x).run = x
        /\ Said(x).who = "agent" /\ Said(x).run = x /\ Said(k).run = k
    BY DEF Asked, Said
  <1> QED
    BY <1>1

LEMMA LogSame ==
    ASSUME LogOnce, UNCHANGED log,
           \A k \in Run : (Taken(k) => Taken(k)') /\ (callback[k] = "done" => callback'[k] = "done")
    PROVE  LogOnce'
  BY DEF LogOnce

\* The log of a session has grown by one message, of which the run was not in it.
LEMMA LogGrows ==
    ASSUME TypeInv, LogOnce, NEW k \in Runs, NEW m \in {Asked(k), Said(k)}, UNCHANGED of,
           log' = [log EXCEPT ![of[k]] = Append(@, m)],
           \A x \in Run : (Taken(x) => Taken(x)') /\ (callback[x] = "done" => callback'[x] = "done"),
           Taken(k)', m = Asked(k) => ~Taken(k),
           m = Said(k) => callback[k] # "done" /\ callback'[k] = "done"
    PROVE  LogOnce'
  <1>1. /\ k \in Run /\ of[k] \in Session
        /\ \A s \in Session : log'[s] = IF s = of[k] THEN Append(log[s], m) ELSE log[s]
        /\ \A s \in Session : \A x : Has(log'[s], x) <=> Has(log[s], x) \/ (s = of[k] /\ x = m)
    <2>1. log' = [log EXCEPT ![of[k]] = Append(@, m)] /\ UNCHANGED of
      OBVIOUS
    <2>2. k \in Run /\ of[k] \in Session
      BY <2>1, LogKeeps
    <2>3. \A s \in Session : log'[s] = IF s = of[k] THEN Append(log[s], m) ELSE log[s]
      BY <2>1, LogKeeps
    <2>4. \A s \in Session : \A x : Has(log'[s], x) <=> Has(log[s], x) \/ (s = of[k] /\ x = m)
      BY <2>1, LogKeeps
    <2> QED
      BY <2>2, <2>3, <2>4
  <1>2. \A s \in Session : ~Has(log[s], m)
    BY <1>1 DEF LogOnce
  <1>3. \A s \in Session : NoTwice(log'[s])
    <2> SUFFICES ASSUME NEW s \in Session PROVE NoTwice(log'[s])
      OBVIOUS
    <2>1. CASE s = of[k]
      <3>1. log[s] \in Seq(Message) /\ m \in Message
        <4>1. Asked(k) \in Message /\ Said(k) \in Message
          BY <1>1 DEF Message, Asked, Said
        <4> QED
          BY <4>1 DEF TypeInv, ServerInv
      <3>2. NoTwice(Append(log[s], m))
        BY <1>2, <3>1, NoTwiceAppend DEF LogOnce
      <3> QED
        BY <1>1, <2>1, <3>2
    <2>2. CASE s # of[k]
      BY <1>1, <2>2 DEF LogOnce
    <2> QED
      BY <2>1, <2>2
  <1>4. \A s \in Session, x \in Run : (Has(log'[s], Asked(x)) => Taken(x)')
                                     /\ (Has(log'[s], Said(x)) => callback'[x] = "done")
    <2> SUFFICES ASSUME NEW s \in Session, NEW x \in Run
                 PROVE  (Has(log'[s], Asked(x)) => Taken(x)') /\ (Has(log'[s], Said(x)) => callback'[x] = "done")
      OBVIOUS
    <2>1. Has(log[s], Asked(x)) => Taken(x)'
      BY DEF LogOnce
    <2>2. Has(log[s], Said(x)) => callback'[x] = "done"
      BY DEF LogOnce
    <2>3. Asked(x) = m => x = k
      BY WhoDiffers
    <2>4. Said(x) = m => x = k /\ callback'[k] = "done"
      BY WhoDiffers
    <2> QED
      BY <1>1, <2>1, <2>2, <2>3, <2>4
  <1> QED
    BY <1>3, <1>4 DEF LogOnce

LEMMA FramesSame ==
    ASSUME FramesOnce, UNCHANGED down, \A k \in Run : Taken(k) => Taken(k)',
           busy' \in {busy, NoRun}, NoRun \notin Run
    PROVE  FramesOnce'
  BY DEF FramesOnce

LEMMA FramesFirst ==
    ASSUME TypeInv, FramesOnce, 1 \in 1..Len(down), down' = Without(down, 1),
           \A k \in Run : Taken(k) => Taken(k)', UNCHANGED busy
    PROVE  FramesOnce'
  <1>1. /\ Len(down) \in Nat /\ Len(down') = Len(down) - 1
        /\ \A i \in 1..(Len(down) - 1) : down'[i] = down[i + 1]
    <2>1. down \in Seq(Events)
      BY DEF TypeInv, WireInv
    <2>2. /\ Len(down) \in Nat /\ Len(down') = Len(down) - 1
          /\ \A i \in 1..(Len(down) - 1) : down'[i] = down[IF i < 1 THEN i ELSE i + 1]
      BY <2>1, WithoutProperties
    <2> QED
      BY <2>2
  <1> SUFFICES ASSUME NEW i \in 1..Len(down')
               PROVE  /\ NoTwice(down'[i].msgs)
                      /\ \A k \in Run : Has(down'[i].msgs, Said(k)) =>
                            /\ Taken(k)' /\ k # busy'
                            /\ \A j \in (i + 1)..Len(down') : down'[j].type = "completed" => down'[j].run # k
    BY DEF FramesOnce
  <1>2. PICK x : x = i + 1
    OBVIOUS
  <1>3. x \in 1..Len(down) /\ down'[i] = down[x]
    BY <1>1, <1>2
  <1>4. \A j \in (i + 1)..Len(down') : j + 1 \in (x + 1)..Len(down) /\ down'[j] = down[j + 1]
    BY <1>1, <1>2
  <1>5. /\ NoTwice(down[x].msgs)
        /\ \A k \in Run : Has(down[x].msgs, Said(k)) =>
              /\ Taken(k) /\ k # busy
              /\ \A j \in (x + 1)..Len(down) : down[j].type = "completed" => down[j].run # k
    BY <1>3 DEF FramesOnce
  <1> QED
    BY <1>3, <1>4, <1>5

\* Frames are sent after those on the way; what a history among them shows is over.
LEMMA FramesMore ==
    ASSUME TypeInv, FramesOnce, \A k \in Run : Taken(k) => Taken(k)', NoRun \notin Run,
           Len(down') \in Nat, Len(down') >= Len(down), \A i \in 1..Len(down) : down'[i] = down[i],
           \A i \in (Len(down) + 1)..Len(down') :
              /\ NoTwice(down'[i].msgs)
              /\ \A k \in Run : Has(down'[i].msgs, Said(k)) => Taken(k)' /\ k # busy' /\ i = Len(down'),
           \A i \in (Len(down) + 1)..Len(down') : down'[i].type = "completed" => down'[i].run = busy,
           busy' \in {busy, NoRun} \/ (busy' \in Run /\ ~Taken(busy'))
    PROVE  FramesOnce'
  <1>1. Len(down) \in Nat
    BY OfTypes
  <1> SUFFICES ASSUME NEW i \in 1..Len(down')
               PROVE  /\ NoTwice(down'[i].msgs)
                      /\ \A k \in Run : Has(down'[i].msgs, Said(k)) =>
                            /\ Taken(k)' /\ k # busy'
                            /\ \A j \in (i + 1)..Len(down') : down'[j].type = "completed" => down'[j].run # k
    BY DEF FramesOnce
  <1>2. CASE i \in 1..Len(down)
    <2>1. NoTwice(down'[i].msgs)
      BY <1>2 DEF FramesOnce
    <2> SUFFICES ASSUME NEW k \in Run, Has(down[i].msgs, Said(k))
                 PROVE  /\ Taken(k)' /\ k # busy'
                        /\ \A j \in (i + 1)..Len(down') : down'[j].type = "completed" => down'[j].run # k
      BY <1>2, <2>1
    <2>2. Taken(k) /\ k # busy /\ \A j \in (i + 1)..Len(down) : down[j].type = "completed" => down[j].run # k
      BY <1>2 DEF FramesOnce
    <2>3. ASSUME NEW j \in (i + 1)..Len(down'), down'[j].type = "completed" PROVE down'[j].run # k
      <3>1. CASE j \in 1..Len(down)
        <4>1. j \in (i + 1)..Len(down) /\ down'[j] = down[j]
          BY <3>1
        <4> QED
          BY <2>2, <2>3, <4>1
      <3>2. CASE j \notin 1..Len(down)
        <4>1. j \in (Len(down) + 1)..Len(down')
          BY <1>1, <1>2, <3>2
        <4> QED
          BY <2>2, <2>3, <4>1
      <3> QED
        BY <3>1, <3>2
    <2> QED
      BY <2>2, <2>3
  <1>3. CASE i \notin 1..Len(down)
    <2>1. i \in (Len(down) + 1)..Len(down')
      BY <1>1, <1>3
    <2>2. i = Len(down') => \A j \in (i + 1)..Len(down') : FALSE
      OBVIOUS
    <2> QED
      BY <2>1, <2>2
  <1> QED
    BY <1>2, <1>3

LEMMA ShownSame ==
    ASSUME ShownOnce, UNCHANGED shown, \A k \in Run : Taken(k) => Taken(k)', NoRun \notin Run,
           busy' \in {busy, NoRun} \/ (busy' \in Run /\ ~Taken(busy')),
           \A k \in Run : FrameIn("completed", k)' => FrameIn("completed", k) \/ k = busy
    PROVE  ShownOnce'
  BY DEF ShownOnce

\* A session is shown messages that are not there twice, of runs that are over.
LEMMA ShownSet ==
    ASSUME ShownOnce, NEW s \in Key, NEW msgs, NEW runs, SetMessages(s, msgs, runs),
           \A k \in Run : Taken(k) => Taken(k)', UNCHANGED busy,
           \A k \in Run : FrameIn("completed", k)' => FrameIn("completed", k),
           NoTwice(msgs),
           \A k \in Run : Has(msgs, Said(k)) => Taken(k)' /\ k # busy' /\ ~FrameIn("completed", k)'
    PROVE  ShownOnce'
  <1> SUFFICES ASSUME NEW x \in Key
               PROVE  /\ NoTwice(shown'[x])
                      /\ \A k \in Run : Has(shown'[x], Said(k)) =>
                            Taken(k)' /\ k # busy' /\ ~FrameIn("completed", k)'
    BY DEF ShownOnce
  <1>1. \/ shown'[x] = <<>> \/ shown'[x] = shown[x]
        \/ shown'[x] = msgs
    BY SetMessagesShows
  <1> QED
    BY <1>1, NoTwiceEmpty, HasEmpty DEF ShownOnce

LEMMA NoRunIsNone == NoRun \notin Run
  BY DEF NoRun, Run

\* Steps that neither log, nor show, nor send or deliver frames.
LEMMA OnceSame ==
    ASSUME OnceInv, UNCHANGED <<log, shown, down>>, busy' \in {busy, NoRun},
           \A k \in Run : (Taken(k) => Taken(k)') /\ (callback[k] = "done" => callback'[k] = "done")
    PROVE  OnceInv'
  <1>1. \A k \in Run : FrameIn("completed", k)' => FrameIn("completed", k)
    BY DEF FrameIn
  <1>2. ShownOnce'
    BY <1>1, NoRunIsNone, ShownSame DEF OnceInv
  <1> QED
    BY <1>2, NoRunIsNone, LogSame, FramesSame DEF OnceInv

LEMMA OnceUser ==
    ASSUME TypeInv, OnceInv,
           (\E s \in Key : Select(s)) \/ SendHere \/ SendNew \/ SessionCreated \/ Effects
    PROVE  OnceInv'
  <1>1. UNCHANGED <<log, down, busy, callback>>
    BY DEF Select, SendHere, SendNew, SessionCreated, Effects, wire, server
  <1>2. \A k \in Run : (Taken(k) => Taken(k)') /\ (callback[k] = "done" => callback'[k] = "done")
    BY <1>1 DEF Taken
  <1>3. CASE UNCHANGED shown
    BY <1>1, <1>2, <1>3, OnceSame
  <1>4. CASE ~UNCHANGED shown
    <2>1. PICK s \in Session : Send(s) /\ connected
      <3>1. SendHere \/ SessionCreated
        BY <1>4 DEF Select, SendNew, Effects, SetRunning, store
      <3>2. CASE SendHere
        BY <1>4, <3>2 DEF SendHere, Send, store
      <3>3. CASE SessionCreated
        BY <1>4, <3>3 DEF SessionCreated, Send, store
      <3> QED
        BY <3>1, <3>2, <3>3
    <2>2. of' = Append(of, s) /\ SetMessages(s, Append(shown[s], Asked(Len(of'))), running)
      BY <2>1 DEF Send
    <2>3. PICK k : k = Len(of')
      OBVIOUS
    <2>4. k = Len(of) + 1 /\ Len(of) \in Nat /\ s \in Key
      BY <2>2, <2>3, MoreRuns DEF TypeInv, Key
    <2>5. shown[s] \in Seq(MessagesOf(s))
      BY <2>4 DEF TypeInv, StoreInv
    <2>6. PICK S : S = MessagesOf(s) \cup {Asked(k)}
      OBVIOUS
    <2>7. shown[s] \in Seq(S) /\ Asked(k) \in S
      BY <2>5, <2>6, SeqSubset
    <2>8. ~Has(shown[s], Asked(k))
      <3>1. \A i \in 1..Len(shown[s]) : shown[s][i].run \in 1..Len(of)
        BY <2>5, ElementOfSeq DEF MessagesOf, IsRunOf, Runs
      <3>2. Asked(k).run = k /\ k \notin 1..Len(of)
        BY <2>4 DEF Asked
      <3> QED
        BY <3>1, <3>2 DEF Has
    <2>9. PICK msgs : msgs = Append(shown[s], Asked(k))
      OBVIOUS
    <2>10. NoTwice(msgs)
      BY <2>4, <2>7, <2>8, <2>9, NoTwiceAppend DEF OnceInv, ShownOnce
    <2>11. \A x \in Run : FrameIn("completed", x)' => FrameIn("completed", x)
      BY <1>1 DEF FrameIn
    <2>12. \A x \in Run : Has(msgs, Said(x)) => Taken(x)' /\ x # busy' /\ ~FrameIn("completed", x)'
      <3>1. \A x \in Run : Has(msgs, Said(x)) => Has(shown[s], Said(x))
        BY <2>7, <2>9, HasAppend, WhoDiffers
      <3> QED
        BY <1>1, <1>2, <2>4, <2>11, <3>1 DEF OnceInv, ShownOnce
    <2>13. SetMessages(s, msgs, running)
      BY <2>2, <2>3, <2>9
    <2>14. ShownOnce'
      BY <1>1, <1>2, <2>4, <2>10, <2>11, <2>12, <2>13, ShownSet DEF OnceInv
    <2> QED
      BY <1>1, <1>2, <2>14, NoRunIsNone, LogSame, FramesSame DEF OnceInv
  <1> QED
    BY <1>3, <1>4

LEMMA OnceTakeHistory == ASSUME TypeInv, OrderInv, OnceInv, TakeHistory PROVE OnceInv'
  <1>1. PICK s : s = Head(up).session
    OBVIOUS
  <1>2. /\ up # <<>> /\ up' = Tail(up) /\ busy = NoRun
        /\ down' = Append(down, Frame("history", Head(up).run, s, log[s]))
        /\ UNCHANGED <<shown, busy, callback, log>>
    BY <1>1 DEF TakeHistory, AnswerHistory, page, store, server
  <1>3. s \in Session
    BY <1>1, <1>2, Taking DEF TypeInv
  <1>4. PICK f : f = Frame("history", Head(up).run, s, log[s])
    OBVIOUS
  <1>5. f.type = "history" /\ f.msgs = log[s]
    BY <1>4 DEF Frame
  <1>6. /\ Len(down) \in Nat /\ Len(down') = Len(down) + 1 /\ down'[Len(down) + 1] = f
        /\ \A i \in 1..Len(down) : down'[i] = down[i]
    BY <1>2, <1>4, AppendProperties, OfTypes DEF TypeInv, WireInv
  <1>7. \A i \in (Len(down) + 1)..Len(down') : i = Len(down') /\ down'[i] = f
    BY <1>6
  <1>8. \A k \in Run : (Taken(k) => Taken(k)') /\ (callback[k] = "done" => callback'[k] = "done")
    BY <1>2 DEF Taken
  <1>9. \A k \in Run : Has(log[s], Said(k)) => Taken(k)' /\ k # busy'
    BY <1>2, <1>3, NoRunIsNone DEF OnceInv, LogOnce, Taken
  <1>10. FramesOnce'
    <2>1. Len(down') \in Nat /\ Len(down') >= Len(down)
      BY <1>6
    <2>2. NoTwice(f.msgs)
      BY <1>3, <1>5 DEF OnceInv, LogOnce
    <2>3. \A i \in (Len(down) + 1)..Len(down') :
            /\ NoTwice(down'[i].msgs)
            /\ \A k \in Run : Has(down'[i].msgs, Said(k)) => Taken(k)' /\ k # busy' /\ i = Len(down')
      BY <1>5, <1>7, <1>9, <2>2
    <2>4. \A i \in (Len(down) + 1)..Len(down') : down'[i].type = "completed" => down'[i].run = busy
      BY <1>5, <1>7
    <2> QED
      BY <1>2, <1>6, <1>8, <2>1, <2>3, <2>4, NoRunIsNone, FramesMore DEF OnceInv
  <1>11. ShownOnce'
    <2>1. \A k \in Run : FrameIn("completed", k)' => FrameIn("completed", k)
      <3>1. \A i \in 1..Len(down') : down'[i].type = "completed" => i \in 1..Len(down) /\ down'[i] = down[i]
        BY <1>5, <1>6, <1>7
      <3> QED
        BY <3>1 DEF FrameIn
    <2> QED
      BY <1>2, <1>8, <2>1, NoRunIsNone, ShownSame DEF OnceInv
  <1> QED
    BY <1>2, <1>8, <1>10, <1>11, LogSame DEF OnceInv

LEMMA OnceTakeSend == ASSUME TypeInv, OrderInv, OnceInv, TakeSend PROVE OnceInv'
  <1>1. PICK k : k = Head(up).run
    OBVIOUS
  <1>2. /\ up # <<>> /\ Head(up).type = "send" /\ up' = Tail(up) /\ busy = NoRun /\ busy' = k
        /\ log' = [log EXCEPT ![of[k]] = Append(@, Asked(k))]
        /\ callback' = [callback EXCEPT ![k] = "stream"]
        /\ down' = Append(down, Frame("started", k, of[k], <<>>))
        /\ UNCHANGED <<of, shown>>
    BY <1>1 DEF TakeSend, page, nav, store
  <1>3. 1 \in 1..Len(up) /\ up[1].type = "send" /\ up[1].run = k /\ k \in Runs
    BY <1>1, <1>2, Taking DEF TypeInv, IsRunOf
  <1>4. ~Taken(k) /\ k \in Run
    <2>1. Taken(k) => k < k
      BY <1>3 DEF OrderInv, UpInv
    <2>2. k \in Nat /\ k \in Run
      BY <1>3, OfTypes DEF Runs
    <2> QED
      BY <2>1, <2>2
  <1>5. /\ Taken(k)'
        /\ \A x \in Run : (Taken(x) => Taken(x)') /\ (callback[x] = "done" => callback'[x] = "done")
    BY <1>2, <1>4 DEF Taken, TypeInv, ServerInv
  <1>6. LogOnce'
    BY <1>2, <1>3, <1>4, <1>5, LogGrows, WhoDiffers DEF OnceInv
  <1>7. PICK f : f = Frame("started", k, of[k], <<>>)
    OBVIOUS
  <1>8. f.type = "started" /\ f.msgs = <<>>
    BY <1>7 DEF Frame
  <1>9. /\ Len(down) \in Nat /\ Len(down') = Len(down) + 1 /\ down'[Len(down) + 1] = f
        /\ \A i \in 1..Len(down) : down'[i] = down[i]
    BY <1>2, <1>7, AppendProperties, OfTypes DEF TypeInv, WireInv
  <1>10. \A i \in (Len(down) + 1)..Len(down') : i = Len(down') /\ down'[i] = f
    BY <1>9
  <1>11. FramesOnce'
    <2>1. Len(down') \in Nat /\ Len(down') >= Len(down)
      BY <1>9
    <2>2. \A i \in (Len(down) + 1)..Len(down') :
            /\ NoTwice(down'[i].msgs)
            /\ \A x \in Run : Has(down'[i].msgs, Said(x)) => Taken(x)' /\ x # busy' /\ i = Len(down')
      BY <1>8, <1>10, NoTwiceEmpty, HasEmpty
    <2>3. \A i \in (Len(down) + 1)..Len(down') : down'[i].type = "completed" => down'[i].run = busy
      BY <1>8, <1>10
    <2> QED
      BY <1>2, <1>4, <1>5, <1>9, <2>1, <2>2, <2>3, NoRunIsNone, FramesMore DEF OnceInv
  <1>12. ShownOnce'
    <2>1. \A x \in Run : FrameIn("completed", x)' => FrameIn("completed", x)
      <3>1. \A i \in 1..Len(down') : down'[i].type = "completed" => i \in 1..Len(down) /\ down'[i] = down[i]
        BY <1>8, <1>9, <1>10
      <3> QED
        BY <3>1 DEF FrameIn
    <2> QED
      BY <1>2, <1>4, <1>5, <2>1, NoRunIsNone, ShownSame DEF OnceInv
  <1> QED
    BY <1>6, <1>11, <1>12 DEF OnceInv

LEMMA OncePublish ==
    ASSUME TypeInv, OnceInv, NEW k \in Runs, NEW types, Published(types),
           Publish(types, k), types = <<"completed">> => k = busy,
           UNCHANGED <<shown, log>>, busy' \in {busy, NoRun},
           \A x \in Run : (Taken(x) => Taken(x)') /\ (callback[x] = "done" => callback'[x] = "done")
    PROVE  OnceInv'
  <1>1. CASE down' = down
    BY <1>1, OnceSame
  <1>2. CASE down' # down
    <2>1. k \notin gone
      BY <1>2 DEF Publish
    <2>2. /\ Len(down) \in Nat /\ Len(down') = Len(down) + Len(types)
          /\ \A i \in 1..Len(down) : down'[i] = down[i]
          /\ \A i \in (Len(down) + 1)..Len(down') :
               down'[i] = Frame(types[i - Len(down)], k, of[k], <<>>)
      BY <2>1, PublishedLast DEF TypeInv
    <2>3. /\ Len(types) \in Nat
          /\ \A i \in 1..Len(types) : types[i] = "completed" => types = <<"completed">>
      BY DEF Published, Streamed
    <2>4. ASSUME NEW i \in (Len(down) + 1)..Len(down')
          PROVE  down'[i].msgs = <<>> /\ down'[i].run = k /\ (down'[i].type = "completed" => k = busy)
      <3>1. PICK j \in 1..Len(types) : down'[i] = Frame(types[j], k, of[k], <<>>)
        <4>1. i - Len(down) \in 1..Len(types)
          BY <2>2, <2>3
        <4> QED
          BY <2>2, <4>1
      <3>2. down'[i].msgs = <<>> /\ down'[i].run = k /\ down'[i].type = types[j]
        BY <3>1 DEF Frame
      <3> QED
        BY <2>3, <3>2
    <2>5. FramesOnce'
      <3>1. Len(down') \in Nat /\ Len(down') >= Len(down)
        BY <2>2, <2>3
      <3>2. \A i \in (Len(down) + 1)..Len(down') :
              /\ NoTwice(down'[i].msgs)
              /\ \A x \in Run : Has(down'[i].msgs, Said(x)) => Taken(x)' /\ x # busy' /\ i = Len(down')
        BY <2>4, NoTwiceEmpty, HasEmpty
      <3>3. \A i \in (Len(down) + 1)..Len(down') : down'[i].type = "completed" => down'[i].run = busy
        BY <2>4
      <3> QED
        BY <2>2, <3>1, <3>2, <3>3, NoRunIsNone, FramesMore DEF OnceInv
    <2>6. ShownOnce'
      <3>1. \A x \in Run : FrameIn("completed", x)' => FrameIn("completed", x) \/ x = busy
        <4> SUFFICES ASSUME NEW x \in Run, NEW i \in 1..Len(down'),
                            down'[i].type = "completed", down'[i].run = x, x # busy
                     PROVE  FrameIn("completed", x)
          BY DEF FrameIn
        <4>1. i \in 1..Len(down) \/ i \in (Len(down) + 1)..Len(down')
          BY <2>2
        <4>2. i \in 1..Len(down) /\ down'[i] = down[i]
          BY <2>2, <2>4, <4>1
        <4> QED
          BY <4>2 DEF FrameIn
      <3> QED
        BY <3>1, NoRunIsNone, ShownSame DEF OnceInv
    <2> QED
      BY <2>5, <2>6, LogSame DEF OnceInv
  <1> QED
    BY <1>1, <1>2

LEMMA OnceRefuseSend == ASSUME TypeInv, OrderInv, OnceInv, RefuseSend PROVE OnceInv'
  <1>1. PICK k : k = Head(up).run
    OBVIOUS
  <1>2. /\ up # <<>> /\ Head(up).type = "send" /\ up' = Tail(up)
        /\ callback' = [callback EXCEPT ![k] = "refused"]
        /\ UNCHANGED <<shown, log, down, busy>>
    BY <1>1 DEF RefuseSend, page, store
  <1>3. 1 \in 1..Len(up) /\ up[1].type = "send" /\ up[1].run = k /\ k \in Runs
    BY <1>1, <1>2, Taking DEF TypeInv, IsRunOf
  <1>4. ~Taken(k) /\ k \in Run
    <2>1. Taken(k) => k < k
      BY <1>3 DEF OrderInv, UpInv
    <2>2. k \in Nat /\ k \in Run
      BY <1>3, OfTypes DEF Runs
    <2> QED
      BY <2>1, <2>2
  <1>5. \A x \in Run : (Taken(x) => Taken(x)') /\ (callback[x] = "done" => callback'[x] = "done")
    BY <1>2, <1>4 DEF Taken, TypeInv, ServerInv
  <1> QED
    BY <1>2, <1>5, OnceSame

LEMMA OnceRun ==
    ASSUME TypeInv, OrderInv, OnceInv, Complete \/ Fail \/ \E k \in Runs : Goroutine(k)
    PROVE  OnceInv'
  <1>1. CASE Complete
    <2>1. PICK k : k = busy
      OBVIOUS
    <2>2. /\ k \in Runs /\ Publish(<<"completed">>, k) /\ busy' = NoRun
          /\ UNCHANGED <<shown, log, callback>>
      BY <1>1, <2>1, OfTypes DEF Complete, page, store
    <2>3. Published(<<"completed">>)
      BY DEF Published
    <2> QED
      BY <2>1, <2>2, <2>3, OncePublish DEF Taken
  <1>2. CASE Fail
    <2>1. /\ UNCHANGED <<shown, log, down>> /\ busy' = NoRun /\ callback[busy] \in {"stream", "rest"}
          /\ callback' = [callback EXCEPT ![busy] = "done"]
      BY <1>2 DEF Fail, page, store, wire
    <2>2. \A x \in Run : (Taken(x) => Taken(x)') /\ (callback[x] = "done" => callback'[x] = "done")
      BY <2>1 DEF Taken, TypeInv, ServerInv
    <2> QED
      BY <2>1, <2>2, OnceSame
  <1>3. ASSUME NEW k \in Runs, Stream(k) \/ StreamRest(k) PROVE OnceInv'
    <2>1. /\ UNCHANGED <<shown, log, busy>> /\ callback[k] \in {"stream", "rest"}
      BY <1>3, StreamSends DEF page, store
    <2>2. PICK c \in {"rest", "record"} : callback' = [callback EXCEPT ![k] = c]
      BY <1>3, StreamSends
    <2>3. \A x \in Run : (Taken(x) => Taken(x)') /\ (callback[x] = "done" => callback'[x] = "done")
      BY <2>1, <2>2 DEF Taken, TypeInv, ServerInv
    <2>4. PICK types \in Streamed : Publish(types, k)
      BY <1>3, StreamSends
    <2>5. Published(types) /\ types # <<"completed">>
      BY DEF Published, Streamed
    <2> QED
      BY <2>1, <2>3, <2>4, <2>5, OncePublish
  <1>4. ASSUME NEW k \in Runs, Record(k) PROVE OnceInv'
    <2>1. /\ UNCHANGED <<of, shown, down, busy>> /\ callback[k] = "record"
          /\ callback' = [callback EXCEPT ![k] = "done"]
          /\ log' = [log EXCEPT ![of[k]] = Append(@, Said(k))]
      BY <1>4 DEF Record, page, nav, store, wire
    <2>2. k \in Run
      BY OfTypes
    <2>3. /\ Taken(k)' /\ callback[k] # "done" /\ callback'[k] = "done"
          /\ \A x \in Run : (Taken(x) => Taken(x)') /\ (callback[x] = "done" => callback'[x] = "done")
      BY <2>1, <2>2 DEF Taken, TypeInv, ServerInv
    <2>4. LogOnce'
      BY <2>1, <2>3, LogGrows, WhoDiffers DEF OnceInv
    <2>5. FramesOnce'
      BY <2>1, <2>3, NoRunIsNone, FramesSame DEF OnceInv
    <2>6. ShownOnce'
      <3>1. \A x \in Run : FrameIn("completed", x)' => FrameIn("completed", x)
        BY <2>1 DEF FrameIn
      <3> QED
        BY <2>1, <2>3, <3>1, NoRunIsNone, ShownSame DEF OnceInv
    <2> QED
      BY <2>4, <2>5, <2>6 DEF OnceInv
  <1> QED
    BY <1>1, <1>2, <1>3, <1>4 DEF Goroutine

\* The page adds the answer of the run that completes, or takes a history.
LEMMA OnceFrames == ASSUME TypeInv, OrderInv, OnceInv, Frames PROVE OnceInv'
  <1>1. UNCHANGED <<of, view, busy, callback, log>>
    BY DEF Frames, Started, Content, Completed, History, elsewhere, nav, server
  <1>2. PICK type : Deliver(type)
    BY DEF Frames, Started, Content, Completed, History
  <1>3. /\ 1 \in 1..Len(down) /\ Head(down) = down[1] /\ down' = Without(down, 1)
        /\ down[1].type = type
    BY <1>2, Delivered DEF TypeInv
  <1>4. /\ Len(down) \in Nat /\ Len(down') = Len(down) - 1
        /\ \A i \in 1..(Len(down) - 1) : down'[i] = down[i + 1]
    <2>1. down \in Seq(Events)
      BY DEF TypeInv, WireInv
    <2>2. /\ Len(down) \in Nat /\ Len(down') = Len(down) - 1
          /\ \A i \in 1..(Len(down) - 1) : down'[i] = down[IF i < 1 THEN i ELSE i + 1]
      BY <1>3, <2>1, WithoutProperties
    <2> QED
      BY <2>2
  <1>5. \A k \in Run : (Taken(k) => Taken(k)') /\ (callback[k] = "done" => callback'[k] = "done")
    BY <1>1 DEF Taken
  <1>6. FramesOnce'
    BY <1>1, <1>3, <1>5, FramesFirst DEF OnceInv
  <1>7. \A k \in Run : FrameIn("completed", k)' =>
           \E j \in 2..Len(down) : down[j].type = "completed" /\ down[j].run = k
    <2> SUFFICES ASSUME NEW k \in Run, NEW i \in 1..Len(down'), down'[i].type = "completed", down'[i].run = k
                 PROVE  \E j \in 2..Len(down) : down[j].type = "completed" /\ down[j].run = k
      BY DEF FrameIn
    <2>1. PICK j : j = i + 1
      OBVIOUS
    <2>2. j \in 2..Len(down) /\ down[j] = down'[i]
      BY <1>4, <2>1
    <2> QED
      BY <2>2
  <1>8. \A k \in Run : FrameIn("completed", k)' => FrameIn("completed", k)
    BY <1>7 DEF FrameIn
  <1>9. ShownOnce'
    <2>1. CASE UNCHANGED shown
      BY <1>1, <1>5, <1>8, <2>1, NoRunIsNone, ShownSame DEF OnceInv
    <2>2. CASE /\ type = "completed" /\ Ours(Head(down))
               /\ SetMessages(view, Append(shown[view], Said(runId)), [running EXCEPT ![view] = FALSE])
      <3>1. PICK k : k = runId
        OBVIOUS
      <3>2. /\ down[1].type = "completed" /\ down[1].run = k /\ k \in Run /\ view \in Key
            /\ Bounds(down[1]) /\ k \in Nat /\ down[1].session = view /\ IsRunOf(k, view)
        BY <1>3, <2>2, <3>1, OfTypes DEF Ours, Bounds, TypeInv, NavInv, Run
      <3>3. k # busy
        BY <1>3, <3>2, NoRunIsNone DEF OrderInv, DownInv
      <3>4. ASSUME NEW j \in 2..Len(down), down[j].type = "completed" PROVE down[j].run # k
        <4>1. j \in 1..Len(down) /\ 1 < j /\ Bounds(down[j])
          BY <1>4, <3>4 DEF Bounds
        <4> QED
          BY <1>3, <3>2, <4>1 DEF OrderInv, DownInv
      <3>5. Taken(k)
        BY <1>3, <3>2 DEF OrderInv, DownInv
      <3>6. PICK msgs : msgs = Append(shown[view], Said(k))
        OBVIOUS
      <3>7. shown[view] \in Seq(Message) /\ Said(k) \in Message
        <4>1. Said(k) \in Message
          BY <3>2 DEF Said, Message
        <4>2. shown[view] \in Seq(MessagesOf(view)) /\ MessagesOf(view) \subseteq Message
          BY <3>2 DEF TypeInv, StoreInv, MessagesOf
        <4> QED
          BY <4>1, <4>2, SeqSubset
      <3>8. ~Has(shown[view], Said(k))
        BY <1>3, <3>2 DEF OnceInv, ShownOnce, FrameIn
      <3>9. NoTwice(msgs)
        BY <3>2, <3>6, <3>7, <3>8, NoTwiceAppend DEF OnceInv, ShownOnce
      <3>10. \A x \in Run : Has(msgs, Said(x)) => Taken(x)' /\ x # busy' /\ ~FrameIn("completed", x)'
        <4>1. \A x \in Run : Has(msgs, Said(x)) => Has(shown[view], Said(x)) \/ x = k
          BY <3>6, <3>7, HasAppend, WhoDiffers
        <4>2. ~FrameIn("completed", k)'
          BY <1>7, <3>2, <3>4
        <4> QED
          BY <1>1, <1>5, <1>8, <3>2, <3>3, <3>5, <4>1, <4>2 DEF OnceInv, ShownOnce
      <3>11. SetMessages(view, msgs, [running EXCEPT ![view] = FALSE])
        BY <2>2, <3>1, <3>6
      <3> QED
        BY <1>1, <1>5, <1>8, <3>2, <3>9, <3>10, <3>11, ShownSet DEF OnceInv
    <2>3. CASE /\ type = "history" /\ SetMessages(Head(down).session, Head(down).msgs, running)
      <3>1. PICK s, msgs : s = down[1].session /\ msgs = down[1].msgs
        OBVIOUS
      <3>2. SetMessages(s, msgs, running) /\ s \in Key
        BY <1>3, <2>3, <3>1, OfTypes DEF Key
      <3>3. NoTwice(msgs)
        BY <1>3, <3>1 DEF OnceInv, FramesOnce
      <3>4. \A k \in Run : Has(msgs, Said(k)) => Taken(k)' /\ k # busy' /\ ~FrameIn("completed", k)'
        <4> SUFFICES ASSUME NEW k \in Run, Has(msgs, Said(k))
                     PROVE  Taken(k)' /\ k # busy' /\ ~FrameIn("completed", k)'
          OBVIOUS
        <4>1. Taken(k) /\ k # busy /\ \A j \in 2..Len(down) : down[j].type = "completed" => down[j].run # k
          BY <1>3, <3>1 DEF OnceInv, FramesOnce
        <4> QED
          BY <1>1, <1>5, <1>7, <4>1
      <3> QED
        BY <1>1, <1>5, <1>8, <3>2, <3>3, <3>4, ShownSet DEF OnceInv
    <2>4. \/ UNCHANGED shown
          \/ /\ Deliver("completed") /\ Ours(Head(down))
             /\ SetMessages(view, Append(shown[view], Said(runId)), [running EXCEPT ![view] = FALSE])
          \/ Deliver("history") /\ SetMessages(Head(down).session, Head(down).msgs, running)
      BY DEF Frames, Started, Content, Completed, History, SetRunning, store
    <2> QED
      BY <1>2, <2>1, <2>2, <2>3, <2>4 DEF Deliver
  <1> QED
    BY <1>1, <1>5, <1>6, <1>9, LogSame DEF OnceInv

LEMMA OnceConnection == ASSUME TypeInv, OnceInv, LoadTimesOut \/ Drop \/ Reconnect PROVE OnceInv'
  <1>1. UNCHANGED <<shown, log, callback>> /\ busy' \in {busy, NoRun}
    BY DEF LoadTimesOut, Drop, Reconnect, page, store, server
  <1>2. \A k \in Run : (Taken(k) => Taken(k)') /\ (callback[k] = "done" => callback'[k] = "done")
    BY <1>1 DEF Taken
  <1>3. CASE UNCHANGED down
    BY <1>1, <1>2, <1>3, OnceSame
  <1>4. CASE Drop
    <2>1. Len(down') = 0
      BY <1>4, EmptySeq DEF Drop
    <2>2. ShownOnce'
      <3>1. \A k \in Run : ~FrameIn("completed", k)'
        BY <2>1 DEF FrameIn
      <3> QED
        BY <1>1, <1>2, <3>1, NoRunIsNone, ShownSame DEF OnceInv
    <2>3. FramesOnce'
      BY <2>1 DEF FramesOnce
    <2> QED
      BY <1>1, <1>2, <2>2, <2>3, LogSame DEF OnceInv
  <1> QED
    BY <1>3, <1>4 DEF LoadTimesOut, Reconnect

LEMMA InitOnce == Init => OnceInv
  <1> SUFFICES ASSUME Init PROVE OnceInv
    OBVIOUS
  <1>1. /\ \A s \in Session : log[s] = <<>>
        /\ \A s \in Key : shown[s] = <<>>
        /\ down = <<>>
    BY DEF Init
  <1>2. Len(down) = 0
    BY <1>1, EmptySeq
  <1> QED
    BY <1>1, <1>2, NoTwiceEmpty, HasEmpty DEF OnceInv, LogOnce, FramesOnce, ShownOnce

LEMMA NextOnce == TypeInv /\ OrderInv /\ OnceInv /\ [Next]_vars => OnceInv'
  <1> SUFFICES ASSUME TypeInv, OrderInv, OnceInv, [Next]_vars PROVE OnceInv'
    OBVIOUS
  <1>1. CASE UNCHANGED vars
    BY <1>1, OnceSame DEF vars, page, store, wire, server, Taken
  <1>2. CASE (\E s \in Key : Select(s)) \/ SendHere \/ SendNew \/ SessionCreated \/ Effects
    BY <1>2, OnceUser
  <1>3. CASE Gateway \/ \E k \in 1..Len(of) : Goroutine(k)
    BY <1>3, OnceTakeHistory, OnceTakeSend, OnceRefuseSend, OnceRun DEF Gateway, Runs
  <1>4. CASE Frames \/ LoadTimesOut \/ Drop \/ Reconnect
    BY <1>4, OnceFrames, OnceConnection
  <1> QED
    BY <1>1, <1>2, <1>3, <1>4 DEF Next

\* The page shows no message twice, although it adds the answers it streams itself and a
\* history that overlaps with a run may bring them too: the gateway answers a history
\* between runs, and what it tells of a run that is over comes before the history
\* (use-chat-messages.ts:112, 252; use-chat-send.ts:57).
THEOREM ShownAtMostOnce == Spec => []NothingTwice
  <1>1. OnceInv => NothingTwice
    BY DEF OnceInv, ShownOnce, NoTwice, NothingTwice
  <1>2. Init => TypeInv /\ OrderInv /\ OnceInv
    BY InitTypes, InitOrder, InitOnce
  <1>3. TypeInv /\ OrderInv /\ OnceInv /\ [Next]_vars => TypeInv' /\ OrderInv' /\ OnceInv'
    BY NextTypes, NextOrder, NextOnce
  <1> QED
    BY <1>1, <1>2, <1>3, PTL DEF Spec


-----------------------------------------------------------------------------
(* A sequence in which no message is twice is no longer than there are     *)
(* messages.                                                               *)

LEMMA FewMessages ==
    ASSUME NEW q \in Seq(Message), NoTwice(q)
    PROVE  Messages(q)
  <1>1. /\ Len(q) \in Nat /\ MaxSends \in Nat
        /\ \A i \in 1..Len(q) : q[i] \in Message
    BY LenProperties, ElementOfSeq, PageAssumption
  <1>2. \A i \in 1..Len(q) : q[i].who \in {"user", "agent"} /\ q[i].run \in 1..MaxSends
    BY <1>1 DEF Message, Run
  <1>3. ASSUME Len(q) > 2 * MaxSends PROVE FALSE
    <2>1. PICK f : f = [i \in 1..Len(q) |-> IF q[i].who = "user" THEN q[i].run
                                            ELSE q[i].run + MaxSends]
      OBVIOUS
    <2>2. f \in [1..Len(q) -> 1..(2 * MaxSends)]
      BY <1>1, <1>2, <2>1
    <2>3. /\ IsFiniteSet(1..Len(q)) /\ IsFiniteSet(1..(2 * MaxSends))
          /\ Cardinality(1..(2 * MaxSends)) < Cardinality(1..Len(q))
      <3>1. 1 \in Int /\ Len(q) \in Int /\ 2 * MaxSends \in Int /\ Len(q) >= 1
        BY <1>1, <1>3
      <3>2. /\ IsFiniteSet(1..Len(q)) /\ IsFiniteSet(1..(2 * MaxSends))
            /\ Cardinality(1..Len(q)) = Len(q)
            /\ Cardinality(1..(2 * MaxSends)) = IF 1 > 2 * MaxSends THEN 0 ELSE 2 * MaxSends
        <4>1. /\ Cardinality(1..Len(q)) = IF 1 > Len(q) THEN 0 ELSE Len(q) - 1 + 1
              /\ IsFiniteSet(1..Len(q))
          BY <3>1, FS_Interval
        <4>2. /\ Cardinality(1..(2 * MaxSends)) =
                   IF 1 > 2 * MaxSends THEN 0 ELSE 2 * MaxSends - 1 + 1
              /\ IsFiniteSet(1..(2 * MaxSends))
          BY <3>1, FS_Interval
        <4> QED
          BY <1>1, <3>1, <4>1, <4>2
      <3> QED
        BY <1>1, <1>3, <3>2
    <2>4. PICK x, y \in 1..Len(q) : x # y /\ f[x] = f[y]
      BY <2>2, <2>3, FS_PigeonHole
    <2>5. q[x].who = q[y].who /\ q[x].run = q[y].run
      BY <1>1, <1>2, <2>1, <2>4
    <2>6. q[x] = q[y]
      BY <1>1, <2>5 DEF Message
    <2>7. x < y \/ y < x
      BY <1>1, <2>4
    <2> QED
      BY <2>4, <2>6, <2>7 DEF NoTwice
  <1> QED
    BY <1>1, <1>3 DEF Messages

\* The histories of the answers' texts name runs.
TextsInv == overtaken \subseteq Run /\ cut \subseteq Run

LEMMA NextTexts == TypeInv /\ TextsInv /\ [Next]_vars => TextsInv'
  <1> SUFFICES ASSUME TypeInv, TextsInv, [Next]_vars PROVE TextsInv'
    OBVIOUS
  <1>1. CASE UNCHANGED texts
    BY <1>1 DEF TextsInv, texts
  <1>2. CASE Complete
    <2>1. busy \in Run /\ overtaken' \subseteq overtaken \cup {busy} /\ UNCHANGED cut
      BY <1>2, OfTypes DEF Complete
    <2> QED
      BY <2>1 DEF TextsInv
  <1>3. CASE Completed
    <2>1. UNCHANGED overtaken
      BY <1>3 DEF Completed, elsewhere
    <2>2. CASE UNCHANGED cut
      BY <2>1, <2>2 DEF TextsInv
    <2>3. CASE ~UNCHANGED cut
      <3>1. Deliver("completed")
        BY <1>3 DEF Completed
      <3>2. Ours(Head(down)) /\ cut' = cut \cup {runId} /\ streamed = "part"
        BY <1>3, <2>3 DEF Completed
      <3>3. runId \in Run
        <4>1. 1 \in 1..Len(down) /\ Head(down) = down[1] /\ down[1].type = "completed"
          BY <3>1, Delivered DEF TypeInv
        <4>2. down[1].run \in Run
          BY <4>1, OfTypes
        <4> QED
          BY <3>2, <4>1, <4>2 DEF Ours
      <3> QED
        BY <2>1, <3>2, <3>3 DEF TextsInv
    <2> QED
      BY <2>2, <2>3
  <1>4. CASE History
    BY <1>4 DEF History, elsewhere, TextsInv
  <1>5. UNCHANGED texts \/ Complete \/ Completed \/ History
    <2>1. CASE UNCHANGED vars
      BY <2>1 DEF vars, ghosts
    <2>2. CASE (\E s \in Key : Select(s)) \/ SendHere \/ SendNew \/ SessionCreated \/ Effects
      BY <2>2 DEF Select, SendHere, SendNew, SessionCreated, Effects, ghosts
    <2>3. CASE Gateway \/ \E k \in 1..Len(of) : Goroutine(k)
      BY <2>3 DEF Gateway, Goroutine, TakeHistory, TakeSend, RefuseSend, Fail, Stream, StreamRest,
                  Record, ghosts
    <2>4. CASE Frames \/ LoadTimesOut \/ Drop \/ Reconnect
      BY <2>4 DEF Frames, Started, Content, LoadTimesOut, Drop, Reconnect, ghosts, elsewhere, texts
    <2> QED
      BY <2>1, <2>2, <2>3, <2>4 DEF Next
  <1> QED
    BY <1>1, <1>2, <1>3, <1>4, <1>5

\* Types, the order in which the store accessed its keys, and the bound on what a session
\* can show, the gateway can keep and an answer can bring.
THEOREM TypeCorrect == Spec => []TypeOK
  <1>1. TypeInv /\ OnceInv /\ TextsInv => TypeOK
    <2> SUFFICES ASSUME TypeInv, OnceInv, TextsInv PROVE TypeOK
      OBVIOUS
    <2>1. MaxSends \in Nat /\ Runs \subseteq Run /\ Len(of) \in Nat
      BY OfTypes, PageAssumption
    <2>2. \A s : Seq(MessagesOf(s)) \subseteq Seq(Message)
      <3>1. \A s : MessagesOf(s) \subseteq Message
        BY DEF MessagesOf
      <3> QED
        BY <3>1, SeqSubset
    <2>3. \A s \in Key : Messages(shown[s])
      BY <2>2, FewMessages DEF TypeInv, StoreInv, OnceInv, ShownOnce
    <2>4. \A s \in Session : Messages(log[s])
      BY <2>2, FewMessages DEF TypeInv, ServerInv, OnceInv, LogOnce
    <2>5. \A i \in 1..Len(down) : Messages(down[i].msgs) /\ Keyed(down[i].type)
      <3> SUFFICES ASSUME NEW i \in 1..Len(down)
                   PROVE  Messages(down[i].msgs) /\ Keyed(down[i].type)
        OBVIOUS
      <3>1. PICK s : s = down[i].session
        OBVIOUS
      <3>2. /\ down[i].msgs \in Seq(MessagesOf(s))
            /\ down[i].type \in {"history", "started", "tool", "part", "chunk", "completed"}
        BY <3>1, OfTypes
      <3>3. NoTwice(down[i].msgs)
        BY DEF OnceInv, FramesOnce
      <3> QED
        BY <2>2, <3>2, <3>3, FewMessages DEF Keyed
    <2>6. \A i \in 1..Len(up) : up[i].session \in Session /\ Keyed(up[i].type)
      BY OfTypes DEF Keyed
    <2>7. busy \in Run \cup {NoRun} /\ runId \in Run \cup {NoRun}
      BY <2>1, OfTypes
    <2>8. view \in Key /\ prevKey \in Key /\ creating \in 0..MaxSends /\ created \subseteq Session
      BY DEF TypeInv, NavInv
    <2>9. (\A s \in Key : running[s] \in BOOLEAN) /\ kept \subseteq Key /\ AccessOrder
      BY DEF TypeInv, KeysInv
    <2>10. expecting \in BOOLEAN /\ streamed \in {"none", "part", "whole"} /\ tools \in BOOLEAN /\ connected \in BOOLEAN
      BY DEF TypeInv, RefsInv, WireInv
    <2>11. Len(of) <= MaxSends /\ \A k \in 1..Len(of) : of[k] \in Session
      BY OfTypes DEF TypeInv, NavInv, Runs
    <2>12. \A k \in Run : callback[k] \in {"none", "refused", "stream", "rest", "record", "done"}
      BY DEF TypeInv, ServerInv
    <2>13. gone \subseteq Run /\ excused \subseteq Run /\ evicted \subseteq Run
      BY <2>1, OfTypes DEF TypeInv, GhostInv
    <2>14. overtaken \subseteq Run /\ cut \subseteq Run
      BY DEF TextsInv
    <2> QED
      BY <2>3, <2>4, <2>5, <2>6, <2>7, <2>8, <2>9, <2>10, <2>11, <2>12, <2>13, <2>14 DEF TypeOK
  <1>2. Init => TypeInv /\ OrderInv /\ OnceInv /\ TextsInv
    BY InitTypes, InitOrder, InitOnce DEF Init, TextsInv
  <1>3. TypeInv /\ OrderInv /\ OnceInv /\ TextsInv /\ [Next]_vars
           => TypeInv' /\ OrderInv' /\ OnceInv' /\ TextsInv'
    BY NextTypes, NextOrder, NextOnce, NextTexts
  <1> QED
    BY <1>1, <1>2, <1>3, PTL DEF Spec

-----------------------------------------------------------------------------
(* The fourth layer: what the gateway has taken it keeps, and tells.       *)

\* What the gateway answers to a history.
LEMMA Answered ==
    ASSUME TypeInv, TakeHistory
    PROVE  /\ busy = NoRun /\ up # <<>> /\ up' = Tail(up) /\ up' = Without(up, 1)
           /\ 1 \in 1..Len(up) /\ up[1].type = "history"
           /\ Len(down) \in Nat /\ Len(down') = Len(down) + 1
           /\ \A i \in 1..Len(down) : down'[i] = down[i]
           /\ down'[Len(down')].type = "history" /\ down'[Len(down')].run = up[1].run
           /\ down'[Len(down')].session = up[1].session
           /\ down'[Len(down')].msgs = log[up[1].session]
           /\ excused' = excused \cup Unrecorded(up[1].session)
           /\ UNCHANGED <<of, view, prevKey, shown, evicted, runId, expecting, streamed, tools,
                          connected, busy, callback, log, gone>>
  <1>1. /\ up # <<>> /\ up' = Tail(up) /\ Head(up).type = "history" /\ busy = NoRun
        /\ down' = Append(down, Frame("history", Head(up).run, Head(up).session,
                                      log[Head(up).session]))
        /\ excused' = excused \cup Unrecorded(Head(up).session)
        /\ UNCHANGED <<of, view, prevKey, shown, evicted, runId, expecting, streamed, tools,
                       connected, busy, callback, log, gone>>
    BY DEF TakeHistory, AnswerHistory, page, nav, refs, store, server
  <1>2. 1 \in 1..Len(up) /\ Head(up) = up[1] /\ up' = Without(up, 1)
    BY <1>1, Taking DEF TypeInv
  <1>3. PICK f : f = Frame("history", up[1].run, up[1].session, log[up[1].session])
    OBVIOUS
  <1>4. f.type = "history" /\ f.run = up[1].run /\ f.session = up[1].session /\ f.msgs = log[up[1].session]
    BY <1>3 DEF Frame
  <1>5. /\ Len(down) \in Nat /\ Len(down') = Len(down) + 1 /\ down'[Len(down) + 1] = f
        /\ \A i \in 1..Len(down) : down'[i] = down[i]
    BY <1>1, <1>2, <1>3, AppendProperties, OfTypes DEF TypeInv, WireInv
  <1> QED
    BY <1>1, <1>2, <1>4, <1>5

\* A history on the way was there before the step, after the same frames but for the first
\* if that has arrived.
Come(n) ==
    /\ \A i \in 1..Len(down') : down'[i].type = "history" => i + n \in 1..Len(down)
    /\ \A i \in 1..Len(down') : i + n \in 1..Len(down) => down'[i] = down[i + n]

LEMMA FramesCome ==
    ASSUME TypeInv, [Next]_vars, ~TakeHistory
    PROVE  Come(0) \/ Come(1)
  <1>1. Len(down) \in Nat /\ \A i : i \in 1..Len(down) => i + 0 = i
    BY OfTypes
  <1>2. ASSUME UNCHANGED down PROVE Come(0)
    BY <1>1, <1>2 DEF Come
  <1>3. ASSUME NEW type, Deliver(type) PROVE Come(1)
    <2>1. down \in Seq(Events) /\ 1 \in 1..Len(down) /\ down' = Without(down, 1)
      BY <1>3, Delivered DEF TypeInv, WireInv
    <2>2. /\ Len(down') = Len(down) - 1
          /\ \A i \in 1..(Len(down) - 1) : down'[i] = down[IF i < 1 THEN i ELSE i + 1]
      BY <2>1, WithoutProperties
    <2> QED
      BY <1>1, <2>2 DEF Come
  <1>4. ASSUME NEW k \in Runs, NEW types, Published(types), Publish(types, k)
        PROVE  Come(0)
    <2>1. CASE k \in gone
      BY <1>2, <1>4, <2>1 DEF Publish
    <2>2. CASE k \notin gone
      <3>1. /\ Len(down') = Len(down) + Len(types)
            /\ \A i \in 1..Len(down) : down'[i] = down[i]
            /\ \A i \in (Len(down) + 1)..Len(down') :
                 down'[i] = Frame(types[i - Len(down)], k, of[k], <<>>)
        BY <1>4, <2>2, PublishedLast DEF TypeInv
      <3>2. Len(types) \in Nat /\ \A i \in 1..Len(types) : types[i] # "history"
        BY <1>4 DEF Published, Streamed
      <3>3. \A i \in (Len(down) + 1)..Len(down') : down'[i].type # "history"
        <4> SUFFICES ASSUME NEW i \in (Len(down) + 1)..Len(down') PROVE down'[i].type # "history"
          OBVIOUS
        <4>1. PICK j \in 1..Len(types) : down'[i] = Frame(types[j], k, of[k], <<>>)
          <5>1. i - Len(down) \in 1..Len(types)
            BY <1>1, <3>1, <3>2
          <5> QED
            BY <3>1, <5>1
        <4>2. down'[i].type = types[j]
          BY <4>1 DEF Frame
        <4> QED
          BY <3>2, <4>2
      <3>4. \A i \in 1..Len(down') : down'[i].type = "history" => i \in 1..Len(down)
        BY <1>1, <3>1, <3>2, <3>3
      <3> QED
        BY <1>1, <3>1, <3>4 DEF Come
    <2> QED
      BY <2>1, <2>2
  <1>5. CASE TakeSend
    <2>1. PICK k : k = Head(up).run
      OBVIOUS
    <2>2. down' = Append(down, Frame("started", k, of[k], <<>>))
      BY <1>5, <2>1 DEF TakeSend
    <2>3. /\ Len(down') = Len(down) + 1 /\ \A i \in 1..Len(down) : down'[i] = down[i]
          /\ down'[Len(down) + 1] = Frame("started", k, of[k], <<>>)
      BY <2>2, AppendProperties DEF TypeInv, WireInv
    <2>4. down'[Len(down) + 1].type # "history"
      BY <2>3 DEF Frame
    <2> QED
      BY <1>1, <2>3, <2>4 DEF Come
  <1>6. CASE Drop
    BY <1>6, EmptySeq DEF Drop, Come
  <1>7. \/ UNCHANGED down \/ TakeSend \/ Drop
        \/ \E type : Deliver(type)
        \/ \E k \in Runs, types \in Streamed \cup {<<"completed">>} : Publish(types, k)
    <2>1. CASE UNCHANGED vars
      BY <2>1 DEF vars, wire
    <2>2. CASE (\E s \in Key : Select(s)) \/ SendHere \/ SendNew \/ SessionCreated \/ Effects
      BY <2>2 DEF Select, SendHere, SendNew, SessionCreated, Effects, wire
    <2>3. CASE Complete
      BY <2>3, OfTypes DEF Complete
    <2>4. CASE RefuseSend \/ Fail \/ LoadTimesOut \/ Reconnect
      BY <2>4 DEF RefuseSend, Fail, LoadTimesOut, Reconnect, wire
    <2>5. CASE \E k \in 1..Len(of) : Goroutine(k)
      <3>1. PICK k \in Runs : Stream(k) \/ StreamRest(k) \/ Record(k)
        BY <2>5 DEF Goroutine, Runs
      <3>2. CASE Stream(k) \/ StreamRest(k)
        <4>1. PICK types \in Streamed : Publish(types, k)
          BY <3>2, StreamSends
        <4> QED
          BY <4>1
      <3> QED
        BY <3>1, <3>2 DEF Record, wire
    <2>6. CASE Frames
      BY <2>6 DEF Frames, Started, Content, Completed, History
    <2> QED
      BY <2>1, <2>2, <2>3, <2>4, <2>5, <2>6 DEF Next, Gateway
  <1> QED
    BY <1>2, <1>3, <1>4, <1>5, <1>6, <1>7 DEF Published

\* Messages stay on the page unless their session is evicted or a history replaces them.
LEMMA ShownGrows ==
    ASSUME TypeInv, [Next]_vars, NEW s \in Key
    PROVE  \/ s \notin kept' /\ \A k \in Runs : of[k] = s => k \in evicted'
           \/ \A m : Has(shown[s], m) => Has(shown'[s], m)
           \/ Deliver("history") /\ s = down[1].session /\ shown'[s] = down[1].msgs
  <1>1. CASE UNCHANGED shown
    BY <1>1
  <1>2. ASSUME NEW x \in Key, NEW e, NEW runs, SetMessages(x, Append(shown[x], e), runs),
               e \in Message, \A k \in Runs : k \in Runs' /\ of'[k] = of[k]
        PROVE  \/ s \notin kept' /\ \A k \in Runs : of[k] = s => k \in evicted'
               \/ \A m : Has(shown[s], m) => Has(shown'[s], m)
    <2>1. shown[x] \in Seq(Message)
      <3>1. MessagesOf(x) \subseteq Message
        BY DEF MessagesOf
      <3> QED
        BY <3>1, SeqSubset DEF TypeInv, StoreInv
    <2>2. PICK msgs : msgs = Append(shown[x], e)
      OBVIOUS
    <2>3. \A m : Has(shown[x], m) => Has(msgs, m)
      BY <1>2, <2>1, <2>2, HasAppend
    <2>4. \/ s \notin kept' /\ \A k \in Runs' : of'[k] = s => k \in evicted'
          \/ shown'[s] = IF s = x THEN msgs ELSE shown[s]
      BY <1>2, <2>2, SetMessagesShows
    <2> QED
      BY <1>2, <2>3, <2>4
  <1>3. ASSUME NEW x \in Session, Send(x), Len(of) < MaxSends
        PROVE  \/ s \notin kept' /\ \A k \in Runs : of[k] = s => k \in evicted'
               \/ \A m : Has(shown[s], m) => Has(shown'[s], m)
    <2>1. CASE ~connected
      BY <1>1, <1>3, <2>1 DEF Send, store
    <2>2. CASE connected
      <3>1. of' = Append(of, x) /\ SetMessages(x, Append(shown[x], Asked(Len(of'))), running)
        BY <1>3, <2>2 DEF Send
      <3>2. Len(of') = Len(of) + 1 /\ Len(of) \in Nat /\ \A k \in Runs : k \in Runs' /\ of'[k] = of[k]
        BY <1>3, <3>1, MoreRuns DEF TypeInv
      <3>3. Asked(Len(of')) \in Message
        BY <1>3, <3>2, PageAssumption DEF Asked, Message, Run
      <3>4. x \in Key
        BY DEF Key
      <3> QED
        BY <1>2, <3>1, <3>2, <3>3, <3>4
    <2> QED
      BY <2>1, <2>2
  <1>4. CASE Completed
    <2>1. CASE UNCHANGED shown
      BY <1>1, <2>1
    <2>2. CASE /\ Ours(Head(down))
               /\ SetMessages(view, Append(shown[view], Said(runId)), [running EXCEPT ![view] = FALSE])
      <3>1. /\ Head(down) = down[1] /\ down[1].type = "completed" /\ 1 \in 1..Len(down)
            /\ UNCHANGED of /\ runId = down[1].run /\ view \in Key
        BY <1>4, <2>2, Delivered DEF Completed, elsewhere, nav, Ours, TypeInv, NavInv
      <3>2. runId \in Run
        BY <3>1, OfTypes
      <3>3. Said(runId) \in Message
        BY <3>2 DEF Said, Message
      <3> QED
        BY <1>2, <2>2, <3>1, <3>3 DEF Runs
    <2> QED
      BY <1>4, <2>1, <2>2 DEF Completed, SetRunning, store
  <1>5. CASE History
    <2>1. PICK x, msgs : x = down[1].session /\ msgs = down[1].msgs
      OBVIOUS
    <2>2. /\ Deliver("history") /\ SetMessages(x, msgs, running) /\ UNCHANGED of /\ x \in Key
      BY <1>5, <2>1, Delivered DEF History, elsewhere, nav, TypeInv, Key
    <2>3. \/ s \notin kept' /\ \A k \in Runs' : of'[k] = s => k \in evicted'
          \/ shown'[s] = IF s = x THEN msgs ELSE shown[s]
      BY <2>2, SetMessagesShows
    <2> QED
      BY <2>1, <2>2, <2>3 DEF Runs
  <1>6. \/ UNCHANGED shown \/ Completed \/ History
        \/ \E x \in Session : Send(x) /\ Len(of) < MaxSends
    <2>1. CASE UNCHANGED vars
      BY <2>1 DEF vars, page, store
    <2>2. CASE (\E x \in Key : Select(x)) \/ SendNew \/ Effects
      BY <2>2 DEF Select, SendNew, Effects, SetRunning, store
    <2>3. CASE SendHere \/ SessionCreated
      BY <2>3 DEF SendHere, SessionCreated
    <2>4. CASE Gateway \/ \E k \in 1..Len(of) : Goroutine(k)
      BY <2>4 DEF Gateway, TakeHistory, TakeSend, RefuseSend, Complete, Fail, Goroutine, Stream,
                  StreamRest, Record, page, store
    <2>5. CASE Started \/ Content \/ LoadTimesOut \/ Drop \/ Reconnect
      BY <2>5 DEF Started, SetRunning, Content, LoadTimesOut, Drop, Reconnect, page, store
    <2> QED
      BY <2>1, <2>2, <2>3, <2>4, <2>5 DEF Next, Frames
  <1> QED
    BY <1>1, <1>3, <1>4, <1>5, <1>6

\* Nothing that was sent, recorded, lost or excused is so no more.
LEMMA Grows ==
    ASSUME TypeInv, [Next]_vars
    PROVE  /\ \A k \in Runs : k \in Runs' /\ of'[k] = of[k]
           /\ gone \subseteq gone' /\ excused \subseteq excused' /\ evicted \subseteq evicted'
  <1>1. ASSUME UNCHANGED <<of, gone>>, excused \subseteq excused'
        PROVE  /\ \A k \in Runs : k \in Runs' /\ of'[k] = of[k]
               /\ gone \subseteq gone' /\ excused \subseteq excused'
    BY <1>1 DEF Runs
  <1>2. ASSUME NEW s \in Session, Send(s), UNCHANGED gone, excused \subseteq excused'
        PROVE  /\ \A k \in Runs : k \in Runs' /\ of'[k] = of[k]
               /\ gone \subseteq gone' /\ excused \subseteq excused'
    <2>1. CASE connected
      BY <1>2, <2>1, MoreRuns DEF Send, TypeInv
    <2>2. CASE ~connected
      BY <1>1, <1>2, <2>2 DEF Send
    <2> QED
      BY <2>1, <2>2
  <1>3. CASE UNCHANGED vars
    BY <1>1, <1>3 DEF vars, page, nav, store, ghosts
  <1>4. CASE (\E s \in Key : Select(s)) \/ SendNew \/ Effects
    <2>1. UNCHANGED <<of, gone>> /\ excused \subseteq excused' /\ UNCHANGED evicted
      BY <1>4 DEF Select, Navigate, SendNew, Effects, SetRunning, store, ghosts
    <2> QED
      BY <1>1, <2>1
  <1>5. CASE SendHere \/ SessionCreated
    <2>1. PICK s \in Session : Send(s) /\ UNCHANGED gone /\ excused \subseteq excused'
      BY <1>5 DEF SendHere, SessionCreated, Navigate, ghosts
    <2>2. evicted \subseteq evicted'
      BY <2>1 DEF Send, SetMessages, store
    <2> QED
      BY <1>2, <2>1, <2>2
  <1>6. CASE (Gateway \/ \E k \in 1..Len(of) : Goroutine(k)) \/ LoadTimesOut \/ Reconnect
    <2>1. UNCHANGED <<of, gone, evicted>> /\ excused \subseteq excused'
      BY <1>6 DEF Gateway, TakeHistory, AnswerHistory, TakeSend, RefuseSend, Complete, Fail, Goroutine,
                  Stream, StreamRest, Record, LoadTimesOut, Reconnect, page, nav, store, ghosts
    <2> QED
      BY <1>1, <2>1
  <1>7. CASE Frames
    <2>1. UNCHANGED <<of, gone>> /\ excused \subseteq excused'
      BY <1>7 DEF Frames, Started, Content, Completed, History, elsewhere, nav, ghosts
    <2>2. evicted \subseteq evicted'
      BY <1>7 DEF Frames, Started, Content, Completed, History, SetMessages, SetRunning, store
    <2> QED
      BY <1>1, <2>1, <2>2
  <1>8. CASE Drop
    <2>1. UNCHANGED <<of, evicted>> /\ gone' = Runs /\ excused' = Runs
      BY <1>8 DEF Drop, page, nav, store, Runs
    <2>2. gone \subseteq Runs /\ excused \subseteq Runs
      BY DEF TypeInv, GhostInv
    <2> QED
      BY <2>1, <2>2 DEF Runs
  <1> QED
    BY <1>3, <1>4, <1>5, <1>6, <1>7, <1>8 DEF Next

\* The gateway forgets nothing, and what is new in a log is of a run that was taken, or
\* whose answer was recorded, in the step; of a send it refuses it keeps nothing.
LEMMA LogStep ==
    ASSUME TypeInv, [Next]_vars
    PROVE  /\ \A s \in Session : \A m : Has(log[s], m) => Has(log'[s], m)
           /\ \A k \in Run : Taken(k)' =>
                 \/ Taken(k)
                 \/ k \in Runs /\ (Has(log'[of[k]], Asked(k)) \/ callback'[k] = "refused")
           /\ \A k \in Run : callback'[k] = "done" =>
                 \/ callback[k] = "done" \/ (k \in Runs /\ Has(log'[of[k]], Said(k)))
                 \/ k \in excused'
           /\ \A k \in Run : callback'[k] = "refused" => callback[k] = "refused" \/ k \in excused'
  <1>1. CASE UNCHANGED <<log, callback>>
    BY <1>1 DEF Taken
  <1>2. CASE TakeSend
    <2>1. PICK k : k = Head(up).run
      OBVIOUS
    <2>2. /\ up # <<>> /\ Head(up).type = "send" /\ up' = Tail(up) /\ UNCHANGED of
          /\ log' = [log EXCEPT ![of[k]] = Append(@, Asked(k))]
          /\ callback' = [callback EXCEPT ![k] = "stream"]
      BY <1>2, <2>1 DEF TakeSend, page, nav
    <2>3. k \in Runs
      BY <2>1, <2>2, Taking DEF TypeInv, IsRunOf
    <2>4. /\ k \in Run /\ of[k] \in Session
          /\ \A s \in Session : \A x : Has(log'[s], x) <=> Has(log[s], x) \/ (s = of[k] /\ x = Asked(k))
      BY <2>2, <2>3, LogKeeps
    <2>5. \A x \in Run : x # k => callback'[x] = callback[x]
      BY <2>2 DEF TypeInv, ServerInv
    <2>6. callback'[k] = "stream"
      BY <2>2, <2>4 DEF TypeInv, ServerInv
    <2> QED
      BY <2>3, <2>4, <2>5, <2>6 DEF Taken
  <1>3. CASE Fail
    <2>1. /\ UNCHANGED log /\ callback[busy] \in {"stream", "rest"} /\ busy \in excused'
          /\ callback' = [callback EXCEPT ![busy] = "done"]
      BY <1>3 DEF Fail
    <2> QED
      BY <2>1 DEF Taken, TypeInv, ServerInv
  <1>4. ASSUME NEW k \in Runs, Stream(k) \/ StreamRest(k)
        PROVE  /\ UNCHANGED log /\ callback[k] \in {"stream", "rest"}
               /\ \E c \in {"rest", "record"} : callback' = [callback EXCEPT ![k] = c]
    BY <1>4, StreamSends
  <1>5. ASSUME NEW k \in Runs, Record(k)
        PROVE  /\ \A s \in Session : \A m : Has(log[s], m) => Has(log'[s], m)
               /\ Has(log'[of[k]], Said(k))
               /\ callback[k] = "record" /\ callback' = [callback EXCEPT ![k] = "done"]
    <2>1. /\ log' = [log EXCEPT ![of[k]] = Append(@, Said(k))] /\ UNCHANGED of
          /\ callback[k] = "record" /\ callback' = [callback EXCEPT ![k] = "done"]
      BY <1>5 DEF Record, page, nav
    <2> QED
      BY <2>1, LogKeeps
  <1>6. CASE \E k \in Runs : Goroutine(k)
    <2>1. PICK k \in Runs : Goroutine(k)
      BY <1>6
    <2>2. CASE Stream(k) \/ StreamRest(k)
      BY <1>4, <2>2 DEF Taken, TypeInv, ServerInv
    <2>3. CASE Record(k)
      BY <1>5, <2>3 DEF Taken, TypeInv, ServerInv
    <2> QED
      BY <2>1, <2>2, <2>3 DEF Goroutine
  <1>7. CASE RefuseSend
    <2>1. PICK k : k = Head(up).run
      OBVIOUS
    <2>2. /\ up # <<>> /\ Head(up).type = "send" /\ up' = Tail(up) /\ UNCHANGED log
          /\ callback' = [callback EXCEPT ![k] = "refused"] /\ k \in excused'
      BY <1>7, <2>1 DEF RefuseSend
    <2>3. k \in Runs
      BY <2>1, <2>2, Taking DEF TypeInv, IsRunOf
    <2> QED
      BY <2>2, <2>3 DEF Taken, TypeInv, ServerInv
  <1>8. UNCHANGED <<log, callback>> \/ TakeSend \/ RefuseSend \/ Fail \/ \E k \in Runs : Goroutine(k)
    <2>1. CASE UNCHANGED vars
      BY <2>1 DEF vars, server
    <2>2. CASE (\E s \in Key : Select(s)) \/ SendHere \/ SendNew \/ SessionCreated \/ Effects
      BY <2>2 DEF Select, SendHere, SendNew, SessionCreated, Effects, server
    <2>3. CASE TakeHistory \/ Complete \/ LoadTimesOut \/ Drop \/ Reconnect
      BY <2>3 DEF TakeHistory, Complete, LoadTimesOut, Drop, Reconnect, server
    <2>4. CASE Frames
      BY <2>4 DEF Frames, Started, Content, Completed, History, elsewhere, server
    <2> QED
      BY <2>1, <2>2, <2>3, <2>4 DEF Next, Gateway, Runs
  <1> QED
    BY <1>1, <1>2, <1>3, <1>6, <1>7, <1>8

\* A send that was refused is not taken later.
LEMMA RefusedStays ==
    ASSUME TypeInv, OrderInv, [Next]_vars, NEW k \in Runs, callback[k] = "refused"
    PROVE  callback'[k] = "refused"
  <1>1. k \in Run
    BY OfTypes
  <1>2. CASE UNCHANGED callback
    BY <1>2
  <1>3. CASE TakeSend \/ RefuseSend
    <2>1. PICK x : x = Head(up).run
      OBVIOUS
    <2>2. /\ up # <<>> /\ Head(up).type = "send" /\ up' = Tail(up)
          /\ \E c : callback' = [callback EXCEPT ![x] = c]
      BY <1>3, <2>1 DEF TakeSend, RefuseSend
    <2>3. 1 \in 1..Len(up) /\ up[1].type = "send" /\ up[1].run = x /\ x \in Runs
      BY <2>1, <2>2, Taking DEF TypeInv, IsRunOf
    <2>4. Taken(x) => x < x
      BY <2>3 DEF OrderInv, UpInv
    <2>5. x \in Nat /\ Taken(k)
      BY <2>3 DEF Runs, Taken
    <2>6. x # k
      BY <2>4, <2>5
    <2> QED
      BY <1>1, <2>2, <2>6 DEF TypeInv, ServerInv
  <1>4. ASSUME NEW x, NEW c, callback[x] \in {"stream", "rest", "record"},
               callback' = [callback EXCEPT ![x] = c]
        PROVE  callback'[k] = "refused"
    BY <1>1, <1>4 DEF TypeInv, ServerInv
  <1>5. CASE Fail
    BY <1>4, <1>5 DEF Fail
  <1>6. CASE \E x \in 1..Len(of) : Goroutine(x)
    <2>1. PICK x : Stream(x) \/ StreamRest(x) \/ Record(x)
      BY <1>6 DEF Goroutine
    <2>2. CASE Stream(x) \/ StreamRest(x)
      BY <1>4, <2>2, StreamSends
    <2>3. CASE Record(x)
      BY <1>4, <2>3 DEF Record
    <2> QED
      BY <2>1, <2>2, <2>3
  <1>7. \/ UNCHANGED callback \/ TakeSend \/ RefuseSend \/ Fail
        \/ \E x \in 1..Len(of) : Goroutine(x)
    <2>1. CASE UNCHANGED vars
      BY <2>1 DEF vars, server
    <2>2. CASE (\E s \in Key : Select(s)) \/ SendHere \/ SendNew \/ SessionCreated \/ Effects
      BY <2>2 DEF Select, SendHere, SendNew, SessionCreated, Effects, server
    <2>3. CASE TakeHistory \/ Complete \/ LoadTimesOut \/ Drop \/ Reconnect
      BY <2>3 DEF TakeHistory, Complete, LoadTimesOut, Drop, Reconnect, server
    <2>4. CASE Frames
      BY <2>4 DEF Frames, Started, Content, Completed, History, elsewhere, server
    <2> QED
      BY <2>1, <2>2, <2>3, <2>4 DEF Next, Gateway
  <1> QED
    BY <1>2, <1>3, <1>5, <1>6, <1>7

\* A send that was taken and not refused is in the history of its session, and in every
\* answer to a history that was asked for after it, unless its connection is gone.
KeptInv ==
    /\ \A k \in Runs : Taken(k) /\ callback[k] # "refused" => Has(log[of[k]], Asked(k))
    /\ \A i \in 1..Len(down), k \in Runs :
          /\ down[i].type = "history" /\ down[i].session = of[k]
          /\ k <= down[i].run /\ k \notin gone /\ callback[k] # "refused"
          => Has(down[i].msgs, Asked(k))

LEMMA InitKept == Init => KeptInv
  BY EmptySeq DEF Init, KeptInv, Runs

LEMMA NextKept == TypeInv /\ OrderInv /\ KeptInv /\ [Next]_vars => KeptInv'
  <1> SUFFICES ASSUME TypeInv, OrderInv, KeptInv, [Next]_vars PROVE KeptInv'
    OBVIOUS
  <1>1. /\ \A k \in Runs : k \in Runs' /\ of'[k] = of[k] /\ of[k] \in Session /\ k \in Run
        /\ gone \subseteq gone' /\ Runs' \subseteq Run /\ Runs = 1..Len(of)
    <2>1. TypeInv'
      BY NextTypes
    <2>2. Runs' \subseteq Run
      BY <2>1, PageAssumption DEF TypeInv, NavInv, Runs, Run
    <2> QED
      BY <2>2, Grows, OfTypes DEF Runs
  <1>2. \A k \in Runs' : Taken(k)' /\ callback'[k] # "refused" => Has(log'[of'[k]], Asked(k))
    <2> SUFFICES ASSUME NEW k \in Runs', Taken(k)', callback'[k] # "refused"
                 PROVE  Has(log'[of'[k]], Asked(k))
      OBVIOUS
    <2>1. Taken(k) \/ (k \in Runs /\ Has(log'[of[k]], Asked(k)))
      BY <1>1, LogStep
    <2>2. k \in Runs
      BY <1>1, <2>1 DEF OrderInv, RunInv
    <2>3. callback[k] # "refused"
      BY <2>2, RefusedStays
    <2> QED
      BY <1>1, <2>1, <2>2, <2>3, LogStep DEF KeptInv
  <1>3. \A i \in 1..Len(down'), k \in Runs' :
          /\ down'[i].type = "history" /\ down'[i].session = of'[k]
          /\ k <= down'[i].run /\ k \notin gone' /\ callback'[k] # "refused"
          => Has(down'[i].msgs, Asked(k))
    <2> SUFFICES ASSUME NEW i \in 1..Len(down'), NEW k \in Runs',
                        down'[i].type = "history", down'[i].session = of'[k],
                        k <= down'[i].run, k \notin gone', callback'[k] # "refused"
                 PROVE  Has(down'[i].msgs, Asked(k))
      OBVIOUS
    <2>1. ASSUME NEW j \in 1..Len(down), down'[i] = down[j] PROVE Has(down'[i].msgs, Asked(k))
      <3>1. k \in Runs
        BY <1>1, <2>1, OfTypes DEF Run
      <3>2. callback[k] # "refused"
        BY <3>1, RefusedStays
      <3> QED
        BY <1>1, <2>1, <3>1, <3>2 DEF KeptInv
    <2>2. CASE ~TakeHistory
      BY <2>1, <2>2, FramesCome DEF Come
    <2>3. CASE TakeHistory
      <3>1. CASE i \in 1..Len(down)
        BY <2>1, <2>3, <3>1, Answered
      <3>2. CASE i \notin 1..Len(down)
        <4>1. /\ 1 \in 1..Len(up) /\ down'[i].session = up[1].session /\ down'[i].run = up[1].run
              /\ down'[i].msgs = log[up[1].session] /\ UNCHANGED <<of, gone>>
          <5>1. i = Len(down')
            BY <2>3, <3>2, Answered
          <5>2. 1 \in 1..Len(up) /\ UNCHANGED <<of, gone>>
            BY <2>3, Answered
          <5>3. /\ down'[i].session = up[1].session /\ down'[i].run = up[1].run
                /\ down'[i].msgs = log[up[1].session]
            BY <2>3, <5>1, Answered
          <5> QED
            BY <5>2, <5>3
        <4>2. up[1].type = "history" /\ up[1].run \in Nat /\ k \in Runs /\ k \in Nat /\ of[k] = up[1].session
          <5>1. Runs' = Runs /\ of' = of
            BY <4>1 DEF Runs
          <5>2. up[1].type = "history" /\ up[1].run \in Nat
            BY <2>3, <4>1, Answered, OfTypes
          <5>3. k \in Runs /\ k \in Nat
            BY <5>1 DEF Runs
          <5>4. of[k] = up[1].session
            BY <4>1
          <5> QED
            BY <5>2, <5>3, <5>4
        <4>3. ~SendIn(k)
          <5> SUFFICES ASSUME NEW j \in 1..Len(up), up[j].type = "send", up[j].run = k PROVE FALSE
            BY DEF SendIn
          <5>1. 1 < j
            BY <4>2
          <5>2. up[1].run < up[j].run
            BY <4>1, <5>1 DEF OrderInv, UpInv
          <5> QED
            BY <4>1, <4>2, <5>2
        <4>4. Taken(k)
          BY <4>1, <4>2, <4>3 DEF OrderInv, UpInv
        <4>5. callback[k] # "refused"
          BY <4>2, RefusedStays
        <4> QED
          BY <4>1, <4>2, <4>4, <4>5 DEF KeptInv
      <3> QED
        BY <3>1, <3>2
    <2> QED
      BY <2>2, <2>3
  <1> QED
    BY <1>2, <1>3 DEF KeptInv, Taken

\* A message that the page has shown as sent stays there, whatever the user and the gateway
\* do in between (use-chat-messages.ts:112; use-chat-send.ts:57): only eviction takes it, or
\* a history that was asked for before it was sent, or one that comes after its connection
\* was lost or after the gateway refused it.
THEOREM WhatIsSentStays == Spec => SentStays
  <1>1. TypeInv /\ KeptInv /\ [Next]_vars =>
          [\A k \in 1..Len(of) :
             Has(shown[of[k]], Asked(k)) /\ ~Has(shown'[of[k]], Asked(k)) =>
               \/ of[k] \notin kept'
               \/ /\ down # <<>> /\ Head(down).type = "history"
                  /\ Head(down).run < k \/ k \in gone \/ callback[k] = "refused"]_vars
    <2> SUFFICES ASSUME TypeInv, KeptInv, [Next]_vars, NEW k \in Runs,
                        Has(shown[of[k]], Asked(k)), ~Has(shown'[of[k]], Asked(k)),
                        of[k] \in kept'
                 PROVE  /\ down # <<>> /\ Head(down).type = "history"
                        /\ Head(down).run < k \/ k \in gone \/ callback[k] = "refused"
      BY DEF Runs
    <2>1. of[k] \in Session /\ of[k] \in Key /\ k \in Nat
      BY OfTypes DEF Key, Runs
    <2>2. Deliver("history") /\ of[k] = down[1].session /\ shown'[of[k]] = down[1].msgs
      BY <2>1, ShownGrows
    <2>3. /\ down # <<>> /\ 1 \in 1..Len(down) /\ Head(down) = down[1] /\ down[1].type = "history"
      BY <2>2, Delivered DEF TypeInv
    <2>4. down[1].run \in Nat
      BY <2>3, OfTypes
    <2>5. ~(k <= down[1].run) \/ k \in gone \/ callback[k] = "refused"
      BY <2>2, <2>3 DEF KeptInv
    <2> QED
      BY <2>1, <2>3, <2>4, <2>5
  <1>2. Init => TypeInv /\ OrderInv /\ KeptInv
    BY InitTypes, InitOrder, InitKept
  <1>3. TypeInv /\ OrderInv /\ KeptInv /\ [Next]_vars => TypeInv' /\ OrderInv' /\ KeptInv'
    BY NextTypes, NextOrder, NextKept
  <1> QED
    BY <1>1, <1>2, <1>3, PTL DEF Spec, SentStays

-----------------------------------------------------------------------------
(* The fifth layer: what the page follows, and that it gets there.         *)

LEMMA DeliverComes == ASSUME TypeInv, NEW type, Deliver(type) PROVE Come(1)
  <1>1. down \in Seq(Events) /\ 1 \in 1..Len(down) /\ down' = Without(down, 1)
    BY Delivered DEF TypeInv, WireInv
  <1>2. /\ Len(down) \in Nat /\ Len(down') = Len(down) - 1
        /\ \A i \in 1..(Len(down) - 1) : down'[i] = down[IF i < 1 THEN i ELSE i + 1]
    BY <1>1, WithoutProperties
  <1> QED
    BY <1>2 DEF Come

\* A run that is not excused is of the session on view.
LEMMA ViewStep ==
    ASSUME TypeInv, [Next]_vars
    PROVE  /\ view' = view \/ RunsOf(view) \subseteq excused'
           /\ \A k \in Runs' : k \in Runs \/ of'[k] = view'
  <1>1. CASE UNCHANGED <<view, of>>
    BY <1>1 DEF Runs
  <1>2. CASE \E s \in Key : Select(s)
    BY <1>2 DEF Select, Navigate, Runs
  <1>3. ASSUME NEW s \in Session, Send(s)
        PROVE  \A k \in Runs' : k \in Runs \/ of'[k] = s
    <2>1. CASE ~connected
      BY <1>3, <2>1 DEF Send, Runs
    <2>2. CASE connected
      <3>1. /\ of' = Append(of, s) /\ Runs' = Runs \cup {Len(of')} /\ Len(of') = Len(of) + 1
            /\ Len(of) \in Nat
        BY <1>3, <2>2, MoreRuns DEF Send, TypeInv
      <3>2. of'[Len(of')] = s
        BY <3>1, AppendProperties DEF TypeInv, NavInv
      <3> QED
        BY <3>1, <3>2
    <2> QED
      BY <2>1, <2>2
  <1>4. CASE SendHere
    BY <1>3, <1>4 DEF SendHere
  <1>5. CASE SessionCreated
    <2>1. PICK s \in Session : Send(s) /\ Navigate(s)
      BY <1>5 DEF SessionCreated
    <2> QED
      BY <1>3, <2>1 DEF Navigate
  <1>6. UNCHANGED <<view, of>> \/ (\E s \in Key : Select(s)) \/ SendHere \/ SessionCreated
    <2>1. CASE UNCHANGED vars
      BY <2>1 DEF vars, page, nav
    <2>2. CASE SendNew \/ Effects
      BY <2>2 DEF SendNew, Effects
    <2>3. CASE Gateway \/ \E k \in 1..Len(of) : Goroutine(k)
      BY <2>3 DEF Gateway, TakeHistory, TakeSend, RefuseSend, Complete, Fail, Goroutine, Stream,
                  StreamRest, Record, page, nav
    <2>4. CASE Frames
      BY <2>4 DEF Frames, Started, Content, Completed, History, elsewhere, nav
    <2>5. CASE LoadTimesOut \/ Drop \/ Reconnect
      BY <2>5 DEF LoadTimesOut, Drop, Reconnect, page, nav
    <2> QED
      BY <2>1, <2>2, <2>3, <2>4, <2>5 DEF Next
  <1> QED
    BY <1>1, <1>2, <1>4, <1>5, <1>6

\* What is new on the page is an optimistic message, the answer that completes, or of a
\* history.
LEMMA ShownNew ==
    ASSUME TypeInv, [Next]_vars, NEW s \in Key, NEW k \in Run,
           Has(shown'[s], Said(k)), ~Has(shown[s], Said(k))
    PROVE  \/ Deliver("completed") /\ down[1].run = k /\ down[1].session = s
           \/ Deliver("history") /\ down[1].session = s /\ Has(down[1].msgs, Said(k))
  <1>1. ASSUME NEW x \in Key, NEW msgs, NEW runs, SetMessages(x, msgs, runs)
        PROVE  s = x /\ Has(msgs, Said(k))
    <2>1. shown'[s] = <<>> \/ shown'[s] = IF s = x THEN msgs ELSE shown[s]
      BY <1>1, SetMessagesShows
    <2> QED
      BY <2>1, HasEmpty
  <1>2. ASSUME NEW x \in Key, NEW e \in Message, NEW runs, SetMessages(x, Append(shown[x], e), runs)
        PROVE  s = x /\ Said(k) = e
    <2>1. shown[x] \in Seq(Message)
      <3>1. MessagesOf(x) \subseteq Message
        BY DEF MessagesOf
      <3> QED
        BY <3>1, SeqSubset DEF TypeInv, StoreInv
    <2>2. PICK msgs : msgs = Append(shown[x], e)
      OBVIOUS
    <2>3. s = x /\ Has(msgs, Said(k))
      BY <1>1, <1>2, <2>2
    <2> QED
      BY <2>1, <2>2, <2>3, HasAppend
  <1>3. ASSUME NEW x \in Session, Send(x), Len(of) < MaxSends PROVE FALSE
    <2>1. connected
      BY <1>3 DEF Send, store
    <2>2. of' = Append(of, x) /\ SetMessages(x, Append(shown[x], Asked(Len(of'))), running)
      BY <1>3, <2>1 DEF Send
    <2>3. Len(of') = Len(of) + 1 /\ Len(of) \in Nat
      BY <2>2, MoreRuns DEF TypeInv
    <2>4. Asked(Len(of')) \in Message /\ x \in Key
      BY <1>3, <2>3, PageAssumption DEF Asked, Message, Run, Key
    <2> QED
      BY <1>2, <2>2, <2>4, WhoDiffers
  <1>4. CASE Completed
    <2>1. /\ SetMessages(view, Append(shown[view], Said(runId)), [running EXCEPT ![view] = FALSE])
          /\ Ours(Head(down)) /\ Deliver("completed")
      BY <1>4 DEF Completed, SetRunning, store
    <2>2. /\ Head(down) = down[1] /\ down[1].type = "completed" /\ 1 \in 1..Len(down)
          /\ runId = down[1].run /\ view = down[1].session /\ view \in Key
      BY <2>1, Delivered DEF Ours, TypeInv, NavInv
    <2>3. Said(runId) \in Message
      BY <2>2, OfTypes DEF Said, Message
    <2>4. s = view /\ Said(k) = Said(runId)
      BY <1>2, <2>1, <2>2, <2>3
    <2> QED
      BY <2>1, <2>2, <2>4, WhoDiffers
  <1>5. CASE History
    <2>1. PICK x, msgs : x = down[1].session /\ msgs = down[1].msgs
      OBVIOUS
    <2>2. Deliver("history") /\ SetMessages(x, msgs, running) /\ x \in Key
      BY <1>5, <2>1, Delivered DEF History, TypeInv, Key
    <2> QED
      BY <1>1, <2>1, <2>2
  <1>6. UNCHANGED shown \/ Completed \/ History \/ \E x \in Session : Send(x) /\ Len(of) < MaxSends
    <2>1. CASE UNCHANGED vars
      BY <2>1 DEF vars, page, store
    <2>2. CASE (\E x \in Key : Select(x)) \/ SendNew \/ Effects
      BY <2>2 DEF Select, SendNew, Effects, SetRunning, store
    <2>3. CASE SendHere \/ SessionCreated
      BY <2>3 DEF SendHere, SessionCreated
    <2>4. CASE Gateway \/ \E x \in 1..Len(of) : Goroutine(x)
      BY <2>4 DEF Gateway, TakeHistory, TakeSend, RefuseSend, Complete, Fail, Goroutine, Stream,
                  StreamRest, Record, page, store
    <2>5. CASE Started \/ Content \/ LoadTimesOut \/ Drop \/ Reconnect
      BY <2>5 DEF Started, SetRunning, Content, LoadTimesOut, Drop, Reconnect, page, store
    <2> QED
      BY <2>1, <2>2, <2>3, <2>4, <2>5 DEF Next, Frames
  <1> QED
    BY <1>3, <1>4, <1>5, <1>6

\* The runs of the page: those of the session on view, each with its answer in the history
\* once it is recorded, and none of them refused.
PageRuns ==
    \A k \in Runs \ excused :
        /\ of[k] = view /\ callback[k] # "refused"
        /\ callback[k] = "done" => Has(log[of[k]], Said(k))

\* A history tells what the gateway keeps, no less than those before it, and the answers of
\* the runs that completed before it or that the page shows.
HistoryTells ==
    /\ \A i \in 1..Len(down) : down[i].type = "history" =>
          \A m : Has(down[i].msgs, m) => Has(log[down[i].session], m)
    /\ \A i, j \in 1..Len(down) :
          /\ i < j /\ down[i].type = "history" /\ down[j].type = "history"
          /\ down[i].session = down[j].session
          => \A m : Has(down[i].msgs, m) => Has(down[j].msgs, m)
    /\ \A i, j \in 1..Len(down) :
          /\ i < j /\ down[i].type = "completed" /\ down[j].type = "history"
          /\ down[i].session = down[j].session
          => down[i].run \in excused \/ Has(down[j].msgs, Said(down[i].run))
    /\ \A k \in Runs \ excused, j \in 1..Len(down) :
          /\ Has(shown[of[k]], Said(k))
          /\ down[j].type = "history" /\ down[j].session = of[k]
          => Has(down[j].msgs, Said(k))

FollowInv == PageRuns /\ HistoryTells

LEMMA InitFollow == Init => FollowInv
  BY EmptySeq DEF Init, FollowInv, PageRuns, HistoryTells, Runs

LEMMA NextPageRuns == TypeInv /\ OrderInv /\ PageRuns /\ [Next]_vars => PageRuns'
  <1> SUFFICES ASSUME TypeInv, OrderInv, PageRuns, [Next]_vars, NEW k \in Runs', k \notin excused'
               PROVE  /\ of'[k] = view' /\ callback'[k] # "refused"
                      /\ callback'[k] = "done" => Has(log'[of'[k]], Said(k))
    BY DEF PageRuns
  <1>1. k \in Run
    <2>1. TypeInv'
      BY NextTypes
    <2> QED
      BY <2>1, PageAssumption DEF TypeInv, NavInv, Runs, Run
  <1>2. CASE k \in Runs
    <2>1. of'[k] = of[k] /\ k \notin excused /\ of[k] \in Session
      BY <1>2, Grows, OfTypes
    <2>2. of[k] = view /\ k \in RunsOf(view)
      BY <1>2, <2>1 DEF PageRuns, RunsOf, Runs
    <2>3. view' = view
      BY <2>2, ViewStep
    <2>4. callback'[k] = "done" => Has(log'[of[k]], Said(k))
      BY <1>1, <1>2, <2>1, LogStep DEF PageRuns
    <2>5. callback'[k] # "refused"
      BY <1>1, <1>2, <2>1, LogStep DEF PageRuns
    <2> QED
      BY <2>1, <2>2, <2>3, <2>4, <2>5
  <1>3. CASE k \notin Runs
    <2>1. callback[k] # "done" /\ callback[k] # "refused"
      BY <1>1, <1>3 DEF OrderInv, RunInv, Taken
    <2>2. callback'[k] # "done" /\ callback'[k] # "refused"
      BY <1>1, <1>3, <2>1, LogStep
    <2> QED
      BY <1>3, <2>2, ViewStep
  <1> QED
    BY <1>2, <1>3

\* The gateway answers with what it has: the answer of a run that it has taken is in the
\* history, or it is excused.
LEMMA AnswerTells ==
    ASSUME TypeInv, PageRuns, TakeHistory, NEW k \in Runs, k \notin excused', Taken(k),
           of[k] = up[1].session
    PROVE  Has(log[up[1].session], Said(k))
  <1>1. k \notin excused /\ k \notin Unrecorded(up[1].session)
    BY Answered
  <1>2. callback[k] \in {"stream", "rest", "record", "done"}
    BY <1>1, OfTypes DEF Taken, TypeInv, ServerInv, PageRuns
  <1>3. callback[k] = "done"
    BY <1>1, <1>2 DEF Unrecorded, RunsOf, Runs
  <1> QED
    BY <1>1, <1>3 DEF PageRuns

LEMMA TakeHistoryTells ==
    ASSUME TypeInv, OrderInv, OnceInv, FollowInv, TakeHistory
    PROVE  HistoryTells'
  <1> DEFINE n == Len(down) + 1
             s == up[1].session
  <1>1. /\ Len(down) \in Nat /\ n \in Nat /\ Len(down') = n
        /\ \A i \in 1..Len(down) : down'[i] = down[i]
    BY Answered
  <1>2. down'[n].type = "history" /\ down'[n].session = s /\ down'[n].msgs = log[s]
    BY Answered
  <1>3. /\ UNCHANGED log /\ UNCHANGED of /\ UNCHANGED shown /\ excused \subseteq excused'
    BY Answered
  <1>4. Runs' = Runs
    BY <1>3 DEF Runs
  <1> HIDE DEF n, s
  <1>5. \A i \in 1..Len(down') : i = n \/ (i \in 1..Len(down) /\ down'[i] = down[i])
    <2>1. \A i \in 1..n : i = n \/ i \in 1..Len(down)
      BY <1>1 DEF n
    <2> QED
      BY <1>1, <2>1
  <1>6. \A i \in 1..Len(down') : down'[i].type = "history" =>
           \A m : Has(down'[i].msgs, m) => Has(log'[down'[i].session], m)
    BY <1>2, <1>3, <1>5 DEF FollowInv, HistoryTells
  <1>7. \A i, j \in 1..Len(down') : i < j => i \in 1..Len(down) /\ down'[i] = down[i]
    BY <1>1, <1>5
  <1>8. ASSUME NEW i \in 1..Len(down'), NEW j \in 1..Len(down'), i < j,
               down'[i].type = "history", down'[j].type = "history",
               down'[i].session = down'[j].session,
               NEW m, Has(down'[i].msgs, m)
        PROVE  Has(down'[j].msgs, m)
    <2>1. i \in 1..Len(down) /\ down'[i] = down[i]
      BY <1>7, <1>8
    <2>2. CASE j = n
      BY <1>2, <1>8, <2>1, <2>2 DEF FollowInv, HistoryTells
    <2>3. CASE j # n
      BY <1>5, <1>8, <2>1, <2>3 DEF FollowInv, HistoryTells
    <2> QED
      BY <2>2, <2>3
  <1>9. ASSUME NEW i \in 1..Len(down'), NEW j \in 1..Len(down'), i < j,
               down'[i].type = "completed", down'[j].type = "history",
               down'[i].session = down'[j].session, down'[i].run \notin excused'
        PROVE  Has(down'[j].msgs, Said(down'[i].run))
    <2>1. i \in 1..Len(down) /\ down'[i] = down[i]
      BY <1>7, <1>9
    <2>2. CASE j = n
      <3>1. PICK k : k = down[i].run
        OBVIOUS
      <3>2. k \in Runs /\ of[k] = s
        <4>1. down[i].type # "history" /\ down[i].session = s
          BY <1>2, <1>9, <2>1, <2>2
        <4> QED
          BY <2>1, <3>1, <4>1, OfTypes DEF IsRunOf
      <3>3. Taken(k)
        BY <1>9, <2>1, <3>1 DEF OrderInv, DownInv
      <3>4. Has(log[s], Said(k))
        BY <1>9, <2>1, <3>1, <3>2, <3>3, AnswerTells DEF FollowInv, s
      <3> QED
        BY <1>2, <2>1, <2>2, <3>1, <3>4
    <2>3. CASE j # n
      BY <1>3, <1>5, <1>9, <2>1, <2>3 DEF FollowInv, HistoryTells
    <2> QED
      BY <2>2, <2>3
  <1>10. ASSUME NEW k \in Runs, k \notin excused', NEW j \in 1..Len(down'),
                Has(shown[of[k]], Said(k)), down'[j].type = "history", down'[j].session = of[k]
         PROVE  Has(down'[j].msgs, Said(k))
    <2>1. CASE j = n
      <3>1. of[k] = s /\ of[k] \in Key /\ k \in Run
        BY <1>2, <1>10, <2>1, OfTypes DEF Key
      <3>2. Taken(k)
        BY <1>10, <3>1 DEF OnceInv, ShownOnce
      <3> QED
        BY <1>2, <1>10, <2>1, <3>1, <3>2, AnswerTells DEF FollowInv, s
    <2>2. CASE j # n
      BY <1>3, <1>5, <1>10, <2>2 DEF FollowInv, HistoryTells
    <2> QED
      BY <2>1, <2>2
  <1> QED
    BY <1>3, <1>4, <1>6, <1>8, <1>9, <1>10 DEF HistoryTells

LEMMA NextTells ==
    ASSUME TypeInv, OrderInv, OnceInv, OnceInv', FollowInv, [Next]_vars, ~TakeHistory
    PROVE  HistoryTells'
  <1>1. PICK n \in {0, 1} : Come(n)
    BY FramesCome
  <1>2. Len(down) \in Nat /\ Len(down') \in Nat /\ Runs' \subseteq Run
    <2>1. TypeInv'
      BY NextTypes
    <2>2. Len(down') \in Nat
      BY <2>1, LenProperties DEF TypeInv, WireInv
    <2> QED
      BY <2>1, <2>2, OfTypes, PageAssumption DEF TypeInv, NavInv, Runs, Run
  <1>3. \A i \in 1..Len(down') : down'[i].type = "history" =>
           i + n \in 1..Len(down) /\ down'[i] = down[i + n]
    BY <1>1 DEF Come
  <1>4. \A i, j \in 1..Len(down') : i < j /\ down'[j].type = "history" =>
           i + n \in 1..Len(down) /\ i + n < j + n /\ down'[i] = down[i + n]
    <2>1. \A i, j \in 1..Len(down') : i < j /\ j + n \in 1..Len(down) =>
             i + n \in 1..Len(down) /\ i + n < j + n
      BY <1>2
    <2> QED
      BY <1>1, <1>3, <2>1 DEF Come
  <1>5. ASSUME NEW i \in 1..Len(down'), down'[i].type = "history", NEW m, Has(down'[i].msgs, m)
        PROVE  Has(log'[down'[i].session], m)
    <2>1. PICK x \in 1..Len(down) : down'[i] = down[x]
      BY <1>3, <1>5
    <2>2. down[x].session \in Session
      BY OfTypes
    <2> QED
      BY <1>5, <2>1, <2>2, LogStep DEF FollowInv, HistoryTells
  <1>6. ASSUME NEW i \in 1..Len(down'), NEW j \in 1..Len(down'), i < j, down'[j].type = "history"
        PROVE  \E x, y \in 1..Len(down) : x < y /\ down'[i] = down[x] /\ down'[j] = down[y]
    BY <1>3, <1>4, <1>6
  <1>7. ASSUME NEW i \in 1..Len(down'), NEW j \in 1..Len(down'), i < j,
               down'[i].type = "history", down'[j].type = "history",
               down'[i].session = down'[j].session,
               NEW m, Has(down'[i].msgs, m)
        PROVE  Has(down'[j].msgs, m)
    <2>1. PICK x, y \in 1..Len(down) : x < y /\ down'[i] = down[x] /\ down'[j] = down[y]
      BY <1>6, <1>7
    <2> QED
      BY <1>7, <2>1 DEF FollowInv, HistoryTells
  <1>8. ASSUME NEW i \in 1..Len(down'), NEW j \in 1..Len(down'), i < j,
               down'[i].type = "completed", down'[j].type = "history",
               down'[i].session = down'[j].session, down'[i].run \notin excused'
        PROVE  Has(down'[j].msgs, Said(down'[i].run))
    <2>1. PICK x, y \in 1..Len(down) : x < y /\ down'[i] = down[x] /\ down'[j] = down[y]
      BY <1>6, <1>8
    <2> QED
      BY <1>8, <2>1, Grows DEF FollowInv, HistoryTells
  <1>9. ASSUME NEW k \in Runs', k \notin excused', NEW j \in 1..Len(down'),
               Has(shown'[of'[k]], Said(k)), down'[j].type = "history", down'[j].session = of'[k]
        PROVE  Has(down'[j].msgs, Said(k))
    <2>1. k \in Run
      BY <1>2
    <2>2. k \in Runs /\ of'[k] = of[k] /\ k \notin excused /\ of[k] \in Session /\ of[k] \in Key
      <3>1. down'[j].session \in Session
        <4>1. PICK x \in 1..Len(down) : down'[j] = down[x]
          BY <1>3, <1>9
        <4> QED
          BY <4>1, OfTypes
      <3>2. of'[k] \in Key
        BY <1>9, <3>1 DEF Key
      <3>3. Taken(k)'
        BY <1>9, <2>1, <3>2 DEF OnceInv, ShownOnce, Taken
      <3>4. k \in Runs
        BY <2>1, <3>3, LogStep DEF OrderInv, RunInv
      <3> QED
        BY <1>9, <3>4, Grows, OfTypes DEF Key
    <2>3. PICK y \in 1..Len(down) : down'[j] = down[y]
      BY <1>3, <1>9
    <2>4. CASE Has(shown[of[k]], Said(k))
      BY <1>9, <2>2, <2>3, <2>4 DEF FollowInv, HistoryTells
    <2>5. ASSUME NEW type, Deliver(type)
          PROVE  1 \in 1..Len(down) /\ \E x \in 1..Len(down) : 1 < x /\ down'[j] = down[x]
      <3>1. Come(1)
        BY <2>5, DeliverComes
      <3>2. j + 1 \in 1..Len(down) /\ down'[j] = down[j + 1] /\ 1 < j + 1
        BY <1>2, <1>9, <3>1 DEF Come
      <3> QED
        BY <1>2, <3>2
    <2>6. CASE Deliver("completed") /\ down[1].run = k /\ down[1].session = of[k]
      <3>1. PICK x \in 1..Len(down) : 1 < x /\ down'[j] = down[x]
        BY <2>5, <2>6
      <3>2. 1 \in 1..Len(down) /\ down[1].type = "completed"
        BY <2>6, Delivered DEF TypeInv
      <3> QED
        BY <1>9, <2>2, <2>6, <3>1, <3>2 DEF FollowInv, HistoryTells
    <2>7. CASE Deliver("history") /\ down[1].session = of[k] /\ Has(down[1].msgs, Said(k))
      <3>1. PICK x \in 1..Len(down) : 1 < x /\ down'[j] = down[x]
        BY <2>5, <2>7
      <3>2. 1 \in 1..Len(down) /\ down[1].type = "history"
        BY <2>7, Delivered DEF TypeInv
      <3>3. down[x].type = "history" /\ down[1].session = down[x].session
        BY <1>9, <2>2, <2>7, <3>1
      <3> QED
        BY <2>7, <3>1, <3>2, <3>3 DEF FollowInv, HistoryTells
    <2>8. \/ Has(shown[of[k]], Said(k))
          \/ Deliver("completed") /\ down[1].run = k /\ down[1].session = of[k]
          \/ Deliver("history") /\ down[1].session = of[k] /\ Has(down[1].msgs, Said(k))
      BY <1>9, <2>1, <2>2, ShownNew
    <2> QED
      BY <2>4, <2>6, <2>7, <2>8
  <1> QED
    BY <1>5, <1>7, <1>8, <1>9 DEF HistoryTells

LEMMA NextFollow ==
    TypeInv /\ OrderInv /\ OnceInv /\ OnceInv' /\ FollowInv /\ [Next]_vars => FollowInv'
  BY NextPageRuns, TakeHistoryTells, NextTells DEF FollowInv

-----------------------------------------------------------------------------
(* Where a run is whose answer is to come: its send on the way, then its   *)
(* run.started, then the page in it until it completes; then a history is  *)
(* asked for, or answered; or the page shows the answer.                   *)

Following(k) == runId = k /\ (busy = k \/ FrameIn("completed", k))

Loading(k) ==
    \E i \in 1..Len(up) : up[i].type = "history" /\ up[i].session = of[k] /\ k <= up[i].run

Loaded(k) ==
    \E i \in 1..Len(down) : /\ down[i].type = "history" /\ down[i].session = of[k]
                            /\ Has(down[i].msgs, Said(k))

Coming(k) ==
    \/ SendIn(k) \/ FrameIn("started", k) \/ Following(k)
    \/ Loading(k) \/ Loaded(k)
    \/ Has(shown[of[k]], Said(k))

ProgressInv == \A k \in Runs \ (excused \cup evicted) : Coming(k)

\* A request stays on the way until the gateway takes it, its time is over or the
\* connection is lost.
LEMMA UpStays ==
    ASSUME TypeInv, [Next]_vars, NEW i \in 1..Len(up)
    PROVE  \/ \E j \in 1..Len(up') : up'[j] = up[i]
           \/ i = 1 /\ (TakeHistory \/ TakeSend \/ RefuseSend)
           \/ up[i].type = "history" /\ RunsOf(up[i].session) \subseteq excused'
           \/ Drop
  <1>1. up \in Seq(Requests) /\ Len(up) \in Nat
    BY OfTypes DEF TypeInv, WireInv
  <1>2. CASE UNCHANGED up
    BY <1>2
  <1>3. ASSUME NEW S, up \in Seq(S), NEW r \in S, up' = Append(up, r)
        PROVE  \E j \in 1..Len(up') : up'[j] = up[i]
    BY <1>3, <1>1, AppendProperties
  <1>4. ASSUME NEW n \in 1..Len(up), up' = Without(up, n), i # n
        PROVE  \E j \in 1..Len(up') : up'[j] = up[i]
    BY <1>1, <1>4, ShiftedKeeps
  <1>5. CASE LoadHistory
    <2>1. CASE up' = Append(up, Request("history", Len(of), view)) /\ view \in Session
      <3>1. Len(of) \in 0..Len(of)
        BY OfTypes
      <3>2. Request("history", Len(of), view) \in Requests
        BY <2>1, <3>1 DEF Request, Requests
      <3> QED
        BY <1>1, <1>3, <2>1, <3>2
    <2> QED
      BY <1>2, <1>5, <2>1 DEF LoadHistory
  <1>6. ASSUME NEW s \in Session, Send(s) PROVE \E j \in 1..Len(up') : up'[j] = up[i]
    <2>1. CASE ~connected
      BY <1>6, <2>1 DEF Send
    <2>2. CASE connected
      <3>1. of' = Append(of, s) /\ up' = Append(up, Request("send", Len(of'), s))
        BY <1>6, <2>2 DEF Send
      <3>2. /\ Len(of') = Len(of) + 1 /\ Len(of) \in Nat /\ Requests \subseteq Requests'
            /\ IsRunOf(Len(of), s)'
        BY <3>1, MoreRuns DEF TypeInv
      <3>3. Request("send", Len(of'), s) \in Requests'
        BY <3>2 DEF Request, Requests
      <3>4. up \in Seq(Requests')
        BY <1>1, <3>2, SeqSubset
      <3> QED
        BY <1>3, <3>1, <3>3, <3>4
    <2> QED
      BY <2>1, <2>2
  <1>7. CASE TakeHistory \/ TakeSend \/ RefuseSend
    <2>1. 1 \in 1..Len(up) /\ up' = Without(up, 1)
      BY <1>7, Taking DEF TakeHistory, TakeSend, RefuseSend, TypeInv
    <2> QED
      BY <1>4, <1>7, <2>1
  <1>8. CASE LoadTimesOut
    <2>1. PICK n \in 1..Len(up) : /\ up[n].type = "history" /\ up' = Without(up, n)
                                  /\ excused' = excused \cup RunsOf(up[n].session)
      BY <1>8 DEF LoadTimesOut, Without
    <2> QED
      BY <1>4, <2>1
  <1>9. \/ UNCHANGED up \/ LoadHistory \/ TakeHistory \/ TakeSend \/ RefuseSend \/ LoadTimesOut \/ Drop
        \/ \E s \in Session : Send(s)
    <2>1. CASE UNCHANGED vars
      BY <2>1 DEF vars, wire
    <2>2. CASE (\E s \in Key : Select(s)) \/ SendNew \/ Reconnect
      BY <2>2 DEF Select, SendNew, Reconnect, wire
    <2>3. CASE SendHere \/ SessionCreated \/ Effects
      BY <2>3 DEF SendHere, SessionCreated, Effects
    <2>4. CASE Complete \/ Fail \/ \E k \in 1..Len(of) : Goroutine(k)
      BY <2>4 DEF Complete, Fail, Goroutine, Stream, StreamRest, Record, wire
    <2>5. CASE Frames
      BY <2>5 DEF Frames, Started, Content, Completed, History
    <2> QED
      BY <2>1, <2>2, <2>3, <2>4, <2>5 DEF Next, Gateway
  <1> QED
    BY <1>2, <1>5, <1>6, <1>7, <1>8, <1>9

\* A frame stays on the way until it arrives or the connection is lost.
LEMMA DownStays ==
    ASSUME TypeInv, [Next]_vars, NEW i \in 1..Len(down)
    PROVE  \/ \E j \in 1..Len(down') : down'[j] = down[i]
           \/ i = 1 /\ Frames
           \/ Drop
  <1>1. down \in Seq(Events) /\ Len(down) \in Nat
    BY OfTypes DEF TypeInv, WireInv
  <1>2. CASE UNCHANGED down
    BY <1>2
  <1>3. ASSUME NEW type, Deliver(type), i # 1
        PROVE  \E j \in 1..Len(down') : down'[j] = down[i]
    <2>1. 1 \in 1..Len(down) /\ down' = Without(down, 1)
      BY <1>3, Delivered DEF TypeInv
    <2> QED
      BY <1>1, <1>3, <2>1, ShiftedKeeps
  <1>4. ASSUME NEW k \in Runs, NEW types, Published(types), Publish(types, k)
        PROVE  \E j \in 1..Len(down') : down'[j] = down[i]
    <2>1. CASE k \in gone
      BY <1>4, <2>1 DEF Publish
    <2>2. CASE k \notin gone
      <3>1. /\ Len(down') = Len(down) + Len(types)
            /\ \A j \in 1..Len(down) : down'[j] = down[j]
        BY <1>4, <2>2, PublishedLast DEF TypeInv
      <3>2. Len(types) \in Nat
        BY <1>4 DEF Published, Streamed
      <3> QED
        BY <1>1, <3>1, <3>2
    <2> QED
      BY <2>1, <2>2
  <1>5. CASE TakeSend
    <2>1. PICK f : down' = Append(down, f)
      BY <1>5 DEF TakeSend
    <2>2. Len(down') = Len(down) + 1 /\ \A j \in 1..Len(down) : down'[j] = down[j]
      BY <1>1, <2>1, AppendProperties
    <2> QED
      BY <1>1, <2>2
  <1>6. CASE TakeHistory
    BY <1>1, <1>6, Answered
  <1>7. \/ UNCHANGED down \/ TakeSend \/ TakeHistory \/ Drop
        \/ Frames /\ \E type : Deliver(type)
        \/ \E k \in Runs, types \in Streamed \cup {<<"completed">>} : Publish(types, k)
    <2>1. CASE UNCHANGED vars
      BY <2>1 DEF vars, wire
    <2>2. CASE (\E s \in Key : Select(s)) \/ SendHere \/ SendNew \/ SessionCreated \/ Effects
      BY <2>2 DEF Select, SendHere, SendNew, SessionCreated, Effects, wire
    <2>3. CASE Complete
      BY <2>3, OfTypes DEF Complete
    <2>4. CASE RefuseSend \/ Fail \/ LoadTimesOut \/ Reconnect
      BY <2>4 DEF RefuseSend, Fail, LoadTimesOut, Reconnect, wire
    <2>5. CASE \E k \in 1..Len(of) : Goroutine(k)
      <3>1. PICK k \in Runs : Stream(k) \/ StreamRest(k) \/ Record(k)
        BY <2>5 DEF Goroutine, Runs
      <3>2. CASE Stream(k) \/ StreamRest(k)
        <4>1. PICK types \in Streamed : Publish(types, k)
          BY <3>2, StreamSends
        <4> QED
          BY <4>1
      <3> QED
        BY <3>1, <3>2 DEF Record, wire
    <2>6. CASE Frames
      BY <2>6 DEF Frames, Started, Content, Completed, History
    <2> QED
      BY <2>1, <2>2, <2>3, <2>4, <2>5, <2>6 DEF Next, Gateway
  <1> QED
    BY <1>2, <1>3, <1>4, <1>5, <1>6, <1>7 DEF Published

\* The next stage, or the same, of a run whose answer is still to come after the step.
LEMMA AfterSend ==
    ASSUME TypeInv, [Next]_vars, NEW k \in Runs, k \notin excused', SendIn(k)
    PROVE  SendIn(k)' \/ FrameIn("started", k)'
  <1>1. PICK i \in 1..Len(up) : up[i].type = "send" /\ up[i].run = k
    BY DEF SendIn
  <1>2. CASE \E j \in 1..Len(up') : up'[j] = up[i]
    BY <1>1, <1>2 DEF SendIn
  <1>3. CASE i = 1 /\ TakeHistory
    BY <1>1, <1>3, Answered
  <1>4. CASE i = 1 /\ TakeSend
    <2>1. PICK f : f = Frame("started", k, of[k], <<>>)
      OBVIOUS
    <2>2. f.type = "started" /\ f.run = k
      BY <2>1 DEF Frame
    <2>3. up # <<>> /\ up' = Tail(up)
      BY <1>4 DEF TakeSend
    <2>4. Head(up) = up[1]
      BY <2>3, Taking DEF TypeInv
    <2>5. down' = Append(down, f)
      BY <1>1, <1>4, <2>1, <2>4 DEF TakeSend
    <2>6. Len(down) \in Nat /\ Len(down') = Len(down) + 1 /\ down'[Len(down) + 1] = f
      BY <2>5, OfTypes, AppendProperties DEF TypeInv, WireInv
    <2> QED
      BY <2>2, <2>6 DEF FrameIn
  <1>5. CASE i = 1 /\ RefuseSend
    <2>1. up # <<>> /\ up' = Tail(up) /\ Head(up).run \in excused'
      BY <1>5 DEF RefuseSend
    <2>2. Head(up) = up[1]
      BY <2>1, Taking DEF TypeInv
    <2> QED
      BY <1>1, <1>5, <2>1, <2>2
  <1>6. CASE Drop
    BY <1>6 DEF Drop, Runs
  <1> QED
    BY <1>1, <1>2, <1>3, <1>4, <1>5, <1>6, UpStays

\* The page adopts the run, which is in progress or completes later.
LEMMA AfterStarted ==
    ASSUME TypeInv, OrderInv, [Next]_vars, NEW k \in Runs, k \notin excused', FrameIn("started", k)
    PROVE  FrameIn("started", k)' \/ Following(k)'
  <1>1. PICK i \in 1..Len(down) : down[i].type = "started" /\ down[i].run = k
    BY DEF FrameIn
  <1>2. CASE \E j \in 1..Len(down') : down'[j] = down[i]
    BY <1>1, <1>2 DEF FrameIn
  <1>3. CASE i = 1 /\ Frames
    <2>1. Head(down) = down[1] /\ Head(down).type = "started"
      <3>1. PICK type : Deliver(type)
        BY <1>3 DEF Frames, Started, Content, Completed, History
      <3> QED
        BY <1>1, <1>3, <3>1, Delivered DEF TypeInv
    <2>2. Started
      BY <1>3, <2>1 DEF Frames, Content, Completed, History, Deliver
    <2>3. runId' = k /\ UNCHANGED busy /\ excused' = excused
      BY <1>1, <1>3, <2>1, <2>2 DEF Started, server
    <2>4. CASE busy = k
      BY <2>3, <2>4 DEF Following
    <2>5. ASSUME NEW y \in 2..Len(down), down[y].type = "completed", down[y].run = k
          PROVE  FrameIn("completed", k)'
      <3>1. y \in 1..Len(down) /\ y # 1
        OBVIOUS
      <3>2. ~Drop
        BY DEF Drop, Runs
      <3>3. PICK j \in 1..Len(down') : down'[j] = down[y]
        BY <3>1, <3>2, DownStays
      <3> QED
        BY <2>5, <3>3 DEF FrameIn
    <2>6. busy = k \/ \E y \in 2..Len(down) : down[y].type = "completed" /\ down[y].run = k
      BY <1>1, <1>3, <2>3 DEF OrderInv, DownInv
    <2> QED
      BY <2>3, <2>4, <2>5, <2>6 DEF Following
  <1>4. CASE Drop
    BY <1>4 DEF Drop, Runs
  <1> QED
    BY <1>2, <1>3, <1>4, DownStays

\* loadHistory for the session on view, with a connection.
LEMMA LoadsNow ==
    ASSUME TypeInv, LoadHistory, connected, UNCHANGED of, NEW k \in Runs, of[k] = view
    PROVE  Loading(k)'
  <1>1. view \in Session /\ k <= Len(of) /\ Len(of) \in 0..Len(of)
    BY OfTypes DEF Runs
  <1>2. PICK r : r = Request("history", Len(of), view)
    OBVIOUS
  <1>3. r.type = "history" /\ r.run = Len(of) /\ r.session = view /\ r \in Requests
    BY <1>1, <1>2 DEF Request, Requests
  <1>4. up' = Append(up, r)
    BY <1>1, <1>2 DEF LoadHistory
  <1>5. Len(up) \in Nat /\ Len(up') = Len(up) + 1 /\ up'[Len(up) + 1] = r
    BY <1>3, <1>4, OfTypes, AppendProperties DEF TypeInv, WireInv
  <1> QED
    BY <1>1, <1>3, <1>5 DEF Loading

\* The run completes: the page shows what was streamed, or asks for the history.
LEMMA Completes ==
    ASSUME TypeInv, OrderInv, Completed, NEW k \in Runs, k \notin evicted', runId = k, of[k] = view,
           Ours(Head(down))
    PROVE  Loading(k)' \/ Has(shown'[view], Said(k))
  <1>1. UNCHANGED of /\ connected /\ view \in Key
    <2>1. connected
      BY DEF Completed, Deliver, OrderInv, RunInv
    <2> QED
      BY <2>1 DEF Completed, elsewhere, nav, TypeInv, NavInv
  <1>2. CASE LoadHistory
    BY <1>1, <1>2, LoadsNow
  <1>3. CASE SetMessages(view, Append(shown[view], Said(k)), [running EXCEPT ![view] = FALSE])
    <2>1. PICK msgs : msgs = Append(shown[view], Said(k))
      OBVIOUS
    <2>2. shown[view] \in Seq(Message) /\ Said(k) \in Message
      <3>1. MessagesOf(view) \subseteq Message
        BY DEF MessagesOf
      <3>2. k \in Run
        BY OfTypes
      <3> QED
        BY <1>1, <3>1, <3>2, SeqSubset DEF TypeInv, StoreInv, Said, Message
    <2>3. Has(msgs, Said(k))
      BY <2>1, <2>2, HasAppend
    <2>4. \/ \A x \in Runs' : of'[x] = view => x \in evicted'
          \/ shown'[view] = msgs
      BY <1>1, <1>3, <2>1, SetMessagesShows
    <2> QED
      BY <1>1, <2>3, <2>4 DEF Runs
  <1> QED
    BY <1>2, <1>3 DEF Completed

\* What changes the run that the gateway is in, and that of the page.
LEMMA BusySteps ==
    ASSUME [Next]_vars
    PROVE  /\ busy' = busy \/ Complete \/ Fail \/ Drop \/ TakeSend
           /\ runId' = runId \/ Effects \/ Started \/ (Completed /\ Ours(Head(down)))
  <1>1. CASE UNCHANGED vars
    BY <1>1 DEF vars, page, refs, server
  <1>2. CASE (\E s \in Key : Select(s)) \/ SendHere \/ SendNew \/ SessionCreated \/ Effects
    BY <1>2 DEF Select, SendHere, SendNew, SessionCreated, Effects, refs, server
  <1>3. CASE Gateway \/ \E k \in 1..Len(of) : Goroutine(k)
    BY <1>3 DEF Gateway, TakeHistory, TakeSend, RefuseSend, Complete, Fail, Goroutine, Stream,
                StreamRest, Record, page, refs, server
  <1>4. CASE Frames
    BY <1>4 DEF Frames, Started, Content, Completed, History, elsewhere, refs, server
  <1>5. CASE LoadTimesOut \/ Drop \/ Reconnect
    BY <1>5 DEF LoadTimesOut, Drop, Reconnect, page, refs, server
  <1> QED
    BY <1>1, <1>2, <1>3, <1>4, <1>5 DEF Next

\* The run stays that of the page until it completes: no other starts before, and a reset of
\* the page reads the history.
LEMMA AfterFollowing ==
    ASSUME TypeInv, OrderInv, PageRuns, [Next]_vars, NEW k \in Runs, k \notin excused',
           k \notin evicted', Following(k)
    PROVE  Following(k)' \/ Loading(k)' \/ Has(shown'[of[k]], Said(k))
  <1>1. /\ k \notin excused /\ k \notin gone /\ of[k] = view /\ k \in Nat /\ k # NoRun /\ runId = k
        /\ of[k] \in Session
    BY Grows, OfTypes DEF PageRuns, Following, Runs, NoRun
  <1>2. connected
    BY <1>1 DEF OrderInv, RunInv
  <1>3. CASE Completed /\ Ours(Head(down))
    BY <1>1, <1>3, Completes
  <1>4. CASE Effects
    <2>1. CASE runId' = runId
      BY <1>1, <1>4, <2>1 DEF Effects, server, Following, FrameIn
    <2>2. CASE runId' # runId
      <3>1. prevKey # Empty
        BY <1>4, <2>2 DEF Effects, refs
      <3>2. LoadHistory /\ UNCHANGED of
        BY <1>4, <3>1 DEF Effects
      <3> QED
        BY <1>1, <1>2, <3>2, LoadsNow
    <2> QED
      BY <2>1, <2>2
  <1>5. ASSUME Started, runId' # runId PROVE FALSE
    <2>1. /\ Deliver("started") /\ Head(down) = down[1] /\ down[1].type = "started"
          /\ 1 \in 1..Len(down)
      BY <1>5, Delivered DEF Started, TypeInv
    <2>2. Bounds(down[1]) /\ down[1].run \in Nat
      BY <2>1, OfTypes DEF Bounds
    <2>3. down[1].run > k
      BY <1>1, <2>1, <2>2 DEF OrderInv, DownInv
    <2>4. CASE busy = k
      BY <1>1, <2>1, <2>2, <2>3, <2>4 DEF OrderInv, DownInv
    <2>5. CASE FrameIn("completed", k)
      <3>1. PICK i \in 1..Len(down) : down[i].type = "completed" /\ down[i].run = k
        BY <2>5 DEF FrameIn
      <3>2. 1 < i /\ Bounds(down[i])
        BY <2>1, <3>1 DEF Bounds
      <3>3. down[1].run < k \/ down[1].run = k
        BY <2>1, <2>2, <3>1, <3>2 DEF OrderInv, DownInv
      <3> QED
        BY <1>1, <2>2, <2>3, <3>3
    <2> QED
      BY <2>4, <2>5 DEF Following
  <1>6. ASSUME runId' = k, ~(Completed /\ Ours(Head(down))) PROVE Following(k)'
    <2>1. CASE FrameIn("completed", k)
      <3>1. PICK i \in 1..Len(down) : down[i].type = "completed" /\ down[i].run = k
        BY <2>1 DEF FrameIn
      <3>2. CASE \E j \in 1..Len(down') : down'[j] = down[i]
        BY <1>6, <3>1, <3>2 DEF Following, FrameIn
      <3>3. CASE i = 1 /\ Frames
        <4>1. PICK type : Deliver(type)
          BY <3>3 DEF Frames, Started, Content, Completed, History
        <4>2. Head(down) = down[1] /\ Head(down).type = "completed"
          BY <3>1, <3>3, <4>1, Delivered DEF TypeInv
        <4>3. Completed
          BY <3>3, <4>2 DEF Frames, Started, Content, History, Deliver
        <4>4. down[1].session = view
          BY <1>1, <3>1, <3>3, OfTypes DEF IsRunOf
        <4>5. Ours(Head(down))
          BY <1>1, <3>1, <3>3, <4>2, <4>4 DEF Ours
        <4> QED
          BY <1>6, <4>3, <4>5
      <3>4. CASE Drop
        BY <3>4 DEF Drop, Runs
      <3> QED
        BY <3>2, <3>3, <3>4, DownStays
    <2>2. CASE busy = k /\ busy' = busy
      BY <1>6, <2>2 DEF Following
    <2>3. CASE busy = k /\ Complete
      <3>1. Publish(<<"completed">>, k)
        BY <2>3 DEF Complete
      <3>2. PICK types : types = <<"completed">>
        OBVIOUS
      <3>3. /\ Len(down) \in Nat /\ Len(down') = Len(down) + Len(types)
            /\ \A i \in (Len(down) + 1)..Len(down') :
                 down'[i] = Frame(types[i - Len(down)], k, of[k], <<>>)
        BY <1>1, <3>1, <3>2, PublishedLast DEF Published, TypeInv
      <3>4. PICK n : n = Len(down) + 1
        OBVIOUS
      <3>5. n \in 1..Len(down') /\ n - Len(down) = 1 /\ types[1] = "completed" /\ n \in (Len(down) + 1)..Len(down')
        BY <3>2, <3>3, <3>4
      <3>6. down'[n] = Frame("completed", k, of[k], <<>>)
        BY <3>3, <3>5
      <3>7. down'[n].type = "completed" /\ down'[n].run = k
        BY <3>6 DEF Frame
      <3> QED
        BY <1>6, <3>5, <3>7 DEF Following, FrameIn
    <2>4. CASE busy = k /\ (Fail \/ Drop)
      BY <2>4 DEF Fail, Drop, Runs
    <2>5. CASE busy = k /\ TakeSend
      BY <1>1, <2>5 DEF TakeSend
    <2>6. busy' = busy \/ Complete \/ Fail \/ Drop \/ TakeSend
      BY BusySteps
    <2> QED
      BY <2>1, <2>2, <2>3, <2>4, <2>5, <2>6 DEF Following
  <1>7. runId' = runId \/ Effects \/ Started \/ (Completed /\ Ours(Head(down)))
    BY BusySteps
  <1> QED
    BY <1>1, <1>3, <1>4, <1>5, <1>6, <1>7

\* The gateway answers with the answer of the run, which it has recorded.
LEMMA AfterLoading ==
    ASSUME TypeInv, OrderInv, PageRuns, [Next]_vars, NEW k \in Runs, k \notin excused', Loading(k)
    PROVE  \/ \E i \in 1..Len(up') : /\ up'[i].type = "history" /\ up'[i].session = of[k]
                                     /\ k <= up'[i].run
           \/ \E i \in 1..Len(down') : /\ down'[i].type = "history" /\ down'[i].session = of[k]
                                       /\ Has(down'[i].msgs, Said(k))
  <1>1. PICK i \in 1..Len(up) : up[i].type = "history" /\ up[i].session = of[k] /\ k <= up[i].run
    BY DEF Loading
  <1>2. CASE \E j \in 1..Len(up') : up'[j] = up[i]
    BY <1>1, <1>2
  <1>3. CASE i = 1 /\ TakeHistory
    <2>1. k \notin excused /\ k \notin gone /\ k \in Nat /\ up[1].run \in Nat
      BY <1>1, <1>3, Grows, OfTypes DEF Runs
    <2>2. ~SendIn(k)
      <3> SUFFICES ASSUME NEW j \in 1..Len(up), up[j].type = "send", up[j].run = k PROVE FALSE
        BY DEF SendIn
      <3>1. 1 < j
        BY <1>1, <1>3
      <3>2. up[1].run < up[j].run
        BY <1>1, <1>3, <3>1 DEF OrderInv, UpInv
      <3> QED
        BY <1>1, <1>3, <2>1, <3>2
    <2>3. Taken(k)
      BY <2>1, <2>2 DEF OrderInv, UpInv
    <2>4. Has(log[up[1].session], Said(k))
      BY <1>1, <1>3, <2>3, AnswerTells
    <2>5. PICK n : n = Len(down')
      OBVIOUS
    <2>6. /\ n \in 1..Len(down') /\ down'[n].type = "history" /\ down'[n].session = up[1].session
          /\ down'[n].msgs = log[up[1].session]
      BY <1>3, <2>5, Answered
    <2> QED
      BY <1>1, <1>3, <2>4, <2>6
  <1>4. CASE i = 1 /\ (TakeSend \/ RefuseSend)
    <2>1. up # <<>> /\ up' = Tail(up) /\ Head(up).type = "send"
      BY <1>4 DEF TakeSend, RefuseSend
    <2> QED
      BY <1>1, <1>4, <2>1, Taking DEF TypeInv
  <1>5. CASE RunsOf(up[i].session) \subseteq excused'
    BY <1>1, <1>5 DEF RunsOf, Runs
  <1>6. CASE Drop
    BY <1>6 DEF Drop, Runs
  <1> QED
    BY <1>2, <1>3, <1>4, <1>5, <1>6, UpStays

\* The history that arrives brings it.
LEMMA AfterLoaded ==
    ASSUME TypeInv, [Next]_vars, NEW k \in Runs, k \notin excused', k \notin evicted', Loaded(k)
    PROVE  \/ \E i \in 1..Len(down') : /\ down'[i].type = "history" /\ down'[i].session = of[k]
                                       /\ Has(down'[i].msgs, Said(k))
           \/ Has(shown'[of[k]], Said(k))
  <1>1. PICK i \in 1..Len(down) : /\ down[i].type = "history" /\ down[i].session = of[k]
                                  /\ Has(down[i].msgs, Said(k))
    BY DEF Loaded
  <1>2. CASE \E j \in 1..Len(down') : down'[j] = down[i]
    BY <1>1, <1>2
  <1>3. CASE i = 1 /\ Frames
    <2>1. PICK type : Deliver(type)
      BY <1>3 DEF Frames, Started, Content, Completed, History
    <2>2. Head(down) = down[1] /\ Head(down).type = "history"
      BY <1>1, <1>3, <2>1, Delivered DEF TypeInv
    <2>3. History
      BY <1>3, <2>2 DEF Frames, Started, Content, Completed, Deliver
    <2>4. PICK s, msgs : s = down[1].session /\ msgs = down[1].msgs
      OBVIOUS
    <2>5. SetMessages(s, msgs, running) /\ UNCHANGED of
      BY <2>2, <2>3, <2>4 DEF History, elsewhere, nav
    <2>6. s = of[k] /\ s \in Key /\ Has(msgs, Said(k))
      BY <1>1, <1>3, <2>4, OfTypes DEF Key
    <2>7. \/ \A x \in Runs' : of'[x] = s => x \in evicted'
          \/ shown'[s] = msgs
      BY <2>5, <2>6, SetMessagesShows
    <2> QED
      BY <2>5, <2>6, <2>7 DEF Runs
  <1>4. CASE Drop
    BY <1>4 DEF Drop, Runs
  <1> QED
    BY <1>2, <1>3, <1>4, DownStays

\* What the page shows stays, or a history that tells it replaces it.
LEMMA AfterShown ==
    ASSUME TypeInv, HistoryTells, [Next]_vars, NEW k \in Runs, k \notin excused', k \notin evicted',
           Has(shown[of[k]], Said(k))
    PROVE  Has(shown'[of[k]], Said(k))
  <1>1. of[k] \in Key /\ k \notin excused
    BY Grows, OfTypes DEF Key
  <1>2. CASE Deliver("history") /\ of[k] = down[1].session /\ shown'[of[k]] = down[1].msgs
    <2>1. 1 \in 1..Len(down) /\ down[1].type = "history"
      BY <1>2, Delivered DEF TypeInv
    <2> QED
      BY <1>1, <1>2, <2>1 DEF HistoryTells
  <1> QED
    BY <1>1, <1>2, ShownGrows

LEMMA NewSend ==
    ASSUME TypeInv, [Next]_vars, NEW k \in Runs', k \notin Runs
    PROVE  SendIn(k)'
  <1>1. ASSUME NEW s \in Session, Send(s) PROVE SendIn(k)'
    <2>1. connected
      BY <1>1 DEF Send, Runs
    <2>2. of' = Append(of, s) /\ up' = Append(up, Request("send", Len(of'), s))
      BY <1>1, <2>1 DEF Send
    <2>3. /\ Runs' = Runs \cup {Len(of')} /\ Len(of') = Len(of) + 1 /\ Len(of) \in Nat
          /\ Requests \subseteq Requests' /\ IsRunOf(Len(of), s)'
      BY <2>2, MoreRuns DEF TypeInv
    <2>4. k = Len(of')
      BY <2>3
    <2>5. PICK r : r = Request("send", Len(of'), s)
      OBVIOUS
    <2>6. r.type = "send" /\ r.run = k /\ r \in Requests'
      BY <2>3, <2>4, <2>5 DEF Request, Requests
    <2>7. up \in Seq(Requests')
      BY <2>3, SeqSubset DEF TypeInv, WireInv
    <2>8. Len(up) \in Nat /\ Len(up') = Len(up) + 1 /\ up'[Len(up) + 1] = r
      BY <2>2, <2>5, <2>6, <2>7, OfTypes, AppendProperties
    <2> QED
      BY <2>6, <2>8 DEF SendIn
  <1>2. \E s \in Session : Send(s)
    <2>1. ~UNCHANGED of
      BY DEF Runs
    <2>2. SendHere \/ SessionCreated
      <3>1. CASE (\E s \in Key : Select(s)) \/ SendNew \/ Effects \/ UNCHANGED vars
        BY <2>1, <3>1 DEF Select, SendNew, Effects, vars, page, nav
      <3>2. CASE Gateway \/ \E x \in 1..Len(of) : Goroutine(x)
        BY <2>1, <3>2 DEF Gateway, TakeHistory, TakeSend, RefuseSend, Complete, Fail, Goroutine, Stream,
                          StreamRest, Record, page, nav
      <3>3. CASE Frames
        BY <2>1, <3>3 DEF Frames, Started, Content, Completed, History, elsewhere, nav
      <3>4. CASE LoadTimesOut \/ Drop \/ Reconnect
        BY <2>1, <3>4 DEF LoadTimesOut, Drop, Reconnect, page, nav
      <3> QED
        BY <3>1, <3>2, <3>3, <3>4 DEF Next
    <2> QED
      BY <2>2 DEF SendHere, SessionCreated
  <1> QED
    BY <1>1, <1>2

LEMMA NextProgress ==
    TypeInv /\ OrderInv /\ FollowInv /\ ProgressInv /\ [Next]_vars => ProgressInv'
  <1> SUFFICES ASSUME TypeInv, OrderInv, FollowInv, ProgressInv, [Next]_vars,
                      NEW k \in Runs', k \notin excused', k \notin evicted'
               PROVE  Coming(k)'
    BY DEF ProgressInv
  <1>1. CASE k \notin Runs
    BY <1>1, NewSend DEF Coming
  <1>2. CASE k \in Runs
    <2>1. of'[k] = of[k] /\ k \notin excused /\ k \notin evicted
      BY <1>2, Grows
    <2>2. PageRuns /\ HistoryTells /\ Coming(k)
      BY <1>2, <2>1 DEF FollowInv, ProgressInv
    <2>3. CASE SendIn(k)
      BY <1>2, <2>3, AfterSend DEF Coming
    <2>4. CASE FrameIn("started", k)
      BY <1>2, <2>4, AfterStarted DEF Coming
    <2>5. CASE Following(k)
      <3>1. Following(k)' \/ Loading(k)' \/ Has(shown'[of'[k]], Said(k))
        BY <1>2, <2>1, <2>2, <2>5, AfterFollowing
      <3> QED
        BY <3>1 DEF Coming
    <2>6. CASE Loading(k)
      <3>1. Loading(k)' \/ Loaded(k)'
        BY <1>2, <2>1, <2>2, <2>6, AfterLoading DEF Loading, Loaded
      <3> QED
        BY <3>1 DEF Coming
    <2>7. CASE Loaded(k)
      <3>1. Loaded(k)' \/ Has(shown'[of'[k]], Said(k))
        BY <1>2, <2>1, <2>7, AfterLoaded DEF Loaded
      <3> QED
        BY <3>1 DEF Coming
    <2>8. CASE Has(shown[of[k]], Said(k))
      <3>1. Has(shown'[of'[k]], Said(k))
        BY <1>2, <2>1, <2>2, <2>8, AfterShown
      <3> QED
        BY <3>1 DEF Coming
    <2> QED
      BY <2>2, <2>3, <2>4, <2>5, <2>6, <2>7, <2>8 DEF Coming
  <1> QED
    BY <1>1, <1>2

-----------------------------------------------------------------------------
(* The last layer: whose text may be cut short.                            *)

\* The page has a part of the text of run k, or it is on the way.
Parted(k) == FrameIn("part", k) \/ (runId = k /\ streamed = "part")

\* A run that still streams is in progress, or its run.completed came first; and so is one of
\* which only a part was sent; an answer that was shown from a part was overtaken.
TextInv ==
    \A k \in Run \ excused :
        /\ callback[k] \in {"stream", "rest"} => busy = k \/ k \in overtaken
        /\ Parted(k) => k \in overtaken \/ (callback[k] = "rest" /\ busy = k)
        /\ k \in cut => k \in overtaken

LEMMA InitText == Init => TextInv
  BY EmptySeq, NoRunIsNone DEF Init, TextInv, Parted, FrameIn

\* What was overtaken stays so.
LEMMA OvertakenGrows == ASSUME [Next]_vars PROVE overtaken \subseteq overtaken'
  <1>1. CASE UNCHANGED vars
    BY <1>1 DEF vars, ghosts, texts
  <1>2. CASE (\E s \in Key : Select(s)) \/ SendHere \/ SendNew \/ SessionCreated \/ Effects
    BY <1>2 DEF Select, SendHere, SendNew, SessionCreated, Effects, ghosts, texts
  <1>3. CASE Gateway \/ \E k \in 1..Len(of) : Goroutine(k)
    BY <1>3 DEF Gateway, Goroutine, TakeHistory, TakeSend, RefuseSend, Complete, Fail, Stream,
                StreamRest, Record, ghosts, texts
  <1>4. CASE Frames \/ LoadTimesOut \/ Drop \/ Reconnect
    BY <1>4 DEF Frames, Started, Content, Completed, History, LoadTimesOut, Drop, Reconnect, ghosts,
                elsewhere, texts
  <1> QED
    BY <1>1, <1>2, <1>3, <1>4 DEF Next

\* A run that streams after the step streamed before it, or starts in it; and one that has
\* sent a part goes on to send the rest, or completes before that.
LEMMA StreamStep ==
    ASSUME TypeInv, OrderInv, [Next]_vars, NEW k \in Run, k \notin excused'
    PROVE  /\ callback'[k] \in {"stream", "rest"} =>
                 \/ busy' = k \/ k \in overtaken'
                 \/ callback[k] \in {"stream", "rest"} /\ busy # k
           /\ callback[k] = "rest" /\ busy = k =>
                 \/ callback'[k] = "rest" /\ busy' = k
                 \/ k \in overtaken'
  <1>1. k # NoRun /\ (callback[k] # "none" => k \in Runs)
    BY NoRunIsNone DEF OrderInv, RunInv, Taken
  <1>2. CASE UNCHANGED <<busy, callback>>
    BY <1>2
  <1>3. CASE Complete
    BY <1>3 DEF Complete
  <1>4. ASSUME NEW x, NEW c, callback' = [callback EXCEPT ![x] = c]
        PROVE  callback'[k] = IF k = x THEN c ELSE callback[k]
    BY <1>4 DEF TypeInv, ServerInv
  <1>5. CASE Fail
    <2>1. callback' = [callback EXCEPT ![busy] = "done"] /\ busy \in excused'
      BY <1>5 DEF Fail
    <2> QED
      BY <1>4, <2>1
  <1>6. CASE Drop
    <2>1. UNCHANGED callback /\ excused' = Runs
      BY <1>6 DEF Drop, Runs
    <2> QED
      BY <1>1, <2>1
  <1>7. CASE TakeSend \/ RefuseSend
    <2>1. PICK x : x = Head(up).run
      OBVIOUS
    <2>2. busy = NoRun
      BY <1>7 DEF TakeSend, RefuseSend
    <2>3. CASE TakeSend
      <3>1. callback' = [callback EXCEPT ![x] = "stream"] /\ busy' = x
        BY <2>1, <2>3 DEF TakeSend
      <3> QED
        BY <1>1, <1>4, <2>2, <3>1
    <2>4. CASE RefuseSend
      <3>1. callback' = [callback EXCEPT ![x] = "refused"]
        BY <2>1, <2>4 DEF RefuseSend
      <3> QED
        BY <1>1, <1>4, <2>2, <3>1
    <2> QED
      BY <1>7, <2>3, <2>4
  <1>8. ASSUME NEW x, Goroutine(x)
        PROVE  /\ UNCHANGED busy /\ callback[x] \in {"stream", "rest", "record"}
               /\ callback[x] = "rest" => busy # x
               /\ \E c \in {"rest", "record", "done"} : callback' = [callback EXCEPT ![x] = c]
               /\ callback[x] = "record" => callback' = [callback EXCEPT ![x] = "done"]
    BY <1>8 DEF Goroutine, Stream, StreamRest, Record
  <1>9. CASE \E x \in 1..Len(of) : Goroutine(x)
    <2>1. PICK x : Goroutine(x)
      BY <1>9
    <2>2. PICK c \in {"rest", "record", "done"} : callback' = [callback EXCEPT ![x] = c]
      BY <1>8, <2>1
    <2>3. callback'[k] = IF k = x THEN c ELSE callback[k]
      BY <1>4, <2>2
    <2>4. callback[x] = "record" /\ k = x => callback'[k] = "done"
      <3> SUFFICES ASSUME callback[x] = "record", k = x PROVE callback'[k] = "done"
        OBVIOUS
      <3>1. callback' = [callback EXCEPT ![x] = "done"]
        BY <1>8, <2>1
      <3> QED
        BY <1>4, <3>1
    <2>5. /\ UNCHANGED busy /\ callback[x] \in {"stream", "rest", "record"}
          /\ callback[x] = "rest" => busy # x
      BY <1>8, <2>1
    <2> QED
      BY <2>3, <2>4, <2>5
  <1>10. \/ UNCHANGED <<busy, callback>> \/ Complete \/ Fail \/ Drop \/ TakeSend \/ RefuseSend
         \/ \E x \in 1..Len(of) : Goroutine(x)
    <2>1. CASE UNCHANGED vars
      BY <2>1 DEF vars, server
    <2>2. CASE (\E s \in Key : Select(s)) \/ SendHere \/ SendNew \/ SessionCreated \/ Effects
      BY <2>2 DEF Select, SendHere, SendNew, SessionCreated, Effects, server
    <2>3. CASE TakeHistory \/ LoadTimesOut \/ Reconnect
      BY <2>3 DEF TakeHistory, LoadTimesOut, Reconnect, server
    <2>4. CASE Frames
      BY <2>4 DEF Frames, Started, Content, Completed, History, elsewhere, server
    <2> QED
      BY <2>1, <2>2, <2>3, <2>4 DEF Next, Gateway
  <1> QED
    BY <1>2, <1>3, <1>5, <1>6, <1>7, <1>9, <1>10

\* A part of a text that is on the way after the step was so before it, or is sent in it.
LEMMA PartFrames ==
    ASSUME TypeInv, [Next]_vars, NEW k \in Run, FrameIn("part", k)'
    PROVE  FrameIn("part", k) \/ (callback'[k] = "rest" /\ busy' = k)
  <1>1. PICK i \in 1..Len(down') : down'[i].type = "part" /\ down'[i].run = k
    BY DEF FrameIn
  <1>2. down \in Seq(Events) /\ Len(down) \in Nat
    BY OfTypes DEF TypeInv, WireInv
  <1>3. ASSUME UNCHANGED down PROVE FrameIn("part", k)
    BY <1>1, <1>3 DEF FrameIn
  <1>4. ASSUME NEW type, Deliver(type) PROVE FrameIn("part", k)
    <2>1. 1 \in 1..Len(down) /\ down' = Without(down, 1)
      BY <1>4, Delivered DEF TypeInv
    <2>2. /\ Len(down') = Len(down) - 1
          /\ \A j \in 1..(Len(down) - 1) : down'[j] = down[IF j < 1 THEN j ELSE j + 1]
      BY <1>2, <2>1, WithoutProperties
    <2>3. i + 1 \in 1..Len(down) /\ down'[i] = down[i + 1]
      BY <1>2, <2>2
    <2> QED
      BY <1>1, <2>3 DEF FrameIn
  <1>5. ASSUME NEW x \in Runs, NEW types, Published(types), Publish(types, x)
        PROVE  \/ FrameIn("part", k)
               \/ x = k /\ types \in {<<"part">>, <<"tool", "part">>}
    <2>1. CASE x \in gone
      BY <1>3, <1>5, <2>1 DEF Publish
    <2>2. CASE x \notin gone
      <3>1. /\ Len(down') = Len(down) + Len(types)
            /\ \A j \in 1..Len(down) : down'[j] = down[j]
            /\ \A j \in (Len(down) + 1)..Len(down') :
                 down'[j] = Frame(types[j - Len(down)], x, of[x], <<>>)
        BY <1>5, <2>2, PublishedLast DEF TypeInv
      <3>2. CASE i \in 1..Len(down)
        BY <1>1, <3>1, <3>2 DEF FrameIn
      <3>3. CASE i \notin 1..Len(down)
        <4>1. Len(types) \in Nat
          BY <1>5 DEF Published, Streamed
        <4>2. PICK j \in 1..Len(types) : down'[i] = Frame(types[j], x, of[x], <<>>)
          <5>1. i \in (Len(down) + 1)..Len(down') /\ i - Len(down) \in 1..Len(types)
            BY <1>2, <3>1, <3>3, <4>1
          <5> QED
            BY <3>1, <5>1
        <4>3. types[j] = "part" /\ x = k
          BY <1>1, <4>2 DEF Frame
        <4>4. types \in {<<"part">>, <<"tool", "part">>}
          BY <1>5, <4>3 DEF Published, Streamed
        <4> QED
          BY <4>3, <4>4
      <3> QED
        BY <3>2, <3>3
    <2> QED
      BY <2>1, <2>2
  <1>6. CASE \E x \in 1..Len(of) : Goroutine(x)
    <2>1. PICK x \in Runs : Stream(x) \/ StreamRest(x) \/ Record(x)
      BY <1>6 DEF Goroutine, Runs
    <2>2. CASE Record(x)
      BY <1>3, <2>2 DEF Record, wire
    <2>3. CASE \E types \in {<<"chunk">>, <<"tool", "chunk">>} : Publish(types, x)
      <3>1. PICK types \in {<<"chunk">>, <<"tool", "chunk">>} : Publish(types, x)
        BY <2>3
      <3>2. Published(types) /\ types \notin {<<"part">>, <<"tool", "part">>}
        BY DEF Published, Streamed
      <3> QED
        BY <1>5, <3>1, <3>2
    <2>4. CASE /\ \E types \in {<<"part">>, <<"tool", "part">>} : Publish(types, x)
               /\ busy' = x /\ callback' = [callback EXCEPT ![x] = "rest"]
      <3>1. PICK types \in {<<"part">>, <<"tool", "part">>} : Publish(types, x)
        BY <2>4
      <3>2. Published(types)
        BY DEF Published, Streamed
      <3>3. FrameIn("part", k) \/ x = k
        BY <1>5, <3>1, <3>2
      <3> QED
        BY <2>4, <3>3 DEF TypeInv, ServerInv
    <2>5. Stream(x) \/ StreamRest(x) =>
            \/ \E types \in {<<"chunk">>, <<"tool", "chunk">>} : Publish(types, x)
            \/ /\ \E types \in {<<"part">>, <<"tool", "part">>} : Publish(types, x)
               /\ busy' = x /\ callback' = [callback EXCEPT ![x] = "rest"]
      BY DEF Stream, StreamRest
    <2> QED
      BY <2>1, <2>2, <2>3, <2>4, <2>5
  <1>7. CASE Complete
    <2>1. busy \in Runs /\ Publish(<<"completed">>, busy)
      BY <1>7, OfTypes DEF Complete
    <2>2. PICK types : types = <<"completed">>
      OBVIOUS
    <2>3. Published(types) /\ types \notin {<<"part">>, <<"tool", "part">>}
      BY <2>2 DEF Published
    <2> QED
      BY <1>5, <2>1, <2>2, <2>3
  <1>8. CASE TakeSend
    <2>1. PICK x : down' = Append(down, Frame("started", x, of[x], <<>>))
      BY <1>8 DEF TakeSend
    <2>2. /\ Len(down') = Len(down) + 1 /\ \A j \in 1..Len(down) : down'[j] = down[j]
          /\ down'[Len(down) + 1] = Frame("started", x, of[x], <<>>)
      BY <1>2, <2>1, AppendProperties
    <2>3. down'[Len(down) + 1].type = "started"
      BY <2>2 DEF Frame
    <2>4. i \in 1..Len(down) /\ down'[i] = down[i]
      BY <1>1, <1>2, <2>2, <2>3
    <2> QED
      BY <1>1, <2>4 DEF FrameIn
  <1>9. CASE TakeHistory
    <2>1. /\ Len(down') = Len(down) + 1 /\ \A j \in 1..Len(down) : down'[j] = down[j]
          /\ down'[Len(down')].type = "history"
      BY <1>9, Answered
    <2>2. i \in 1..Len(down) /\ down'[i] = down[i]
      BY <1>1, <1>2, <2>1
    <2> QED
      BY <1>1, <2>2 DEF FrameIn
  <1>10. CASE Drop
    BY <1>1, <1>10, EmptySeq DEF Drop
  <1>11. \/ UNCHANGED down \/ Complete \/ TakeSend \/ TakeHistory \/ Drop
         \/ (\E type : Deliver(type)) \/ \E x \in 1..Len(of) : Goroutine(x)
    <2>1. CASE UNCHANGED vars
      BY <2>1 DEF vars, wire
    <2>2. CASE (\E s \in Key : Select(s)) \/ SendHere \/ SendNew \/ SessionCreated \/ Effects
      BY <2>2 DEF Select, SendHere, SendNew, SessionCreated, Effects, wire
    <2>3. CASE RefuseSend \/ Fail \/ LoadTimesOut \/ Reconnect
      BY <2>3 DEF RefuseSend, Fail, LoadTimesOut, Reconnect, wire
    <2>4. CASE Frames
      BY <2>4 DEF Frames, Started, Content, Completed, History
    <2> QED
      BY <2>1, <2>2, <2>3, <2>4 DEF Next, Gateway
  <1> QED
    BY <1>3, <1>4, <1>6, <1>7, <1>8, <1>9, <1>10, <1>11

\* What the page has of a text is what has arrived.
LEMMA PartStep ==
    ASSUME TypeInv, [Next]_vars, NEW k \in Run, Parted(k)'
    PROVE  Parted(k) \/ (callback'[k] = "rest" /\ busy' = k)
  <1>1. CASE FrameIn("part", k)'
    BY <1>1, PartFrames DEF Parted
  <1>2. CASE runId' = k /\ streamed' = "part"
    <2>1. CASE UNCHANGED <<runId, streamed>>
      BY <1>2, <2>1 DEF Parted
    <2>2. CASE Content /\ streamed' # streamed
      <3>1. Ours(Head(down)) /\ Head(down).type = "part" /\ UNCHANGED runId
        BY <1>2, <2>2 DEF Content, Deliver
      <3>2. PICK type : Deliver(type)
        BY <2>2 DEF Content
      <3>3. 1 \in 1..Len(down) /\ Head(down) = down[1]
        BY <3>2, Delivered DEF TypeInv
      <3>4. down[1].type = "part" /\ down[1].run = k
        BY <1>2, <3>1, <3>3 DEF Ours
      <3> QED
        BY <3>3, <3>4 DEF Parted, FrameIn
    <2>3. UNCHANGED <<runId, streamed>> \/ streamed' = "none" \/ (Content /\ streamed' # streamed)
      <3>1. CASE UNCHANGED vars
        BY <3>1 DEF vars, page, refs
      <3>2. CASE (\E s \in Key : Select(s)) \/ SendHere \/ SendNew \/ SessionCreated \/ Effects
        BY <3>2 DEF Select, SendHere, SendNew, SessionCreated, Effects, refs
      <3>3. CASE Gateway \/ \E x \in 1..Len(of) : Goroutine(x)
        BY <3>3 DEF Gateway, TakeHistory, TakeSend, RefuseSend, Complete, Fail, Goroutine, Stream,
                    StreamRest, Record, page, refs
      <3>4. CASE Started \/ Completed \/ History \/ LoadTimesOut \/ Drop \/ Reconnect
        BY <3>4 DEF Started, Completed, History, LoadTimesOut, Drop, Reconnect, page, refs
      <3>5. CASE Content
        BY <3>5 DEF Content
      <3> QED
        BY <3>1, <3>2, <3>3, <3>4, <3>5 DEF Next, Frames
    <2> QED
      BY <1>2, <2>1, <2>2, <2>3
  <1> QED
    BY <1>1, <1>2 DEF Parted

\* An answer is shown from a part of its text only if the run was overtaken: its
\* run.completed has arrived, so it is not in progress.
LEMMA CutStep ==
    ASSUME TypeInv, OrderInv, TextInv, [Next]_vars, NEW k \in Run, k \notin excused, k \in cut'
    PROVE  k \in overtaken
  <1>1. CASE k \in cut
    BY <1>1 DEF TextInv
  <1>2. CASE k \notin cut
    <2>1. Completed
      <3>1. CASE UNCHANGED vars
        BY <1>2, <3>1 DEF vars, ghosts, texts
      <3>2. CASE (\E s \in Key : Select(s)) \/ SendHere \/ SendNew \/ SessionCreated \/ Effects
        BY <1>2, <3>2 DEF Select, SendHere, SendNew, SessionCreated, Effects, ghosts, texts
      <3>3. CASE Gateway \/ \E x \in 1..Len(of) : Goroutine(x)
        BY <1>2, <3>3 DEF Gateway, Goroutine, TakeHistory, TakeSend, RefuseSend, Complete, Fail, Stream,
                          StreamRest, Record, ghosts, texts
      <3>4. CASE Started \/ Content \/ History \/ LoadTimesOut \/ Drop \/ Reconnect
        BY <1>2, <3>4 DEF Started, Content, History, LoadTimesOut, Drop, Reconnect, ghosts, texts
      <3> QED
        BY <3>1, <3>2, <3>3, <3>4 DEF Next, Frames
    <2>2. k = runId /\ streamed = "part" /\ Ours(Head(down)) /\ Deliver("completed")
      BY <1>2, <2>1 DEF Completed
    <2>3. 1 \in 1..Len(down) /\ Head(down) = down[1] /\ down[1].type = "completed"
      BY <2>2, Delivered DEF TypeInv
    <2>4. down[1].run = k /\ Bounds(down[1]) /\ k \in Nat
      BY <2>2, <2>3, OfTypes DEF Ours, Bounds, Run
    <2>5. k # busy
      BY <2>3, <2>4, NoRunIsNone DEF OrderInv, DownInv
    <2>6. Parted(k)
      BY <2>2 DEF Parted
    <2> QED
      BY <2>5, <2>6 DEF TextInv
  <1> QED
    BY <1>1, <1>2

LEMMA NextText == TypeInv /\ OrderInv /\ TextInv /\ [Next]_vars => TextInv'
  <1> SUFFICES ASSUME TypeInv, OrderInv, TextInv, [Next]_vars, NEW k \in Run, k \notin excused'
               PROVE  /\ callback'[k] \in {"stream", "rest"} => busy' = k \/ k \in overtaken'
                      /\ Parted(k)' => k \in overtaken' \/ (callback'[k] = "rest" /\ busy' = k)
                      /\ k \in cut' => k \in overtaken'
    BY DEF TextInv
  <1>1. k \notin excused /\ overtaken \subseteq overtaken'
    BY Grows, OvertakenGrows
  <1>2. callback'[k] \in {"stream", "rest"} => busy' = k \/ k \in overtaken'
    BY <1>1, StreamStep DEF TextInv
  <1>3. Parted(k)' => k \in overtaken' \/ (callback'[k] = "rest" /\ busy' = k)
    BY <1>1, StreamStep, PartStep DEF TextInv
  <1>4. k \in cut' => k \in overtaken'
    BY <1>1, CutStep
  <1> QED
    BY <1>2, <1>3, <1>4

\* When nothing is on the way and no run is in progress, the page shows the answer of every
\* run that it followed, although the answer may come by three ways: streamed, in the history
\* that run.completed asks for when tools ran, or in that of a page reset in between
\* (use-chat-messages.ts:86-97, 112, 251-253).  Its text is cut short only if run.completed
\* came before the last chunks, which the callback goroutine sends (loop.go:192).
THEOREM FollowedAnswersShown == Spec => []AnswerShown
  <1> DEFINE Inv == /\ TypeInv /\ OrderInv /\ OnceInv
                    /\ FollowInv /\ ProgressInv /\ TextInv
  <1>1. Inv => AnswerShown
    <2> SUFFICES ASSUME TypeInv, ProgressInv, TextInv, Quiet, NEW k \in Runs, of[k] = view,
                        k \notin excused, k \notin evicted
                 PROVE  Has(shown[view], Said(k)) /\ (k \in cut => k \in overtaken)
      BY DEF AnswerShown, RunsOf, Runs
    <2>1. Len(up) = 0 /\ Len(down) = 0 /\ busy # k
      BY EmptySeq DEF Quiet, Runs, NoRun
    <2>2. Coming(k)
      BY DEF ProgressInv
    <2>3. Has(shown[view], Said(k))
      BY <2>1, <2>2 DEF Coming, SendIn, FrameIn, Following, Loading, Loaded
    <2>4. k \in Run
      BY OfTypes
    <2> QED
      BY <2>3, <2>4 DEF TextInv
  <1>2. Init => Inv
    <2>1. Init => ProgressInv
      BY EmptySeq DEF Init, ProgressInv, Runs
    <2> QED
      BY <2>1, InitTypes, InitOrder, InitOnce, InitFollow, InitText
  <1>3. Inv /\ [Next]_vars => Inv'
    BY NextTypes, NextOrder, NextOnce, NextFollow, NextProgress, NextText
  <1> QED
    BY <1>1, <1>2, <1>3, PTL DEF Spec

-----------------------------------------------------------------------------
(* The input of the page (ChatInput).  Its inductive invariant: what is    *)
(* true of the recordings, as long as no two overlapped.                   *)

\* Two requests for the microphone never wait at once, the refs are of the recording in
\* streamRef, and while there is one every other recording has ended or was not begun.
Alone ==
    /\ \A q, r \in Recording : phase[q] = "asked" /\ phase[r] = "asked" => q = r
    /\ {recorder, interval} \subseteq {NoRecording, stream}
    /\ stream # NoRecording =>
          /\ phase[stream] \in {"recording", "stopping", "ended"}
          /\ \A q \in Recording \ {stream} : phase[q] \in {"none", "ended"}

\* Only the recorder of that stream records, so chunksRef has nothing of another one.
OwnAudio ==
    /\ \A q \in Recording : phase[q] = "recording" => q = stream
    /\ chunks \subseteq {stream}

\* The recording that is awaited is that one, and the only one stopped that has not ended.
Awaited ==
    mounted =>
        /\ waiting # NoRecording => waiting = stream
        /\ \A q \in wanted : phase[q] = "ended" \/ q = waiting

\* While attachments are left alone, handleVoiceToggle adds to what is attached.
Fresh ==
    mounted /\ ~racing /\ waiting # NoRecording =>
        /\ captured = files
        /\ ~overlap => heard = voices /\ waiting \in wanted

Ended == {q \in wanted : phase[q] = "ended"}

InputInv ==
    /\ InputTypeOK /\ OneRecording /\ AttachmentsKept /\ Fresh
    /\ waiting # NoRecording => phase[waiting] = "stopping"
    /\ mounted => \A q \in stray : phase[q] = "ended"
    /\ ~overlap => Alone /\ OwnAudio /\ Awaited

-----------------------------------------------------------------------------
LEMMA InputInitInv == InputInit => InputInv
  BY InputAssumption DEF InputInit, InputInv, InputTypeOK, OneRecording, AttachmentsKept, Fresh,
     Alone, OwnAudio, Awaited, Recording, NoRecording

LEMMA InputStutterInv == InputInv /\ UNCHANGED inputVars => InputInv'
  BY DEF InputInv, InputTypeOK, OneRecording, AttachmentsKept, Fresh, Alone, OwnAudio, Awaited,
     inputVars, hookRefs, promise, browser, attached, inputGhosts

LEMMA PressMicInv ==
    ASSUME NEW r \in Recording, InputInv, PressMic(r) PROVE InputInv'
  <1> USE InputAssumption DEF PressMic, Cleanup, hookRefs, promise, browser, attached, inputGhosts,
     Recording, NoRecording, InputInv, InputTypeOK
  <1>1. InputTypeOK'
    OBVIOUS
  <1>2. (waiting # NoRecording => phase[waiting] = "stopping")'
    OBVIOUS
  <1>9. (mounted => \A q \in stray : phase[q] = "ended")'
    OBVIOUS
  <1>3. OneRecording'
    BY DEF OneRecording, Alone, OwnAudio
  <1>4. ~overlap' => Alone'
    BY DEF Alone, OneRecording
  <1>5. ~overlap' => OwnAudio'
    BY DEF OwnAudio, Alone
  <1>6. ~overlap' => Awaited'
    BY DEF Awaited, Alone, OneRecording, OwnAudio
  <1>7. Fresh'
    BY DEF Fresh, AttachmentsKept, Awaited, OneRecording
  <1>8. AttachmentsKept'
    BY DEF AttachmentsKept, Fresh, Alone, OwnAudio, Awaited
  <1> QED
    BY <1>1, <1>2, <1>3, <1>4, <1>5, <1>6, <1>7, <1>8, <1>9, Zenon

LEMMA GrantedInv ==
    ASSUME NEW r \in Recording, InputInv, Granted(r) PROVE InputInv'
  <1> USE InputAssumption DEF Granted, Overlapping, hookRefs, promise, browser, attached, inputGhosts,
     Recording, NoRecording, InputInv, InputTypeOK
  <1>1. InputTypeOK'
    OBVIOUS
  <1>2. (waiting # NoRecording => phase[waiting] = "stopping")'
    OBVIOUS
  <1>9. (mounted => \A q \in stray : phase[q] = "ended")'
    OBVIOUS
  <1>3. OneRecording'
    BY DEF OneRecording, Alone, OwnAudio
  <1>4. ~overlap' => Alone'
    BY ZenonT(90) DEF Alone, OneRecording
  <1>5. ~overlap' => OwnAudio'
    BY DEF OwnAudio, Alone
  <1>6. ~overlap' => Awaited'
    BY DEF Awaited, Alone, OneRecording, OwnAudio
  <1>7. Fresh'
    BY DEF Fresh, AttachmentsKept, Awaited, OneRecording
  <1>8. AttachmentsKept'
    BY DEF AttachmentsKept, Fresh, Alone, OwnAudio, Awaited
  <1> QED
    BY <1>1, <1>2, <1>3, <1>4, <1>5, <1>6, <1>7, <1>8, <1>9, Zenon

LEMMA RecorderThrowsInv ==
    ASSUME NEW r \in Recording, InputInv, RecorderThrows(r) PROVE InputInv'
  <1> USE InputAssumption DEF RecorderThrows, Overlapping, hookRefs, promise, browser, attached,
     inputGhosts, Recording, NoRecording, InputInv, InputTypeOK
  <1>0. /\ recorder' \in {recorder, r} /\ chunks' \in {chunks, {}}
        /\ phase' = [phase EXCEPT ![r] = "ended"]
    OBVIOUS
  <1>1. InputTypeOK'
    <2>1. recorder' \in Recording \cup {NoRecording} /\ chunks' \subseteq Recording
      BY <1>0
    <2>2. phase' \in [Recording -> {"none", "asked", "recording", "stopping", "ended"}]
      BY <1>0
    <2>3. live' \subseteq Recording /\ stray' \subseteq Recording
      OBVIOUS
    <2>4. overlap' \in BOOLEAN
      <3>1. CASE overlap \/ Overlapping
        BY <3>1
      <3>2. CASE ~(overlap \/ Overlapping)
        BY <3>2
      <3> QED
        BY <3>1, <3>2
    <2>5. /\ stream' = r /\ isRecording' = FALSE
          /\ UNCHANGED <<mounted, interval, ticking, waiting, captured, heard, files, voices,
                         added, wanted, racing>>
      OBVIOUS
    <2>6. InputTypeOK
      OBVIOUS
    <2> HIDE DEF RecorderThrows, Overlapping, InputInv
    <2>7. {recorder', stream', interval'} \subseteq Recording \cup {NoRecording}
      BY <2>1, <2>5, <2>6
    <2>8. overlap' \in BOOLEAN /\ racing' \in BOOLEAN /\ mounted' \in BOOLEAN /\ isRecording' \in BOOLEAN
      BY <2>4, <2>5, <2>6
    <2>9. /\ files' \subseteq File /\ voices' \subseteq SUBSET Recording
          /\ captured' \subseteq File /\ heard' \subseteq SUBSET Recording
          /\ added' \subseteq File /\ wanted' \subseteq Recording
      BY <2>5, <2>6
    <2>10. waiting' \in Recording \cup {NoRecording} /\ ticking' \subseteq Recording
      BY <2>5, <2>6
    <2> QED
      BY <2>1, <2>2, <2>3, <2>7, <2>8, <2>9, <2>10
  <1>2. (waiting # NoRecording => phase[waiting] = "stopping")'
    OBVIOUS
  <1>9. (mounted => \A q \in stray : phase[q] = "ended")'
    OBVIOUS
  <1>3. OneRecording'
    BY DEF OneRecording, Alone, OwnAudio
  <1>4. ~overlap' => Alone'
    BY ZenonT(90) DEF Alone, OneRecording
  <1>5. ~overlap' => OwnAudio'
    <2> SUFFICES ASSUME ~overlap' PROVE OwnAudio'
      OBVIOUS
    <2>1. ~overlap /\ \A q \in Recording : phase[q] # "recording"
      OBVIOUS
    <2>2. stream = NoRecording
      BY <2>1 DEF Alone
    <2>3. chunks' = {}
      BY <2>1, <2>2, <1>0 DEF OwnAudio
    <2>4. \A q \in Recording : phase'[q] # "recording"
      BY <2>1, <1>0
    <2> QED
      BY <2>3, <2>4 DEF OwnAudio
  <1>6. ~overlap' => Awaited'
    BY DEF Awaited, Alone, OneRecording, OwnAudio
  <1>7. Fresh'
    BY DEF Fresh, AttachmentsKept, Awaited, OneRecording
  <1>8. AttachmentsKept'
    BY DEF AttachmentsKept, Fresh, Alone, OwnAudio, Awaited
  <1> QED
    BY <1>1, <1>2, <1>3, <1>4, <1>5, <1>6, <1>7, <1>8, <1>9, Zenon

LEMMA DeniedInv ==
    ASSUME NEW r \in Recording, InputInv, Denied(r) PROVE InputInv'
  <1> USE InputAssumption DEF Denied, hookRefs, promise, browser, attached, inputGhosts,
     Recording, NoRecording, InputInv, InputTypeOK
  <1>1. InputTypeOK'
    OBVIOUS
  <1>2. (waiting # NoRecording => phase[waiting] = "stopping")'
    OBVIOUS
  <1>9. (mounted => \A q \in stray : phase[q] = "ended")'
    OBVIOUS
  <1>3. OneRecording'
    BY DEF OneRecording, Alone, OwnAudio
  <1>4. ~overlap' => Alone'
    BY DEF Alone, OneRecording
  <1>5. ~overlap' => OwnAudio'
    BY DEF OwnAudio, Alone
  <1>6. ~overlap' => Awaited'
    BY DEF Awaited, Alone, OneRecording, OwnAudio
  <1>7. Fresh'
    BY DEF Fresh, AttachmentsKept, Awaited, OneRecording
  <1>8. AttachmentsKept'
    BY DEF AttachmentsKept, Fresh, Alone, OwnAudio, Awaited
  <1> QED
    BY <1>1, <1>2, <1>3, <1>4, <1>5, <1>6, <1>7, <1>8, <1>9, Zenon

LEMMA SliceInv ==
    ASSUME NEW r \in Recording, InputInv, Slice(r) PROVE InputInv'
  <1> USE InputAssumption DEF Slice, hookRefs, promise, browser, attached, inputGhosts,
     Recording, NoRecording, InputInv, InputTypeOK
  <1>1. InputTypeOK'
    OBVIOUS
  <1>2. (waiting # NoRecording => phase[waiting] = "stopping")'
    OBVIOUS
  <1>9. (mounted => \A q \in stray : phase[q] = "ended")'
    OBVIOUS
  <1>3. OneRecording'
    BY DEF OneRecording, Alone, OwnAudio
  <1>4. ~overlap' => Alone'
    BY DEF Alone, OneRecording
  <1>5. ~overlap' => OwnAudio'
    BY DEF OwnAudio, Alone
  <1>6. ~overlap' => Awaited'
    BY DEF Awaited, Alone, OneRecording, OwnAudio
  <1>7. Fresh'
    BY DEF Fresh, AttachmentsKept, Awaited, OneRecording
  <1>8. AttachmentsKept'
    BY DEF AttachmentsKept, Fresh, Alone, OwnAudio, Awaited
  <1> QED
    BY <1>1, <1>2, <1>3, <1>4, <1>5, <1>6, <1>7, <1>8, <1>9, Zenon

LEMMA PressStopInv ==
    ASSUME InputInv, PressStop PROVE InputInv'
  <1> USE InputAssumption DEF PressStop, hookRefs, promise, browser, attached, inputGhosts,
     Recording, NoRecording, InputInv, InputTypeOK
  <1>1. InputTypeOK'
    OBVIOUS
  <1>2. (waiting # NoRecording => phase[waiting] = "stopping")'
    OBVIOUS
  <1>9. (mounted => \A q \in stray : phase[q] = "ended")'
    OBVIOUS
  <1>3. OneRecording'
    BY DEF OneRecording, Alone, OwnAudio
  <1>4. ~overlap' => Alone'
    BY DEF Alone, OneRecording
  <1>5. ~overlap' => OwnAudio'
    BY DEF OwnAudio, Alone
  <1>6. ~overlap' => Awaited'
    BY DEF Awaited, Alone, OneRecording, OwnAudio
  <1>7. Fresh'
    BY DEF Fresh, AttachmentsKept, Awaited, OneRecording
  <1>8. AttachmentsKept'
    BY DEF AttachmentsKept, Fresh, Alone, OwnAudio, Awaited
  <1> QED
    BY <1>1, <1>2, <1>3, <1>4, <1>5, <1>6, <1>7, <1>8, <1>9, Zenon

LEMMA PressCancelInv ==
    ASSUME InputInv, PressCancel PROVE InputInv'
  <1> USE InputAssumption DEF PressCancel, Cleanup, hookRefs, promise, browser, attached,
     inputGhosts, Recording, NoRecording, InputInv, InputTypeOK
  <1>1. InputTypeOK'
    OBVIOUS
  <1>2. (waiting # NoRecording => phase[waiting] = "stopping")'
    OBVIOUS
  <1>9. (mounted => \A q \in stray : phase[q] = "ended")'
    OBVIOUS
  <1>3. OneRecording'
    BY DEF OneRecording, Alone, OwnAudio
  <1>4. ~overlap' => Alone'
    BY DEF Alone, OneRecording
  <1>5. ~overlap' => OwnAudio'
    BY DEF OwnAudio, Alone
  <1>6. ~overlap' => Awaited'
    BY DEF Awaited, Alone, OneRecording, OwnAudio
  <1>7. Fresh'
    BY DEF Fresh, AttachmentsKept, Awaited, OneRecording
  <1>8. AttachmentsKept'
    BY DEF AttachmentsKept, Fresh, Alone, OwnAudio, Awaited
  <1> QED
    BY <1>1, <1>2, <1>3, <1>4, <1>5, <1>6, <1>7, <1>8, <1>9, Zenon

LEMMA OneEnds ==
    ASSUME NEW r \in wanted, wanted' = wanted,
           \A q \in wanted : phase'[q] = "ended" <=> phase[q] = "ended" \/ q = r
    PROVE  Ended' = Ended \cup {r}
  BY DEF Ended

LEMMA OnStopInv ==
    ASSUME NEW r \in Recording, InputInv, OnStop(r) PROVE InputInv'
  <1> USE InputAssumption DEF OnStop, Cleanup, hookRefs, promise, browser, attached, inputGhosts,
     Recording, NoRecording, InputInv, InputTypeOK
  <1>1. InputTypeOK'
    <2>1. CASE waiting # NoRecording /\ mounted
      <3>1. chunks \cup {r} \in SUBSET Recording
        OBVIOUS
      <3>2. files' \subseteq File /\ voices' \subseteq SUBSET Recording
        BY <2>1, <3>1
      <3> QED
        BY <3>2
    <2>2. CASE ~(waiting # NoRecording /\ mounted)
      BY <2>2
    <2> QED
      BY <2>1, <2>2
  <1>2. (waiting # NoRecording => phase[waiting] = "stopping")'
    OBVIOUS
  <1>9. (mounted => \A q \in stray : phase[q] = "ended")'
    OBVIOUS
  <1>3. OneRecording'
    BY DEF OneRecording, Alone, OwnAudio
  <1>4. ~overlap' => Alone'
    BY DEF Alone, OneRecording
  <1>5. ~overlap' => OwnAudio'
    BY DEF OwnAudio, Alone
  <1>6. ~overlap' => Awaited'
    BY DEF Awaited, Alone, OneRecording, OwnAudio
  <1>7. Fresh'
    BY DEF Fresh, AttachmentsKept, Awaited, OneRecording
  <1>8. AttachmentsKept'
    <2> SUFFICES ASSUME mounted, ~racing
                 PROVE  files' = added /\ (~overlap => voices' = {{q} : q \in Ended'})
      BY DEF AttachmentsKept, Ended
    <2>1. CASE waiting # NoRecording
      <3>1. files' = added
        BY <2>1 DEF Fresh, AttachmentsKept
      <3>2. ASSUME ~overlap PROVE voices' = {{q} : q \in Ended'}
        <4>1. r = waiting /\ waiting = stream /\ waiting \in wanted
          BY <2>1, <3>2 DEF Alone, Awaited, Fresh
        <4>2. Ended' = Ended \cup {r}
          <5>1. \A q \in wanted : phase'[q] = "ended" <=> phase[q] = "ended" \/ q = r
            OBVIOUS
          <5>2. r \in wanted /\ wanted' = wanted
            BY <4>1
          <5> QED
            BY <5>1, <5>2, OneEnds
        <4>3. voices' = voices \cup {{r}}
          <5>1. chunks \cup {r} = {r}
            BY <3>2, <4>1 DEF OwnAudio
          <5> QED
            BY <2>1, <3>2, <5>1 DEF Fresh
        <4>4. voices = {{q} : q \in Ended}
          BY <3>2 DEF AttachmentsKept, Ended
        <4> QED
          BY <4>2, <4>3, <4>4
      <3> QED
        BY <3>1, <3>2
    <2>2. CASE waiting = NoRecording
      <3>1. ASSUME ~overlap PROVE Ended' = Ended
        <4>1. r \notin wanted
          BY <2>2, <3>1 DEF Awaited
        <4>2. \A q \in wanted : phase'[q] = "ended" <=> phase[q] = "ended"
          BY <4>1
        <4> QED
          BY <4>2 DEF Ended
      <3> QED
        BY <2>2, <3>1 DEF AttachmentsKept, Ended
    <2> QED
      BY <2>1, <2>2
  <1> QED
    BY <1>1, <1>2, <1>3, <1>4, <1>5, <1>6, <1>7, <1>8, <1>9, Zenon

LEMMA OnErrorInv ==
    ASSUME NEW r \in Recording, InputInv, OnError(r) PROVE InputInv'
  <1> USE InputAssumption DEF OnError, Cleanup, hookRefs, promise, browser, attached, inputGhosts,
     Recording, NoRecording, InputInv, InputTypeOK
  <1>1. InputTypeOK'
    OBVIOUS
  <1>2. (waiting # NoRecording => phase[waiting] = "stopping")'
    OBVIOUS
  <1>9. (mounted => \A q \in stray : phase[q] = "ended")'
    OBVIOUS
  <1>3. OneRecording'
    BY DEF OneRecording, Alone, OwnAudio
  <1>4. ~overlap' => Alone'
    BY DEF Alone, OneRecording
  <1>5. ~overlap' => OwnAudio'
    BY DEF OwnAudio, Alone
  <1>6. ~overlap' => Awaited'
    BY DEF Awaited, Alone, OneRecording, OwnAudio
  <1>7. Fresh'
    BY DEF Fresh, AttachmentsKept, Awaited, OneRecording
  <1>8. AttachmentsKept'
    BY DEF AttachmentsKept, Fresh, Alone, OwnAudio, Awaited
  <1> QED
    BY <1>1, <1>2, <1>3, <1>4, <1>5, <1>6, <1>7, <1>8, <1>9, Zenon

LEMMA UnmountInv ==
    ASSUME InputInv, Unmount PROVE InputInv'
  <1> USE InputAssumption DEF Unmount, Cleanup, hookRefs, promise, browser, attached, inputGhosts,
     Recording, NoRecording, InputInv, InputTypeOK
  <1>1. InputTypeOK'
    OBVIOUS
  <1>2. (waiting # NoRecording => phase[waiting] = "stopping")'
    OBVIOUS
  <1>9. (mounted => \A q \in stray : phase[q] = "ended")'
    OBVIOUS
  <1>3. OneRecording'
    BY DEF OneRecording, Alone, OwnAudio
  <1>4. ~overlap' => Alone'
    BY DEF Alone, OneRecording
  <1>5. ~overlap' => OwnAudio'
    BY DEF OwnAudio, Alone
  <1>6. ~overlap' => Awaited'
    BY DEF Awaited, Alone, OneRecording, OwnAudio
  <1>7. Fresh'
    BY DEF Fresh, AttachmentsKept, Awaited, OneRecording
  <1>8. AttachmentsKept'
    BY DEF AttachmentsKept, Fresh, Alone, OwnAudio, Awaited
  <1> QED
    BY <1>1, <1>2, <1>3, <1>4, <1>5, <1>6, <1>7, <1>8, <1>9, Zenon

LEMMA AttachInv ==
    ASSUME NEW f \in File, InputInv, Attach(f) PROVE InputInv'
  <1> USE InputAssumption DEF Attach, hookRefs, promise, browser, attached, inputGhosts,
     Recording, NoRecording, InputInv, InputTypeOK
  <1>1. InputTypeOK'
    OBVIOUS
  <1>2. (waiting # NoRecording => phase[waiting] = "stopping")'
    OBVIOUS
  <1>9. (mounted => \A q \in stray : phase[q] = "ended")'
    OBVIOUS
  <1>3. OneRecording'
    BY DEF OneRecording, Alone, OwnAudio
  <1>4. ~overlap' => Alone'
    BY DEF Alone, OneRecording
  <1>5. ~overlap' => OwnAudio'
    BY DEF OwnAudio, Alone
  <1>6. ~overlap' => Awaited'
    BY DEF Awaited, Alone, OneRecording, OwnAudio
  <1>7. Fresh'
    BY DEF Fresh, AttachmentsKept, Awaited, OneRecording
  <1>8. AttachmentsKept'
    BY DEF AttachmentsKept, Fresh, Alone, OwnAudio, Awaited
  <1> QED
    BY <1>1, <1>2, <1>3, <1>4, <1>5, <1>6, <1>7, <1>8, <1>9, Zenon

LEMMA RemoveFileInv ==
    ASSUME NEW f \in File, InputInv, RemoveFile(f) PROVE InputInv'
  <1> USE InputAssumption DEF RemoveFile, hookRefs, promise, browser, attached, inputGhosts,
     Recording, NoRecording, InputInv, InputTypeOK
  <1>1. InputTypeOK'
    OBVIOUS
  <1>2. (waiting # NoRecording => phase[waiting] = "stopping")'
    OBVIOUS
  <1>9. (mounted => \A q \in stray : phase[q] = "ended")'
    OBVIOUS
  <1>3. OneRecording'
    BY DEF OneRecording, Alone, OwnAudio
  <1>4. ~overlap' => Alone'
    BY DEF Alone, OneRecording
  <1>5. ~overlap' => OwnAudio'
    BY DEF OwnAudio, Alone
  <1>6. ~overlap' => Awaited'
    BY DEF Awaited, Alone, OneRecording, OwnAudio
  <1>7. Fresh'
    BY DEF Fresh, AttachmentsKept, Awaited, OneRecording
  <1>8. AttachmentsKept'
    BY DEF AttachmentsKept, Fresh, Alone, OwnAudio, Awaited
  <1> QED
    BY <1>1, <1>2, <1>3, <1>4, <1>5, <1>6, <1>7, <1>8, <1>9, Zenon

LEMMA RemoveVoiceInv ==
    ASSUME NEW v \in SUBSET Recording, InputInv, RemoveVoice(v) PROVE InputInv'
  <1> USE InputAssumption DEF RemoveVoice, hookRefs, promise, browser, attached, inputGhosts,
     Recording, NoRecording, InputInv, InputTypeOK
  <1>1. InputTypeOK'
    OBVIOUS
  <1>2. (waiting # NoRecording => phase[waiting] = "stopping")'
    OBVIOUS
  <1>9. (mounted => \A q \in stray : phase[q] = "ended")'
    OBVIOUS
  <1>3. OneRecording'
    BY DEF OneRecording, Alone, OwnAudio
  <1>4. ~overlap' => Alone'
    BY DEF Alone, OneRecording
  <1>5. ~overlap' => OwnAudio'
    BY DEF OwnAudio, Alone
  <1>6. ~overlap' => Awaited'
    BY DEF Awaited, Alone, OneRecording, OwnAudio
  <1>7. Fresh'
    BY DEF Fresh, AttachmentsKept, Awaited, OneRecording
  <1>8. AttachmentsKept'
    <2> SUFFICES ASSUME mounted, ~racing, ~overlap
                 PROVE  voices' = {{q} : q \in Ended'}
      BY DEF AttachmentsKept, Ended
    <2>1. voices = {{q} : q \in Ended}
      BY DEF AttachmentsKept, Ended
    <2>2. PICK q \in Ended : v = {q}
      BY <2>1
    <2>3. Ended' = Ended \ {q}
      BY <2>2 DEF Ended
    <2> QED
      BY <2>1, <2>2, <2>3
  <1> QED
    BY <1>1, <1>2, <1>3, <1>4, <1>5, <1>6, <1>7, <1>8, <1>9, Zenon

LEMMA HandleSendInv ==
    ASSUME InputInv, HandleSend PROVE InputInv'
  <1> USE InputAssumption DEF HandleSend, hookRefs, promise, browser, attached, inputGhosts,
     Recording, NoRecording, InputInv, InputTypeOK
  <1>1. InputTypeOK'
    OBVIOUS
  <1>2. (waiting # NoRecording => phase[waiting] = "stopping")'
    OBVIOUS
  <1>9. (mounted => \A q \in stray : phase[q] = "ended")'
    OBVIOUS
  <1>3. OneRecording'
    BY DEF OneRecording, Alone, OwnAudio
  <1>4. ~overlap' => Alone'
    BY DEF Alone, OneRecording
  <1>5. ~overlap' => OwnAudio'
    BY DEF OwnAudio, Alone
  <1>6. ~overlap' => Awaited'
    BY DEF Awaited, Alone, OneRecording, OwnAudio
  <1>7. Fresh'
    BY DEF Fresh, AttachmentsKept, Awaited, OneRecording
  <1>8. AttachmentsKept'
    BY DEF AttachmentsKept, Fresh, Alone, OwnAudio, Awaited
  <1> QED
    BY <1>1, <1>2, <1>3, <1>4, <1>5, <1>6, <1>7, <1>8, <1>9, Zenon

-----------------------------------------------------------------------------
LEMMA InputNextInv == ASSUME InputInv, InputNext PROVE InputInv'
  <1>1. ASSUME NEW r \in Recording,
               PressMic(r) \/ Granted(r) \/ RecorderThrows(r) \/ Denied(r)
                   \/ Slice(r) \/ OnStop(r) \/ OnError(r)
        PROVE InputInv'
    BY <1>1, PressMicInv, GrantedInv, RecorderThrowsInv, DeniedInv, SliceInv, OnStopInv, OnErrorInv
  <1>2. CASE PressStop \/ PressCancel \/ Unmount \/ HandleSend
    BY <1>2, PressStopInv, PressCancelInv, UnmountInv, HandleSendInv
  <1>3. ASSUME NEW f \in File, Attach(f) \/ RemoveFile(f) PROVE InputInv'
    BY <1>3, AttachInv, RemoveFileInv
  <1>4. ASSUME NEW v \in SUBSET Recording, RemoveVoice(v) PROVE InputInv'
    BY <1>4, RemoveVoiceInv
  <1> QED
    BY <1>1, <1>2, <1>3, <1>4 DEF InputNext

LEMMA InputInvariant == InputSpec => []InputInv
  <1>1. InputInv /\ [InputNext]_inputVars => InputInv'
    BY InputNextInv, InputStutterInv
  <1> QED
    BY InputInitInv, <1>1, PTL DEF InputSpec

\* Every variable of the input and of its recorder has its type (use-voice-recorder.ts:22-33,
\* chat-input.tsx:21-33).
THEOREM InputTypeCorrect == InputSpec => []InputTypeOK
  <1>1. InputInv => InputTypeOK
    BY DEF InputInv
  <1> QED
    BY InputInvariant, <1>1, PTL

\* However stops, cancels, errors, late stop events and recorders that throw fall, the
\* microphone is on, and the seconds count, for the one recording that cleanup can end; a
\* stream without a button to end it is that of a recorder that threw, or came when the input
\* was gone (use-voice-recorder.ts:35-46 and 91-94).
THEOREM OneMicrophone == InputSpec => []OneRecording
  <1>1. InputInv => OneRecording
    BY DEF InputInv
  <1> QED
    BY InputInvariant, <1>1, PTL

\* The files and voice messages that go out with the next message are the user's, each
\* recording by itself (chat-input.tsx:42-66, use-voice-recorder.ts:62-76).
THEOREM AttachedAsAsked == InputSpec => []AttachmentsKept
  <1>1. InputInv => AttachmentsKept
    BY DEF InputInv
  <1> QED
    BY InputInvariant, <1>1, PTL
=============================================================================
