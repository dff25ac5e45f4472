------------------------- MODULE PageQueriesProofs -------------------------
(***************************************************************************)
(* The properties of PageQueries for any cache entries and changes.        *)
(***************************************************************************)
EXTENDS PageQueries, TLAPS

-----------------------------------------------------------------------------
(* The inductive invariant. *)

\* What was reported as a success was made.
SuccessApplied == \A m \in Change : stage[m] \in {"applied", "refreshing", "done"} => m \in applied

\* The answer under way holds every success, but for one that overtook it.
AnswersHoldSuccess ==
    \A m \in Change, e \in Entries :
        Succeeded(m) /\ fetch[e] = "read" => m \in answer[e] \/ m \in unseen

\* Before the first connection nobody has asked for the agents.
NoAgentsBefore ==
    root = "agents" /\ ~once =>
        ~connected /\ \A e \in Entry : fetch[e] = "idle" /\ ~loaded[e]

ListInv == SuccessApplied /\ AnswersHoldSuccess /\ NoAgentsBefore /\ SuccessShown

IInv == TypeOK /\ ListInv

-----------------------------------------------------------------------------
(* Types. *)

LEMMA EntriesAreEntries == Entries \subseteq Entry
  BY QueriesAssumption DEF Entries

LEMMA InitType == Init => TypeOK
  <1> SUFFICES ASSUME Init PROVE TypeOK
    OBVIOUS
  <1>1. root \in DOMAIN Kinds /\ shown \in Entry \cup {None} /\ applied \subseteq Change
        /\ unseen \subseteq Change
    BY DEF Init
  <1>2. /\ data \in [Entry -> SUBSET Change] /\ loaded \in [Entry -> BOOLEAN]
        /\ invalid \in [Entry -> BOOLEAN] /\ error \in [Entry -> BOOLEAN]
        /\ fetch \in [Entry -> {"idle", "sent", "read"}] /\ answer \in [Entry -> SUBSET Change]
    BY DEF Init
  <1>3. /\ kind \in [Change -> {"refreshed", "optimistic", "silent"}]
        /\ stage \in [Change -> {"idle", "sent", "applied", "refreshing", "done", "failed"}]
        /\ waits \in [Change -> Entry \cup {None}]
        /\ \A m \in Change : waits[m] # None <=> stage[m] = "refreshing"
    BY DEF Init
  <1>4. connected \in BOOLEAN /\ once \in BOOLEAN
    BY DEF Init
  <1> QED
    BY <1>1, <1>2, <1>3, <1>4 DEF TypeOK

LEMMA FetchType ==
    ASSUME TypeOK, NEW e, NEW c, FetchIfStale(e, c)
    PROVE  fetch' \in [Entry -> {"idle", "sent", "read"}]
  BY ZenonT(30) DEF TypeOK, FetchIfStale

LEMMA InvalidateType ==
    ASSUME TypeOK, NEW c, Invalidate(c)
    PROVE  /\ invalid' \in [Entry -> BOOLEAN]
           /\ fetch' \in [Entry -> {"idle", "sent", "read"}]
           /\ answer' \in [Entry -> SUBSET Change]
  <1>1. invalid' \in [Entry -> BOOLEAN]
    <2>1. \A e \in Entry : (e \in Entries) \in BOOLEAN
      OBVIOUS
    <2>2. invalid' = [e \in Entry |-> e \in Entries]
      BY DEF Invalidate
    <2> QED
      BY <2>1, <2>2
  <1>2. fetch' \in [Entry -> {"idle", "sent", "read"}] /\ answer' \in [Entry -> SUBSET Change]
    BY DEF TypeOK, Invalidate
  <1> QED
    BY <1>1, <1>2

LEMMA SettleType ==
    ASSUME TypeOK, NEW e \in Entry, Settle(e)
    PROVE  /\ stage' \in [Change -> {"idle", "sent", "applied", "refreshing", "done", "failed"}]
           /\ waits' \in [Change -> Entry \cup {None}]
           /\ \A m \in Change : waits'[m] # None <=> stage'[m] = "refreshing"
  BY QueriesAssumption DEF TypeOK, Settle

LEMMA ReceivedType ==
    ASSUME TypeOK, NEW e \in Entry, NEW list \in SUBSET Change, Received(e, list),
           UNCHANGED <<root, shown, kind, applied, socket, unseen>>
    PROVE  TypeOK'
  <1>1. Settle(e)
    BY DEF Received
  <1>2. /\ stage' \in [Change -> {"idle", "sent", "applied", "refreshing", "done", "failed"}]
        /\ waits' \in [Change -> Entry \cup {None}]
        /\ \A m \in Change : waits'[m] # None <=> stage'[m] = "refreshing"
    BY <1>1, SettleType
  <1>3. /\ data' \in [Entry -> SUBSET Change] /\ loaded' \in [Entry -> BOOLEAN]
        /\ invalid' \in [Entry -> BOOLEAN] /\ error' \in [Entry -> BOOLEAN]
        /\ fetch' \in [Entry -> {"idle", "sent", "read"}] /\ answer' \in [Entry -> SUBSET Change]
    BY DEF TypeOK, Received
  <1> QED
    BY <1>2, <1>3 DEF TypeOK, socket

LEMMA OpenType == ASSUME TypeOK, NEW e \in Entry, Open(e) PROVE TypeOK'
  <1>1. fetch' \in [Entry -> {"idle", "sent", "read"}]
    BY FetchType DEF Open
  <1> QED
    BY <1>1 DEF TypeOK, Open, calls, socket

LEMMA PageType == ASSUME TypeOK, Leave \/ (\E e \in Entry : Collect(e)) PROVE TypeOK'
  BY ZenonT(30) DEF TypeOK, Leave, Collect, entries, calls, socket

LEMMA FocusType == ASSUME TypeOK, Focus PROVE TypeOK'
  <1>1. fetch' \in [Entry -> {"idle", "sent", "read"}]
    BY FetchType DEF Focus
  <1> QED
    BY <1>1 DEF TypeOK, Focus, calls, socket

LEMMA RefreshType == ASSUME TypeOK, Refresh PROVE TypeOK'
  <1>1. /\ invalid' \in [Entry -> BOOLEAN]
        /\ fetch' \in [Entry -> {"idle", "sent", "read"}]
        /\ answer' \in [Entry -> SUBSET Change]
    BY InvalidateType DEF Refresh
  <1> QED
    BY <1>1 DEF TypeOK, Refresh, calls, socket

LEMMA SubmitType ==
    ASSUME TypeOK, NEW m \in Change, NEW k \in {"refreshed", "optimistic", "silent"}, Submit(m, k)
    PROVE  TypeOK'
  <1>1. data' \in [Entry -> SUBSET Change] /\ unseen' \subseteq Change
    BY DEF TypeOK, Submit
  <1>2. invalid' \in [Entry -> BOOLEAN] /\ error' \in [Entry -> BOOLEAN]
    BY Zenon DEF TypeOK, Submit
  <1>3. /\ kind' \in [Change -> {"refreshed", "optimistic", "silent"}]
        /\ stage' \in [Change -> {"idle", "sent", "applied", "refreshing", "done", "failed"}]
        /\ \A c \in Change : stage'[c] = "refreshing" <=> stage[c] = "refreshing"
    BY DEF TypeOK, Submit
  <1> QED
    BY <1>1, <1>2, <1>3 DEF TypeOK, Submit, socket

LEMMA ApplyType == ASSUME TypeOK, NEW m \in Change, Apply(m) PROVE TypeOK'
  BY DEF TypeOK, Apply, entries, socket

LEMMA CallFailsType == ASSUME TypeOK, NEW m \in Change, CallFails(m) PROVE TypeOK'
  BY DEF TypeOK, CallFails, entries, socket

LEMMA SucceedType == ASSUME TypeOK, NEW m \in Change, Succeed(m) PROVE TypeOK'
  <1>1. /\ invalid' \in [Entry -> BOOLEAN]
        /\ fetch' \in [Entry -> {"idle", "sent", "read"}]
        /\ answer' \in [Entry -> SUBSET Change]
    <2>1. CASE kind[m] = "silent"
      BY <2>1 DEF Succeed, TypeOK
    <2>2. CASE kind[m] # "silent"
      BY <2>2, InvalidateType DEF Succeed
    <2> QED
      BY <2>1, <2>2
  <1>2. unseen' \subseteq Change
    BY DEF Succeed, TypeOK
  <1>3. /\ stage' \in [Change -> {"idle", "sent", "applied", "refreshing", "done", "failed"}]
        /\ waits' \in [Change -> Entry \cup {None}]
        /\ \A c \in Change : waits'[c] # None <=> stage'[c] = "refreshing"
    <2>1. CASE stage' = [stage EXCEPT ![m] = "done"] /\ waits' = waits
      BY <2>1 DEF Succeed, TypeOK
    <2>2. CASE /\ stage' = [stage EXCEPT ![m] = "refreshing"]
               /\ waits' = [waits EXCEPT ![m] = shown]
               /\ shown # None
      BY <2>2 DEF TypeOK
    <2> QED
      BY <2>1, <2>2 DEF Succeed
  <1> QED
    BY <1>1, <1>2, <1>3 DEF TypeOK, Succeed, socket

LEMMA ReadType == ASSUME TypeOK, NEW e \in Entry, Read(e) PROVE TypeOK'
  BY DEF TypeOK, Read, calls, socket

LEMMA AnswerType == ASSUME TypeOK, NEW e \in Entry, Answer(e) PROVE TypeOK'
  <1>1. answer[e] \in SUBSET Change
    BY DEF TypeOK
  <1> QED
    BY <1>1, ReceivedType DEF Answer

LEMMA NoAgentsType == ASSUME TypeOK, NEW e \in Entry, AnswerNoAgents(e) PROVE TypeOK'
  BY ReceivedType DEF AnswerNoAgents

LEMMA FetchFailsType == ASSUME TypeOK, NEW e \in Entry, FetchFails(e) PROVE TypeOK'
  <1>1. Settle(e)
    BY DEF FetchFails
  <1>2. /\ stage' \in [Change -> {"idle", "sent", "applied", "refreshing", "done", "failed"}]
        /\ waits' \in [Change -> Entry \cup {None}]
        /\ \A m \in Change : waits'[m] # None <=> stage'[m] = "refreshing"
    BY <1>1, SettleType
  <1>3. /\ invalid' \in [Entry -> BOOLEAN] /\ error' \in [Entry -> BOOLEAN]
        /\ fetch' \in [Entry -> {"idle", "sent", "read"}] /\ answer' \in [Entry -> SUBSET Change]
    BY DEF TypeOK, FetchFails
  <1> QED
    BY <1>2, <1>3 DEF TypeOK, FetchFails, socket

LEMMA DisconnectedType == ASSUME TypeOK, Disconnected PROVE TypeOK'
  BY DEF TypeOK, Disconnected, entries, calls

LEMMA ReconnectedType == ASSUME TypeOK, Reconnected PROVE TypeOK'
  <1>1. /\ invalid' \in [Entry -> BOOLEAN]
        /\ fetch' \in [Entry -> {"idle", "sent", "read"}]
        /\ answer' \in [Entry -> SUBSET Change]
    <2>1. CASE Invalidate(TRUE)
      BY <2>1, InvalidateType
    <2>2. CASE FetchIfStale(shown, TRUE) /\ UNCHANGED <<invalid, answer>>
      BY <2>2, FetchType DEF TypeOK
    <2>3. CASE UNCHANGED <<fetch, invalid, answer>>
      BY <2>3 DEF TypeOK
    <2> QED
      BY <2>1, <2>2, <2>3 DEF Reconnected
  <1> QED
    BY <1>1 DEF TypeOK, Reconnected, calls

LEMMA NextType == TypeOK /\ [Next]_vars => TypeOK'
  <1> SUFFICES ASSUME TypeOK, [Next]_vars PROVE TypeOK'
    OBVIOUS
  <1>1. CASE (\E e \in Entry : Open(e) \/ Collect(e)) \/ Leave \/ Focus \/ Refresh
    BY <1>1, OpenType, PageType, FocusType, RefreshType
  <1>2. CASE \E m \in Change : Apply(m) \/ Succeed(m) \/ CallFails(m)
    BY <1>2, ApplyType, SucceedType, CallFailsType
  <1>3. CASE \E m \in Change, k \in {"refreshed", "optimistic", "silent"} : Submit(m, k)
    BY <1>3, SubmitType
  <1>4. CASE \E e \in Entry : Read(e) \/ Answer(e) \/ AnswerNoAgents(e) \/ FetchFails(e)
    BY <1>4, ReadType, AnswerType, NoAgentsType, FetchFailsType
  <1>5. CASE Disconnected \/ Reconnected
    BY <1>5, DisconnectedType, ReconnectedType
  <1>6. CASE UNCHANGED vars
    BY <1>6 DEF TypeOK, vars, entries, calls, socket
  <1> QED
    BY <1>1, <1>2, <1>3, <1>4, <1>5, <1>6 DEF Next

\* The variables keep their types, and a call waits for a fetch as long as it refreshes.
THEOREM TypeCorrect == Spec => []TypeOK
  BY InitType, NextType, PTL DEF Spec

-----------------------------------------------------------------------------
(* The lists. *)

\* An invalidation leaves no fresh list, and no answer but those it cannot restart.
LEMMA InvalidateInv ==
    ASSUME TypeOK, NEW c, Invalidate(c)
    PROVE  /\ \A e \in Entries : invalid'[e]
           /\ \A e \in Entry : fetch'[e] = "read" =>
                 fetch[e] = "read" /\ answer'[e] = answer[e] /\ ~Restarted(e, c)
  <1>1. \A e \in Entries : invalid'[e]
    BY EntriesAreEntries, Zenon DEF Invalidate
  <1>2. \A e \in Entry : fetch'[e] = "read" =>
           fetch[e] = "read" /\ answer'[e] = answer[e] /\ ~Restarted(e, c)
    BY DEF Invalidate
  <1> QED
    BY <1>1, <1>2

LEMMA InitList == Init => ListInv
  <1> SUFFICES ASSUME Init PROVE ListInv
    OBVIOUS
  <1>1. \A m \in Change : ~Succeeded(m)
    BY DEF Init, Succeeded
  <1>2. NoAgentsBefore
    BY DEF Init, NoAgentsBefore
  <1>3. SuccessApplied
    BY DEF Init, SuccessApplied
  <1> QED
    BY <1>1, <1>2, <1>3 DEF ListInv, AnswersHoldSuccess, SuccessShown

LEMMA OpenList == ASSUME TypeOK, ListInv, NEW e \in Entry, Open(e) PROVE ListInv'
  <1>1. /\ UNCHANGED <<root, kind, stage, applied, unseen, connected, once, data, loaded,
                       invalid, answer>>
        /\ FetchIfStale(e, connected)
    BY DEF Open, calls, socket
  <1>2. \A x \in Entry : fetch'[x] = "read" => fetch[x] = "read"
    BY <1>1 DEF FetchIfStale, TypeOK
  <1>3. SuccessApplied' /\ SuccessShown'
    BY <1>1 DEF ListInv, SuccessApplied, SuccessShown, Succeeded, Entries, Enabled
  <1>4. AnswersHoldSuccess'
    BY <1>1, <1>2, EntriesAreEntries DEF ListInv, AnswersHoldSuccess, Succeeded, Entries
  <1>5. NoAgentsBefore'
    BY <1>1 DEF ListInv, NoAgentsBefore, FetchIfStale
  <1> QED
    BY <1>3, <1>4, <1>5 DEF ListInv

LEMMA FocusList == ASSUME TypeOK, ListInv, Focus PROVE ListInv'
  <1>1. /\ UNCHANGED <<root, kind, stage, applied, unseen, connected, once, data, loaded,
                       invalid, answer>>
        /\ FetchIfStale(shown, connected)
    BY DEF Focus, calls, socket
  <1>2. \A x \in Entry : fetch'[x] = "read" => fetch[x] = "read"
    BY <1>1 DEF FetchIfStale, TypeOK
  <1>3. SuccessApplied' /\ SuccessShown'
    BY <1>1 DEF ListInv, SuccessApplied, SuccessShown, Succeeded, Entries, Enabled
  <1>4. AnswersHoldSuccess'
    BY <1>1, <1>2, EntriesAreEntries DEF ListInv, AnswersHoldSuccess, Succeeded, Entries
  <1>5. NoAgentsBefore'
    BY <1>1 DEF ListInv, NoAgentsBefore, FetchIfStale
  <1> QED
    BY <1>3, <1>4, <1>5 DEF ListInv

LEMMA LeaveList == ASSUME ListInv, Leave \/ UNCHANGED vars PROVE ListInv'
  BY DEF Leave, vars, ListInv, SuccessApplied, SuccessShown, AnswersHoldSuccess, NoAgentsBefore,
         Succeeded, Entries, Enabled, entries, calls, socket

LEMMA CollectList == ASSUME TypeOK, ListInv, NEW e \in Entry, Collect(e) PROVE ListInv'
  <1>1. UNCHANGED <<root, kind, stage, applied, unseen, connected, once, fetch, answer>>
    BY DEF Collect, calls, socket
  <1>2. /\ ~loaded'[e]
        /\ \A x \in Entry : x # e => loaded'[x] = loaded[x] /\ data'[x] = data[x]
                                    /\ invalid'[x] = invalid[x]
    BY DEF Collect, TypeOK
  <1>3. SuccessApplied' /\ AnswersHoldSuccess'
    BY <1>1 DEF ListInv, SuccessApplied, AnswersHoldSuccess, Succeeded, Entries
  <1>4. SuccessShown'
    BY <1>1, <1>2, EntriesAreEntries DEF ListInv, SuccessShown, Succeeded, Entries, Enabled
  <1>5. NoAgentsBefore'
    BY <1>1, <1>2 DEF ListInv, NoAgentsBefore
  <1> QED
    BY <1>3, <1>4, <1>5 DEF ListInv

LEMMA RefreshList == ASSUME TypeOK, ListInv, Refresh PROVE ListInv'
  <1>1. /\ UNCHANGED <<root, kind, stage, applied, unseen, connected, once, data, loaded>>
        /\ Invalidate(connected)
    BY DEF Refresh, calls, socket
  <1>2. /\ \A e \in Entries : invalid'[e]
        /\ \A e \in Entry : fetch'[e] = "read" => fetch[e] = "read" /\ answer'[e] = answer[e]
    BY <1>1, InvalidateInv
  <1>3. SuccessApplied' /\ SuccessShown'
    BY <1>1, <1>2 DEF ListInv, SuccessApplied, SuccessShown, Succeeded, Entries
  <1>4. AnswersHoldSuccess'
    BY <1>1, <1>2, EntriesAreEntries DEF ListInv, AnswersHoldSuccess, Succeeded, Entries
  <1>5. NoAgentsBefore'
    BY <1>1 DEF ListInv, NoAgentsBefore, Invalidate, Restarted
  <1> QED
    BY <1>3, <1>4, <1>5 DEF ListInv

\* An optimistic write adds to a list and may end an invalidation.
LEMMA SubmitList ==
    ASSUME TypeOK, ListInv, NEW m \in Change, NEW k \in {"refreshed", "optimistic", "silent"},
           Submit(m, k)
    PROVE  ListInv'
  <1>1. UNCHANGED <<root, applied, connected, once, loaded, fetch, answer>> /\ stage[m] = "idle"
    BY DEF Submit, socket
  <1>2. \A c \in Change : Succeeded(c)' <=> Succeeded(c)
    BY DEF Submit, Succeeded, TypeOK
  <1>3. unseen \subseteq unseen' /\ \A e \in Entry : data[e] \subseteq data'[e]
    BY DEF Submit, TypeOK
  <1>4. ASSUME NEW c \in Change, NEW e \in Entries, ~invalid'[e], invalid[e]
        PROVE  c \in data[e] \/ c \in unseen'
    <2>1. Optimistic(e, m, k)
      BY <1>4, EntriesAreEntries, Zenon DEF Submit
    <2> QED
      BY <2>1, <1>4 DEF Submit
  <1>5. SuccessShown'
    BY <1>1, <1>2, <1>3, <1>4, EntriesAreEntries DEF ListInv, SuccessShown, Entries, Enabled
  <1>6. SuccessApplied' /\ AnswersHoldSuccess'
    <2>1. SuccessApplied'
      BY DEF Submit, TypeOK, ListInv, SuccessApplied
    <2> QED
      BY <1>1, <1>2, <1>3, <2>1 DEF ListInv, AnswersHoldSuccess, Entries
  <1>7. NoAgentsBefore'
    BY <1>1 DEF ListInv, NoAgentsBefore
  <1> QED
    BY <1>5, <1>6, <1>7 DEF ListInv

LEMMA ApplyList == ASSUME TypeOK, ListInv, NEW m \in Change, Apply(m) PROVE ListInv'
  <1>1. /\ UNCHANGED <<root, unseen, connected, once, data, loaded, invalid, fetch, answer>>
        /\ applied \subseteq applied'
    BY DEF Apply, entries, socket
  <1>2. \A c \in Change : Succeeded(c)' <=> Succeeded(c)
    BY DEF Apply, Succeeded, TypeOK
  <1>3. SuccessApplied'
    BY DEF Apply, TypeOK, ListInv, SuccessApplied
  <1> QED
    BY <1>1, <1>2, <1>3 DEF ListInv, SuccessShown, AnswersHoldSuccess, NoAgentsBefore, Entries,
                            Enabled

LEMMA CallFailsList == ASSUME TypeOK, ListInv, NEW m \in Change, CallFails(m) PROVE ListInv'
  <1>1. UNCHANGED <<root, unseen, connected, once, data, loaded, invalid, fetch, answer, applied>>
    BY DEF CallFails, entries, socket
  <1>2. \A c \in Change : Succeeded(c)' => Succeeded(c)
    BY DEF CallFails, Succeeded, TypeOK
  <1>3. SuccessApplied'
    BY DEF CallFails, TypeOK, ListInv, SuccessApplied
  <1> QED
    BY <1>1, <1>2, <1>3 DEF ListInv, SuccessShown, AnswersHoldSuccess, NoAgentsBefore, Entries,
                            Enabled

\* The change that succeeds is in every answer that its invalidation leaves, or is unseen.
LEMMA SucceedList == ASSUME TypeOK, ListInv, NEW m \in Change, Succeed(m) PROVE ListInv'
  <1>1. UNCHANGED <<root, kind, applied, connected, once, data, loaded>> /\ stage[m] = "applied"
    BY DEF Succeed, socket
  <1>2. \A c \in Change : c # m => (Succeeded(c)' <=> Succeeded(c))
    BY DEF Succeed, Succeeded, TypeOK
  <1>3. SuccessApplied'
    BY DEF Succeed, TypeOK, ListInv, SuccessApplied
  <1>4. CASE kind[m] = "silent"
    <2>1. UNCHANGED <<invalid, fetch, answer, unseen>> /\ ~Succeeded(m)'
      BY <1>4 DEF Succeed, Succeeded
    <2> QED
      BY <1>1, <1>2, <1>3, <2>1 DEF ListInv, SuccessShown, AnswersHoldSuccess, NoAgentsBefore,
                                     Entries, Enabled
  <1>5. CASE kind[m] # "silent"
    <2>1. /\ Invalidate(connected) /\ unseen \subseteq unseen'
          /\ (\E e \in Entries : Overtaken(m, e)) => m \in unseen'
      BY <1>5 DEF Succeed
    <2>2. /\ \A e \in Entries : invalid'[e]
          /\ \A e \in Entry : fetch'[e] = "read" =>
                fetch[e] = "read" /\ answer'[e] = answer[e] /\ ~Restarted(e, connected)
      BY <2>1, InvalidateInv
    <2>3. SuccessShown'
      BY <2>2, <1>1 DEF SuccessShown, Entries
    <2>4. ASSUME NEW c \in Change, NEW e \in Entries, Succeeded(c)', fetch'[e] = "read"
          PROVE  c \in answer'[e] \/ c \in unseen'
      <3>1. fetch[e] = "read" /\ answer'[e] = answer[e] /\ ~Restarted(e, connected)
        BY <2>2, <2>4, EntriesAreEntries
      <3>2. CASE c = m
        BY <3>1, <3>2, <2>1 DEF Overtaken
      <3>3. CASE c # m
        BY <3>1, <3>3, <1>2, <2>1, <2>4 DEF ListInv, AnswersHoldSuccess
      <3> QED
        BY <3>2, <3>3
    <2>5. AnswersHoldSuccess'
      BY <2>4, <1>1 DEF AnswersHoldSuccess, Entries
    <2>6. NoAgentsBefore'
      BY <1>1, <2>1 DEF ListInv, NoAgentsBefore, Invalidate, Restarted
    <2> QED
      BY <1>3, <2>3, <2>5, <2>6 DEF ListInv
  <1> QED
    BY <1>4, <1>5

LEMMA ReadList == ASSUME TypeOK, ListInv, NEW e \in Entry, Read(e) PROVE ListInv'
  <1>1. /\ UNCHANGED <<root, kind, stage, applied, unseen, connected, once, data, loaded, invalid>>
        /\ fetch[e] = "sent"
    BY DEF Read, calls, socket
  <1>2. /\ answer'[e] = applied
        /\ \A x \in Entry : x # e => fetch'[x] = fetch[x] /\ answer'[x] = answer[x]
    BY DEF Read, TypeOK
  <1>3. SuccessApplied' /\ SuccessShown'
    BY <1>1 DEF ListInv, SuccessApplied, SuccessShown, Succeeded, Entries, Enabled
  <1>4. \A m \in Change : Succeeded(m) => m \in applied
    BY DEF ListInv, SuccessApplied, Succeeded
  <1>5. AnswersHoldSuccess'
    BY <1>1, <1>2, <1>4, EntriesAreEntries
       DEF ListInv, AnswersHoldSuccess, Succeeded, Entries
  <1>6. NoAgentsBefore'
    BY <1>1 DEF ListInv, NoAgentsBefore
  <1> QED
    BY <1>3, <1>5, <1>6 DEF ListInv

\* Calls that return were refreshing.
LEMMA SettleList ==
    ASSUME TypeOK, ListInv, NEW e \in Entry, Settle(e), UNCHANGED <<kind, applied>>
    PROVE  SuccessApplied' /\ \A m \in Change : Succeeded(m)' <=> Succeeded(m)
  <1>1. \A m \in Change : waits[m] = e => stage[m] = "refreshing"
    BY QueriesAssumption DEF TypeOK
  <1>2. \A m \in Change : stage'[m] = (IF waits[m] = e THEN "done" ELSE stage[m])
    BY DEF Settle
  <1> QED
    BY <1>1, <1>2 DEF ListInv, SuccessApplied, Succeeded

LEMMA ReceivedList ==
    ASSUME TypeOK, ListInv, NEW e \in Entry, NEW list, Received(e, list), fetch[e] # "idle",
           UNCHANGED <<root, kind, applied, connected, once, unseen>>,
           e \in Entries /\ Enabled => \A m \in Change : Succeeded(m) => m \in list \/ m \in unseen
    PROVE  ListInv'
  <1>1. SuccessApplied' /\ \A m \in Change : Succeeded(m)' <=> Succeeded(m)
    BY SettleList DEF Received
  <1>2. /\ data'[e] = list /\ fetch'[e] = "idle"
        /\ \A x \in Entry : x # e => /\ data'[x] = data[x] /\ loaded'[x] = loaded[x]
                                    /\ invalid'[x] = invalid[x] /\ fetch'[x] = fetch[x]
                                    /\ answer'[x] = answer[x]
    BY DEF Received, TypeOK
  <1>3. SuccessShown'
    <2> SUFFICES ASSUME NEW m \in Change, NEW x \in Entries, Succeeded(m), loaded'[x], ~invalid'[x],
                        Enabled
                 PROVE  m \in data'[x] \/ m \in unseen
      BY <1>1 DEF SuccessShown, Entries, Enabled
    <2>1. CASE x = e
      BY <2>1, <1>2
    <2>2. CASE x # e
      BY <2>2, <1>2, EntriesAreEntries DEF ListInv, SuccessShown
    <2> QED
      BY <2>1, <2>2
  <1>4. AnswersHoldSuccess'
    BY <1>1, <1>2, EntriesAreEntries DEF ListInv, AnswersHoldSuccess, Entries
  <1>5. NoAgentsBefore'
    BY DEF ListInv, NoAgentsBefore
  <1> QED
    BY <1>1, <1>3, <1>4, <1>5 DEF ListInv

LEMMA AnswerList == ASSUME TypeOK, ListInv, NEW e \in Entry, Answer(e) PROVE ListInv'
  <1>1. /\ fetch[e] = "read" /\ Received(e, answer[e])
        /\ UNCHANGED <<root, kind, applied, connected, once, unseen>>
    BY DEF Answer, socket
  <1>2. e \in Entries => \A m \in Change : Succeeded(m) => m \in answer[e] \/ m \in unseen
    BY <1>1 DEF ListInv, AnswersHoldSuccess
  <1> QED
    BY <1>1, <1>2, ReceivedList

LEMMA NoAgentsList == ASSUME TypeOK, ListInv, NEW e \in Entry, AnswerNoAgents(e) PROVE ListInv'
  <1>1. /\ fetch[e] # "idle" /\ Received(e, {}) /\ ~Enabled
        /\ UNCHANGED <<root, kind, applied, connected, once, unseen>>
    BY DEF AnswerNoAgents, socket, Enabled
  <1> QED
    BY <1>1, ReceivedList

LEMMA FetchFailsList == ASSUME TypeOK, ListInv, NEW e \in Entry, FetchFails(e) PROVE ListInv'
  <1>1. /\ UNCHANGED <<root, kind, applied, connected, once, unseen, data, loaded>>
        /\ Settle(e) /\ fetch[e] # "idle"
    BY DEF FetchFails, socket
  <1>2. SuccessApplied' /\ \A m \in Change : Succeeded(m)' <=> Succeeded(m)
    BY <1>1, SettleList
  <1>3. /\ invalid'[e] /\ fetch'[e] = "idle"
        /\ \A x \in Entry : x # e => /\ invalid'[x] = invalid[x] /\ fetch'[x] = fetch[x]
                                    /\ answer'[x] = answer[x]
    BY DEF FetchFails, TypeOK
  <1>4. SuccessShown' /\ AnswersHoldSuccess'
    BY <1>1, <1>2, <1>3, EntriesAreEntries
       DEF ListInv, SuccessShown, AnswersHoldSuccess, Entries, Enabled
  <1>5. NoAgentsBefore'
    BY <1>1 DEF ListInv, NoAgentsBefore
  <1> QED
    BY <1>2, <1>4, <1>5 DEF ListInv

LEMMA DisconnectedList == ASSUME TypeOK, ListInv, Disconnected PROVE ListInv'
  <1>1. /\ UNCHANGED <<root, kind, stage, applied, unseen, once, data, loaded, invalid,
                       fetch, answer>>
        /\ connected /\ ~connected'
    BY DEF Disconnected, entries, calls
  <1> QED
    BY <1>1 DEF ListInv, SuccessApplied, SuccessShown, AnswersHoldSuccess, NoAgentsBefore,
                Succeeded, Entries, Enabled

\* The first connection comes before any list of the agents; a later one leaves no list fresh.
LEMMA ReconnectedList == ASSUME TypeOK, ListInv, Reconnected PROVE ListInv'
  <1>1. UNCHANGED <<root, kind, stage, applied, unseen, data, loaded>> /\ once' /\ ~connected
    BY DEF Reconnected, calls
  <1>2. SuccessApplied' /\ NoAgentsBefore'
    BY <1>1 DEF ListInv, SuccessApplied, NoAgentsBefore
  <1>3. CASE Invalidate(TRUE)
    <2>1. /\ \A e \in Entries : invalid'[e]
          /\ \A e \in Entry : fetch'[e] = "read" => fetch[e] = "read" /\ answer'[e] = answer[e]
      BY <1>3, InvalidateInv
    <2> QED
      BY <1>1, <1>2, <2>1, EntriesAreEntries
         DEF ListInv, SuccessShown, AnswersHoldSuccess, Succeeded, Entries
  <1>4. CASE ~once /\ invalid' = invalid /\ answer' = answer
             /\ (fetch' = fetch \/ FetchIfStale(shown, TRUE))
    <2>1. \A x \in Entry : fetch'[x] = "read" => fetch[x] = "read"
      BY <1>4 DEF FetchIfStale, TypeOK
    <2>2. AnswersHoldSuccess'
      BY <1>1, <1>4, <2>1, EntriesAreEntries DEF ListInv, AnswersHoldSuccess, Succeeded, Entries
    <2>3. SuccessShown'
      <3>1. CASE root = "agents"
        <4>1. \A e \in Entries : ~loaded'[e]
          BY <1>1, <1>4, <3>1, EntriesAreEntries DEF ListInv, NoAgentsBefore
        <4> QED
          BY <4>1, <1>1 DEF SuccessShown, Entries
      <3>2. CASE root # "agents"
        BY <1>1, <1>4, <3>2 DEF ListInv, SuccessShown, Succeeded, Entries, Enabled
      <3> QED
        BY <3>1, <3>2
    <2> QED
      BY <1>2, <2>2, <2>3 DEF ListInv
  <1> QED
    BY <1>3, <1>4 DEF Reconnected

LEMMA NextList == IInv /\ [Next]_vars => IInv'
  <1> SUFFICES ASSUME TypeOK, ListInv, [Next]_vars PROVE ListInv'
    BY NextType DEF IInv
  <1>1. CASE (\E e \in Entry : Open(e) \/ Collect(e)) \/ Leave \/ Focus \/ Refresh
    BY <1>1, OpenList, CollectList, LeaveList, FocusList, RefreshList
  <1>2. CASE \E m \in Change : Apply(m) \/ Succeed(m) \/ CallFails(m)
    BY <1>2, ApplyList, SucceedList, CallFailsList
  <1>3. CASE \E m \in Change, k \in {"refreshed", "optimistic", "silent"} : Submit(m, k)
    BY <1>3, SubmitList
  <1>4. CASE \E e \in Entry : Read(e) \/ Answer(e) \/ AnswerNoAgents(e) \/ FetchFails(e)
    BY <1>4, ReadList, AnswerList, NoAgentsList, FetchFailsList
  <1>5. CASE Disconnected \/ Reconnected
    BY <1>5, DisconnectedList, ReconnectedList
  <1>6. CASE UNCHANGED vars
    BY <1>6, LeaveList
  <1> QED
    BY <1>1, <1>2, <1>3, <1>4, <1>5, <1>6 DEF Next

LEMMA ListInvariant == Spec => []IInv
  <1>1. Init => IInv
    BY InitType, InitList DEF IInv
  <1> QED
    BY <1>1, NextList, PTL DEF Spec

\* A list that counts as fresh holds every change that was reported as a success, but for
\* the exceptions that the property names.
THEOREM SuccessIsShown == Spec => []SuccessShown
  <1>1. IInv => SuccessShown
    BY DEF IInv, ListInv
  <1> QED
    BY <1>1, ListInvariant, PTL

\* A list loses changes only to an answer, or when it is collected.
LEMMA StaysStep ==
    ASSUME IInv, [Next]_vars, NEW m \in Change, NEW e \in Entries, Succeeded(m), m \in data[e],
           loaded'[e], Enabled, m \notin unseen
    PROVE  m \in data'[e]
  <1> USE DEF IInv
  <1>1. e \in Entry
    BY EntriesAreEntries
  <1>2. CASE UNCHANGED data
    BY <1>2
  <1>3. ASSUME NEW x \in Entry, Collect(x) PROVE m \in data'[e]
    BY <1>1, <1>3 DEF Collect, TypeOK
  <1>4. ASSUME NEW c \in Change, NEW k \in {"refreshed", "optimistic", "silent"}, Submit(c, k)
        PROVE  m \in data'[e]
    BY <1>1, <1>4 DEF Submit, TypeOK
  <1>5. ASSUME NEW x \in Entry, Answer(x) PROVE m \in data'[e]
    <2>1. x = e => m \in answer[e]
      BY <1>5 DEF Answer, ListInv, AnswersHoldSuccess
    <2> QED
      BY <1>1, <1>5, <2>1 DEF Answer, Received, TypeOK
  <1>6. ASSUME NEW x \in Entry, AnswerNoAgents(x) PROVE FALSE
    BY <1>6 DEF AnswerNoAgents, Enabled
  <1>7. CASE \/ \E x \in Entry : Open(x) \/ Read(x) \/ FetchFails(x)
             \/ Leave \/ Focus \/ Refresh
             \/ \E c \in Change : Apply(c) \/ Succeed(c) \/ CallFails(c)
             \/ Disconnected \/ Reconnected \/ UNCHANGED vars
    <2>1. UNCHANGED data
      BY <1>7 DEF Open, Read, FetchFails, Leave, Focus, Refresh, Apply, Succeed, CallFails,
                  Disconnected, Reconnected, vars, entries
    <2> QED
      BY <1>2, <2>1
  <1> QED
    BY <1>3, <1>4, <1>5, <1>6, <1>7 DEF Next

\* What a list showed of a change that succeeded, no later answer takes away.
THEOREM SuccessIsKept == Spec => SuccessStays
  <1>1. IInv /\ [Next]_vars =>
           [\A m \in Change, e \in Entries :
               Succeeded(m) /\ m \in data[e] /\ loaded'[e] =>
                   m \in data'[e] \/ m \in unseen \/ ~Enabled]_vars
    BY StaysStep
  <1> QED
    BY <1>1, ListInvariant, PTL DEF Spec, SuccessStays

=============================================================================
