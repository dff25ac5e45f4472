---------------------------- MODULE PageQueries ----------------------------
(***************************************************************************)
(* The lists of the UI's pages: the TanStack Query cache (external) under  *)
(* the hooks use-agents, use-agent-detail, use-providers, use-mcp,         *)
(* use-skills, use-builtin-tools and use-memory, and the server they read  *)
(* and write over HTTP.  A behaviour is about one of the lists; only that  *)
(* of the documents has several cache entries, one for each filter.        *)
(*                                                                         *)
(* A change is a call of a hook's create, update, delete, grant...         *)
(* What the server holds, an answer or a cached list is the set of the     *)
(* changes one sees in it.                                                 *)
(***************************************************************************)
CONSTANTS
    Entry,       \* cache entries under the root key of the list
    Single,      \* the only one of a list without filters
    Change       \* calls of the hooks' functions

None == "none"   \* no entry

ASSUME QueriesAssumption == Single \in Entry /\ None \notin Entry

VARIABLES
    root,                       \* which list
    shown,                      \* the entry the page observes, if any
    data, loaded,               \* per entry: the list, once there is one
    invalid, error,             \* per entry: marked invalidated, its last fetch failed
    fetch, answer,              \* per entry: its fetch, and what the server read for it
    kind, stage,                \* the changes: what the hook does, how far the call is
    waits,                      \* the entry whose fetch a call awaits before it returns
    applied,                    \* the changes the server made
    connected, once,            \* the socket: the flag of the auth store, and hasConnectedOnceRef
    unseen                      \* history: done, but a list may count as fresh without it

entries == <<data, loaded, invalid, error, fetch, answer>>
calls == <<kind, stage, waits, applied>>
socket == <<connected, once>>
vars == <<root, shown, entries, calls, socket, unseen>>

-----------------------------------------------------------------------------
(* What the functions of each hook do with the list: refreshed ones        *)
(* invalidate it once they succeeded, optimistic ones also write the       *)
(* change to it first, silent ones do neither.                             *)

UseAgents == {"refreshed"}
UseAgentDetail == {"silent"}
UseProviders == {"refreshed"}
UseMCP == {"refreshed"}
UseSkills == {"refreshed"}
SkillGrants == {"silent"}
UseBuiltinTools == {"optimistic", "refreshed"}
UseMemoryDocuments == {"refreshed"}

Kinds == [agents       |-> UseAgents \cup UseAgentDetail,
          providers    |-> UseProviders,
          mcp          |-> UseMCP,
          skills       |-> UseSkills \cup SkillGrants,
          builtinTools |-> UseBuiltinTools,
          memory       |-> UseMemoryDocuments]

Entries == IF root = "memory" THEN Entry ELSE {Single}

\* The list of the agents is not fetched while the socket is down.
Enabled == root = "agents" => connected

Init ==
    /\ root \in DOMAIN Kinds
    /\ shown = None
    /\ data = [e \in Entry |-> {}] /\ loaded = [e \in Entry |-> FALSE]
    /\ invalid = [e \in Entry |-> FALSE]
    /\ error = [e \in Entry |-> FALSE]
    /\ fetch = [e \in Entry |-> "idle"] /\ answer = [e \in Entry |-> {}]
    /\ kind = [m \in Change |-> "refreshed"] /\ stage = [m \in Change |-> "idle"]
    /\ waits = [m \in Change |-> None] /\ applied = {}
    /\ unseen = {}
    \* Only the list of the agents notices the first connection.
    /\ connected \in (IF root = "agents" THEN BOOLEAN ELSE {TRUE})
    /\ once = connected

-----------------------------------------------------------------------------
(* The cache. *)

Stale(e) == ~loaded[e] \/ invalid[e]

\* A query that is observed and stale is fetched, unless it is being fetched; an answer
\* may have become older than staleTime at any time.
FetchIfStale(e, isConnected) ==
    \E old \in BOOLEAN :
        fetch' = IF (Stale(e) \/ old) /\ fetch[e] = "idle" /\ (root = "agents" => isConnected)
                 THEN [fetch EXCEPT ![e] = "sent"] ELSE fetch

\* The entry whose fetch an invalidation starts; one with a list loses its earlier fetch.
Restarted(e, isConnected) ==
    /\ e = shown /\ (root = "agents" => isConnected)
    /\ loaded[e] \/ fetch[e] = "idle"

InvalidateMarkOnly(isConnected) ==   \* mutant: leaves a fetch that is under way
    /\ invalid' = [e \in Entry |-> e \in Entries]
    /\ fetch' = [e \in Entry |-> IF Restarted(e, isConnected) /\ fetch[e] = "idle"
                                 THEN "sent" ELSE fetch[e]]
    /\ answer' = answer

\* invalidateQueries with the root key.
Invalidate(isConnected) ==
    /\ invalid' = [e \in Entry |-> e \in Entries]
    /\ fetch' = [e \in Entry |-> IF Restarted(e, isConnected) THEN "sent" ELSE fetch[e]]
    /\ answer' = [e \in Entry |-> IF Restarted(e, isConnected) THEN {} ELSE answer[e]]

\* Calls that wait for the fetch of e return once it ends.
Settle(e) ==
    /\ stage' = [m \in Change |-> IF waits[m] = e THEN "done" ELSE stage[m]]
    /\ waits' = [m \in Change |-> IF waits[m] = e THEN None ELSE waits[m]]

-----------------------------------------------------------------------------
(* The page. *)

Open(e) ==
    /\ shown = None /\ e \in Entries
    /\ shown' = e
    /\ FetchIfStale(e, connected)
    /\ UNCHANGED <<root, data, loaded, invalid, error, answer, calls, socket, unseen>>

\* The user leaves the page, or chooses another filter; a fetch goes on.
Leave ==
    /\ shown # None
    /\ shown' = None
    /\ UNCHANGED <<root, entries, calls, socket, unseen>>

\* gcTime after the last page left.
Collect(e) ==
    /\ shown # e /\ loaded[e] /\ fetch[e] = "idle"
    /\ loaded' = [loaded EXCEPT ![e] = FALSE]
    /\ data' = [data EXCEPT ![e] = {}]
    /\ invalid' = [invalid EXCEPT ![e] = FALSE]
    /\ error' = [error EXCEPT ![e] = FALSE]
    /\ UNCHANGED <<root, shown, fetch, answer, calls, socket, unseen>>

\* refetchOnWindowFocus.
Focus ==
    /\ shown # None
    /\ FetchIfStale(shown, connected)
    /\ UNCHANGED <<root, shown, data, loaded, invalid, error, answer, calls, socket,
                   unseen>>

\* The refresh button.
Refresh ==
    /\ shown # None
    /\ Invalidate(connected)
    /\ UNCHANGED <<root, shown, data, loaded, error, calls, socket, unseen>>

-----------------------------------------------------------------------------
(* Calls of the hooks' functions. *)

Optimistic(e, m, k) == k = "optimistic" /\ e \in Entries /\ loaded[e]

\* setQueryData: also ends an invalidation, and the entry counts as young.
Submit(m, k) ==
    /\ shown # None /\ stage[m] = "idle" /\ k \in Kinds[root]
    /\ kind' = [kind EXCEPT ![m] = k]
    /\ stage' = [stage EXCEPT ![m] = "sent"]
    /\ data' = [e \in Entry |-> IF Optimistic(e, m, k) THEN data[e] \cup {m} ELSE data[e]]
    /\ invalid' = [e \in Entry |-> invalid[e] /\ ~Optimistic(e, m, k)]
    /\ error' = [e \in Entry |-> error[e] /\ ~Optimistic(e, m, k)]
    /\ unseen' = unseen \cup {c \in Change : \E e \in Entries :
                                  Optimistic(e, m, k) /\ invalid[e] /\ c \notin data[e]}
    /\ UNCHANGED <<root, shown, loaded, fetch, answer, waits, applied, socket>>

Apply(m) ==
    /\ stage[m] = "sent"
    /\ stage' = [stage EXCEPT ![m] = "applied"]
    /\ applied' = applied \cup {m}
    /\ UNCHANGED <<root, shown, entries, kind, waits, socket, unseen>>

\* An entry an invalidation leaves with a fetch that the server read before the change.
Overtaken(m, e) == fetch[e] = "read" /\ m \notin answer[e] /\ ~Restarted(e, connected)

SucceedQuietly(m) ==   \* mutant: reports success, and does not invalidate
    /\ stage[m] = "applied"
    /\ stage' = [stage EXCEPT ![m] = "done"]
    /\ UNCHANGED <<root, shown, entries, kind, waits, applied, socket, unseen>>

\* The answer: await invalidate() waits for the fetch it started, then success is shown.
Succeed(m) ==
    /\ stage[m] = "applied"
    /\ IF kind[m] = "silent"
       THEN /\ stage' = [stage EXCEPT ![m] = "done"]
            /\ UNCHANGED <<invalid, fetch, answer, waits, unseen>>
       ELSE /\ Invalidate(connected)
            /\ IF shown = None \/ ~Enabled
               THEN stage' = [stage EXCEPT ![m] = "done"] /\ UNCHANGED waits
               ELSE /\ stage' = [stage EXCEPT ![m] = "refreshing"]
                    /\ waits' = [waits EXCEPT ![m] = shown]
            /\ unseen' = IF \E e \in Entries : Overtaken(m, e)
                         THEN unseen \cup {m} ELSE unseen
    /\ UNCHANGED <<root, shown, data, loaded, error, kind, applied, socket>>

\* The server refuses, is not there, or its answer is lost: the hook shows an error.
CallFails(m) ==
    /\ stage[m] \in {"sent", "applied"}
    /\ stage' = [stage EXCEPT ![m] = "failed"]
    /\ UNCHANGED <<root, shown, entries, kind, waits, applied, socket, unseen>>

-----------------------------------------------------------------------------
(* Fetches of the lists. *)

\* The server lists what it holds.
Read(e) ==
    /\ fetch[e] = "sent"
    /\ fetch' = [fetch EXCEPT ![e] = "read"]
    /\ answer' = [answer EXCEPT ![e] = applied]
    /\ UNCHANGED <<root, shown, data, loaded, invalid, error, calls, socket, unseen>>

Received(e, list) ==
    /\ data' = [data EXCEPT ![e] = list]
    /\ loaded' = [loaded EXCEPT ![e] = TRUE]
    /\ invalid' = [invalid EXCEPT ![e] = FALSE]
    /\ error' = [error EXCEPT ![e] = FALSE]
    /\ fetch' = [fetch EXCEPT ![e] = "idle"]
    /\ answer' = [answer EXCEPT ![e] = {}]
    /\ Settle(e)

Answer(e) ==
    /\ fetch[e] = "read"
    /\ Received(e, answer[e])
    /\ UNCHANGED <<root, shown, kind, applied, socket, unseen>>

\* useAgents: without the server and without the socket, there are no agents.
AnswerNoAgents(e) ==
    /\ root = "agents" /\ ~connected
    /\ fetch[e] \in {"sent", "read"}
    /\ Received(e, {})
    /\ UNCHANGED <<root, shown, kind, applied, socket, unseen>>

\* The retry failed too; invalidateQueries swallows the error.
FetchFails(e) ==
    /\ fetch[e] \in {"sent", "read"} /\ (root = "agents" => connected)
    /\ error' = [error EXCEPT ![e] = TRUE]
    /\ invalid' = [invalid EXCEPT ![e] = TRUE]
    /\ fetch' = [fetch EXCEPT ![e] = "idle"]
    /\ answer' = [answer EXCEPT ![e] = {}]
    /\ Settle(e)
    /\ UNCHANGED <<root, shown, data, loaded, kind, applied, socket, unseen>>

-----------------------------------------------------------------------------
(* The socket. *)

Disconnected ==
    /\ connected
    /\ connected' = FALSE
    /\ UNCHANGED <<root, shown, entries, calls, once, unseen>>

ReconnectedLater ==   \* mutant: the list that is enabled waits for the next focus
    /\ ~connected
    /\ connected' = TRUE /\ once' = TRUE
    /\ IF ~once THEN UNCHANGED <<fetch, invalid, answer>> ELSE Invalidate(TRUE)
    /\ UNCHANGED <<root, shown, data, loaded, error, calls, unseen>>

\* The first connection enables the list of the agents; a later one invalidates all queries.
Reconnected ==
    /\ ~connected
    /\ connected' = TRUE /\ once' = TRUE
    /\ IF ~once
       THEN /\ IF shown = None THEN UNCHANGED fetch ELSE FetchIfStale(shown, TRUE)
            /\ UNCHANGED <<invalid, answer>>
       ELSE Invalidate(TRUE)
    /\ UNCHANGED <<root, shown, data, loaded, error, calls, unseen>>

-----------------------------------------------------------------------------

Next ==
    \/ \E e \in Entry : Open(e) \/ Collect(e)
    \/ Leave \/ Focus \/ Refresh
    \/ \E m \in Change : Apply(m) \/ Succeed(m) \/ CallFails(m)
    \/ \E m \in Change, k \in {"refreshed", "optimistic", "silent"} : Submit(m, k)
    \/ \E e \in Entry : Read(e) \/ Answer(e) \/ AnswerNoAgents(e) \/ FetchFails(e)
    \/ Disconnected \/ Reconnected

Fairness == \A e \in Entry : WF_vars(Read(e)) /\ WF_vars(Answer(e))

Spec == Init /\ [][Next]_vars /\ Fairness

-----------------------------------------------------------------------------
(* Properties. *)

\* Types, and a call waits for an entry exactly as long as it says that it refreshes.
TypeOK ==
    /\ root \in DOMAIN Kinds /\ shown \in Entry \cup {None}
    /\ data \in [Entry -> SUBSET Change] /\ loaded \in [Entry -> BOOLEAN]
    /\ invalid \in [Entry -> BOOLEAN]
    /\ error \in [Entry -> BOOLEAN]
    /\ fetch \in [Entry -> {"idle", "sent", "read"}] /\ answer \in [Entry -> SUBSET Change]
    /\ kind \in [Change -> {"refreshed", "optimistic", "silent"}]
    /\ stage \in [Change -> {"idle", "sent", "applied", "refreshing", "done", "failed"}]
    /\ waits \in [Change -> Entry \cup {None}] /\ applied \subseteq Change
    /\ \A m \in Change : waits[m] # None <=> stage[m] = "refreshing"
    /\ connected \in BOOLEAN /\ once \in BOOLEAN
    /\ unseen \subseteq Change

Succeeded(m) == stage[m] \in {"refreshing", "done"} /\ kind[m] # "silent"

\* A list that counts as fresh holds every change whose call succeeded, except when a
\* fetch the invalidation could not restart overtook it, when an optimistic write ended
\* the invalidation, or when the fallback of useAgents emptied the list for as long as
\* the socket is down: await invalidate() in every hook.
SuccessShown ==
    \A m \in Change, e \in Entries :
        Succeeded(m) /\ loaded[e] /\ ~invalid[e] =>
            m \in data[e] \/ m \in unseen \/ ~Enabled

\* What a list showed of a change that succeeded, no later answer takes away again: the
\* fetches that an invalidation replaces are not heard.
SuccessStays ==
    [][\A m \in Change, e \in Entries :
           Succeeded(m) /\ m \in data[e] /\ loaded'[e] =>
               m \in data'[e] \/ m \in unseen \/ ~Enabled]_vars

\* The page that is shown gets its list, or an error.
PageLoads ==
    \A e \in Entry :
        shown = e /\ Enabled ~> loaded[e] \/ error[e] \/ shown # e \/ ~Enabled

=============================================================================
