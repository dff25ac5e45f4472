------------------------------ MODULE WsClient ------------------------------
(***************************************************************************)
(* The UI's socket client, ui/web/src/api/ws-client.ts, driven by          *)
(* components/providers/ws-provider.tsx: sockets, the connect handshake,   *)
(* pending calls, the reconnection timer, and the React effects that       *)
(* follow the credentials and the connected flag of the auth store.        *)
(*                                                                         *)
(* Callbacks run one at a time on the browser's event loop; what an await  *)
(* continues with runs at the end of the callback that settled it, so a    *)
(* handler and its continuations are one action.  A browser WebSocket      *)
(* (external) delivers frames only while it is open, and closes once.      *)
(*                                                                         *)
(* Of the cached queries (TanStack Query, external) there is one list: an  *)
(* invalidation leaves its data in the cache and marks it, and what a page *)
(* asks over HTTP is under way while users and connections change.         *)
(***************************************************************************)
EXTENDS Naturals

CONSTANTS
    User,        \* who can log in
    NoUser,
    Call,        \* RPC calls of the pages
    MaxLogins,   \* bound
    MaxDrops     \* bound: connections lost, or refused by an absent server

ASSUME ClientAssumption ==
    /\ NoUser \notin User
    /\ MaxLogins \in Nat /\ MaxDrops \in Nat

Socket == 1..(MaxLogins + MaxDrops)    \* one per generation
NoSocket == 0

VARIABLES
    user,              \* auth store: whose credentials it holds
    connected,         \* auth store: the flag the pages read
    effectDue,         \* the credentials changed and React has not run the effect
    seen, once,        \* wasConnectedRef and hasConnectedOnceRef of the invalidation
    cache,             \* whose data the cached list holds
    stale,             \* it was invalidated since it came, or could not be fetched again
    asking,            \* in whose name the request under way for it was sent
    ws,                \* the client's current socket
    sock,              \* every socket the client made, by generation
    generation, intentionalClose, authenticated, timer,
    identity,          \* the user_id that was sent in the connect call of a socket
    hello,             \* the connect call of each socket
    on,                \* the pages' calls: the socket each that is pending was sent on
    logins, drops,
    crossed,           \* history: the list, not stale, came for another user than the one stored
    early,             \* history: the list, not stale, came before the first connection
    timedOut,          \* history: the connect call of the last socket timed out
    switched           \* history: a login replaced another while a socket existed

store == <<user, connected, effectDue>>
list == <<cache, stale, asking, crossed, early>>
queries == <<seen, once, list>>
client == <<ws, sock, generation, intentionalClose, authenticated, timer, identity, timedOut>>
requests == <<hello, on>>
vars == <<store, queries, client, requests, logins, drops, switched>>

Init ==
    /\ user = NoUser /\ connected = FALSE /\ effectDue = FALSE
    /\ seen = FALSE /\ once = FALSE
    /\ cache = NoUser /\ stale = FALSE /\ asking = NoUser /\ crossed = FALSE /\ early = FALSE
    /\ ws = NoSocket /\ sock = [g \in Socket |-> "none"]
    /\ generation = 0 /\ intentionalClose = FALSE /\ authenticated = FALSE /\ timer = FALSE
    /\ identity = [g \in Socket |-> NoUser]
    /\ hello = [g \in Socket |-> "idle"]
    /\ on = [c \in Call |-> NoSocket]
    /\ logins = 0 /\ drops = 0 /\ timedOut = FALSE /\ switched = FALSE

-----------------------------------------------------------------------------
(* connect(), disconnect() and what they share. *)

RejectAllPending ==
    /\ hello' = [g \in Socket |-> IF hello[g] = "waiting" THEN "done" ELSE hello[g]]
    /\ on' = [c \in Call |-> NoSocket]

Connect ==
    IF ws # NoSocket
    THEN UNCHANGED <<ws, sock, generation, intentionalClose, connected, timedOut, switched>>
    ELSE /\ generation' = generation + 1
         /\ ws' = generation'
         /\ sock' = [sock EXCEPT ![generation'] = "connecting"]
         /\ intentionalClose' = FALSE
         /\ connected' = FALSE
         /\ timedOut' = FALSE /\ switched' = FALSE

DisconnectLeavesSocket ==   \* mutant: forgets the socket without closing it
    /\ intentionalClose' = TRUE /\ timer' = FALSE /\ ws' = NoSocket
    /\ authenticated' = FALSE /\ RejectAllPending /\ connected' = FALSE /\ switched' = FALSE
    /\ UNCHANGED <<sock, generation, identity, timedOut>>

DisconnectLater ==   \* mutant: leaves everything to onclose
    /\ intentionalClose' = TRUE /\ timer' = FALSE
    /\ sock' = IF ws = NoSocket THEN sock ELSE [sock EXCEPT ![ws] = "closing"]
    /\ RejectAllPending /\ switched' = FALSE
    /\ UNCHANGED <<ws, authenticated, connected, generation, identity, timedOut>>

\* Its call of rejectAllPending ends a handshake, whose catch sets intentionalClose again.
Disconnect ==
    /\ intentionalClose' = TRUE
    /\ timer' = FALSE
    /\ sock' = IF ws = NoSocket THEN sock ELSE [sock EXCEPT ![ws] = "closing"]
    /\ ws' = NoSocket
    /\ authenticated' = FALSE
    /\ RejectAllPending
    /\ connected' = FALSE
    /\ switched' = FALSE
    /\ UNCHANGED <<generation, identity, timedOut>>

-----------------------------------------------------------------------------
(* The auth store and React's effects. *)

\* A user acts on a page React has rendered, and its timers run behind it.
Rendered == ~effectDue /\ connected = seen

\* /login is a public route: it may also replace the credentials of another user.
Login(u) ==
    /\ logins < MaxLogins /\ Rendered
    /\ logins' = logins + 1
    /\ user' = u
    /\ effectDue' = TRUE
    /\ switched' = (switched \/ (user # NoUser /\ ws # NoSocket))
    /\ UNCHANGED <<connected, queries, client, requests, drops>>

\* The user's own, or that of an HTTP answer 401, at any time.
Logout ==
    /\ user # NoUser
    /\ user' = NoUser /\ connected' = FALSE /\ effectDue' = TRUE
    /\ UNCHANGED <<queries, client, requests, logins, drops, switched>>

\* A list that a page shows is asked for again; a first load, and that of a list no page
\* shows or that its page enables in this commit only (useAgents), goes on as it was sent.
Invalidate ==
    /\ stale' = TRUE
    /\ asking' \in {asking} \cup {u \in {user} \ {NoUser} : asking = NoUser \/ cache # NoUser}
    /\ UNCHANGED cache /\ crossed' = FALSE /\ early' = FALSE

FirstConnectionOnly ==   \* mutant: invalidates on the first connection only
    IF connected /\ ~seen /\ ~once THEN Invalidate ELSE UNCHANGED list

\* invalidateQueries on every connection but the first.
Invalidation == IF connected /\ ~seen /\ once THEN Invalidate ELSE UNCHANGED list

\* The effects of one commit: the invalidation of the queries on a reconnect, then the
\* provider's connect or disconnect.
Effects ==
    /\ ~Rendered
    /\ seen' = connected
    /\ once' = (once \/ connected)
    /\ Invalidation
    /\ effectDue' = FALSE
    /\ \/ /\ effectDue /\ user # NoUser /\ Connect
          /\ UNCHANGED <<requests, authenticated, timer, identity>>
       \/ effectDue /\ user = NoUser /\ Disconnect
       \/ ~effectDue /\ UNCHANGED <<connected, client, requests, switched>>
    /\ UNCHANGED <<user, logins, drops>>

-----------------------------------------------------------------------------
(* The cached list. *)

\* Pages are there for whoever has credentials, and ask over HTTP with the stored token:
\* when they open, on focus, once the list is 30 seconds old.
Fetch ==
    /\ user # NoUser /\ Rendered /\ asking = NoUser
    /\ asking' = user
    /\ UNCHANGED <<store, seen, once, cache, stale, crossed, early, client, requests,
                   logins, drops, switched>>

Received ==
    /\ asking # NoUser
    /\ cache' = asking /\ stale' = FALSE /\ asking' = NoUser
    /\ crossed' = (asking # user) /\ early' = ~once
    /\ UNCHANGED <<store, seen, once, client, requests, logins, drops, switched>>

\* The request and its retry fail.
FetchFails ==
    /\ asking # NoUser
    /\ asking' = NoUser /\ stale' = TRUE /\ crossed' = FALSE /\ early' = FALSE
    /\ UNCHANGED <<store, seen, once, cache, client, requests, logins, drops,
                   switched>>

-----------------------------------------------------------------------------
(* The socket's callbacks. *)

Opened(g) ==
    /\ sock[g] = "connecting"
    /\ sock' = [sock EXCEPT ![g] = "open"]
    /\ IF ws = g
       THEN /\ hello' = [hello EXCEPT ![g] = "waiting"]
            /\ identity' = [identity EXCEPT ![g] = user]
       ELSE UNCHANGED <<hello, identity>>
    /\ UNCHANGED <<store, queries, ws, generation, intentionalClose, authenticated, timer,
                   timedOut, on, logins, drops, switched>>

\* The gateway accepts every connect call (websocket_router.go:72): role "user".
HelloAnswered(g) ==
    /\ sock[g] = "open" /\ hello[g] = "waiting"
    /\ hello' = [hello EXCEPT ![g] = "done"]
    /\ IF generation = g
       THEN authenticated' = TRUE /\ connected' = TRUE
       ELSE UNCHANGED <<authenticated, connected>>
    /\ UNCHANGED <<user, effectDue, queries, ws, sock, generation, intentionalClose, timer,
                   identity, timedOut, on, logins, drops, switched>>

\* The catch of authenticate: the connection is given up for good.
HelloTimesOut(g) ==
    /\ hello[g] = "waiting"
    /\ hello' = [hello EXCEPT ![g] = "done"]
    /\ IF generation = g
       THEN /\ intentionalClose' = TRUE
            /\ timedOut' = TRUE
            /\ sock' = IF ws = NoSocket THEN sock ELSE [sock EXCEPT ![ws] = "closing"]
       ELSE UNCHANGED <<intentionalClose, timedOut, sock>>
    /\ UNCHANGED <<store, queries, ws, generation, authenticated, timer, identity,
                   on, logins, drops, switched>>

OnCloseKeepsPending(g) ==   \* mutant: leaves pending calls to their timeouts
    IF ws = g
    THEN /\ ws' = NoSocket /\ authenticated' = FALSE /\ connected' = FALSE /\ switched' = FALSE
         /\ timer' = (timer \/ ~intentionalClose)
         /\ UNCHANGED <<requests, intentionalClose>>
    ELSE UNCHANGED <<ws, authenticated, connected, requests, timer, intentionalClose, switched>>

OnCloseCatchFirst(g) ==   \* mutant: the handshake's catch runs before scheduleReconnect
    IF ws = g
    THEN /\ ws' = NoSocket /\ authenticated' = FALSE /\ connected' = FALSE /\ switched' = FALSE
         /\ RejectAllPending
         /\ intentionalClose' = (intentionalClose \/ hello[g] = "waiting")
         /\ timer' = (timer \/ ~intentionalClose')
    ELSE UNCHANGED <<ws, authenticated, connected, requests, timer, intentionalClose, switched>>

\* onclose; a handshake it rejects continues with the catch after scheduleReconnect.
OnClose(g) ==
    IF ws = g
    THEN /\ ws' = NoSocket
         /\ authenticated' = FALSE
         /\ connected' = FALSE
         /\ RejectAllPending
         /\ timer' = (timer \/ ~intentionalClose)
         /\ intentionalClose' = (intentionalClose \/ hello[g] = "waiting")
         /\ switched' = FALSE
    ELSE UNCHANGED <<ws, authenticated, connected, requests, timer, intentionalClose, switched>>

Closed(g) ==
    /\ \/ sock[g] = "closing" /\ UNCHANGED drops
       \/ sock[g] \in {"connecting", "open"} /\ drops < MaxDrops /\ drops' = drops + 1
    /\ sock' = [sock EXCEPT ![g] = "closed"]
    /\ OnClose(g)
    /\ UNCHANGED <<user, effectDue, queries, generation, identity, timedOut, logins>>

ReconnectTimer ==
    /\ timer /\ connected = seen
    /\ timer' = FALSE
    /\ Connect
    /\ UNCHANGED <<user, effectDue, queries, authenticated, identity, requests, logins, drops>>

-----------------------------------------------------------------------------
(* The pages' calls. *)

\* callWithId throws unless the socket is open.
Issue(c) ==
    /\ on[c] = NoSocket
    /\ ws # NoSocket /\ sock[ws] = "open"
    /\ on' = [on EXCEPT ![c] = ws]
    /\ UNCHANGED <<store, queries, client, hello, logins, drops, switched>>

Settle(c) ==
    /\ on[c] # NoSocket
    /\ on' = [on EXCEPT ![c] = NoSocket]
    /\ UNCHANGED <<store, queries, client, hello, logins, drops, switched>>

\* handleResponse; an answer that nothing waits for any more changes nothing.
Answered(c) == on[c] # NoSocket /\ sock[on[c]] = "open" /\ Settle(c)

\* Nothing calls resetTimeout, which would put the timeout off.
CallTimesOut(c) == Settle(c)

-----------------------------------------------------------------------------
Next ==
    \/ \E u \in User : Login(u)
    \/ Logout \/ Effects \/ ReconnectTimer \/ Fetch \/ Received \/ FetchFails
    \/ \E g \in Socket : Opened(g) \/ HelloAnswered(g) \/ HelloTimesOut(g) \/ Closed(g)
    \/ \E c \in Call : Issue(c) \/ Answered(c) \/ CallTimesOut(c)

\* Effects run, timers fire, and a socket that connects or closes gets there.
Fairness ==
    /\ WF_vars(Effects)
    /\ WF_vars(ReconnectTimer)
    /\ \A g \in Socket :
        /\ WF_vars(Opened(g))
        /\ WF_vars(sock[g] = "closing" /\ Closed(g))
        /\ WF_vars(HelloTimesOut(g))

Spec == Init /\ [][Next]_vars
FairSpec == Spec /\ Fairness

-----------------------------------------------------------------------------
SocketState == {"none", "connecting", "open", "closing", "closed"}
HelloState == {"idle", "waiting", "done"}

\* ws \in Socket also bounds what the client does: it makes no more sockets than logins
\* and lost connections account for (scheduleReconnect only after a close not intended).
TypeOK ==
    /\ user \in User \cup {NoUser} /\ connected \in BOOLEAN /\ effectDue \in BOOLEAN
    /\ seen \in BOOLEAN /\ once \in BOOLEAN
    /\ cache \in User \cup {NoUser} /\ asking \in User \cup {NoUser}
    /\ stale \in BOOLEAN /\ crossed \in BOOLEAN /\ early \in BOOLEAN
    /\ ws \in Socket \cup {NoSocket} /\ sock \in [Socket -> SocketState]
    /\ generation \in Nat
    /\ intentionalClose \in BOOLEAN /\ authenticated \in BOOLEAN /\ timer \in BOOLEAN
    /\ identity \in [Socket -> User \cup {NoUser}]
    /\ hello \in [Socket -> HelloState]
    /\ on \in [Call -> Socket \cup {NoSocket}]
    /\ logins \in 0..MaxLogins /\ drops \in 0..MaxDrops
    /\ timedOut \in BOOLEAN /\ switched \in BOOLEAN

\* onmessage does not ask whether its socket was replaced, as onopen and onclose do
\* (ws-client.ts:69-79), and need not: a socket that can still deliver frames is the
\* client's current one.
OnlyCurrentDelivers ==
    \A g \in Socket : sock[g] \in {"connecting", "open"} => g = ws

\* No call, and no handshake, waits on a socket that is gone: whatever replaces or
\* closes the socket settles it first (ws-client.ts:84, 109).
PendingOnCurrent ==
    /\ \A g \in Socket : hello[g] = "waiting" => g = ws
    /\ \A c \in Call : on[c] \in {NoSocket, ws}

\* The flag the pages read and the client's own agree, whatever the order of logout,
\* handshake, close and reconnection, but for the moment between a logout and its
\* effect: the flag is told through four callbacks (ws-client.ts:61, 83, 110, 258;
\* ws-provider.tsx:28-56).
StoreAgrees == user # NoUser \/ ~effectDue => connected = authenticated

\* Calls are made in the name of the user whose credentials the store holds: the
\* gateway keeps the user_id of the connect call (websocket_router.go:82), so a
\* socket must not outlive a logout, except for a login over a live connection, which
\* connect() ignores (ws-client.ts:58, ws-provider.tsx:85-91).
SpeaksForUser ==
    authenticated /\ user # NoUser => identity[ws] = user \/ switched

\* Nobody clears the cached queries at logout; the invalidation of a reconnect is what
\* keeps one user's data from passing for the next one's (use-query-invalidation.ts:66-78).
\* It is shown until the list comes again, but no longer as fresh, except what was asked
\* for in another's name and came late, what came before the first connection, which
\* invalidates nothing, and for a login over a live connection.
CacheOfUser ==
    connected /\ Rendered /\ cache # NoUser /\ ~stale =>
        cache = user \/ crossed \/ early \/ switched

\* A client with credentials and no socket has its reconnection scheduled, although
\* the catch of a broken handshake declares the close intentional: the timer was set
\* just before.  Only a connect call that timed out ends it for good
\* (ws-client.ts:78-89, 259-270).
ReconnectScheduled ==
    ws = NoSocket /\ user # NoUser /\ ~effectDue => timer \/ timedOut

\* After any loss a logged-in client is connected again, unless a connect call timed out.
Recovers ==
    user # NoUser /\ ~connected ~> connected \/ user = NoUser \/ timedOut
=============================================================================
