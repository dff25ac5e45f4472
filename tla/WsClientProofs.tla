--------------------------- MODULE WsClientProofs ---------------------------
(***************************************************************************)
(* Theorems about WsClient, for any users, calls, logins and losses that   *)
(* satisfy ClientAssumption.                                               *)
(***************************************************************************)
EXTENDS WsClient, TLAPS

One(b) == IF b THEN 1 ELSE 0

(* The inductive invariant. *)

\* Every socket is paid for by a login or a loss: one that is still due has its own.
Paid == generation + One(timer) + One(effectDue /\ user # NoUser) <= logins + drops

\* Sockets are numbered in order, and the current one is the last.
Numbered ==
    /\ ws \in {NoSocket, generation}
    /\ \A g \in Socket : g > generation => sock[g] = "none"

\* A handshake runs on the current socket, before the client is authenticated, in the
\* name of the stored user as far as an authenticated connection is.
Handshake ==
    /\ \A g \in Socket : hello[g] = "waiting" =>
          g = ws /\ (user # NoUser => identity[g] = user \/ switched)
    /\ \A g \in Socket : sock[g] \in {"none", "connecting"} => hello[g] = "idle"
    /\ authenticated => hello[ws] = "done"

\* The store says connected only of an authenticated client, which has a socket.
Told ==
    /\ connected => authenticated
    /\ authenticated => ws # NoSocket
    /\ StoreAgrees

\* Nothing is left of a client whose logout has taken effect.
LoggedOut == user = NoUser /\ ~effectDue => ws = NoSocket /\ ~timer

\* Only a handshake that timed out makes the close of a current socket intentional, and
\* only then does the client itself close a socket that it keeps.
Intent ==
    /\ ws # NoSocket /\ intentionalClose => timedOut
    /\ ws # NoSocket /\ sock[ws] = "closing" => intentionalClose

\* A page that has seen the connection has not lost it yet, unless its socket is gone.
Seen ==
    /\ seen /\ ws # NoSocket => authenticated
    /\ seen => once

\* The list is of the stored user, or counts as stale, or came too early or too late.
CacheInv ==
    /\ ~once /\ cache # NoUser /\ ~stale => early
    /\ connected /\ seen /\ cache # NoUser /\ ~stale =>
          cache = user \/ crossed \/ early \/ switched

IInv ==
    /\ TypeOK /\ Paid /\ Numbered /\ Handshake /\ Told /\ LoggedOut /\ Intent /\ Seen /\
       CacheInv
    /\ OnlyCurrentDelivers /\ PendingOnCurrent /\ SpeaksForUser /\ ReconnectScheduled

-----------------------------------------------------------------------------
LEMMA InitInv == Init => IInv
<1> SUFFICES ASSUME Init PROVE IInv
  OBVIOUS
<1> USE ClientAssumption DEF Init, NoSocket
<1>1. TypeOK
  <2>1. sock \in [Socket -> SocketState] /\ identity \in [Socket -> User \cup {NoUser}]
    BY DEF SocketState
  <2>2. hello \in [Socket -> HelloState]
    BY DEF HelloState
  <2>3. on \in [Call -> Socket \cup {NoSocket}]
    OBVIOUS
  <2>4. logins \in 0..MaxLogins /\ drops \in 0..MaxDrops /\ generation \in Nat
    OBVIOUS
  <2>5. /\ user \in User \cup {NoUser} /\ cache \in User \cup {NoUser}
        /\ asking \in User \cup {NoUser}
    OBVIOUS
  <2>6. ws \in Socket \cup {NoSocket}
    OBVIOUS
  <2> QED
    BY <2>1, <2>2, <2>3, <2>4, <2>5, <2>6, Zenon DEF TypeOK
<1>2. Paid /\ Numbered
  BY DEF Paid, One, Numbered
<1>3. Handshake /\ Told /\ LoggedOut /\ Intent /\ Seen /\ CacheInv
  BY DEF Handshake, Told, LoggedOut, StoreAgrees, Intent, Seen, CacheInv
<1>4. OnlyCurrentDelivers /\ PendingOnCurrent /\ SpeaksForUser /\ ReconnectScheduled
  BY DEF OnlyCurrentDelivers, PendingOnCurrent, SpeaksForUser, ReconnectScheduled
<1> QED
  BY <1>1, <1>2, <1>3, <1>4 DEF IInv

LEMMA StutterInv == IInv /\ UNCHANGED vars => IInv'
BY DEF IInv, TypeOK, Paid, One, Numbered, Handshake, Told, LoggedOut, StoreAgrees, Intent,
   Seen, CacheInv,
   OnlyCurrentDelivers, PendingOnCurrent, SpeaksForUser, ReconnectScheduled,
   vars, store, queries, list, client, requests

LEMMA LoginInv == ASSUME NEW u \in User, IInv, Login(u) PROVE IInv'
<1> USE ClientAssumption DEF Login, Rendered, store, queries, list, client, requests, NoSocket,
   IInv, TypeOK
<1>1. TypeOK'
  <2>0. TypeOK
    OBVIOUS
  <2>1. /\ user' \in User \cup {NoUser} /\ effectDue' \in BOOLEAN /\ logins' \in 0..MaxLogins
        /\ switched' \in BOOLEAN
    OBVIOUS
  <2>2. UNCHANGED <<connected, seen, once, cache, stale, asking, crossed, early>>
    OBVIOUS
  <2>3. UNCHANGED <<ws, sock, generation, intentionalClose, authenticated, timer, identity,
                    timedOut, hello, on, drops>>
    OBVIOUS
  <2> HIDE DEF Login, Rendered, store, queries, list, client, requests, IInv
  <2> QED
    BY <2>0, <2>1, <2>2, <2>3
<1>2. Paid'
  BY DEF Paid, One
<1>3. Handshake'
  <2>1. ASSUME NEW g \in Socket, hello[g] = "waiting" PROVE g = ws /\ switched'
    <3>1. g = ws /\ ws # NoSocket
      BY <2>1 DEF Handshake, Socket
    <3>2. user # NoUser
      BY <3>1 DEF LoggedOut
    <3>3. switched'
      BY <3>1, <3>2, Zenon
    <3> QED
      BY <3>1, <3>3
  <2> QED
    BY <2>1 DEF Handshake
<1>4. Told'
  BY DEF Told, StoreAgrees
<1>5. LoggedOut'
  BY DEF LoggedOut
<1>6. CacheInv'
  BY DEF CacheInv, Told
<1>7. SpeaksForUser'
  BY DEF SpeaksForUser, Told, LoggedOut
<1>8. ReconnectScheduled'
  BY DEF ReconnectScheduled
<1>9. Numbered' /\ Intent' /\ Seen' /\ OnlyCurrentDelivers' /\ PendingOnCurrent'
  BY DEF Numbered, Intent, Seen, OnlyCurrentDelivers, PendingOnCurrent
<1> QED
  BY <1>1, <1>2, <1>3, <1>4, <1>5, <1>6, <1>7, <1>8, <1>9

LEMMA LogoutInv == ASSUME IInv, Logout PROVE IInv'
<1> USE ClientAssumption DEF Logout, store, queries, list, client, requests, NoSocket, IInv,
   TypeOK
<1>1. TypeOK'
  <2>0. TypeOK
    OBVIOUS
  <2>1. user' \in User \cup {NoUser} /\ connected' \in BOOLEAN /\ effectDue' \in BOOLEAN
    OBVIOUS
  <2>2. UNCHANGED <<seen, once, cache, stale, asking, crossed, early>>
    OBVIOUS
  <2>3. UNCHANGED <<ws, sock, generation, intentionalClose, authenticated, timer, identity,
                    timedOut, hello, on, logins, drops, switched>>
    OBVIOUS
  <2> HIDE DEF Logout, store, queries, list, client, requests, IInv
  <2> QED
    BY <2>0, <2>1, <2>2, <2>3
<1>2. Paid'
  BY DEF Paid, One
<1>3. Handshake'
  BY DEF Handshake
<1>4. Told'
  BY DEF Told, StoreAgrees
<1>5. LoggedOut'
  BY DEF LoggedOut
<1>6. CacheInv'
  BY DEF CacheInv
<1>7. SpeaksForUser'
  BY DEF SpeaksForUser
<1>8. ReconnectScheduled'
  BY DEF ReconnectScheduled
<1>9. Numbered' /\ Intent' /\ Seen' /\ OnlyCurrentDelivers' /\ PendingOnCurrent'
  BY DEF Numbered, Intent, Seen, OnlyCurrentDelivers, PendingOnCurrent
<1> QED
  BY <1>1, <1>2, <1>3, <1>4, <1>5, <1>6, <1>7, <1>8, <1>9

LEMMA FetchInv == ASSUME IInv, Fetch PROVE IInv'
<1> USE ClientAssumption DEF Fetch, store, queries, list, client, requests, NoSocket, IInv,
   TypeOK
<1>1. TypeOK'
  BY DEF Socket, SocketState, HelloState
<1>2. CacheInv'
  BY DEF CacheInv
<1>3. Paid' /\ Numbered' /\ Handshake' /\ Told' /\ LoggedOut' /\ Intent' /\ Seen'
   /\ OnlyCurrentDelivers' /\ PendingOnCurrent' /\ SpeaksForUser' /\ ReconnectScheduled'
  BY DEF Paid, One, Numbered, Handshake, Told, StoreAgrees, LoggedOut, Intent, Seen,
     OnlyCurrentDelivers, PendingOnCurrent, SpeaksForUser, ReconnectScheduled
<1> QED
  BY <1>1, <1>2, <1>3

LEMMA ReceivedInv == ASSUME IInv, Received PROVE IInv'
<1> USE ClientAssumption DEF Received, store, queries, list, client, requests, NoSocket, IInv,
   TypeOK
<1>1. TypeOK'
  <2>0. TypeOK
    OBVIOUS
  <2>1. /\ cache' \in User \cup {NoUser} /\ asking' \in User \cup {NoUser} /\ stale' \in BOOLEAN
        /\ crossed' \in BOOLEAN /\ early' \in BOOLEAN
    BY Zenon
  <2>2. UNCHANGED <<user, connected, effectDue, seen, once>>
    OBVIOUS
  <2>3. UNCHANGED <<ws, sock, generation, intentionalClose, authenticated, timer, identity,
                    timedOut, hello, on, logins, drops, switched>>
    OBVIOUS
  <2> HIDE DEF Received, store, queries, list, client, requests, IInv
  <2> QED
    BY <2>0, <2>1, <2>2, <2>3
<1>2. CacheInv'
  BY DEF CacheInv
<1>3. Paid' /\ Numbered' /\ Handshake' /\ Told' /\ LoggedOut' /\ Intent' /\ Seen'
   /\ OnlyCurrentDelivers' /\ PendingOnCurrent' /\ SpeaksForUser' /\ ReconnectScheduled'
  BY DEF Paid, One, Numbered, Handshake, Told, StoreAgrees, LoggedOut, Intent, Seen,
     OnlyCurrentDelivers, PendingOnCurrent, SpeaksForUser, ReconnectScheduled
<1> QED
  BY <1>1, <1>2, <1>3

LEMMA FetchFailsInv == ASSUME IInv, FetchFails PROVE IInv'
<1> USE ClientAssumption DEF FetchFails, store, queries, list, client, requests, NoSocket, IInv,
   TypeOK
<1>1. TypeOK'
  <2>0. TypeOK
    OBVIOUS
  <2>1. /\ asking' \in User \cup {NoUser} /\ stale' \in BOOLEAN
        /\ crossed' \in BOOLEAN /\ early' \in BOOLEAN
    BY Zenon
  <2>2. UNCHANGED <<user, connected, effectDue, seen, once, cache>>
    OBVIOUS
  <2>3. UNCHANGED <<ws, sock, generation, intentionalClose, authenticated, timer, identity,
                    timedOut, hello, on, logins, drops, switched>>
    OBVIOUS
  <2> HIDE DEF FetchFails, store, queries, list, client, requests, IInv
  <2> QED
    BY <2>0, <2>1, <2>2, <2>3
<1>2. CacheInv'
  BY DEF CacheInv
<1>3. Paid' /\ Numbered' /\ Handshake' /\ Told' /\ LoggedOut' /\ Intent' /\ Seen'
   /\ OnlyCurrentDelivers' /\ PendingOnCurrent' /\ SpeaksForUser' /\ ReconnectScheduled'
  BY DEF Paid, One, Numbered, Handshake, Told, StoreAgrees, LoggedOut, Intent, Seen,
     OnlyCurrentDelivers, PendingOnCurrent, SpeaksForUser, ReconnectScheduled
<1> QED
  BY <1>1, <1>2, <1>3

LEMMA OpenedInv == ASSUME NEW g \in Socket, IInv, Opened(g) PROVE IInv'
<1> USE ClientAssumption DEF Opened, store, queries, list, client, requests, NoSocket, IInv,
   TypeOK
<1>1. TypeOK'
  BY DEF Socket, SocketState, HelloState
<1>2. Numbered'
  BY DEF Numbered
<1>3. Handshake'
  BY DEF Handshake
<1>4. Intent'
  BY DEF Intent
<1>5. OnlyCurrentDelivers'
  BY DEF OnlyCurrentDelivers
<1>6. PendingOnCurrent'
  BY DEF PendingOnCurrent
<1>7. SpeaksForUser'
  BY DEF SpeaksForUser
<1>8. Paid' /\ Told' /\ LoggedOut' /\ Seen' /\ CacheInv' /\ ReconnectScheduled'
  BY DEF Paid, One, Told, StoreAgrees, LoggedOut, Seen, CacheInv, ReconnectScheduled
<1> QED
  BY <1>1, <1>2, <1>3, <1>4, <1>5, <1>6, <1>7, <1>8

LEMMA HelloAnsweredInv == ASSUME NEW g \in Socket, IInv, HelloAnswered(g) PROVE IInv'
<1> USE ClientAssumption DEF HelloAnswered, store, queries, list, client, requests, NoSocket,
   IInv, TypeOK
<1>1. TypeOK'
  <2>1. ws = g /\ generation = g
    BY DEF HelloAnswered, OnlyCurrentDelivers, Numbered, Socket
  <2>2. authenticated' = TRUE /\ connected' = TRUE
    BY <2>1 DEF HelloAnswered
  <2> QED
    BY <2>1, <2>2 DEF HelloState
<1>2. Handshake'
  BY DEF Handshake
<1>3. Told'
  <2>1. ws = g /\ generation = g
    BY DEF HelloAnswered, OnlyCurrentDelivers, Numbered, Socket
  <2>2. authenticated' = TRUE /\ connected' = TRUE
    BY <2>1 DEF HelloAnswered
  <2> QED
    BY <2>1, <2>2 DEF Told, StoreAgrees, Socket
<1>4. Seen'
  BY DEF Seen
<1>5. CacheInv'
  BY DEF CacheInv, Seen, Handshake, Socket
<1>6. PendingOnCurrent'
  BY DEF PendingOnCurrent
<1>7. SpeaksForUser'
  <2>1. ws = g /\ generation = g
    BY DEF HelloAnswered, OnlyCurrentDelivers, Numbered, Socket
  <2>2. authenticated' = TRUE /\ connected' = TRUE
    BY <2>1 DEF HelloAnswered
  <2> QED
    BY <2>1, <2>2 DEF SpeaksForUser, Handshake
<1>8. Paid' /\ Numbered' /\ LoggedOut' /\ Intent' /\ OnlyCurrentDelivers'
   /\ ReconnectScheduled'
  BY DEF Paid, One, Numbered, LoggedOut, Intent, OnlyCurrentDelivers, ReconnectScheduled
<1> QED
  BY <1>1, <1>2, <1>3, <1>4, <1>5, <1>6, <1>7, <1>8

LEMMA HelloTimesOutInv == ASSUME NEW g \in Socket, IInv, HelloTimesOut(g) PROVE IInv'
<1> USE ClientAssumption DEF HelloTimesOut, store, queries, list, client, requests, NoSocket,
   IInv, TypeOK
<1>1. TypeOK'
  <2>1. sock' \in [Socket -> SocketState]
    BY DEF SocketState
  <2>2. hello' \in [Socket -> HelloState]
    BY DEF HelloState
  <2>3. intentionalClose' \in BOOLEAN /\ timedOut' \in BOOLEAN
    OBVIOUS
  <2> QED
    BY <2>1, <2>2, <2>3
<1>2. Numbered'
  BY DEF Numbered
<1>3. Handshake'
  BY DEF Handshake
<1>4. Intent'
  BY DEF Intent
<1>5. OnlyCurrentDelivers'
  BY DEF OnlyCurrentDelivers
<1>6. PendingOnCurrent'
  BY DEF PendingOnCurrent
<1>7. ReconnectScheduled'
  BY DEF ReconnectScheduled
<1>8. Paid' /\ Told' /\ LoggedOut' /\ Seen' /\ CacheInv' /\ SpeaksForUser'
  BY DEF Paid, One, Told, StoreAgrees, LoggedOut, Seen, CacheInv, SpeaksForUser
<1> QED
  BY <1>1, <1>2, <1>3, <1>4, <1>5, <1>6, <1>7, <1>8

LEMMA ClosedInv == ASSUME NEW g \in Socket, IInv, Closed(g) PROVE IInv'
<1> USE ClientAssumption DEF Closed, OnClose, RejectAllPending, store, queries, list,
   client, requests, NoSocket, IInv, TypeOK
<1>1. TypeOK'
  <2>0. TypeOK
    OBVIOUS
  <2>1. sock' \in [Socket -> SocketState]
    BY DEF SocketState
  <2>2. hello' \in [Socket -> HelloState] /\ on' \in [Call -> Socket \cup {NoSocket}]
    BY DEF HelloState
  <2>3. timer' \in BOOLEAN /\ intentionalClose' \in BOOLEAN
    BY Zenon
  <2>4. drops' \in 0..MaxDrops
    OBVIOUS
  <2>5. /\ ws' \in {ws, NoSocket} /\ authenticated' \in BOOLEAN /\ connected' \in BOOLEAN
        /\ switched' \in BOOLEAN
    OBVIOUS
  <2>6. UNCHANGED <<user, effectDue, seen, once, cache, stale, asking, crossed, early>>
    OBVIOUS
  <2>7. UNCHANGED <<generation, identity, timedOut, logins>>
    OBVIOUS
  <2> HIDE DEF Closed, OnClose, RejectAllPending, store, queries, list, client, requests, IInv
  <2> QED
    BY <2>0, <2>1, <2>2, <2>3, <2>4, <2>5, <2>6, <2>7
<1>2. Paid'
  <2>1. CASE sock[g] = "closing" /\ UNCHANGED drops
    <3>1. ws = g => timer' = timer
      BY <2>1 DEF Intent, Socket
    <3> QED
      BY <2>1, <3>1 DEF Paid, One
  <2>2. CASE drops' = drops + 1
    <3>1. One(timer') \in {0, 1} /\ One(timer) \in {0, 1}
      BY DEF One
    <3> QED
      BY <2>2, <3>1 DEF Paid, One
  <2> QED
    BY <2>1, <2>2
<1>3. Numbered'
  BY DEF Numbered
<1>4. Handshake'
  BY DEF Handshake
<1>5. Told'
  BY DEF Told, StoreAgrees
<1>6. LoggedOut'
  BY DEF LoggedOut, Numbered, Socket
<1>7. Intent'
  BY DEF Intent
<1>8. Seen'
  BY DEF Seen
<1>9. CacheInv'
  BY DEF CacheInv
<1>10. OnlyCurrentDelivers'
  BY DEF OnlyCurrentDelivers
<1>11. PendingOnCurrent'
  BY DEF PendingOnCurrent
<1>12. SpeaksForUser'
  BY DEF SpeaksForUser
<1>13. ReconnectScheduled'
  BY DEF ReconnectScheduled, Intent, Socket
<1> QED
  BY <1>1, <1>2, <1>3, <1>4, <1>5, <1>6, <1>7, <1>8, <1>9, <1>10, <1>11, <1>12, <1>13

LEMMA ReconnectTimerInv == ASSUME IInv, ReconnectTimer PROVE IInv'
<1> USE ClientAssumption DEF ReconnectTimer, Connect, store, queries, list, client, requests,
   NoSocket, IInv, TypeOK
<1>1. TypeOK'
  <2>0. TypeOK
    OBVIOUS
  <2>1. /\ ws' \in Socket \cup {NoSocket} /\ sock' \in [Socket -> SocketState]
        /\ generation' \in Nat
    <3>1. CASE ws = NoSocket
      <4>1. generation' \in Socket /\ ws' = generation'
        BY <3>1 DEF Paid, One, Socket
      <4>2. sock' \in [Socket -> SocketState]
        BY <3>1 DEF SocketState
      <4>3. generation' \in Nat
        BY <3>1
      <4> QED
        BY <4>1, <4>2, <4>3
    <3>2. CASE ws # NoSocket
      BY <3>2
    <3> QED
      BY <3>1, <3>2
  <2>2. /\ intentionalClose' \in BOOLEAN /\ connected' \in BOOLEAN /\ timer' \in BOOLEAN
        /\ timedOut' \in BOOLEAN /\ switched' \in BOOLEAN
    BY Zenon
  <2>3. UNCHANGED <<user, effectDue, seen, once, cache, stale, asking, crossed, early>>
    OBVIOUS
  <2>4. UNCHANGED <<authenticated, identity, hello, on, logins, drops>>
    OBVIOUS
  <2> HIDE DEF ReconnectTimer, Connect, store, queries, list, client, requests, IInv
  <2> QED
    BY <2>0, <2>1, <2>2, <2>3, <2>4
<1>2. Paid'
  BY DEF Paid, One
<1>3. Numbered'
  BY DEF Numbered
<1>4. Handshake'
  BY DEF Handshake, Told, Numbered, Socket
<1>5. Told'
  BY DEF Told, StoreAgrees
<1>6. LoggedOut'
  BY DEF LoggedOut
<1>7. Intent'
  BY DEF Intent, Paid, One, Socket
<1>8. Seen'
  BY DEF Seen, Told
<1>9. CacheInv'
  BY DEF CacheInv
<1>10. OnlyCurrentDelivers'
  BY DEF OnlyCurrentDelivers, Numbered, Socket
<1>11. PendingOnCurrent'
  BY DEF PendingOnCurrent, Numbered, Socket
<1>12. SpeaksForUser'
  BY DEF SpeaksForUser, Told
<1>13. ReconnectScheduled'
  BY DEF ReconnectScheduled
<1> QED
  BY <1>1, <1>2, <1>3, <1>4, <1>5, <1>6, <1>7, <1>8, <1>9, <1>10, <1>11, <1>12, <1>13

LEMMA IssueInv == ASSUME NEW c \in Call, IInv, Issue(c) PROVE IInv'
<1> USE ClientAssumption DEF Issue, store, queries, list, client, requests, NoSocket, IInv, TypeOK
<1>1. TypeOK'
  BY DEF Socket, SocketState, HelloState
<1>2. PendingOnCurrent'
  BY DEF PendingOnCurrent
<1>3. Paid' /\ Numbered' /\ Handshake' /\ Told' /\ LoggedOut' /\ Intent' /\ Seen'
   /\ CacheInv' /\ OnlyCurrentDelivers' /\ SpeaksForUser' /\ ReconnectScheduled'
  BY DEF Paid, One, Numbered, Handshake, Told, StoreAgrees, LoggedOut, Intent, Seen,
     CacheInv, OnlyCurrentDelivers, SpeaksForUser, ReconnectScheduled
<1> QED
  BY <1>1, <1>2, <1>3

LEMMA SettleInv == ASSUME NEW c \in Call, IInv, Settle(c) PROVE IInv'
<1> USE ClientAssumption DEF Settle, store, queries, list, client, requests, NoSocket, IInv,
   TypeOK
<1>1. TypeOK'
  BY DEF Socket, SocketState, HelloState
<1>2. PendingOnCurrent'
  BY DEF PendingOnCurrent
<1>3. Paid' /\ Numbered' /\ Handshake' /\ Told' /\ LoggedOut' /\ Intent' /\ Seen'
   /\ CacheInv' /\ OnlyCurrentDelivers' /\ SpeaksForUser' /\ ReconnectScheduled'
  BY DEF Paid, One, Numbered, Handshake, Told, StoreAgrees, LoggedOut, Intent, Seen,
     CacheInv, OnlyCurrentDelivers, SpeaksForUser, ReconnectScheduled
<1> QED
  BY <1>1, <1>2, <1>3

\* What the invalidation of an Effects step does to the cached list.
LEMMA InvalidationKeepsList == ASSUME IInv, Invalidation
   PROVE  /\ cache' \in User \cup {NoUser} /\ asking' \in User \cup {NoUser}
          /\ stale' \in BOOLEAN /\ crossed' \in BOOLEAN /\ early' \in BOOLEAN
          /\ cache' = cache
          /\ \/ stale'
             \/ ~(connected /\ ~seen /\ once) /\ UNCHANGED list
<1> USE ClientAssumption DEF IInv, TypeOK, Invalidation, Invalidate, list
<1>1. CASE connected /\ ~seen /\ once
  BY <1>1
<1>2. CASE ~(connected /\ ~seen /\ once)
  BY <1>2
<1> QED
  BY <1>1, <1>2

LEMMA EffectsConnectInv == ASSUME IInv, Effects, effectDue, user # NoUser, Connect,
         UNCHANGED <<requests, authenticated, timer, identity>> PROVE IInv'
<1> USE ClientAssumption DEF Effects, Rendered, Connect, store, queries, client, requests,
   NoSocket, IInv, TypeOK
<1>0. /\ cache' \in User \cup {NoUser} /\ asking' \in User \cup {NoUser}
      /\ stale' \in BOOLEAN /\ crossed' \in BOOLEAN /\ early' \in BOOLEAN
      /\ cache' = cache
      /\ \/ stale'
         \/ ~(connected /\ ~seen /\ once) /\ UNCHANGED list
  BY InvalidationKeepsList DEF Effects
<1>1. TypeOK'
  <2>1. CASE ws = NoSocket
    <3>1. generation' \in Socket /\ ws' = generation'
      BY <2>1 DEF Paid, One, Socket
    <3>2. sock' \in [Socket -> SocketState]
      BY <2>1 DEF SocketState
    <3>3. generation' \in Nat
      BY <2>1
    <3>4. /\ intentionalClose' = FALSE /\ connected' = FALSE
          /\ timedOut' = FALSE /\ switched' = FALSE
      BY <2>1
    <3> QED
      BY <1>0, <3>1, <3>2, <3>3, <3>4
  <2>2. CASE ws # NoSocket
    BY <1>0, <2>2
  <2> QED
    BY <2>1, <2>2
<1>2. Paid'
  BY DEF Paid, One
<1>3. Numbered'
  BY DEF Numbered
<1>4. Handshake'
  BY DEF Handshake, Told, Numbered, Socket
<1>5. Told'
  BY DEF Told, StoreAgrees
<1>6. LoggedOut'
  BY DEF LoggedOut
<1>7. Intent'
  BY DEF Intent, Paid, One, Socket
<1>8. Seen'
  BY DEF Seen, Told
<1>9. CacheInv'
  BY <1>0 DEF CacheInv, Seen, list
<1>10. OnlyCurrentDelivers'
  BY DEF OnlyCurrentDelivers, Numbered, Socket
<1>11. PendingOnCurrent'
  BY DEF PendingOnCurrent, Numbered, Socket
<1>12. SpeaksForUser'
  BY DEF SpeaksForUser, Told
<1>13. ReconnectScheduled'
  BY DEF ReconnectScheduled
<1> QED
  BY <1>1, <1>2, <1>3, <1>4, <1>5, <1>6, <1>7, <1>8, <1>9, <1>10, <1>11, <1>12, <1>13

LEMMA EffectsDisconnectInv == ASSUME IInv, Effects, effectDue, user = NoUser,
   Disconnect PROVE IInv'
<1> USE ClientAssumption DEF Effects, Rendered, Disconnect, RejectAllPending,
   store, queries, client, requests, NoSocket, IInv, TypeOK
<1>0. /\ cache' \in User \cup {NoUser} /\ asking' \in User \cup {NoUser}
      /\ stale' \in BOOLEAN /\ crossed' \in BOOLEAN /\ early' \in BOOLEAN
      /\ cache' = cache
      /\ \/ stale'
         \/ ~(connected /\ ~seen /\ once) /\ UNCHANGED list
  BY InvalidationKeepsList DEF Effects
<1>1. TypeOK'
  <2>1. sock' \in [Socket -> SocketState]
    BY DEF SocketState
  <2>2. hello' \in [Socket -> HelloState] /\ on' \in [Call -> Socket \cup {NoSocket}]
    BY DEF HelloState
  <2>3. ws' = NoSocket
    OBVIOUS
  <2>4. seen' \in BOOLEAN /\ once' \in BOOLEAN
    BY Zenon
  <2> QED
    BY <1>0, <2>1, <2>2, <2>3, <2>4
<1>2. Paid'
  BY DEF Paid, One
<1>3. Numbered'
  BY DEF Numbered
<1>4. Handshake'
  BY DEF Handshake
<1>5. Told'
  BY DEF Told, StoreAgrees
<1>6. LoggedOut'
  BY DEF LoggedOut
<1>7. Intent'
  BY DEF Intent
<1>8. Seen'
  BY DEF Seen
<1>9. CacheInv'
  BY <1>0 DEF CacheInv, list
<1>10. OnlyCurrentDelivers'
  BY DEF OnlyCurrentDelivers
<1>11. PendingOnCurrent'
  BY DEF PendingOnCurrent
<1>12. SpeaksForUser'
  BY DEF SpeaksForUser
<1>13. ReconnectScheduled'
  BY DEF ReconnectScheduled
<1> QED
  BY <1>1, <1>2, <1>3, <1>4, <1>5, <1>6, <1>7, <1>8, <1>9, <1>10, <1>11, <1>12, <1>13

LEMMA EffectsOnlyInv == ASSUME IInv, Effects, ~effectDue,
         UNCHANGED <<connected, client, requests, switched>> PROVE IInv'
<1> USE ClientAssumption DEF Effects, Rendered, store, queries, client, requests,
   NoSocket, IInv, TypeOK
<1>0. /\ cache' \in User \cup {NoUser} /\ asking' \in User \cup {NoUser}
      /\ stale' \in BOOLEAN /\ crossed' \in BOOLEAN /\ early' \in BOOLEAN
      /\ cache' = cache
      /\ \/ stale'
         \/ ~(connected /\ ~seen /\ once) /\ UNCHANGED list
  BY InvalidationKeepsList DEF Effects
<1>1. TypeOK'
  BY <1>0 DEF Socket, SocketState, HelloState
<1>2. Seen'
  BY DEF Seen, Told
<1>3. CacheInv'
  BY <1>0 DEF CacheInv, Seen, list
<1>4. Paid' /\ Numbered' /\ Handshake' /\ Told' /\ LoggedOut' /\ Intent'
   /\ OnlyCurrentDelivers' /\ PendingOnCurrent' /\ SpeaksForUser' /\ ReconnectScheduled'
  BY DEF Paid, One, Numbered, Handshake, Told, StoreAgrees, LoggedOut, Intent,
     OnlyCurrentDelivers, PendingOnCurrent, SpeaksForUser, ReconnectScheduled
<1> QED
  BY <1>1, <1>2, <1>3, <1>4

LEMMA EffectsInv == ASSUME IInv, Effects PROVE IInv'
<1>1. CASE effectDue /\ user # NoUser /\ Connect
           /\ UNCHANGED <<requests, authenticated, timer, identity>>
  BY <1>1, EffectsConnectInv
<1>2. CASE effectDue /\ user = NoUser /\ Disconnect
  BY <1>2, EffectsDisconnectInv
<1>3. CASE ~effectDue /\ UNCHANGED <<connected, client, requests, switched>>
  BY <1>3, EffectsOnlyInv
<1> QED
  BY <1>1, <1>2, <1>3 DEF Effects

LEMMA NextInv == ASSUME IInv, [Next]_vars PROVE IInv'
<1>1. ASSUME NEW u \in User, Login(u) PROVE IInv'
  BY <1>1, LoginInv
<1>2. CASE Logout
  BY <1>2, LogoutInv
<1>3. CASE Effects
  BY <1>3, EffectsInv
<1>4. CASE Fetch \/ Received \/ FetchFails
  BY <1>4, FetchInv, ReceivedInv, FetchFailsInv
<1>5. CASE ReconnectTimer
  BY <1>5, ReconnectTimerInv
<1>6. ASSUME NEW g \in Socket, Opened(g) PROVE IInv'
  BY <1>6, OpenedInv
<1>7. ASSUME NEW g \in Socket, HelloAnswered(g) PROVE IInv'
  BY <1>7, HelloAnsweredInv
<1>8. ASSUME NEW g \in Socket, HelloTimesOut(g) PROVE IInv'
  BY <1>8, HelloTimesOutInv
<1>9. ASSUME NEW g \in Socket, Closed(g) PROVE IInv'
  BY <1>9, ClosedInv
<1>10. ASSUME NEW c \in Call, Issue(c) PROVE IInv'
  BY <1>10, IssueInv
<1>11. ASSUME NEW c \in Call, Settle(c) PROVE IInv'
  BY <1>11, SettleInv
<1>12. CASE UNCHANGED vars
  BY <1>12, StutterInv
<1> QED
  BY <1>1, <1>2, <1>3, <1>4, <1>5, <1>6, <1>7, <1>8, <1>9, <1>10, <1>11, <1>12
     DEF Next, Answered, CallTimesOut

LEMMA Invariance == Spec => []IInv
<1>1. Init => IInv
  BY InitInv
<1>2. IInv /\ [Next]_vars => IInv'
  BY NextInv
<1> QED
  BY <1>1, <1>2, PTL DEF Spec

-----------------------------------------------------------------------------
\* The types, and with them the bound on sockets: each is paid for by a login or a loss.
THEOREM TypeCorrect == Spec => []TypeOK
<1>1. IInv => TypeOK
  BY DEF IInv
<1> QED
  BY <1>1, Invariance, PTL

\* Frames and handshakes come from the current socket.
THEOREM OneSocketSpeaks == Spec => []OnlyCurrentDelivers
<1>1. IInv => OnlyCurrentDelivers
  BY DEF IInv
<1> QED
  BY <1>1, Invariance, PTL

\* No call waits on another socket than the current one.
THEOREM CallsWaitOnCurrent == Spec => []PendingOnCurrent
<1>1. IInv => PendingOnCurrent
  BY DEF IInv
<1> QED
  BY <1>1, Invariance, PTL

\* The pages' flag and the client's agree.
THEOREM FlagsAgree == Spec => []StoreAgrees
<1>1. IInv => StoreAgrees
  BY DEF IInv, Told
<1> QED
  BY <1>1, Invariance, PTL

\* An open connection speaks for the stored user, or a login came over it while it lived.
THEOREM SocketSpeaksForUser == Spec => []SpeaksForUser
<1>1. IInv => SpeaksForUser
  BY DEF IInv, Told
<1> QED
  BY <1>1, Invariance, PTL

\* Once connected, one user's cached list does not pass for the next one's fresh list.
THEOREM CachesAreSeparate == Spec => []CacheOfUser
<1>1. IInv => CacheOfUser
  BY DEF IInv, CacheInv, CacheOfUser, Rendered
<1> QED
  BY <1>1, Invariance, PTL

\* A client that is down has its reconnection scheduled, or gave up after a timeout.
THEOREM DownHasATimer == Spec => []ReconnectScheduled
<1>1. IInv => ReconnectScheduled
  BY DEF IInv
<1> QED
  BY <1>1, Invariance, PTL
=============================================================================
