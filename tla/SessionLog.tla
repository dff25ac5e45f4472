----------------------------- MODULE SessionLog -----------------------------
(***************************************************************************)
(* The promise of pkg/postgres/session_store.go, without mutex, snapshots  *)
(* or rows: per session an append-only log and a durable copy of one of    *)
(* its prefixes, from which the log is recovered.                          *)
(***************************************************************************)
EXTENDS Naturals, Sequences

CONSTANTS Message, Blank, MaxSessions

VARIABLES log, durable

Session == 1..MaxSessions

Init ==
    /\ log = [s \in Session |-> <<>>]
    /\ durable = [s \in Session |-> <<>>]

\* Appending shows an empty slot first, and then the message in it.
Grow(s) ==
    /\ log' = [log EXCEPT ![s] = Append(@, Blank)]
    /\ UNCHANGED durable

Fill(s) ==
    /\ log[s] # <<>>
    /\ log[s][Len(log[s])] = Blank
    /\ \E m \in Message : log' = [log EXCEPT ![s][Len(log[s])] = m]
    /\ UNCHANGED durable

\* Some prefix of the log becomes durable; some of its slots may be stored empty.
Prefix(s, n, torn) == [i \in 1..n |-> IF i \in torn THEN Blank ELSE log[s][i]]

Persist(s) ==
    /\ \E n \in 0..Len(log[s]) : \E torn \in SUBSET (1..n) :
          durable' = [durable EXCEPT ![s] = Prefix(s, n, torn)]
    /\ UNCHANGED log

Forget(s) ==
    /\ durable' = [durable EXCEPT ![s] = <<>>]
    /\ UNCHANGED log

\* After a crash each log is what was durable, or all of them start empty.
Recover ==
    /\ \/ log' = durable
       \/ log' = [s \in Session |-> <<>>]
    /\ UNCHANGED durable

Next ==
    \/ \E s \in Session : Grow(s) \/ Fill(s) \/ Persist(s) \/ Forget(s)
    \/ Recover

Spec == Init /\ [][Next]_<<log, durable>>
=============================================================================
