------------------------ MODULE TraceExporterProofs ------------------------
(***************************************************************************)
(* Proofs about TraceExporter for any spans, traces, entries and failures. *)
(***************************************************************************)
EXTENDS TraceExporter, TLAPS

-----------------------------------------------------------------------------
(* The inductive invariant, beyond the types. *)

\* A cached entry is allocated, and is of the trace that maps to it.
CachedEntries == \A t \in Trace : traces[t] # NoEntry =>
    entry[traces[t]].allocated /\ entry[traces[t]].trace = t

\* An exportSpan call has looked up an entry of its span's trace.
HeldEntries == \A s \in Span : export[s] = "holding" =>
    /\ held[s] \in Entry
    /\ entry[held[s]].allocated
    /\ entry[held[s]].trace = TraceOf[s]

SpansOf(t) == {s \in Span : TraceOf[s] = t}

\* The spans that wait in an entry are of its trace, which has a row once persisted.
EntriesOfTrace == \A e \in Entry :
    /\ entry[e].spans \subseteq SpansOf(entry[e].trace)
    /\ entry[e].persisted => traceRow[entry[e].trace].rows > 0

Writing(p) == flush[p].pc \notin {"idle", "scan", "exited"}

\* A flush that works on a trace has an entry of it, and spans of it.
FlushedEntries == \A p \in Flusher : Writing(p) =>
    /\ flush[p].entry \in Entry
    /\ entry[flush[p].entry].allocated
    /\ flush[p].batch \subseteq SpansOf(TraceAt(p))

\* Shutdown flushes after the loop has ended, and the loop does not start again.
OneFlusher == flush["shutdown"].pc # "idle" => flush["loop"].pc = "exited"

\* Where a flush stands tells whether its trace has a row.
RowWhenWritten == \A p \in Flusher :
    /\ flush[p].pc = "insert" => traceRow[TraceAt(p)].rows = 0
    /\ flush[p].pc \in {"refind", "update", "spans", "clear"} => traceRow[TraceAt(p)].rows > 0

IInv ==
    /\ TypeOK
    /\ CachedEntries
    /\ HeldEntries
    /\ EntriesOfTrace
    /\ FlushedEntries
    /\ OneFlusher
    /\ RowWhenWritten
    /\ OneTraceRow
    /\ SpansHaveTrace

-----------------------------------------------------------------------------
(* Initially. *)

LEMMA InitInv == Init => IInv
<1> SUFFICES ASSUME Init PROVE IInv
  OBVIOUS
<1> USE DEF Init
<1>1. Unused \in EntryState
  BY ExporterAssumption DEF Unused, EntryState
<1>2. NotFlushing \in FlushState
  BY DEF NotFlushing, FlushState
<1>3. TypeOK
  <2>1. /\ traces \in [Trace -> Entry \cup {NoEntry}]
        /\ entry \in [Entry -> EntryState]
        /\ export \in [Span -> {"open", "holding", "done"}]
        /\ held \in [Span -> Entry \cup {NoEntry}]
    BY <1>1
  <2>2. flush \in [Flusher -> FlushState] /\ stopping \in BOOLEAN
    BY <1>2
  <2>3. /\ traceRow \in [Trace -> [rows : Nat, agg : SUBSET Span]]
        /\ spanRows \in [Span -> Nat]
        /\ lost \in 0..MaxLost
    BY ExporterAssumption
  <2>4. \A e \in Entry : entry[e].spans \subseteq entry[e].agg
    BY DEF Unused
  <2> QED
    BY <2>1, <2>2, <2>3, <2>4 DEF TypeOK
<1>4. CachedEntries /\ HeldEntries
  BY DEF CachedEntries, HeldEntries
<1>5. EntriesOfTrace
  BY DEF EntriesOfTrace, Unused
<1>6. FlushedEntries /\ OneFlusher /\ RowWhenWritten
  BY DEF FlushedEntries, OneFlusher, RowWhenWritten, Writing, NotFlushing, Flusher
<1>7. OneTraceRow /\ SpansHaveTrace
  BY DEF OneTraceRow, SpansHaveTrace
<1> QED
  BY <1>3, <1>4, <1>5, <1>6, <1>7 DEF IInv

-----------------------------------------------------------------------------
(* exportSpan. *)

\* What exportSpan does to the entries leaves the flushes where they are.
LEMMA FlushesStay ==
    ASSUME IInv, UNCHANGED <<flush, traceRow>>,
           \A o \in Entry : entry[o].allocated =>
               entry'[o].allocated /\ entry'[o].trace = entry[o].trace
    PROVE  FlushedEntries' /\ RowWhenWritten'
<1>1. \A p \in Flusher : Writing(p) =>
         /\ flush[p].entry \in Entry
         /\ entry'[flush[p].entry].allocated
         /\ entry'[flush[p].entry].trace = entry[flush[p].entry].trace
         /\ flush[p].batch \subseteq SpansOf(entry[flush[p].entry].trace)
  BY DEF IInv, FlushedEntries, TraceAt
<1>2. FlushedEntries'
  BY <1>1 DEF FlushedEntries, Writing, TraceAt
<1>3. RowWhenWritten'
  BY <1>1 DEF IInv, RowWhenWritten, Writing, TraceAt
<1> QED
  BY <1>2, <1>3

LEMMA EnsureStep ==
    ASSUME IInv, NEW s \in Span, EnsureCachedTrace(s)
    PROVE  IInv'
<1> DEFINE t == TraceOf[s]
<1> USE DEF IInv
<1>0. t \in Trace
  BY ExporterAssumption
<1>1. CASE traces[t] # NoEntry /\ held' = [held EXCEPT ![s] = traces[t]] /\ UNCHANGED <<traces, entry>>
  <2>1. TypeOK'
    BY <1>0, <1>1 DEF EnsureCachedTrace, TypeOK
  <2>2. HeldEntries'
    BY <1>0, <1>1 DEF EnsureCachedTrace, TypeOK, HeldEntries, CachedEntries
  <2>3. CachedEntries' /\ EntriesOfTrace' /\ OneFlusher' /\ OneTraceRow' /\ SpansHaveTrace'
    BY <1>1 DEF EnsureCachedTrace, CachedEntries, EntriesOfTrace, OneFlusher, OneTraceRow,
       SpansHaveTrace
  <2>4. FlushedEntries' /\ RowWhenWritten'
    BY <1>1, FlushesStay DEF EnsureCachedTrace
  <2> QED
    BY <2>1, <2>2, <2>3, <2>4
<1>2. ASSUME NEW e \in Entry, traces[t] = NoEntry, ~entry[e].allocated,
             entry' = [entry EXCEPT ![e] = [Unused EXCEPT !.trace = t, !.allocated = TRUE]],
             traces' = [traces EXCEPT ![t] = e],
             held' = [held EXCEPT ![s] = e]
      PROVE  IInv'
  <2> DEFINE fresh == [Unused EXCEPT !.trace = t, !.allocated = TRUE]
  <2>1. /\ fresh \in EntryState /\ fresh.trace = t /\ fresh.allocated
        /\ fresh.spans = {} /\ fresh.agg = {} /\ ~fresh.persisted
    BY <1>0 DEF Unused, EntryState
  <2>2. entry'[e] = fresh /\ \A o \in Entry \ {e} : entry'[o] = entry[o]
    BY <1>2 DEF TypeOK
  <2> HIDE DEF fresh
  <2>3. entry' \in [Entry -> EntryState]
    BY <1>2, <2>1 DEF TypeOK, fresh
  <2>4. TypeOK'
    BY <1>0, <1>2, <2>1, <2>2, <2>3 DEF EnsureCachedTrace, TypeOK
  <2>5. CachedEntries'
    BY <1>0, <1>2, <2>1, <2>2 DEF TypeOK, CachedEntries
  <2>6. HeldEntries'
    BY <1>0, <1>2, <2>1, <2>2 DEF EnsureCachedTrace, TypeOK, HeldEntries
  <2>7. EntriesOfTrace'
    BY <2>1, <2>2 DEF EnsureCachedTrace, EntriesOfTrace, SpansOf
  <2>8. FlushedEntries' /\ RowWhenWritten'
    BY <1>2, <2>2, FlushesStay DEF EnsureCachedTrace
  <2>9. OneFlusher' /\ OneTraceRow' /\ SpansHaveTrace'
    BY DEF EnsureCachedTrace, OneFlusher, OneTraceRow, SpansHaveTrace
  <2> QED
    BY <2>4, <2>5, <2>6, <2>7, <2>8, <2>9
<1> QED
  BY <1>1, <1>2 DEF EnsureCachedTrace

LEMMA AggregateStep ==
    ASSUME IInv, NEW s \in Span, UpdateTraceAggregate(s)
    PROVE  IInv'
<1> USE DEF IInv
<1> DEFINE e == held[s]
           counted == [entry[e] EXCEPT !.spans = @ \cup {s}, !.agg = @ \cup {s},
                                       !.dirty = @ \/ s \notin ErrorSpan]
<1>1. e \in Entry /\ entry[e].allocated /\ entry[e].trace = TraceOf[s]
  BY DEF UpdateTraceAggregate, HeldEntries
<1>2. entry[e] \in EntryState /\ entry[e].spans \subseteq entry[e].agg
  BY <1>1 DEF TypeOK
<1>3. entry' = [entry EXCEPT ![e] = counted]
  BY <1>1, <1>2 DEF UpdateTraceAggregate, Counted, EntryState, TypeOK
<1>4. /\ counted \in EntryState
      /\ counted.trace = entry[e].trace /\ counted.allocated = entry[e].allocated
      /\ counted.persisted = entry[e].persisted
      /\ counted.spans = entry[e].spans \cup {s}
      /\ counted.spans \subseteq counted.agg
  BY <1>2 DEF EntryState
<1> HIDE DEF counted, e
<1>5. entry'[e] = counted /\ \A o \in Entry \ {e} : entry'[o] = entry[o]
  BY <1>1, <1>3 DEF TypeOK
<1>6. \A o \in Entry : entry'[o].trace = entry[o].trace /\ entry'[o].allocated = entry[o].allocated
  BY <1>4, <1>5
<1>7. TypeOK'
  BY <1>1, <1>3, <1>4, <1>5 DEF UpdateTraceAggregate, TypeOK
<1>8. CachedEntries' /\ HeldEntries'
  <2>1. /\ UNCHANGED <<traces, held>>
        /\ \A x \in Span : export'[x] = "holding" => export[x] = "holding"
    BY DEF UpdateTraceAggregate, TypeOK
  <2>2. /\ CachedEntries /\ HeldEntries
        /\ \A t \in Trace : traces[t] # NoEntry => traces[t] \in Entry
    BY DEF TypeOK
  <2> HIDE DEF IInv
  <2>3. CachedEntries'
    BY <1>6, <2>1, <2>2 DEF CachedEntries
  <2>4. HeldEntries'
    BY <1>6, <2>1, <2>2 DEF HeldEntries
  <2> QED
    BY <2>3, <2>4
<1>9. EntriesOfTrace'
  <2>1. UNCHANGED traceRow /\ EntriesOfTrace
    BY DEF UpdateTraceAggregate
  <2> HIDE DEF IInv
  <2>2. /\ entry'[e].spans \subseteq SpansOf(entry'[e].trace)
        /\ entry'[e].persisted => traceRow[entry'[e].trace].rows > 0
    BY <1>1, <1>4, <1>5, <2>1 DEF EntriesOfTrace, SpansOf
  <2>3. ASSUME NEW o \in Entry \ {e}
        PROVE  /\ entry'[o].spans \subseteq SpansOf(entry'[o].trace)
               /\ entry'[o].persisted => traceRow[entry'[o].trace].rows > 0
    BY <1>5, <2>1 DEF EntriesOfTrace
  <2> QED
    BY <2>1, <2>2, <2>3 DEF EntriesOfTrace, SpansOf
<1>10. FlushedEntries' /\ RowWhenWritten'
  BY <1>6, FlushesStay DEF UpdateTraceAggregate
<1>11. OneFlusher' /\ OneTraceRow' /\ SpansHaveTrace'
  BY DEF UpdateTraceAggregate, OneFlusher, OneTraceRow, SpansHaveTrace
<1> QED
  BY <1>7, <1>8, <1>9, <1>10, <1>11

-----------------------------------------------------------------------------
(* When a flush runs. *)

\* A flush that starts, or ends, works on no trace.
LEMMA RestStep ==
    ASSUME IInv, NEW p \in Flusher, NEW next \in FlushState,
           flush' = [flush EXCEPT ![p] = next],
           next.pc \in {"idle", "scan", "exited"},
           OneFlusher', stopping' \in BOOLEAN,
           UNCHANGED <<traces, entry, export, held, traceRow, spanRows, lost>>
    PROVE  IInv'
<1> USE DEF IInv
<1>1. TypeOK'
  BY DEF TypeOK
<1>2. flush'[p] = next /\ \A o \in Flusher \ {p} : flush'[o] = flush[o]
  BY DEF TypeOK
<1>3. FlushedEntries'
  BY <1>2 DEF FlushedEntries, Writing, TraceAt
<1>4. RowWhenWritten'
  BY <1>2 DEF RowWhenWritten, TraceAt
<1>5. CachedEntries' /\ HeldEntries' /\ EntriesOfTrace' /\ OneTraceRow' /\ SpansHaveTrace'
  BY DEF CachedEntries, HeldEntries, EntriesOfTrace, OneTraceRow, SpansHaveTrace
<1> QED
  BY <1>1, <1>3, <1>4, <1>5

LEMMA ScanType == Scan \in FlushState /\ Scan.pc = "scan"
  BY DEF Scan, NotFlushing, FlushState, Cached

LEMMA TickStep == IInv /\ Tick => IInv'
<1> SUFFICES ASSUME IInv, Tick PROVE IInv'
  OBVIOUS
<1>1. OneFlusher'
  BY ScanType DEF IInv, TypeOK, OneFlusher, Tick, Flusher
<1> QED
  BY <1>1, ScanType, RestStep DEF Tick, Flusher, IInv, TypeOK

LEMMA LoopExitStep == IInv /\ LoopExit => IInv'
<1> SUFFICES ASSUME IInv, LoopExit PROVE IInv'
  OBVIOUS
<1> DEFINE next == [flush["loop"] EXCEPT !.pc = "exited"]
<1>1. flush["loop"] \in FlushState
  BY DEF IInv, TypeOK, Flusher
<1>2. next \in FlushState /\ next.pc = "exited"
  BY <1>1 DEF FlushState
<1>3. flush' = [flush EXCEPT !["loop"] = next]
  BY DEF LoopExit
<1> HIDE DEF next
<1>4. OneFlusher'
  BY <1>2, <1>3 DEF IInv, TypeOK, OneFlusher, Flusher
<1> QED
  BY <1>2, <1>3, <1>4, RestStep DEF LoopExit, Flusher, IInv, TypeOK

LEMMA ShutdownStep == IInv /\ Shutdown => IInv'
  BY DEF IInv, Shutdown, TypeOK, CachedEntries, HeldEntries, EntriesOfTrace, FlushedEntries,
         Writing, TraceAt, OneFlusher, RowWhenWritten, OneTraceRow, SpansHaveTrace

LEMMA FinalFlushStep == IInv /\ FinalFlush => IInv'
<1> SUFFICES ASSUME IInv, FinalFlush PROVE IInv'
  OBVIOUS
<1>1. OneFlusher'
  BY DEF IInv, TypeOK, OneFlusher, FinalFlush, LoopDone, Flusher
<1> QED
  BY <1>1, ScanType, RestStep DEF FinalFlush, Flusher, IInv, TypeOK

LEMMA ScanDoneStep ==
    ASSUME IInv, NEW p \in Flusher, ScanDone(p)
    PROVE  IInv'
<1> DEFINE next == [NotFlushing EXCEPT !.pc = IF p = "loop" THEN "idle" ELSE "exited"]
<1>1. next \in FlushState /\ next.pc = IF p = "loop" THEN "idle" ELSE "exited"
  BY DEF NotFlushing, FlushState
<1>2. flush' = [flush EXCEPT ![p] = next]
  BY DEF ScanDone
<1> HIDE DEF next
<1>3. OneFlusher'
  BY <1>1, <1>2 DEF IInv, TypeOK, OneFlusher, Flusher, ScanDone
<1> QED
  BY <1>1, <1>2, <1>3, RestStep DEF ScanDone, IInv, TypeOK

-----------------------------------------------------------------------------
(* flushTrace. *)

\* While one flush runs, the other works on no trace.
LEMMA OnlyOneWrites ==
    ASSUME IInv, NEW p \in Flusher, NEW q \in Flusher, q # p,
           flush[p].pc \notin {"idle", "exited"}
    PROVE  ~Writing(q)
  BY DEF IInv, OneFlusher, Writing, Flusher

Places == {"idle", "scan", "find", "insert", "refind", "update", "spans", "clear", "check",
           "delete", "exited"}

\* A step of a flush that moves on: what it may do to the cache and to the rows.
LEMMA MoveStep ==
    ASSUME IInv, NEW p \in Flusher, NEW where \in Places, Goto(p, where), Writing(p),
           UNCHANGED <<export, held, stopping>>,
           traces' \in [Trace -> Entry \cup {NoEntry}],
           entry' \in [Entry -> EntryState],
           \A o \in Entry : /\ entry'[o].allocated = entry[o].allocated
                            /\ entry'[o].trace = entry[o].trace
                            /\ entry'[o].spans \subseteq entry'[o].agg,
           lost' \in 0..MaxLost,
           traceRow' \in [Trace -> [rows : Nat, agg : SUBSET Span]],
           spanRows' \in [Span -> Nat],
           where = "insert" => traceRow'[TraceAt(p)].rows = 0,
           where \in {"refind", "update", "spans", "clear"} => traceRow'[TraceAt(p)].rows > 0,
           CachedEntries', EntriesOfTrace', OneTraceRow', SpansHaveTrace'
    PROVE  IInv'
<1> USE DEF IInv
<1> DEFINE moved == [flush[p] EXCEPT !.pc = where]
<1>1. flush[p] \in FlushState /\ flush \in [Flusher -> FlushState]
  BY DEF TypeOK
<1>2. /\ moved \in FlushState /\ moved.pc = where
      /\ moved.entry = flush[p].entry /\ moved.batch = flush[p].batch
  BY <1>1 DEF FlushState, Places
<1>3. flush' = [flush EXCEPT ![p] = moved]
  BY DEF Goto
<1> HIDE DEF moved
<1>4. flush' \in [Flusher -> FlushState]
  BY <1>1, <1>2, <1>3
<1>5. flush'[p] = moved /\ \A q \in Flusher \ {p} : flush'[q] = flush[q]
  BY <1>1, <1>3
<1>6. \A q \in Flusher \ {p} : ~Writing(q)
  BY OnlyOneWrites DEF Writing
<1>7. /\ flush[p].entry \in Entry /\ entry[flush[p].entry].allocated
      /\ flush[p].batch \subseteq SpansOf(entry[flush[p].entry].trace)
  BY DEF FlushedEntries, TraceAt
<1>8. TypeOK'
  BY <1>4 DEF TypeOK
<1>9. HeldEntries'
  BY DEF HeldEntries
<1>10. FlushedEntries'
  BY <1>2, <1>5, <1>6, <1>7 DEF FlushedEntries, Writing, TraceAt
<1>11. OneFlusher'
  BY <1>2, <1>5, <1>6 DEF OneFlusher, Writing, Flusher
<1>12. RowWhenWritten'
  <2>1. TraceAt(p)' = TraceAt(p)
    BY <1>2, <1>5, <1>7 DEF TraceAt
  <2>2. flush'[p].pc = where
    BY <1>2, <1>5
  <2>3. \A q \in Flusher \ {p} : flush'[q].pc \in {"idle", "scan", "exited"}
    BY <1>5, <1>6 DEF Writing
  <2>4. /\ flush'[p].pc = "insert" => traceRow'[TraceAt(p)'].rows = 0
        /\ flush'[p].pc \in {"refind", "update", "spans", "clear"} =>
              traceRow'[TraceAt(p)'].rows > 0
    BY <2>1, <2>2
  <2> QED
    BY <2>3, <2>4 DEF RowWhenWritten
<1> QED
  BY <1>8, <1>9, <1>10, <1>11, <1>12

\* A statement leaves the cache alone.
LEMMA WriteStep ==
    ASSUME IInv, NEW p \in Flusher, NEW where \in Places, Goto(p, where), Writing(p),
           UNCHANGED <<traces, entry, export, held, stopping>>,
           lost' \in 0..MaxLost,
           traceRow' \in [Trace -> [rows : Nat, agg : SUBSET Span]],
           spanRows' \in [Span -> Nat],
           \A t \in Trace : traceRow'[t].rows >= traceRow[t].rows,
           where = "insert" => traceRow'[TraceAt(p)].rows = 0,
           where \in {"refind", "update", "spans", "clear"} => traceRow'[TraceAt(p)].rows > 0,
           OneTraceRow', SpansHaveTrace'
    PROVE  IInv'
<1> USE DEF IInv
<1>1. CachedEntries'
  BY DEF CachedEntries
<1>2. EntriesOfTrace'
  <2>1. \A e \in Entry : entry[e].trace \in Trace
    BY DEF TypeOK, EntryState
  <2>2. \A t \in Trace : traceRow[t].rows \in Nat /\ traceRow'[t].rows \in Nat
    BY DEF TypeOK
  <2> QED
    BY <2>1, <2>2 DEF EntriesOfTrace
<1>3. /\ traces' \in [Trace -> Entry \cup {NoEntry}]
      /\ entry' \in [Entry -> EntryState]
      /\ \A o \in Entry : /\ entry'[o].allocated = entry[o].allocated
                          /\ entry'[o].trace = entry[o].trace
                          /\ entry'[o].spans \subseteq entry'[o].agg
  BY DEF TypeOK
<1> QED
  BY <1>1, <1>2, <1>3, MoveStep

\* The trace a flush works on, and its row.
LEMMA FlushedTrace ==
    ASSUME IInv, NEW p \in Flusher, Writing(p)
    PROVE  /\ TraceAt(p) \in Trace
           /\ traceRow[TraceAt(p)].rows \in Nat
           /\ flush[p].agg \subseteq Span
           /\ flush[p].batch \subseteq SpansOf(TraceAt(p))
  BY DEF IInv, FlushedEntries, TypeOK, EntryState, FlushState, TraceAt

\* Steps that write nothing.
LEMMA StillStep ==
    ASSUME IInv, NEW p \in Flusher, NEW where \in Places, Goto(p, where), Writing(p),
           UNCHANGED <<traces, entry, export, held, stopping, traceRow, spanRows, lost>>,
           where = "insert" => traceRow[TraceAt(p)].rows = 0,
           where \in {"refind", "update", "spans", "clear"} => traceRow[TraceAt(p)].rows > 0
    PROVE  IInv'
<1>1. /\ lost' \in 0..MaxLost
      /\ traceRow' \in [Trace -> [rows : Nat, agg : SUBSET Span]]
      /\ spanRows' \in [Span -> Nat]
      /\ \A t \in Trace : traceRow'[t].rows >= traceRow[t].rows
      /\ OneTraceRow' /\ SpansHaveTrace'
  BY DEF IInv, TypeOK, OneTraceRow, SpansHaveTrace
<1>2. /\ where = "insert" => traceRow'[TraceAt(p)].rows = 0
      /\ where \in {"refind", "update", "spans", "clear"} => traceRow'[TraceAt(p)].rows > 0
  OBVIOUS
<1> QED
  BY <1>1, <1>2, WriteStep

LEMMA FindStep ==
    ASSUME IInv, NEW p \in Flusher, Find(p)
    PROVE  IInv'
<1>1. Writing(p)
  BY DEF Find, Writing
<1>2. traceRow[TraceAt(p)].rows > 0 \/ traceRow[TraceAt(p)].rows = 0
  BY <1>1, FlushedTrace
<1> QED
  BY <1>1, <1>2, StillStep DEF Find, WriteTrace, Places

LEMMA RefindStep ==
    ASSUME IInv, NEW p \in Flusher, Refind(p)
    PROVE  IInv'
<1>1. Writing(p) /\ traceRow[TraceAt(p)].rows > 0
  BY DEF IInv, Refind, Writing, RowWhenWritten
<1> QED
  BY <1>1, StillStep DEF Refind, Places

LEMMA RestingStep ==
    ASSUME IInv, NEW p \in Flusher, StatementFails(p) \/ CheckActive(p) \/ CheckInactive(p)
    PROVE  IInv'
<1>1. Writing(p)
  BY DEF StatementFails, CheckActive, CheckInactive, Writing
<1>2. CASE StatementFails(p)
  BY <1>1, <1>2, StillStep DEF StatementFails, NextTrace, Places
<1>3. CASE CheckActive(p)
  BY <1>1, <1>3, StillStep DEF CheckActive, Places
<1>4. CASE CheckInactive(p)
  BY <1>1, <1>4, StillStep DEF CheckInactive, Places
<1> QED
  BY <1>2, <1>3, <1>4

\* A statement that takes effect goes on, or back to the scan with its reply lost.
LEMMA RepliedPlaces ==
    ASSUME IInv, NEW p \in Flusher, NEW where \in Places, Replied(p, where)
    PROVE  /\ lost' \in 0..MaxLost
           /\ Goto(p, where) \/ Goto(p, "scan")
<1>1. MaxLost \in Nat /\ lost \in 0..MaxLost
  BY ExporterAssumption DEF IInv, TypeOK
<1> QED
  BY <1>1 DEF Replied

LEMMA InsertTraceStep ==
    ASSUME IInv, NEW p \in Flusher, InsertTrace(p)
    PROVE  IInv'
<1> DEFINE t == TraceAt(p)
           stored == [rows |-> traceRow[t].rows + 1, agg |-> flush[p].agg]
<1>1. Writing(p) /\ traceRow[t].rows = 0
  BY DEF IInv, InsertTrace, Writing, RowWhenWritten
<1>2. t \in Trace /\ flush[p].agg \subseteq Span
  BY <1>1, FlushedTrace
<1>3. traceRow \in [Trace -> [rows : Nat, agg : SUBSET Span]]
  BY DEF IInv, TypeOK
<1>4. traceRow' = [traceRow EXCEPT ![t] = stored]
  BY DEF InsertTrace
<1>5. stored \in [rows : Nat, agg : SUBSET Span] /\ stored.rows = 1
  BY <1>1, <1>2
<1> HIDE DEF stored
<1>6. traceRow' \in [Trace -> [rows : Nat, agg : SUBSET Span]]
  BY <1>3, <1>4, <1>5
<1>7. traceRow'[t].rows = 1 /\ \A o \in Trace \ {t} : traceRow'[o] = traceRow[o]
  BY <1>2, <1>3, <1>4, <1>5
<1>8. \A o \in Trace : traceRow'[o].rows >= traceRow[o].rows
  BY <1>1, <1>3, <1>7
<1>9. OneTraceRow'
  BY <1>7 DEF IInv, OneTraceRow
<1>10. SpansHaveTrace'
  BY <1>7, ExporterAssumption DEF IInv, SpansHaveTrace, InsertTrace
<1>11. Goto(p, "refind") \/ Goto(p, "scan")
  BY RepliedPlaces DEF InsertTrace, Places
<1>12. /\ lost' \in 0..MaxLost /\ spanRows' \in [Span -> Nat]
       /\ UNCHANGED <<traces, entry, export, held, stopping>>
  BY RepliedPlaces DEF IInv, TypeOK, InsertTrace, Places
<1>13. traceRow'[TraceAt(p)].rows > 0
  BY <1>7
<1> QED
  BY <1>1, <1>6, <1>8, <1>9, <1>10, <1>11, <1>12, <1>13, WriteStep DEF Places

LEMMA UpdateTraceStep ==
    ASSUME IInv, NEW p \in Flusher, UpdateTrace(p)
    PROVE  IInv'
<1> DEFINE t == TraceAt(p)
           stored == [traceRow[t] EXCEPT !.agg = flush[p].agg]
<1>1. Writing(p) /\ traceRow[t].rows > 0
  BY DEF IInv, UpdateTrace, Writing, RowWhenWritten
<1>2. t \in Trace /\ flush[p].agg \subseteq Span
  BY <1>1, FlushedTrace
<1>3. traceRow \in [Trace -> [rows : Nat, agg : SUBSET Span]]
  BY DEF IInv, TypeOK
<1>4. traceRow' = [traceRow EXCEPT ![t] = stored]
  BY DEF UpdateTrace
<1>5. stored \in [rows : Nat, agg : SUBSET Span] /\ stored.rows = traceRow[t].rows
  BY <1>2, <1>3
<1> HIDE DEF stored
<1>6. traceRow' \in [Trace -> [rows : Nat, agg : SUBSET Span]]
  BY <1>3, <1>4, <1>5
<1>7. \A o \in Trace : traceRow'[o].rows = traceRow[o].rows /\ traceRow[o].rows \in Nat
  BY <1>2, <1>3, <1>4, <1>5
<1>8. \A o \in Trace : traceRow'[o].rows >= traceRow[o].rows
  BY <1>7
<1>9. OneTraceRow'
  BY <1>7 DEF IInv, OneTraceRow
<1>10. SpansHaveTrace'
  BY <1>7, ExporterAssumption DEF IInv, SpansHaveTrace, UpdateTrace
<1>11. Goto(p, "spans") \/ Goto(p, "scan")
  BY RepliedPlaces DEF UpdateTrace, Places
<1>12. /\ lost' \in 0..MaxLost /\ spanRows' \in [Span -> Nat]
       /\ UNCHANGED <<traces, entry, export, held, stopping>>
  BY RepliedPlaces DEF IInv, TypeOK, UpdateTrace, Places
<1>13. traceRow'[TraceAt(p)].rows > 0
  BY <1>1, <1>2, <1>7
<1> QED
  BY <1>1, <1>6, <1>8, <1>9, <1>10, <1>11, <1>12, <1>13, WriteStep DEF Places

LEMMA InsertSpansStep ==
    ASSUME IInv, NEW p \in Flusher, InsertSpans(p)
    PROVE  IInv'
<1> DEFINE t == TraceAt(p)
<1>1. Writing(p) /\ traceRow[t].rows > 0
  BY DEF IInv, InsertSpans, Writing, RowWhenWritten
<1>2. flush[p].batch \subseteq SpansOf(t)
  BY <1>1, FlushedTrace
<1>3. spanRows \in [Span -> Nat]
  BY DEF IInv, TypeOK
<1>4. spanRows' = [s \in Span |-> IF s \in flush[p].batch THEN spanRows[s] + 1
                                                         ELSE spanRows[s]]
  BY DEF InsertSpans
<1>5. spanRows' \in [Span -> Nat]
  BY <1>3, <1>4
<1>6. UNCHANGED <<traces, entry, export, held, stopping, traceRow>>
  BY DEF InsertSpans
<1>7. SpansHaveTrace'
  <2> SUFFICES ASSUME NEW s \in Span, spanRows'[s] > 0
               PROVE  traceRow[TraceOf[s]].rows > 0
    BY <1>6 DEF SpansHaveTrace
  <2>1. CASE s \in flush[p].batch
    BY <1>1, <1>2, <2>1 DEF SpansOf
  <2>2. CASE s \notin flush[p].batch
    BY <1>4, <2>2 DEF IInv, SpansHaveTrace
  <2> QED
    BY <2>1, <2>2
<1>8. Goto(p, "clear") \/ Goto(p, "scan")
  BY RepliedPlaces DEF InsertSpans, Places
<1>9. lost' \in 0..MaxLost
  BY RepliedPlaces DEF InsertSpans, Places
<1>10. /\ traceRow' \in [Trace -> [rows : Nat, agg : SUBSET Span]]
       /\ \A o \in Trace : traceRow'[o].rows >= traceRow[o].rows
       /\ OneTraceRow'
  BY <1>6 DEF IInv, TypeOK, OneTraceRow
<1>11. traceRow'[TraceAt(p)].rows > 0
  BY <1>1, <1>6
<1> QED
  BY <1>1, <1>5, <1>6, <1>7, <1>8, <1>9, <1>10, <1>11, WriteStep DEF Places

\* The entry's totals are reset under its lock, when its trace has a row.
LEMMA ClearStep ==
    ASSUME IInv, NEW p \in Flusher, Clear(p)
    PROVE  IInv'
<1> USE DEF IInv
<1> DEFINE e == flush[p].entry
           cleared == [entry[e] EXCEPT !.persisted = TRUE, !.spans = {},
                         !.dirty = StillDirty(p)]
<1>1. Writing(p) /\ traceRow[entry[e].trace].rows > 0
  BY DEF Clear, Writing, RowWhenWritten, TraceAt
<1>2. e \in Entry
  BY <1>1 DEF FlushedEntries
<1>3. entry \in [Entry -> EntryState] /\ entry[e] \in EntryState
  BY <1>2 DEF TypeOK
<1>4. entry' = [entry EXCEPT ![e] = cleared]
  BY <1>2, <1>3 DEF Clear, DropSpans, EntryState
<1>5. /\ cleared \in EntryState
      /\ cleared.trace = entry[e].trace /\ cleared.allocated = entry[e].allocated
      /\ cleared.spans = {}
  <2>1. StillDirty(p) \in BOOLEAN
    BY <1>3, Zenon DEF StillDirty, EntryState
  <2> QED
    BY <1>3, <2>1 DEF EntryState
<1>6. UNCHANGED <<traces, export, held, stopping, traceRow, spanRows, lost>> /\ Goto(p, "check")
  BY DEF Clear
<1> HIDE DEF cleared, e
<1>7. entry' \in [Entry -> EntryState]
  BY <1>3, <1>4, <1>5
<1>8. entry'[e] = cleared /\ \A o \in Entry \ {e} : entry'[o] = entry[o]
  BY <1>2, <1>3, <1>4
<1>9. \A o \in Entry : /\ entry'[o].allocated = entry[o].allocated
                       /\ entry'[o].trace = entry[o].trace
                       /\ entry'[o].spans \subseteq entry'[o].agg
  BY <1>5, <1>8 DEF TypeOK
<1>10. CachedEntries'
  BY <1>6, <1>9 DEF TypeOK, CachedEntries
<1>11. EntriesOfTrace'
  BY <1>1, <1>5, <1>6, <1>8 DEF EntriesOfTrace
<1>12. OneTraceRow' /\ SpansHaveTrace'
  BY <1>6 DEF OneTraceRow, SpansHaveTrace
<1>13. /\ traces' \in [Trace -> Entry \cup {NoEntry}] /\ lost' \in 0..MaxLost
       /\ traceRow' \in [Trace -> [rows : Nat, agg : SUBSET Span]]
       /\ spanRows' \in [Span -> Nat]
  BY <1>6 DEF TypeOK
<1> QED
  BY <1>1, <1>6, <1>7, <1>9, <1>10, <1>11, <1>12, <1>13, MoveStep DEF Places

\* Deleting a trace from the cache leaves its entry as it is.
LEMMA DeleteTraceStep ==
    ASSUME IInv, NEW p \in Flusher, DeleteTrace(p)
    PROVE  IInv'
<1> USE DEF IInv
<1>1. Writing(p) /\ TraceAt(p) \in Trace
  BY FlushedTrace DEF DeleteTrace, Writing
<1>2. /\ UNCHANGED <<entry, export, held, stopping, traceRow, spanRows, lost>>
      /\ Goto(p, "scan") /\ traces' = [traces EXCEPT ![TraceAt(p)] = NoEntry]
  BY DEF DeleteTrace
<1>3. /\ traces' \in [Trace -> Entry \cup {NoEntry}]
      /\ \A o \in Trace : traces'[o] = traces[o] \/ traces'[o] = NoEntry
  BY <1>1, <1>2 DEF TypeOK
<1>4. CachedEntries'
  BY <1>2, <1>3 DEF CachedEntries
<1>5. EntriesOfTrace' /\ OneTraceRow' /\ SpansHaveTrace'
  BY <1>2 DEF EntriesOfTrace, OneTraceRow, SpansHaveTrace
<1>6. /\ entry' \in [Entry -> EntryState] /\ lost' \in 0..MaxLost
      /\ traceRow' \in [Trace -> [rows : Nat, agg : SUBSET Span]]
      /\ spanRows' \in [Span -> Nat]
      /\ \A o \in Entry : /\ entry'[o].allocated = entry[o].allocated
                          /\ entry'[o].trace = entry[o].trace
                          /\ entry'[o].spans \subseteq entry'[o].agg
  BY <1>2 DEF TypeOK
<1> QED
  BY <1>1, <1>2, <1>3, <1>4, <1>5, <1>6, MoveStep DEF Places

\* A flush takes up a cached trace: a copy of its entry, of its own spans.
LEMMA VisitStep ==
    ASSUME IInv, NEW p \in Flusher, Visit(p)
    PROVE  IInv'
<1> USE DEF IInv
<1>1. PICK t \in Cached \cap flush[p].left :
         flush' = [flush EXCEPT ![p] =
             [pc |-> IF Clean(traces[t]) THEN "check"
                     ELSE IF entry[traces[t]].persisted THEN "update" ELSE "find",
              must |-> flush[p].must \ {t}, left |-> flush[p].left \ {t},
              entry |-> traces[t],
              batch |-> entry[traces[t]].spans, agg |-> entry[traces[t]].agg]]
  BY DEF Visit
<1> DEFINE e == traces[t]
           next == [pc |-> IF Clean(e) THEN "check"
                           ELSE IF entry[e].persisted THEN "update" ELSE "find",
                    must |-> flush[p].must \ {t}, left |-> flush[p].left \ {t}, entry |-> e,
                    batch |-> entry[e].spans, agg |-> entry[e].agg]
<1>2. t \in Trace /\ e \in Entry /\ entry[e].allocated /\ entry[e].trace = t
  BY DEF Cached, TypeOK, CachedEntries
<1>3. entry[e] \in EntryState /\ flush[p] \in FlushState /\ flush \in [Flusher -> FlushState]
  BY <1>2 DEF TypeOK
<1>4. /\ entry[e].spans \subseteq SpansOf(t)
      /\ entry[e].persisted => traceRow[t].rows > 0
  BY <1>2 DEF EntriesOfTrace
<1>5. UNCHANGED <<traces, entry, export, held, stopping, traceRow, spanRows, lost>>
  BY DEF Visit
<1>6. flush' = [flush EXCEPT ![p] = next]
  BY <1>1
<1>7. next \in FlushState
  BY <1>2, <1>3 DEF EntryState, FlushState
<1>8. /\ next.entry = e /\ next.batch = entry[e].spans
      /\ next.pc \in {"check", "update", "find"}
      /\ next.pc = "update" => entry[e].persisted
  OBVIOUS
<1> HIDE DEF next, e
<1>9. flush'[p] = next /\ \A q \in Flusher \ {p} : flush'[q] = flush[q]
  BY <1>3, <1>6
<1>10. \A q \in Flusher \ {p} : ~Writing(q)
  BY OnlyOneWrites DEF Visit
<1>11. TypeOK'
  BY <1>3, <1>5, <1>6, <1>7 DEF TypeOK
<1>12. FlushedEntries'
  BY <1>2, <1>4, <1>5, <1>8, <1>9, <1>10 DEF FlushedEntries, Writing, TraceAt
<1>13. OneFlusher'
  BY <1>8, <1>9 DEF OneFlusher, Flusher, Visit
<1>14. RowWhenWritten'
  BY <1>2, <1>4, <1>5, <1>8, <1>9, <1>10 DEF RowWhenWritten, Writing, TraceAt
<1>15. CachedEntries' /\ HeldEntries' /\ EntriesOfTrace' /\ OneTraceRow' /\ SpansHaveTrace'
  BY <1>5 DEF CachedEntries, HeldEntries, EntriesOfTrace, OneTraceRow, SpansHaveTrace
<1> QED
  BY <1>11, <1>12, <1>13, <1>14, <1>15

-----------------------------------------------------------------------------
(* Every step, and what follows. *)

LEMMA NextStep == IInv /\ [Next]_vars => IInv'
<1> SUFFICES ASSUME IInv, [Next]_vars PROVE IInv'
  OBVIOUS
<1>1. CASE \E s \in Span : EnsureCachedTrace(s) \/ UpdateTraceAggregate(s)
  BY <1>1, EnsureStep, AggregateStep
<1>2. CASE Tick \/ LoopExit \/ Shutdown \/ FinalFlush
  BY <1>2, TickStep, LoopExitStep, ShutdownStep, FinalFlushStep
<1>3. ASSUME NEW p \in Flusher, FlushStep(p) PROVE IInv'
  <2>1. CASE Visit(p) \/ ScanDone(p)
    BY <2>1, VisitStep, ScanDoneStep
  <2>2. CASE Find(p) \/ InsertTrace(p) \/ Refind(p) \/ UpdateTrace(p) \/ InsertSpans(p)
    BY <2>2, FindStep, InsertTraceStep, RefindStep, UpdateTraceStep, InsertSpansStep
  <2>3. CASE StatementFails(p) \/ CheckActive(p) \/ CheckInactive(p)
    BY <2>3, RestingStep
  <2>4. CASE Clear(p) \/ DeleteTrace(p)
    BY <2>4, ClearStep, DeleteTraceStep
  <2> QED
    BY <1>3, <2>1, <2>2, <2>3, <2>4 DEF FlushStep
<1>4. CASE UNCHANGED vars
  BY <1>4 DEF vars, IInv, TypeOK, CachedEntries, HeldEntries, EntriesOfTrace,
     FlushedEntries,
              Writing, TraceAt, OneFlusher, RowWhenWritten, OneTraceRow, SpansHaveTrace
<1> QED
  BY <1>1, <1>2, <1>3, <1>4 DEF Next

LEMMA Inductive == Spec => []IInv
  BY InitInv, NextStep, PTL DEF Spec

\* The exporter's state keeps its types, and every span that waits in a cached entry is
\* counted in the entry's totals (updateTraceAggregate, span_pg_exporter.go:322-374).
THEOREM TypeCorrect == Spec => []TypeOK
<1>1. IInv => TypeOK
  BY DEF IInv
<1> QED
  BY <1>1, Inductive, PTL

\* find and insert are two statements, but a trace never gets two rows: the flushes
\* of the loop and of Shutdown never overlap, and an entry that was persisted, or
\* whose row was found, is updated (span_pg_exporter.go:99-106, 220-239).
THEOREM OneRowPerTrace == Spec => []OneTraceRow
<1>1. IInv => OneTraceRow
  BY DEF IInv
<1> QED
  BY <1>1, Inductive, PTL

\* Whatever statement fails or loses its reply, and whatever is evicted meanwhile, no
\* span row is without the row of its own trace (span_pg_exporter.go:220-249).
THEOREM SpanRowsHaveTrace == Spec => []SpansHaveTrace
<1>1. IInv => SpansHaveTrace
  BY DEF IInv
<1> QED
  BY <1>1, Inductive, PTL

-----------------------------------------------------------------------------
(* On top of IInv: how often a span is inserted, and what the totals of a  *)
(* trace count.                                                            *)


\* A span of which exportSpan has got hold is, and stays, of one allocated entry; once it
\* is aggregated, that entry counts it.
SpanHasEntry ==
    \A s \in Span : export[s] # "open" =>
        /\ held[s] \in Entry /\ entry[held[s]].allocated
        /\ entry[held[s]].trace = TraceOf[s]
        /\ export[s] = "done" => s \in entry[held[s]].agg

\* Only a span that has ended waits in an entry, its own, or is stored.
EndedFirst ==
    /\ \A e \in Entry, s \in Span : s \in entry[e].spans => export[s] = "done" /\ held[s] = e
    /\ \A s \in Span : spanRows[s] > 0 => export[s] = "done"

InFlight(p) == flush[p].pc \in {"find", "insert", "refind", "update", "spans", "clear"}

\* What a flush has copied is still in the entry, which is still the cached one; all that
\* was counted since makes the entry dirty, error spans apart.
Copied == \A p \in Flusher : InFlight(p) =>
    /\ traces[TraceAt(p)] = flush[p].entry
    /\ flush[p].batch \subseteq entry[flush[p].entry].spans
    /\ flush[p].batch \subseteq flush[p].agg
    /\ ~entry[flush[p].entry].dirty =>
          entry[flush[p].entry].agg \ ErrorSpan \subseteq flush[p].agg

\* The totals that were copied count the spans that are stored.
CopyCovers == \A p \in Flusher : InFlight(p) /\ CachedOnce(TraceAt(p)) =>
    Stored(TraceAt(p)) \subseteq flush[p].agg

\* Between the two statements the row has the totals that were copied.
RowCurrent == \A p \in Flusher : flush[p].pc \in {"refind", "spans", "clear"} =>
    traceRow[TraceAt(p)].agg = flush[p].agg

\* A span that waits was only stored by statements whose replies were lost, or just now.
JustStored(s) == \E p \in Flusher : flush[p].pc = "clear" /\ s \in flush[p].batch
WaitsUnstored == \A e \in Entry : \A s \in entry[e].spans :
    ~JustStored(s) => spanRows[s] <= lost

Totals ==
    /\ SpanHasEntry /\ EndedFirst /\ Copied /\ CopyCovers /\ RowCurrent /\ WaitsUnstored
    /\ NoSpanTwice /\ TotalsCoverUnlessEvicted /\ CleanMeansWritten

-----------------------------------------------------------------------------
LEMMA TotalsInit == Init => Totals
<1> SUFFICES ASSUME Init PROVE Totals
  OBVIOUS
<1> USE ExporterAssumption DEF Init
<1>1. \A p \in Flusher : flush[p].pc = "idle"
  BY DEF NotFlushing
<1>2. \A e \in Entry : entry[e].spans = {}
  BY DEF Unused
<1>3. SpanHasEntry /\ EndedFirst /\ Copied /\ CopyCovers /\ RowCurrent /\ WaitsUnstored
  BY <1>1, <1>2 DEF SpanHasEntry, EndedFirst, Copied, CopyCovers, RowCurrent, WaitsUnstored,
                    InFlight
<1>4. NoSpanTwice /\ TotalsCoverUnlessEvicted /\ CleanMeansWritten
  BY DEF NoSpanTwice, TotalsCoverUnlessEvicted, Stored, CleanMeansWritten
<1> QED
  BY <1>3, <1>4 DEF Totals

\* The entry that a flush in flight works on, and its trace.
LEMMA FlushedEntry ==
    ASSUME IInv, NEW p \in Flusher, InFlight(p)
    PROVE  /\ flush[p].entry \in Entry /\ entry[flush[p].entry].allocated
           /\ TraceAt(p) = entry[flush[p].entry].trace /\ TraceAt(p) \in Trace
           /\ \A q \in Flusher \ {p} : ~InFlight(q) /\ flush[q].pc # "clear"
<1>1. Writing(p)
  BY DEF InFlight, Writing
<1>2. \A q \in Flusher \ {p} : ~Writing(q)
  BY <1>1, OnlyOneWrites DEF Writing
<1>3. \A q \in Flusher \ {p} : ~InFlight(q) /\ flush[q].pc # "clear"
  BY <1>2 DEF InFlight, Writing
<1> QED
  BY <1>1, <1>3 DEF IInv, FlushedEntries, TypeOK, EntryState, TraceAt

\* A flush that moves keeps what it has copied.
LEMMA Moved ==
    ASSUME IInv, NEW p \in Flusher, NEW where, Goto(p, where)
    PROVE  /\ flush'[p].pc = where /\ flush'[p].entry = flush[p].entry
           /\ flush'[p].batch = flush[p].batch /\ flush'[p].agg = flush[p].agg
           /\ \A q \in Flusher \ {p} : flush'[q] = flush[q]
<1>1. flush \in [Flusher -> FlushState] /\ flush[p] \in FlushState
  BY DEF IInv, TypeOK
<1> QED
  BY <1>1 DEF Goto, FlushState

\* Steps that write neither to the cache nor to the tables.
LEMMA StillTotals ==
    ASSUME IInv, Totals,
           UNCHANGED <<traces, entry, export, held, traceRow, spanRows, lost>>,
           \A q \in Flusher : InFlight(q)' =>
               /\ InFlight(q)
               /\ flush'[q].entry = flush[q].entry /\ flush'[q].batch = flush[q].batch
               /\ flush'[q].agg = flush[q].agg,
           \A q \in Flusher : flush'[q].pc \in {"refind", "spans", "clear"} =>
               flush[q].pc \in {"refind", "spans", "clear"},
           \A q \in Flusher : flush[q].pc = "clear" => flush'[q].pc = "clear"
    PROVE  Totals'
<1> USE DEF Totals
<1>1. SpanHasEntry' /\ EndedFirst' /\ NoSpanTwice' /\ TotalsCoverUnlessEvicted' /\
      CleanMeansWritten'
  BY DEF SpanHasEntry, EndedFirst, NoSpanTwice, TotalsCoverUnlessEvicted, Stored,
     CachedOnce, EntriesOf,
         CleanMeansWritten
<1>2. Copied'
  BY DEF Copied, TraceAt
<1>3. CopyCovers'
  BY DEF CopyCovers, TraceAt, Stored, CachedOnce, EntriesOf
<1>4. RowCurrent'
  BY DEF RowCurrent, TraceAt, InFlight
<1>5. \A s \in Span : JustStored(s) => JustStored(s)'
  BY DEF JustStored, InFlight
<1>6. WaitsUnstored'
  <2> SUFFICES ASSUME NEW e \in Entry, NEW s \in entry[e].spans, ~JustStored(s)'
               PROVE  spanRows[s] <= lost
    BY DEF WaitsUnstored
  <2>1. s \in Span
    BY DEF IInv, TypeOK, EntryState
  <2> QED
    BY <1>5, <2>1 DEF WaitsUnstored
<1> QED
  BY <1>1, <1>2, <1>3, <1>4, <1>6

\* Steps of a flush that write nothing, and leave "clear" to Clear.
LEMMA StillMove ==
    ASSUME IInv, Totals, NEW p \in Flusher, NEW where, Goto(p, where), flush[p].pc # "clear",
           UNCHANGED <<traces, entry, export, held, traceRow, spanRows, lost>>,
           where \in {"find", "insert", "update"} => InFlight(p),
           where \in {"refind", "spans", "clear"} => flush[p].pc \in {"refind", "spans"}
    PROVE  Totals'
<1>1. \A q \in Flusher : InFlight(q)' =>
         /\ InFlight(q)
         /\ flush'[q].entry = flush[q].entry /\ flush'[q].batch = flush[q].batch
         /\ flush'[q].agg = flush[q].agg
  BY Moved DEF InFlight
<1>2. \A q \in Flusher : flush'[q].pc \in {"refind", "spans", "clear"} =>
         flush[q].pc \in {"refind", "spans", "clear"}
  BY Moved
<1>3. \A q \in Flusher : flush[q].pc = "clear" => flush'[q].pc = "clear"
  BY Moved
<1> QED
  BY <1>1, <1>2, <1>3, StillTotals

LEMMA StillSteps ==
    ASSUME IInv, Totals, NEW p \in Flusher,
           Find(p) \/ Refind(p) \/ StatementFails(p) \/ CheckActive(p) \/ CheckInactive(p)
    PROVE  Totals'
<1>1. CASE Find(p)
  <2>1. PICK where \in {"update", "insert"} : Goto(p, where)
    BY <1>1 DEF Find, WriteTrace
  <2> QED
    BY <1>1, <2>1, StillMove DEF Find, InFlight
<1>2. CASE Refind(p)
  BY <1>2, StillMove DEF Refind
<1>3. CASE StatementFails(p)
  <2>1. flush[p].pc # "clear" /\ Goto(p, "scan")
    BY <1>3 DEF StatementFails, NextTrace
  <2> QED
    BY <1>3, <2>1, StillMove DEF StatementFails
<1>4. CASE CheckActive(p) \/ CheckInactive(p)
  <2>1. PICK where \in {"scan", "delete"} : flush[p].pc # "clear" /\ Goto(p, where)
    BY <1>4 DEF CheckActive, CheckInactive
  <2> QED
    BY <1>4, <2>1, StillMove DEF CheckActive, CheckInactive
<1> QED
  BY <1>1, <1>2, <1>3, <1>4

\* A flush that begins or ends is in flight neither before nor after.
LEMMA RestTotals ==
    ASSUME IInv, Totals, NEW p \in Flusher, NEW next,
           flush' = [flush EXCEPT ![p] = next],
           flush[p].pc \in {"idle", "scan"}, next.pc \in {"idle", "scan", "exited"},
           UNCHANGED <<traces, entry, export, held, traceRow, spanRows, lost>>
    PROVE  Totals'
<1>1. flush'[p] = next /\ \A q \in Flusher \ {p} : flush'[q] = flush[q]
  BY DEF IInv, TypeOK
<1>2. /\ \A q \in Flusher : InFlight(q)' => InFlight(q) /\ flush'[q] = flush[q]
      /\ \A q \in Flusher : flush'[q].pc \in {"refind", "spans", "clear"} =>
            flush[q].pc \in {"refind", "spans", "clear"}
      /\ \A q \in Flusher : flush[q].pc = "clear" => flush'[q].pc = "clear"
  BY <1>1 DEF InFlight
<1> QED
  BY <1>2, StillTotals

LEMMA RestSteps ==
    ASSUME IInv, Totals,
           Tick \/ LoopExit \/ Shutdown \/ FinalFlush \/ \E p \in Flusher : ScanDone(p)
    PROVE  Totals'
<1> USE DEF Flusher
<1>1. Scan.pc = "scan"
  BY ScanType
<1>2. CASE Tick
  BY <1>1, <1>2, RestTotals DEF Tick
<1>3. CASE FinalFlush
  BY <1>1, <1>3, RestTotals DEF FinalFlush
<1>4. CASE LoopExit
  <2>1. flush["loop"] \in FlushState
    BY DEF IInv, TypeOK
  <2>2. [flush["loop"] EXCEPT !.pc = "exited"].pc = "exited"
    BY <2>1 DEF FlushState
  <2> QED
    BY <1>4, <2>2, RestTotals DEF LoopExit
<1>5. CASE Shutdown
  BY <1>5, StillTotals DEF Shutdown, InFlight
<1>6. ASSUME NEW p \in Flusher, ScanDone(p) PROVE Totals'
  <2> DEFINE next == [NotFlushing EXCEPT !.pc = IF p = "loop" THEN "idle" ELSE "exited"]
  <2>1. next.pc \in {"idle", "exited"}
    BY DEF NotFlushing
  <2>2. flush' = [flush EXCEPT ![p] = next]
    BY <1>6 DEF ScanDone
  <2>3. /\ p \in Flusher /\ flush[p].pc \in {"idle", "scan"}
        /\ UNCHANGED <<traces, entry, export, held, traceRow, spanRows, lost>>
    BY <1>6 DEF ScanDone
  <2> HIDE DEF next
  <2> QED
    BY <2>1, <2>2, <2>3, RestTotals
<1> QED
  BY <1>2, <1>3, <1>4, <1>5, <1>6

-----------------------------------------------------------------------------
(* exportSpan. *)

\* An entry that is allocated now was not the entry of anything before.
LEMMA EnsureTotals ==
    ASSUME IInv, Totals, NEW s \in Span, EnsureCachedTrace(s)
    PROVE  Totals'
<1> DEFINE t == TraceOf[s]
<1> USE DEF Totals
<1>0. /\ t \in Trace /\ export[s] = "open"
      /\ export' = [export EXCEPT ![s] = "holding"] /\ export \in [Span -> {"open", "holding", "done"}]
      /\ UNCHANGED <<flush, stopping, traceRow, spanRows, lost>>
  BY ExporterAssumption DEF EnsureCachedTrace, IInv, TypeOK
<1>1. CASE traces[t] # NoEntry /\ held' = [held EXCEPT ![s] = traces[t]] /\ UNCHANGED <<traces, entry>>
  <2>1. traces[t] \in Entry /\ entry[traces[t]].allocated /\ entry[traces[t]].trace = t
    BY <1>0, <1>1 DEF IInv, TypeOK, CachedEntries
  <2>2. SpanHasEntry'
    BY <1>0, <1>1, <2>1 DEF IInv, TypeOK, SpanHasEntry
  <2>3. EndedFirst'
    BY <1>0, <1>1 DEF IInv, TypeOK, EndedFirst
  <2>4. Copied' /\ CopyCovers'
    BY <1>0, <1>1 DEF Copied, CopyCovers, InFlight, TraceAt, Stored, CachedOnce, EntriesOf
  <2>5. RowCurrent' /\ WaitsUnstored'
    BY <1>0, <1>1 DEF RowCurrent, WaitsUnstored, TraceAt, JustStored
  <2>6. NoSpanTwice' /\ TotalsCoverUnlessEvicted' /\ CleanMeansWritten'
    BY <1>0, <1>1 DEF NoSpanTwice, TotalsCoverUnlessEvicted, CleanMeansWritten, Stored,
       CachedOnce, EntriesOf
  <2> QED
    BY <2>2, <2>3, <2>4, <2>5, <2>6
<1>2. ASSUME NEW e \in Entry, traces[t] = NoEntry, ~entry[e].allocated,
             entry' = [entry EXCEPT ![e] = [Unused EXCEPT !.trace = t, !.allocated = TRUE]],
             traces' = [traces EXCEPT ![t] = e],
             held' = [held EXCEPT ![s] = e]
      PROVE  Totals'
  <2> DEFINE fresh == [Unused EXCEPT !.trace = t, !.allocated = TRUE]
  <2>1. /\ fresh.trace = t /\ fresh.allocated /\ fresh.spans = {} /\ fresh.agg = {} /\ fresh.dirty
    BY <1>0 DEF Unused
  <2>2. /\ entry'[e] = fresh /\ \A o \in Entry \ {e} : entry'[o] = entry[o]
        /\ traces'[t] = e /\ \A o \in Trace \ {t} : traces'[o] = traces[o]
        /\ held'[s] = e /\ \A o \in Span \ {s} : held'[o] = held[o]
        /\ export'[s] = "holding" /\ \A o \in Span \ {s} : export'[o] = export[o]
    BY <1>0, <1>2 DEF IInv, TypeOK
  <2> HIDE DEF fresh
  <2>3. SpanHasEntry'
    BY <1>2, <2>1, <2>2 DEF SpanHasEntry
  <2>4. EndedFirst'
    BY <1>0, <2>1, <2>2 DEF EndedFirst
  <2>5. \A p \in Flusher : InFlight(p) =>
           /\ flush[p].entry \in Entry \ {e} /\ TraceAt(p) \in Trace \ {t}
           /\ entry'[flush[p].entry] = entry[flush[p].entry]
    <3> SUFFICES ASSUME NEW p \in Flusher, InFlight(p)
                 PROVE  flush[p].entry \in Entry \ {e} /\ TraceAt(p) \in Trace \ {t}
      BY <2>2, Zenon
    <3>1. flush[p].entry \in Entry \ {e}
      BY <1>2, FlushedEntry
    <3>2. traces[TraceAt(p)] = flush[p].entry
      BY DEF Copied
    <3>3. TraceAt(p) # t
      BY <1>2, <3>1, <3>2, ExporterAssumption
    <3> QED
      BY <3>1, <3>3, FlushedEntry
  <2>6. Copied' /\ RowCurrent'
    BY <1>0, <2>2, <2>5 DEF Copied, RowCurrent, InFlight, TraceAt
  <2>7. \A o \in Trace : CachedOnce(o)' => CachedOnce(o)
    <3>1. \A f \in Entry : entry[f].allocated => entry'[f] = entry[f]
      BY <1>2, <2>2, Zenon
    <3>2. \A o \in Trace : EntriesOf(o) \subseteq EntriesOf(o)'
      BY <3>1 DEF EntriesOf
    <3> QED
      BY <3>2 DEF CachedOnce
  <2>8. CopyCovers'
    BY <1>0, <2>2, <2>5, <2>7 DEF CopyCovers, InFlight, TraceAt, Stored
  <2>9. WaitsUnstored'
    BY <1>0, <2>1, <2>2 DEF WaitsUnstored, JustStored
  <2>10. NoSpanTwice' /\ TotalsCoverUnlessEvicted'
    BY <1>0, <2>7 DEF NoSpanTwice, TotalsCoverUnlessEvicted, Stored
  <2>11. CleanMeansWritten'
    <3> SUFFICES ASSUME NEW o \in Trace, traces'[o] # NoEntry, ~entry'[traces'[o]].dirty
                 PROVE  entry'[traces'[o]].agg \ ErrorSpan \subseteq traceRow[o].agg
      BY <1>0 DEF CleanMeansWritten
    <3>1. o # t
      BY <2>1, <2>2
    <3>2. traces[o] \in Entry /\ entry[traces[o]].allocated
      BY <2>2, <3>1 DEF IInv, TypeOK, CachedEntries
    <3> QED
      BY <1>2, <2>2, <3>1, <3>2 DEF CleanMeansWritten
  <2> QED
    BY <2>3, <2>4, <2>6, <2>8, <2>9, <2>10, <2>11
<1> QED
  BY <1>1, <1>2 DEF EnsureCachedTrace

\* A span that is counted has not been stored, and makes its entry dirty or is an error.
LEMMA AggregateTotals ==
    ASSUME IInv, Totals, NEW s \in Span, UpdateTraceAggregate(s)
    PROVE  Totals'
<1> USE DEF Totals
<1> DEFINE e == held[s]
           counted == [entry[e] EXCEPT !.spans = @ \cup {s}, !.agg = @ \cup {s},
                                       !.dirty = @ \/ s \notin ErrorSpan]
<1>1. e \in Entry /\ entry[e] \in EntryState /\ export[s] = "holding"
  BY DEF UpdateTraceAggregate, SpanHasEntry, IInv, TypeOK
<1>2. entry' = [entry EXCEPT ![e] = counted]
  BY <1>1 DEF UpdateTraceAggregate, Counted, EntryState, IInv, TypeOK
<1>3. /\ counted.trace = entry[e].trace /\ counted.allocated = entry[e].allocated
      /\ counted.spans = entry[e].spans \cup {s} /\ counted.agg = entry[e].agg \cup {s}
      /\ ~counted.dirty => ~entry[e].dirty /\ s \in ErrorSpan
  BY <1>1 DEF EntryState
<1>4. /\ export'[s] = "done" /\ \A o \in Span \ {s} : export'[o] = export[o]
      /\ UNCHANGED <<traces, held, flush, stopping, traceRow, spanRows, lost>>
  BY DEF UpdateTraceAggregate, IInv, TypeOK
<1> HIDE DEF counted
<1>5. entry'[e] = counted /\ \A o \in Entry \ {e} : entry'[o] = entry[o]
  BY <1>1, <1>2 DEF IInv, TypeOK
<1>6. \A o \in Entry : /\ entry'[o].trace = entry[o].trace /\ entry'[o].allocated = entry[o].allocated
                       /\ entry[o].spans \subseteq entry'[o].spans
                       /\ entry[o].agg \subseteq entry'[o].agg
                       /\ ~entry'[o].dirty => ~entry[o].dirty
                                              /\ entry'[o].agg \ ErrorSpan \subseteq entry[o].agg
  BY <1>3, <1>5
<1>7. SpanHasEntry'
  BY <1>1, <1>3, <1>4, <1>5, <1>6 DEF SpanHasEntry
<1>8. EndedFirst'
  BY <1>1, <1>3, <1>4, <1>5 DEF EndedFirst
<1>9. \A o \in Trace : CachedOnce(o)' => CachedOnce(o)
  BY <1>6 DEF CachedOnce, EntriesOf
<1>10. \A p \in Flusher : InFlight(p) => flush[p].entry \in Entry /\ TraceAt(p)' = TraceAt(p)
                                         /\ TraceAt(p) \in Trace
  BY <1>4, <1>6, FlushedEntry DEF TraceAt
<1>11. Copied' /\ RowCurrent'
  <2>1. RowCurrent'
    BY <1>4, <1>10 DEF RowCurrent, InFlight
  <2>2. Copied'
    BY <1>4, <1>6, <1>10 DEF Copied, InFlight
  <2> QED
    BY <2>1, <2>2
<1>12. CopyCovers'
  BY <1>4, <1>9, <1>10 DEF CopyCovers, InFlight, Stored
<1>13. WaitsUnstored'
  <2> SUFFICES ASSUME NEW o \in Entry, NEW q \in entry'[o].spans, ~JustStored(q)'
               PROVE  spanRows[q] <= lost
    BY <1>4 DEF WaitsUnstored
  <2>1. CASE q \in entry[o].spans
    BY <1>4, <2>1 DEF WaitsUnstored, JustStored
  <2>2. CASE q = s
    BY <1>1, <2>2 DEF EndedFirst, IInv, TypeOK
  <2> QED
    BY <1>3, <1>5, <2>1, <2>2
<1>14. NoSpanTwice' /\ TotalsCoverUnlessEvicted'
  BY <1>4, <1>9 DEF NoSpanTwice, TotalsCoverUnlessEvicted, Stored
<1>15. CleanMeansWritten'
  BY <1>4, <1>6 DEF CleanMeansWritten, IInv, TypeOK
<1> QED
  BY <1>7, <1>8, <1>11, <1>12, <1>13, <1>14, <1>15

-----------------------------------------------------------------------------
(* flushTrace. *)

\* A flush copies what the entry has, which counts every stored span of a trace that was
\* cached once.
LEMMA VisitTotals ==
    ASSUME IInv, Totals, NEW p \in Flusher, Visit(p)
    PROVE  Totals'
<1> USE DEF Totals
<1>1. PICK t \in Cached \cap flush[p].left :
         flush' = [flush EXCEPT ![p] =
             [pc |-> IF Clean(traces[t]) THEN "check"
                     ELSE IF entry[traces[t]].persisted THEN "update" ELSE "find",
              must |-> flush[p].must \ {t}, left |-> flush[p].left \ {t},
              entry |-> traces[t],
              batch |-> entry[traces[t]].spans, agg |-> entry[traces[t]].agg]]
  BY DEF Visit
<1> DEFINE e == traces[t]
<1>2. t \in Trace /\ e \in Entry /\ entry[e].allocated /\ entry[e].trace = t
  BY DEF Cached, IInv, TypeOK, CachedEntries
<1>3. /\ flush'[p].pc \in {"check", "update", "find"} /\ flush'[p].entry = e
      /\ flush'[p].batch = entry[e].spans /\ flush'[p].agg = entry[e].agg
      /\ \A q \in Flusher \ {p} : flush'[q] = flush[q]
  BY <1>1 DEF IInv, TypeOK
<1>4. UNCHANGED <<traces, entry, export, held, stopping, traceRow, spanRows, lost>>
  BY DEF Visit
<1> HIDE DEF e
<1>5. \A q \in Flusher \ {p} : ~InFlight(q) /\ flush[q].pc # "clear"
  BY OnlyOneWrites DEF Visit, Writing, InFlight
<1>6. TraceAt(p)' = t /\ entry[e].spans \subseteq entry[e].agg
  BY <1>2, <1>3, <1>4 DEF TraceAt, IInv, TypeOK
<1>7. SpanHasEntry' /\ EndedFirst' /\ NoSpanTwice' /\ TotalsCoverUnlessEvicted' /\
      CleanMeansWritten'
  BY <1>4 DEF SpanHasEntry, EndedFirst, NoSpanTwice, TotalsCoverUnlessEvicted, Stored,
              CachedOnce, EntriesOf, CleanMeansWritten
<1>8. Copied'
  BY <1>2, <1>3, <1>4, <1>5, <1>6 DEF Copied, InFlight, e
<1>9. CachedOnce(t) => Stored(t) \subseteq entry[e].agg
  BY <1>2 DEF CachedOnce, EntriesOf, Stored, SpanHasEntry, EndedFirst
<1>10. CachedOnce(t)' <=> CachedOnce(t)
  BY <1>4 DEF CachedOnce, EntriesOf
<1>11. CopyCovers'
  BY <1>3, <1>4, <1>5, <1>6, <1>9, <1>10 DEF CopyCovers, InFlight, Stored
<1>12. RowCurrent'
  BY <1>3, <1>5 DEF RowCurrent, InFlight
<1>13. WaitsUnstored'
  <2>1. \A s \in Span : ~JustStored(s)
    BY <1>5 DEF JustStored, Visit
  <2> QED
    BY <1>4, <2>1 DEF WaitsUnstored, IInv, TypeOK, EntryState
<1> QED
  BY <1>7, <1>8, <1>11, <1>12, <1>13

\* The totals that are written are those that were copied.
LEMMA TraceWritten ==
    ASSUME IInv, Totals, NEW p \in Flusher, NEW where \in {"refind", "spans", "scan"},
           flush[p].pc \in {"insert", "update"}, Goto(p, where),
           traceRow'[TraceAt(p)].agg = flush[p].agg,
           \A t \in Trace \ {TraceAt(p)} : traceRow'[t] = traceRow[t],
           UNCHANGED <<traces, entry, export, held, stopping, spanRows>>,
           lost \in Nat, lost' \in Nat, lost' >= lost
    PROVE  Totals'
<1> USE DEF Totals
<1> DEFINE e == flush[p].entry
           t == TraceAt(p)
<1>1. InFlight(p)
  BY DEF InFlight
<1>2. /\ e \in Entry /\ t \in Trace /\ t = entry[e].trace
      /\ \A q \in Flusher \ {p} : ~InFlight(q) /\ flush[q].pc # "clear"
  BY <1>1, FlushedEntry
<1>3. /\ flush'[p].pc = where /\ flush'[p].entry = e
      /\ flush'[p].batch = flush[p].batch /\ flush'[p].agg = flush[p].agg
      /\ \A q \in Flusher \ {p} : flush'[q] = flush[q]
  BY Moved
<1>4. TraceAt(p)' = t
  BY <1>2, <1>3 DEF TraceAt
<1>5. /\ traces[t] = e /\ flush[p].batch \subseteq entry[e].spans
      /\ flush[p].batch \subseteq flush[p].agg
      /\ ~entry[e].dirty => entry[e].agg \ ErrorSpan \subseteq flush[p].agg
  BY <1>1 DEF Copied
<1> HIDE DEF e, t
<1>6. SpanHasEntry' /\ EndedFirst'
  BY DEF SpanHasEntry, EndedFirst
<1>7. Copied'
  <2>1. \A q \in Flusher : InFlight(q)' => q = p
    BY <1>2, <1>3 DEF InFlight
  <2>2. /\ traces'[TraceAt(p)'] = flush'[p].entry /\ flush'[p].batch \subseteq flush'[p].agg
        /\ flush'[p].batch \subseteq entry'[flush'[p].entry].spans
        /\ ~entry'[flush'[p].entry].dirty =>
              entry'[flush'[p].entry].agg \ ErrorSpan \subseteq flush'[p].agg
    BY <1>3, <1>4, <1>5
  <2> QED
    BY <2>1, <2>2 DEF Copied
<1>8. \A o \in Trace : (CachedOnce(o)' <=> CachedOnce(o)) /\ Stored(o)' = Stored(o)
  BY DEF CachedOnce, EntriesOf, Stored
<1>9. CachedOnce(t) => Stored(t) \subseteq flush[p].agg
  BY <1>1 DEF CopyCovers, t
<1>10. CopyCovers'
  BY <1>2, <1>3, <1>4, <1>8, <1>9 DEF CopyCovers, InFlight
<1>11. RowCurrent'
  BY <1>2, <1>3, <1>4 DEF RowCurrent, InFlight, t
<1>12. WaitsUnstored'
  <2> SUFFICES ASSUME NEW o \in Entry, NEW s \in entry[o].spans PROVE spanRows[s] <= lost'
    BY DEF WaitsUnstored
  <2>1. s \in Span /\ spanRows[s] \in Nat
    BY DEF IInv, TypeOK, EntryState
  <2>2. ~JustStored(s)
    BY <1>2 DEF JustStored
  <2>3. spanRows[s] <= lost
    BY <2>1, <2>2 DEF WaitsUnstored
  <2> QED
    BY <2>1, <2>3
<1>13. NoSpanTwice'
  <2> SUFFICES ASSUME NEW s \in Span PROVE spanRows[s] <= 1 + lost'
    BY DEF NoSpanTwice
  <2>1. spanRows[s] \in Nat /\ spanRows[s] <= 1 + lost
    BY DEF NoSpanTwice, IInv, TypeOK
  <2> QED
    BY <2>1
<1>14. TotalsCoverUnlessEvicted'
  BY <1>2, <1>8, <1>9 DEF TotalsCoverUnlessEvicted, t
<1>15. CleanMeansWritten'
  BY <1>2, <1>5 DEF CleanMeansWritten, t
<1> QED
  BY <1>6, <1>7, <1>10, <1>11, <1>12, <1>13, <1>14, <1>15

LEMMA TraceTotals ==
    ASSUME IInv, Totals, NEW p \in Flusher, InsertTrace(p) \/ UpdateTrace(p)
    PROVE  Totals'
<1>1. InFlight(p) /\ flush[p].pc \in {"insert", "update"}
  BY DEF InsertTrace, UpdateTrace, InFlight
<1>2. TraceAt(p) \in Trace /\ traceRow \in [Trace -> [rows : Nat, agg : SUBSET Span]]
  BY <1>1, FlushedEntry DEF IInv, TypeOK
<1>3. /\ traceRow'[TraceAt(p)].agg = flush[p].agg
      /\ \A t \in Trace \ {TraceAt(p)} : traceRow'[t] = traceRow[t]
  BY <1>2 DEF InsertTrace, UpdateTrace
<1>4. lost \in Nat /\ lost' \in Nat /\ lost' >= lost
  BY ExporterAssumption DEF InsertTrace, UpdateTrace, Replied, IInv, TypeOK
<1>5. PICK where \in {"refind", "spans", "scan"} : Goto(p, where)
  BY DEF InsertTrace, UpdateTrace, Replied
<1> QED
  BY <1>1, <1>3, <1>4, <1>5, TraceWritten DEF InsertTrace, UpdateTrace

\* The spans that are inserted waited, and are in the totals that were just written.
LEMMA SpansTotals ==
    ASSUME IInv, Totals, NEW p \in Flusher, InsertSpans(p)
    PROVE  Totals'
<1> USE DEF Totals
<1> DEFINE e == flush[p].entry
<1>1. InFlight(p) /\ flush[p].pc = "spans"
  BY DEF InsertSpans, InFlight
<1>0. PICK t \in Trace : t = TraceAt(p)
  BY <1>1, FlushedEntry
<1>2. /\ e \in Entry /\ t = entry[e].trace
      /\ \A q \in Flusher \ {p} : ~InFlight(q) /\ flush[q].pc # "clear"
  BY <1>0, <1>1, FlushedEntry
<1>3. PICK where \in {"clear", "scan"} : /\ Goto(p, where)
                                         /\ lost' = IF where = "clear" THEN lost ELSE lost + 1
  BY DEF InsertSpans, Replied
<1>4. /\ flush'[p].pc = where /\ flush'[p].entry = e
      /\ flush'[p].batch = flush[p].batch /\ flush'[p].agg = flush[p].agg
      /\ \A q \in Flusher \ {p} : flush'[q] = flush[q]
  BY <1>3, Moved
<1>5. UNCHANGED <<traces, entry, export, held, stopping, traceRow>>
  BY DEF InsertSpans
<1>6. TraceAt(p)' = t
  BY <1>2, <1>4, <1>5 DEF TraceAt
<1>7. /\ traces[t] = e /\ flush[p].batch \subseteq entry[e].spans
      /\ flush[p].batch \subseteq flush[p].agg /\ traceRow[t].agg = flush[p].agg
  BY <1>0, <1>1 DEF Copied, RowCurrent
<1>8. /\ lost \in Nat /\ lost' \in Nat /\ spanRows \in [Span -> Nat]
      /\ flush[p].batch \subseteq Span
  BY <1>2, <1>3, <1>7, ExporterAssumption DEF IInv, TypeOK, EntryState
<1>9. \A s \in Span : spanRows'[s] = IF s \in flush[p].batch THEN spanRows[s] + 1 ELSE spanRows[s]
  BY DEF InsertSpans
<1>10. flush[p].batch \subseteq SpansOf(t)
  BY <1>0, <1>1, FlushedTrace DEF InFlight, Writing
<1> HIDE DEF e
<1>11. SpanHasEntry'
  BY <1>5 DEF SpanHasEntry
<1>12. EndedFirst'
  BY <1>2, <1>5, <1>7, <1>8, <1>9 DEF EndedFirst
<1>13. Copied'
  BY ZenonT(30), <1>0, <1>1, <1>2, <1>4, <1>5, <1>6 DEF Copied, InFlight, e
<1>14. \A o \in Trace : CachedOnce(o)' <=> CachedOnce(o)
  BY <1>5 DEF CachedOnce, EntriesOf
<1>15. /\ Stored(t)' \subseteq Stored(t) \cup flush[p].batch
       /\ \A o \in Trace \ {t} : Stored(o)' \subseteq Stored(o)
  BY <1>8, <1>9, <1>10 DEF Stored, SpansOf
<1>16. CachedOnce(t) => Stored(t)' \subseteq flush[p].agg
  BY <1>0, <1>1, <1>7, <1>15 DEF CopyCovers
<1>17. CopyCovers'
  BY <1>2, <1>4, <1>6, <1>14, <1>16 DEF CopyCovers, InFlight
<1>18. RowCurrent'
  BY <1>2, <1>4, <1>5, <1>6, <1>7 DEF RowCurrent, InFlight
<1>19. \A s \in Span : spanRows[s] <= 1 + lost
  BY DEF NoSpanTwice
<1>20. \A o \in Entry : \A s \in entry[o].spans : s \in Span /\ spanRows[s] <= lost
  <2>1. \A s \in Span : ~JustStored(s)
    BY <1>1, <1>2 DEF JustStored
  <2>2. \A o \in Entry : entry[o].spans \subseteq Span
    BY DEF IInv, TypeOK, EntryState
  <2> QED
    BY <2>1, <2>2 DEF WaitsUnstored
<1>21. WaitsUnstored'
  <2> SUFFICES ASSUME NEW o \in Entry, NEW s \in entry[o].spans, ~JustStored(s)'
               PROVE  spanRows'[s] <= lost'
    BY <1>5 DEF WaitsUnstored
  <2>1. s \in Span /\ spanRows[s] \in Nat /\ spanRows[s] <= lost
    BY <1>8, <1>20
  <2>2. CASE s \in flush[p].batch
    <3>1. where = "scan"
      BY <1>4, <2>2 DEF JustStored
    <3> QED
      BY <1>3, <1>8, <1>9, <2>1, <3>1
  <2>3. CASE s \notin flush[p].batch
    BY <1>3, <1>8, <1>9, <2>1, <2>3
  <2> QED
    BY <2>2, <2>3
<1>22. NoSpanTwice'
  <2> SUFFICES ASSUME NEW s \in Span PROVE spanRows'[s] <= 1 + lost'
    BY DEF NoSpanTwice
  <2>1. s \in flush[p].batch => spanRows[s] <= lost
    BY <1>2, <1>7, <1>20
  <2> QED
    BY <1>3, <1>8, <1>9, <1>19, <2>1
<1>23. TotalsCoverUnlessEvicted'
  <2> SUFFICES ASSUME NEW o \in Trace, CachedOnce(o)
               PROVE  Stored(o)' \subseteq traceRow[o].agg
    BY <1>5, <1>14 DEF TotalsCoverUnlessEvicted
  <2>1. CASE o = t
    BY <1>7, <1>16, <2>1
  <2>2. CASE o # t
    BY <1>15, <2>2 DEF TotalsCoverUnlessEvicted
  <2> QED
    BY <2>1, <2>2
<1>24. CleanMeansWritten'
  BY <1>5 DEF CleanMeansWritten
<1> QED
  BY <1>11, <1>12, <1>13, <1>17, <1>18, <1>21, <1>22, <1>23, <1>24

\* An entry is clean only when all that it counts, error spans apart, was written.
LEMMA ClearTotals ==
    ASSUME IInv, Totals, NEW p \in Flusher, Clear(p)
    PROVE  Totals'
<1> USE DEF Totals
<1> DEFINE e == flush[p].entry
           t == TraceAt(p)
           cleared == [entry[e] EXCEPT !.persisted = TRUE, !.spans = {},
                                       !.dirty = StillDirty(p)]
<1>1. InFlight(p) /\ flush[p].pc = "clear"
  BY DEF Clear, InFlight
<1>2. /\ e \in Entry /\ t \in Trace /\ t = entry[e].trace
      /\ \A q \in Flusher \ {p} : ~InFlight(q) /\ flush[q].pc # "clear"
  BY <1>1, FlushedEntry
<1>3. /\ flush'[p].pc = "check" /\ \A q \in Flusher \ {p} : flush'[q] = flush[q]
  BY Moved DEF Clear
<1>4. UNCHANGED <<traces, export, held, stopping, traceRow, spanRows, lost>>
  BY DEF Clear
<1>5. entry \in [Entry -> EntryState] /\ entry' = [entry EXCEPT ![e] = cleared]
  BY <1>2 DEF Clear, DropSpans, EntryState, IInv, TypeOK
<1>6. /\ cleared.trace = entry[e].trace /\ cleared.allocated = entry[e].allocated
      /\ cleared.spans = {} /\ cleared.agg = entry[e].agg
      /\ ~cleared.dirty => ~entry[e].dirty \/ entry[e].agg \ ErrorSpan = flush[p].agg \ ErrorSpan
  <2>1. entry[e] \in EntryState
    BY <1>2, <1>5
  <2>2. /\ cleared.trace = entry[e].trace /\ cleared.allocated = entry[e].allocated
        /\ cleared.spans = {} /\ cleared.agg = entry[e].agg /\ cleared.dirty = StillDirty(p)
    BY <2>1 DEF EntryState
  <2> QED
    BY <2>2, Zenon DEF StillDirty
<1> HIDE DEF cleared
<1>7. entry'[e] = cleared /\ \A o \in Entry \ {e} : entry'[o] = entry[o]
  BY <1>2, <1>5
<1>8. \A o \in Entry : /\ entry'[o].trace = entry[o].trace
                       /\ entry'[o].allocated = entry[o].allocated
                       /\ entry'[o].agg = entry[o].agg
                       /\ entry'[o].spans \subseteq entry[o].spans
  BY <1>6, <1>7
<1>9. /\ traces[t] = e /\ flush[p].batch \subseteq entry[e].spans
      /\ traceRow[t].agg = flush[p].agg
      /\ ~entry[e].dirty => entry[e].agg \ ErrorSpan \subseteq flush[p].agg
  BY <1>1 DEF Copied, RowCurrent
<1> HIDE DEF e, t
<1>10. SpanHasEntry' /\ EndedFirst'
  BY <1>4, <1>8 DEF SpanHasEntry, EndedFirst
<1>11. \A q \in Flusher : ~InFlight(q)'
  BY <1>2, <1>3 DEF InFlight
<1>12. Copied' /\ CopyCovers' /\ RowCurrent'
  BY <1>11 DEF Copied, CopyCovers, RowCurrent, InFlight
<1>13. WaitsUnstored'
  <2> SUFFICES ASSUME NEW o \in Entry, NEW s \in entry'[o].spans PROVE spanRows[s] <= lost
    BY <1>4 DEF WaitsUnstored
  <2>1. o # e /\ s \in entry[o].spans /\ s \in Span
    BY <1>5, <1>6, <1>7 DEF EntryState
  <2>2. s \notin flush[p].batch
    BY <1>2, <1>9, <2>1 DEF EndedFirst
  <2>3. ~JustStored(s)
    BY <1>2, <2>2 DEF JustStored
  <2> QED
    BY <2>1, <2>3 DEF WaitsUnstored
<1>14. NoSpanTwice' /\ TotalsCoverUnlessEvicted'
  BY <1>4, <1>8 DEF NoSpanTwice, TotalsCoverUnlessEvicted, Stored, CachedOnce, EntriesOf
<1>15. CleanMeansWritten'
  <2> SUFFICES ASSUME NEW o \in Trace, traces[o] # NoEntry, ~entry'[traces[o]].dirty
               PROVE  entry'[traces[o]].agg \ ErrorSpan \subseteq traceRow[o].agg
    BY <1>4 DEF CleanMeansWritten
  <2>1. traces[o] \in Entry /\ entry[traces[o]].trace = o
    BY DEF IInv, TypeOK, CachedEntries
  <2>2. CASE traces[o] = e
    BY <1>2, <1>6, <1>7, <1>9, <2>1, <2>2
  <2>3. CASE traces[o] # e
    BY <1>7, <2>1, <2>3 DEF CleanMeansWritten
  <2> QED
    BY <2>2, <2>3
<1> QED
  BY <1>10, <1>12, <1>13, <1>14, <1>15

LEMMA DeleteTotals ==
    ASSUME IInv, Totals, NEW p \in Flusher, DeleteTrace(p)
    PROVE  Totals'
<1> USE DEF Totals
<1>1. /\ flush'[p].pc = "scan" /\ \A q \in Flusher \ {p} : flush'[q] = flush[q]
  BY Moved DEF DeleteTrace
<1>2. UNCHANGED <<entry, export, held, stopping, traceRow, spanRows, lost>>
  BY DEF DeleteTrace
<1>3. \A q \in Flusher : ~InFlight(q)' /\ flush[q].pc # "clear"
  BY <1>1, OnlyOneWrites DEF DeleteTrace, InFlight, Writing
<1>4. Copied' /\ CopyCovers' /\ RowCurrent'
  BY <1>3 DEF Copied, CopyCovers, RowCurrent, InFlight
<1>5. SpanHasEntry' /\ EndedFirst' /\ NoSpanTwice' /\ TotalsCoverUnlessEvicted'
  BY <1>2 DEF SpanHasEntry, EndedFirst, NoSpanTwice, TotalsCoverUnlessEvicted, Stored,
              CachedOnce, EntriesOf
<1>6. WaitsUnstored'
  BY <1>2, <1>3 DEF WaitsUnstored, JustStored
<1>7. CleanMeansWritten'
  <2>1. \A t \in Trace : traces'[t] = traces[t] \/ traces'[t] = NoEntry
    BY DEF DeleteTrace, IInv, TypeOK
  <2> QED
    BY <1>2, <2>1 DEF CleanMeansWritten
<1> QED
  BY <1>4, <1>5, <1>6, <1>7

-----------------------------------------------------------------------------
LEMMA TotalsNext == IInv /\ Totals /\ [Next]_vars => Totals'
<1> SUFFICES ASSUME IInv, Totals, [Next]_vars PROVE Totals'
  OBVIOUS
<1>1. CASE \E s \in Span : EnsureCachedTrace(s) \/ UpdateTraceAggregate(s)
  BY <1>1, EnsureTotals, AggregateTotals
<1>2. CASE Tick \/ LoopExit \/ Shutdown \/ FinalFlush \/ \E p \in Flusher : ScanDone(p)
  BY <1>2, RestSteps
<1>3. ASSUME NEW p \in Flusher, FlushStep(p), ~ScanDone(p) PROVE Totals'
  <2>1. CASE Visit(p) \/ Clear(p) \/ DeleteTrace(p)
    BY <2>1, VisitTotals, ClearTotals, DeleteTotals
  <2>2. CASE InsertTrace(p) \/ UpdateTrace(p) \/ InsertSpans(p)
    BY <2>2, TraceTotals, SpansTotals
  <2>3. CASE Find(p) \/ Refind(p) \/ StatementFails(p) \/ CheckActive(p) \/ CheckInactive(p)
    BY <2>3, StillSteps
  <2> QED
    BY <1>3, <2>1, <2>2, <2>3 DEF FlushStep
<1>4. CASE UNCHANGED vars
  BY <1>4, StillTotals DEF vars, InFlight
<1> QED
  BY <1>1, <1>2, <1>3, <1>4 DEF Next

LEMMA TotalsInductive == Spec => []Totals
  BY TotalsInit, TotalsNext, Inductive, PTL DEF Spec

\* Retries, evictions and the final flush insert a span again only when a statement took
\* effect and its reply was lost (span_pg_exporter.go:244-258).
THEOREM SpansInsertedOnce == Spec => []NoSpanTwice
<1>1. Totals => NoSpanTwice
  BY DEF Totals
<1> QED
  BY <1>1, TotalsInductive, PTL

\* The row of a trace counts every span row of it, whatever fails, unless the trace was
\* evicted and cached again (span_pg_exporter.go:161-166, 225-249).
THEOREM TotalsCover == Spec => []TotalsCoverUnlessEvicted
<1>1. Totals => TotalsCoverUnlessEvicted
  BY DEF Totals
<1> QED
  BY <1>1, TotalsInductive, PTL

\* A trace is marked clean only when its row has what its spans add up to, error spans
\* that ended during the flush apart (span_pg_exporter.go:251-258, 366-379).
THEOREM CleanIsWritten == Spec => []CleanMeansWritten
<1>1. Totals => CleanMeansWritten
  BY DEF Totals
<1> QED
  BY <1>1, TotalsInductive, PTL

-----------------------------------------------------------------------------
(* Losses. *)

\* A flush works on the cached entry of its trace to the end: nothing but a flush
\* removes an entry, and nothing replaces one.
StillCached == \A p \in Flusher : Writing(p) => traces[TraceAt(p)] = flush[p].entry

\* When the lock is taken again the batch has its rows.
BatchStored == \A p \in Flusher : flush[p].pc = "clear" =>
    \A s \in flush[p].batch : spanRows[s] > 0

Losses == StillCached /\ BatchStored

\* What a step of exportSpan does to the cache.
LEMMA ExportLosses ==
    ASSUME IInv, Losses, NEW s \in Span, EnsureCachedTrace(s) \/ UpdateTraceAggregate(s)
    PROVE  Losses' /\ \A t \in Trace : traces[t] # NoEntry =>
               traces'[t] = traces[t] /\ entry[traces[t]].spans \subseteq entry'[traces[t]].spans
<1> USE DEF IInv, TypeOK, CachedEntries
<1>1. UNCHANGED <<flush, spanRows>>
  BY DEF EnsureCachedTrace, UpdateTraceAggregate
<1>2. \A t \in Trace : traces[t] # NoEntry => traces'[t] = traces[t]
  BY ExporterAssumption DEF EnsureCachedTrace, UpdateTraceAggregate
<1>3. \A e \in Entry : entry[e].allocated =>
         entry'[e].trace = entry[e].trace /\ entry[e].spans \subseteq entry'[e].spans
  <2>1. CASE EnsureCachedTrace(s)
    BY <2>1 DEF EnsureCachedTrace
  <2>2. CASE UpdateTraceAggregate(s)
    BY <2>2 DEF UpdateTraceAggregate, EntryState
  <2> QED
    BY <2>1, <2>2
<1>4. \A p \in Flusher : Writing(p) => TraceAt(p) \in Trace /\ TraceAt(p)' = TraceAt(p)
  BY <1>1, <1>3 DEF FlushedEntries, TraceAt, EntryState
<1>5. StillCached'
  BY <1>1, <1>2, <1>4, ExporterAssumption DEF Losses, StillCached, Writing, FlushedEntries
<1>6. BatchStored'
  BY <1>1 DEF Losses, BatchStored
<1> QED
  BY <1>2, <1>3, <1>5, <1>6 DEF Losses

\* Steps of the flushes that leave the cache and the span rows alone.
LEMMA FlushLosses ==
    ASSUME IInv, Losses, UNCHANGED <<traces, entry>>,
           \A s \in Span : spanRows[s] > 0 => spanRows'[s] > 0,
           \A q \in Flusher : Writing(q)' =>
               \/ Writing(q) /\ flush'[q].entry = flush[q].entry /\ flush'[q].batch = flush[q].batch
               \/ traces[entry[flush'[q].entry].trace] = flush'[q].entry /\ flush'[q].pc # "clear",
           \A q \in Flusher : flush'[q].pc = "clear" /\ flush[q].pc # "clear" =>
               \A s \in flush'[q].batch : spanRows'[s] > 0
    PROVE  Losses'
<1> USE DEF IInv, TypeOK, Losses
<1>1. StillCached'
  BY DEF StillCached, TraceAt
<1>2. BatchStored'
  BY DEF BatchStored, Writing, FlushState
<1> QED
  BY <1>1, <1>2

LEMMA GotoLosses ==
    ASSUME IInv, Losses, NEW p \in Flusher, NEW where, Goto(p, where), Writing(p),
           UNCHANGED <<traces, entry>>, \A s \in Span : spanRows[s] > 0 => spanRows'[s] > 0,
           where = "clear" => \A s \in flush[p].batch : spanRows'[s] > 0
    PROVE  Losses'
<1>1. \A q \in Flusher : Writing(q)' =>
         Writing(q) /\ flush'[q].entry = flush[q].entry /\ flush'[q].batch = flush[q].batch
  BY Moved DEF Writing
<1>2. \A q \in Flusher : flush'[q].pc = "clear" /\ flush[q].pc # "clear" =>
         \A s \in flush'[q].batch : spanRows'[s] > 0
  BY Moved
<1> QED
  BY <1>1, <1>2, FlushLosses

LEMMA WriteLosses ==
    ASSUME IInv, Losses, NEW p \in Flusher,
           \/ Find(p) \/ InsertTrace(p) \/ Refind(p) \/ UpdateTrace(p) \/ InsertSpans(p)
           \/ StatementFails(p) \/ CheckActive(p) \/ CheckInactive(p)
    PROVE  Losses' /\ UNCHANGED <<traces, entry>>
<1> USE DEF Writing
<1>1. CASE InsertSpans(p)
  <2>1. spanRows' = [s \in Span |-> IF s \in flush[p].batch THEN spanRows[s] + 1
                                                              ELSE spanRows[s]]
        /\ flush[p].batch \subseteq Span /\ spanRows \in [Span -> Nat]
    BY <1>1 DEF InsertSpans, IInv, TypeOK, FlushState
  <2>2. /\ \A s \in Span : spanRows[s] > 0 => spanRows'[s] > 0
        /\ \A s \in flush[p].batch : spanRows'[s] > 0
    BY <2>1
  <2>3. \E where : Goto(p, where)
    BY <1>1 DEF InsertSpans, Replied
  <2> QED
    BY <1>1, <2>2, <2>3, GotoLosses DEF InsertSpans
<1>2. CASE \/ Find(p) \/ InsertTrace(p) \/ Refind(p) \/ UpdateTrace(p)
           \/ StatementFails(p) \/ CheckActive(p) \/ CheckInactive(p)
  <2>1. PICK where : where # "clear" /\ Goto(p, where)
    BY <1>2 DEF Find, InsertTrace, Refind, UpdateTrace, StatementFails, CheckActive,
                CheckInactive, Replied, NextTrace, WriteTrace
  <2>2. Writing(p) /\ UNCHANGED <<traces, entry, spanRows>>
    BY <1>2 DEF Find, InsertTrace, Refind, UpdateTrace, StatementFails, CheckActive,
                CheckInactive
  <2>3. \A s \in Span : spanRows[s] > 0 => spanRows'[s] > 0
    BY <2>2 DEF IInv, TypeOK
  <2> QED
    BY <2>1, <2>2, <2>3, GotoLosses
<1> QED
  BY <1>1, <1>2

LEMMA ScanLosses ==
    ASSUME IInv, Losses,
           Tick \/ LoopExit \/ Shutdown \/ FinalFlush \/ \E p \in Flusher : ScanDone(p) \/ Visit(p)
    PROVE  Losses' /\ UNCHANGED <<traces, entry>>
<1>1. UNCHANGED <<traces, entry, spanRows>>
  BY DEF Tick, LoopExit, Shutdown, FinalFlush, ScanDone, Visit
<1>2. \A s \in Span : spanRows[s] > 0 => spanRows'[s] > 0
  BY <1>1 DEF IInv, TypeOK
<1>3. CASE Shutdown
  BY <1>1, <1>2, <1>3, FlushLosses DEF Shutdown, Writing
<1>4. ASSUME NEW p \in Flusher, NEW next, flush' = [flush EXCEPT ![p] = next],
             \/ next.pc \in {"idle", "scan", "exited"}
             \/ next.pc # "clear" /\ traces[entry[next.entry].trace] = next.entry
      PROVE  Losses'
  <2>1. flush'[p] = next /\ \A q \in Flusher \ {p} : flush'[q] = flush[q]
    BY <1>4 DEF IInv, TypeOK
  <2>2. \A q \in Flusher : Writing(q)' =>
          \/ Writing(q) /\ flush'[q].entry = flush[q].entry /\ flush'[q].batch = flush[q].batch
          \/ traces[entry[flush'[q].entry].trace] = flush'[q].entry /\ flush'[q].pc # "clear"
    BY <1>4, <2>1 DEF Writing
  <2>3. \A q \in Flusher : flush'[q].pc = "clear" => flush[q].pc = "clear"
    BY <1>4, <2>1
  <2> QED
    BY <1>1, <1>2, <2>2, <2>3, FlushLosses
<1>5. CASE Tick \/ FinalFlush
  <2>1. PICK p \in Flusher : flush' = [flush EXCEPT ![p] = Scan]
    BY <1>5 DEF Tick, FinalFlush, Flusher
  <2>2. Scan.pc \in {"idle", "scan", "exited"}
    BY ScanType
  <2> QED
    BY <1>1, <1>4, <2>1, <2>2
<1>6. CASE LoopExit
  <2>1. flush["loop"] \in FlushState /\ "loop" \in Flusher
    BY DEF IInv, TypeOK, Flusher
  <2>2. [flush["loop"] EXCEPT !.pc = "exited"].pc = "exited"
    BY <2>1 DEF FlushState
  <2> QED
    BY <1>1, <1>4, <1>6, <2>1, <2>2 DEF LoopExit
<1>7. ASSUME NEW p \in Flusher, ScanDone(p) PROVE Losses'
  <2> DEFINE next == [NotFlushing EXCEPT !.pc = IF p = "loop" THEN "idle" ELSE "exited"]
  <2>1. next.pc \in {"idle", "exited"} /\ flush' = [flush EXCEPT ![p] = next]
    BY <1>7 DEF NotFlushing, ScanDone
  <2> HIDE DEF next
  <2> QED
    BY <1>4, <2>1
<1>8. ASSUME NEW p \in Flusher, Visit(p) PROVE Losses'
  <2>1. PICK t \in Cached \cap flush[p].left :
          flush' = [flush EXCEPT ![p] =
             [pc |-> IF Clean(traces[t]) THEN "check"
                     ELSE IF entry[traces[t]].persisted THEN "update" ELSE "find",
              must |-> flush[p].must \ {t}, left |-> flush[p].left \ {t},
              entry |-> traces[t],
              batch |-> entry[traces[t]].spans, agg |-> entry[traces[t]].agg]]
    BY <1>8 DEF Visit
  <2> DEFINE next == flush'[p]
  <2>2. /\ flush' = [flush EXCEPT ![p] = next]
        /\ next.pc # "clear" /\ next.entry = traces[t]
    BY <2>1 DEF IInv, TypeOK
  <2> HIDE DEF next
  <2>3. entry[traces[t]].trace = t
    BY DEF Cached, IInv, CachedEntries
  <2> QED
    BY <1>4, <2>2, <2>3
<1> QED
  BY <1>1, <1>3, <1>5, <1>6, <1>7, <1>8

\* The lock is taken again, and the trace removed: here spans may be lost.
LEMMA ClearLosses ==
    ASSUME IInv, Losses, NEW p \in Flusher, Clear(p)
    PROVE  /\ Losses' /\ UNCHANGED <<traces, spanRows>>
           /\ \A e \in Entry \ {flush[p].entry} : entry'[e] = entry[e]
<1> USE DEF IInv, TypeOK
<1>1. UNCHANGED <<traces, spanRows>> /\ Goto(p, "check")
  BY DEF Clear
<1>2. /\ \A e \in Entry \ {flush[p].entry} : entry'[e] = entry[e]
      /\ \A e \in Entry : entry'[e].trace = entry[e].trace
  BY DEF Clear, EntryState
<1>3. /\ flush'[p].pc = "check" /\ \A q \in Flusher : flush'[q].entry = flush[q].entry
      /\ \A q \in Flusher \ {p} : flush'[q] = flush[q]
  BY <1>1, Moved
<1>4. StillCached'
  <2> SUFFICES ASSUME NEW q \in Flusher, Writing(q)' PROVE (traces[TraceAt(q)] = flush[q].entry)'
    BY DEF StillCached
  <2>1. Writing(q)
    BY <1>3 DEF Writing, Clear
  <2>2. flush[q].entry \in Entry
    BY <2>1 DEF FlushedEntries
  <2>3. traces[TraceAt(q)] = flush[q].entry
    BY <2>1 DEF Losses, StillCached
  <2> QED
    BY <1>1, <1>2, <1>3, <2>2, <2>3, Zenon DEF TraceAt
<1>5. BatchStored'
  BY <1>1, <1>3 DEF Losses, BatchStored
<1> QED
  BY <1>1, <1>2, <1>4, <1>5 DEF Losses

LEMMA DeleteLosses ==
    ASSUME IInv, Losses, NEW p \in Flusher, DeleteTrace(p)
    PROVE  /\ Losses' /\ UNCHANGED <<entry, spanRows>>
           /\ \A t \in Trace \ {TraceAt(p)} : traces'[t] = traces[t]
<1>1. UNCHANGED <<entry, spanRows>> /\ Goto(p, "scan")
  BY DEF DeleteTrace
<1>2. \A t \in Trace \ {TraceAt(p)} : traces'[t] = traces[t]
  BY DEF DeleteTrace, IInv, TypeOK
<1>3. \A q \in Flusher : ~Writing(q)'
  BY <1>1, Moved, OnlyOneWrites DEF Writing, DeleteTrace
<1> QED
  BY <1>1, <1>2, <1>3 DEF Losses, StillCached, BatchStored, Writing

LEMMA LossesNext == IInv /\ Losses /\ [Next]_vars => Losses'
<1> SUFFICES ASSUME IInv, Losses, [Next]_vars PROVE Losses'
  OBVIOUS
<1>1. CASE \E s \in Span : EnsureCachedTrace(s) \/ UpdateTraceAggregate(s)
  BY <1>1, ExportLosses
<1>2. CASE Tick \/ LoopExit \/ Shutdown \/ FinalFlush
  BY <1>2, ScanLosses
<1>3. ASSUME NEW p \in Flusher, FlushStep(p) PROVE Losses'
  BY <1>3, ScanLosses, WriteLosses, ClearLosses, DeleteLosses DEF FlushStep
<1>4. CASE UNCHANGED vars
  BY <1>4 DEF vars, Losses, StillCached, BatchStored, Writing, TraceAt
<1> QED
  BY <1>1, <1>2, <1>3, <1>4 DEF Next

LossStep == \A s \in Span : Waits(s) /\ ~Waits(s)' /\ spanRows[s] = 0 =>
    \E p \in Flusher : /\ flush[p].entry = held[s]
                       /\ \/ flush[p].pc = "clear" /\ s \notin flush[p].batch
                          \/ flush[p].pc = "delete"

LEMMA LossExplained == IInv /\ Totals /\ Losses /\ [Next]_vars => LossStep
<1> SUFFICES ASSUME IInv, Totals, Losses, [Next]_vars,
                    NEW s \in Span, Waits(s), ~Waits(s)', spanRows[s] = 0
             PROVE  \E p \in Flusher :
                        /\ flush[p].entry = held[s]
                        /\ \/ flush[p].pc = "clear" /\ s \notin flush[p].batch
                           \/ flush[p].pc = "delete"
  BY DEF LossStep
<1>1. PICK t \in Cached : s \in entry[traces[t]].spans
  BY DEF Waits
<1>2. t \in Trace /\ traces[t] \in Entry /\ traces[t] # NoEntry
      /\ entry[traces[t]].trace = t /\ held[s] = traces[t]
  BY <1>1 DEF Cached, IInv, TypeOK, CachedEntries, Totals, EndedFirst
<1>3. ~(traces'[t] = traces[t] /\ s \in entry'[traces[t]].spans)
  BY <1>1, <1>2 DEF Waits, Cached
<1>4. CASE \E r \in Span : EnsureCachedTrace(r) \/ UpdateTraceAggregate(r)
  BY <1>1, <1>2, <1>3, <1>4, ExportLosses
<1>5. CASE Tick \/ LoopExit \/ Shutdown \/ FinalFlush
  BY <1>1, <1>3, <1>5, ScanLosses
<1>6. ASSUME NEW p \in Flusher, FlushStep(p), ~Clear(p), ~DeleteTrace(p) PROVE FALSE
  BY <1>1, <1>3, <1>6, ScanLosses, WriteLosses DEF FlushStep
<1>7. ASSUME NEW p \in Flusher, Clear(p)
      PROVE  /\ flush[p].entry = held[s]
             /\ flush[p].pc = "clear" /\ s \notin flush[p].batch
  <2>1. flush[p].pc = "clear"
    BY <1>7 DEF Clear
  <2>2. flush[p].entry = traces[t]
    BY <1>1, <1>2, <1>3, <1>7, ClearLosses
  <2>3. s \notin flush[p].batch
    BY <2>1 DEF Losses, BatchStored, IInv, TypeOK
  <2> QED
    BY <1>2, <2>1, <2>2, <2>3
<1>8. ASSUME NEW p \in Flusher, DeleteTrace(p)
      PROVE  flush[p].entry = held[s] /\ flush[p].pc = "delete"
  <2>1. flush[p].pc = "delete"
    BY <1>8 DEF DeleteTrace
  <2>2. t = TraceAt(p)
    BY <1>1, <1>2, <1>3, <1>8, DeleteLosses
  <2>3. traces[t] = flush[p].entry
    BY <2>1, <2>2 DEF Losses, StillCached, Writing
  <2> QED
    BY <1>2, <2>1, <2>3
<1>9. CASE UNCHANGED vars
  BY <1>1, <1>3, <1>9 DEF vars
<1> QED
  BY <1>4, <1>5, <1>6, <1>7, <1>8, <1>9 DEF Next

\* A span that waits is lost only by a flush of its own trace, which copied its batch or
\* found the trace inactive before the span came: no failure, retry, eviction of another
\* trace or shutdown drops one (span_pg_exporter.go:193-197, 214-254).
THEOREM LossesNeedFlush == Spec => LossNeedsFlush
<1>1. Init => Losses
  BY DEF Init, Losses, StillCached, BatchStored, Writing, NotFlushing
<1>2. IInv /\ Totals /\ Losses /\ [Next]_vars => LossStep
  BY LossExplained
<1> QED
  BY <1>1, <1>2, LossesNext, Inductive, TotalsInductive, PTL DEF Spec, LossNeedsFlush, LossStep
=============================================================================
