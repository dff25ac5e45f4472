---------------------------- MODULE TraceExporter ----------------------------
(***************************************************************************)
(* internal/callback/span_pg_exporter.go: spans of agent runs, exported    *)
(* synchronously by span.End() into a cache of traces, and written to the  *)
(* traces and spans tables by a flush every five seconds and once more at  *)
(* shutdown.                                                               *)
(*                                                                         *)
(* A trace's totals (span count, tokens, cost, status, error, end time)    *)
(* are functions of the spans aggregated into it, so the model keeps the   *)
(* set: the row's span_count is the size of traceRow[t].agg, its status is *)
(* "error" when agg has an error span, and version counts the others.      *)
(***************************************************************************)
EXTENDS Naturals, FiniteSets

CONSTANTS
    Span,         \* the spans that end while the process runs
    Trace,        \* their OpenTelemetry traces
    TraceOf,      \* the trace of each span
    ErrorSpan,    \* spans that end with an error status
    BadSpan,      \* spans whose row the spans table refuses
    MaxBatch,     \* spans that one INSERT can take: 65535 parameters, 22 of a span
    Entry,        \* bound: cachedTrace objects that can be allocated
    NoEntry,
    CanIdle,      \* can a trace be inactive for more than 30 seconds?
    DbMayFail,    \* can a statement fail without effect?
    MaxLost       \* bound: statements that take effect and still report an error

ASSUME ExporterAssumption ==
    /\ Trace # {}
    /\ TraceOf \in [Span -> Trace]
    /\ ErrorSpan \subseteq Span
    /\ BadSpan \subseteq Span
    /\ MaxBatch \in Nat
    /\ NoEntry \notin Entry
    /\ CanIdle \in BOOLEAN
    /\ DbMayFail \in BOOLEAN
    /\ MaxLost \in Nat

VARIABLES
    traces,    \* e.traces: the cached entry of each trace
    entry,     \* the cachedTrace objects
    export,    \* where the exportSpan call of each span is
    held,      \* the entry that call has looked up
    flush,     \* the flush of the loop goroutine, and of Shutdown
    stopping,  \* stopCh is closed
    traceRow,  \* the traces table: rows of the trace, and the totals stored
    spanRows,  \* the spans table: rows of each span
    lost       \* history: statements whose reply was lost

vars == <<traces, entry, export, held, flush, stopping, traceRow, spanRows, lost>>

Flusher == {"loop", "shutdown"}

EntryState == [trace : Trace, allocated : BOOLEAN, spans : SUBSET Span,
               agg : SUBSET Span, persisted : BOOLEAN, dirty : BOOLEAN]
FlushState == [pc : {"idle", "scan", "find", "insert", "refind", "update", "spans",
                     "clear", "check", "delete", "exited"},
               must : SUBSET Trace, left : SUBSET Trace, entry : Entry \cup {NoEntry},
               batch : SUBSET Span, agg : SUBSET Span]

Unused == [trace |-> CHOOSE t \in Trace : TRUE, allocated |-> FALSE, spans |-> {},
           agg |-> {}, persisted |-> FALSE, dirty |-> TRUE]
NotFlushing == [pc |-> "idle", must |-> {}, left |-> {}, entry |-> NoEntry,
                batch |-> {}, agg |-> {}]

Init ==
    /\ traces = [t \in Trace |-> NoEntry]
    /\ entry = [e \in Entry |-> Unused]
    /\ export = [s \in Span |-> "open"]
    /\ held = [s \in Span |-> NoEntry]
    /\ flush = [p \in Flusher |-> NotFlushing]
    /\ stopping = FALSE
    /\ traceRow = [t \in Trace |-> [rows |-> 0, agg |-> {}]]
    /\ spanRows = [s \in Span |-> 0]
    /\ lost = 0

-----------------------------------------------------------------------------
(* exportSpan: ensureCachedTrace, then updateTraceAggregate under the lock. *)

\* Load, or LoadOrStore of a fresh entry: atomic at the map.
EnsureCachedTrace(s) ==
    LET t == TraceOf[s] IN
    /\ export[s] = "open"
    /\ \/ /\ traces[t] # NoEntry
          /\ held' = [held EXCEPT ![s] = traces[t]]
          /\ UNCHANGED <<traces, entry>>
       \/ /\ traces[t] = NoEntry
          /\ \E e \in Entry :
                /\ ~entry[e].allocated
                /\ entry' = [entry EXCEPT ![e] = [Unused EXCEPT !.trace = t, !.allocated = TRUE]]
                /\ traces' = [traces EXCEPT ![t] = e]
                /\ held' = [held EXCEPT ![s] = e]
    /\ export' = [export EXCEPT ![s] = "holding"]
    /\ UNCHANGED <<flush, stopping, traceRow, spanRows, lost>>

Counted(s) == {s}

\* An error span returns before version++ and dirty = true.
UpdateTraceAggregate(s) ==
    /\ export[s] = "holding"
    /\ entry' = [entry EXCEPT ![held[s]].spans = @ \cup {s},
                              ![held[s]].agg = @ \cup Counted(s),
                              ![held[s]].dirty = @ \/ s \notin ErrorSpan]
    /\ export' = [export EXCEPT ![s] = "done"]
    /\ UNCHANGED <<traces, held, flush, stopping, traceRow, spanRows, lost>>

-----------------------------------------------------------------------------
(* flushLoop and Shutdown: when a flush runs. *)

Cached == {t \in Trace : traces[t] # NoEntry}
Scan == [NotFlushing EXCEPT !.pc = "scan", !.must = Cached, !.left = Trace]

\* select may take the ticker even when stopCh is closed.
Tick ==
    /\ flush["loop"].pc = "idle"
    /\ flush' = [flush EXCEPT !["loop"] = Scan]
    /\ UNCHANGED <<traces, entry, export, held, stopping, traceRow, spanRows, lost>>

LoopExit ==
    /\ flush["loop"].pc = "idle"
    /\ stopping
    /\ flush' = [flush EXCEPT !["loop"].pc = "exited"]
    /\ UNCHANGED <<traces, entry, export, held, stopping, traceRow, spanRows, lost>>

Shutdown ==
    /\ ~stopping
    /\ stopping' = TRUE
    /\ UNCHANGED <<traces, entry, export, held, flush, traceRow, spanRows, lost>>

\* Shutdown waits for doneCh before it flushes.
NoWait == TRUE                                          \* mutant
LoopDone == flush["loop"].pc = "exited"

FinalFlush ==
    /\ stopping
    /\ LoopDone
    /\ flush["shutdown"].pc = "idle"
    /\ flush' = [flush EXCEPT !["shutdown"] = Scan]
    /\ UNCHANGED <<traces, entry, export, held, stopping, traceRow, spanRows, lost>>

-----------------------------------------------------------------------------
(* flush: a Range over the map; each trace it visits goes through flushTrace. *)

Goto(p, where) == flush' = [flush EXCEPT ![p].pc = where]
TraceAt(p) == entry[flush[p].entry].trace
Clean(e) == ~entry[e].dirty /\ entry[e].persisted /\ entry[e].spans = {}

\* Nothing to write, or a copy of the trace taken under its lock.
Visit(p) ==
    /\ flush[p].pc = "scan"
    /\ \E t \in Cached \cap flush[p].left :
          LET e == traces[t] IN
          flush' = [flush EXCEPT ![p] =
             [pc |-> IF Clean(e) THEN "check"
                     ELSE IF entry[e].persisted THEN "update" ELSE "find",
              must |-> @.must \ {t}, left |-> @.left \ {t}, entry |-> e,
              batch |-> entry[e].spans, agg |-> entry[e].agg]]
    /\ UNCHANGED <<traces, entry, export, held, stopping, traceRow, spanRows, lost>>

\* Range visits every key present throughout, and perhaps one added meanwhile.
ScanDone(p) ==
    /\ flush[p].pc = "scan"
    /\ flush[p].must = {}
    /\ flush' = [flush EXCEPT ![p] =
          [NotFlushing EXCEPT !.pc = IF p = "loop" THEN "idle" ELSE "exited"]]
    /\ UNCHANGED <<traces, entry, export, held, stopping, traceRow, spanRows, lost>>

WriteSpans == "spans"                                   \* mutant
WriteTrace == "update"

Find(p) ==
    /\ flush[p].pc = "find"
    /\ Goto(p, IF traceRow[TraceAt(p)].rows > 0 THEN WriteTrace ELSE "insert")
    /\ UNCHANGED <<traces, entry, export, held, stopping, traceRow, spanRows, lost>>

\* A statement that takes effect moves on, unless its reply is lost.
Replied(p, where) ==
    \/ Goto(p, where) /\ UNCHANGED lost
    \/ lost < MaxLost /\ lost' = lost + 1 /\ Goto(p, "scan")

InsertTrace(p) ==
    LET t == TraceAt(p) IN
    /\ flush[p].pc = "insert"
    /\ traceRow' = [traceRow EXCEPT ![t] = [rows |-> @.rows + 1, agg |-> flush[p].agg]]
    /\ Replied(p, "refind")
    /\ UNCHANGED <<traces, entry, export, held, stopping, spanRows>>

Refind(p) ==
    /\ flush[p].pc = "refind"
    /\ Goto(p, "spans")
    /\ UNCHANGED <<traces, entry, export, held, stopping, traceRow, spanRows, lost>>

UpdateTrace(p) ==
    /\ flush[p].pc = "update"
    /\ traceRow' = [traceRow EXCEPT ![TraceAt(p)].agg = flush[p].agg]
    /\ Replied(p, "spans")
    /\ UNCHANGED <<traces, entry, export, held, stopping, spanRows>>

Refused(batch) == batch \cap BadSpan # {} \/ Cardinality(batch) > MaxBatch

\* One multi-row INSERT, skipped for an empty batch.
InsertSpans(p) ==
    /\ flush[p].pc = "spans"
    /\ ~Refused(flush[p].batch)
    /\ spanRows' = [s \in Span |-> IF s \in flush[p].batch THEN spanRows[s] + 1
                                                           ELSE spanRows[s]]
    /\ Replied(p, "clear")
    /\ UNCHANGED <<traces, entry, export, held, stopping, traceRow>>

ClearAnyway(p) == IF flush[p].pc = "spans" THEN "clear" ELSE "scan"    \* mutant
StopAtError(p) == "idle"                                               \* mutant
NextTrace(p) == "scan"

\* The statement fails: flush logs the error and goes on with the next trace.
StatementFails(p) ==
    /\ \/ DbMayFail /\ flush[p].pc \in {"find", "insert", "refind", "update", "spans"}
       \/ flush[p].pc = "spans" /\ Refused(flush[p].batch)
    /\ Goto(p, NextTrace(p))
    /\ UNCHANGED <<traces, entry, export, held, stopping, traceRow, spanRows, lost>>

KeepSpans(e) == entry[e].spans                          \* mutant
DropSpans(e) == {}

\* version tells whether a span was aggregated since the copy; error spans do not count.
MarkClean(p) == FALSE                                   \* mutant
StillDirty(p) == LET e == flush[p].entry IN
    entry[e].dirty /\ entry[e].agg \ ErrorSpan # flush[p].agg \ ErrorSpan

\* Back under the lock: spans[:0] drops whatever is in the slice by now.
Clear(p) ==
    LET e == flush[p].entry IN
    /\ flush[p].pc = "clear"
    /\ entry' = [entry EXCEPT ![e].persisted = TRUE,
                              ![e].spans = DropSpans(e),
                              ![e].dirty = StillDirty(p)]
    /\ Goto(p, "check")
    /\ UNCHANGED <<traces, export, held, stopping, traceRow, spanRows, lost>>

\* isInactive, decided under the lock and acted on after it.
CheckActive(p) ==
    /\ flush[p].pc = "check"
    /\ Goto(p, "scan")
    /\ UNCHANGED <<traces, entry, export, held, stopping, traceRow, spanRows, lost>>

CheckInactive(p) ==
    /\ flush[p].pc = "check"
    /\ CanIdle
    /\ entry[flush[p].entry].persisted
    /\ entry[flush[p].entry].spans = {}
    /\ Goto(p, "delete")
    /\ UNCHANGED <<traces, entry, export, held, stopping, traceRow, spanRows, lost>>

DeleteTrace(p) ==
    /\ flush[p].pc = "delete"
    /\ traces' = [traces EXCEPT ![TraceAt(p)] = NoEntry]
    /\ Goto(p, "scan")
    /\ UNCHANGED <<entry, export, held, stopping, traceRow, spanRows, lost>>

FlushStep(p) ==
    \/ Visit(p) \/ ScanDone(p)
    \/ Find(p) \/ InsertTrace(p) \/ Refind(p) \/ UpdateTrace(p) \/ InsertSpans(p)
    \/ StatementFails(p) \/ Clear(p)
    \/ CheckActive(p) \/ CheckInactive(p) \/ DeleteTrace(p)

Next ==
    \/ \E s \in Span : EnsureCachedTrace(s) \/ UpdateTraceAggregate(s)
    \/ Tick \/ LoopExit \/ Shutdown \/ FinalFlush
    \/ \E p \in Flusher : FlushStep(p)

\* The ticker fires and goroutines run; a trace that stays inactive is found so.
Fairness ==
    /\ \A s \in Span : WF_vars(UpdateTraceAggregate(s))
    /\ WF_vars(Tick)
    /\ WF_vars(FlushStep("loop"))
    /\ SF_vars(CheckInactive("loop"))

Spec == Init /\ [][Next]_vars
FairSpec == Spec /\ Fairness

-----------------------------------------------------------------------------
\* Types, and a span that waits to be written is already counted in its trace's totals
\* (span_pg_exporter.go:334-378).
TypeOK ==
    /\ traces \in [Trace -> Entry \cup {NoEntry}]
    /\ entry \in [Entry -> EntryState]
    /\ export \in [Span -> {"open", "holding", "done"}]
    /\ held \in [Span -> Entry \cup {NoEntry}]
    /\ flush \in [Flusher -> FlushState]
    /\ stopping \in BOOLEAN
    /\ traceRow \in [Trace -> [rows : Nat, agg : SUBSET Span]]
    /\ spanRows \in [Span -> Nat]
    /\ lost \in 0..MaxLost
    /\ \A e \in Entry : entry[e].spans \subseteq entry[e].agg

\* FindByOtelTraceID and Insert are two statements and no unique index backs them,
\* but flushes never overlap: one traces row per trace, evicted or not
\* (span_pg_exporter.go:99-106, 220-239).
OneTraceRow == \A t \in Trace : traceRow[t].rows <= 1

\* A span row is never without the row of its trace, whichever statement fails
\* (span_pg_exporter.go:220-249).
SpansHaveTrace ==
    \A s \in Span : spanRows[s] > 0 => traceRow[TraceOf[s]].rows > 0

\* A retry after a failed statement, an eviction or the final flush inserts no span
\* again: only a statement that took effect, and whose reply was lost, is repeated
\* (span_pg_exporter.go:244-258).
NoSpanTwice == \A s \in Span : spanRows[s] <= 1 + lost

Stored(t) == {s \in Span : TraceOf[s] = t /\ spanRows[s] > 0}

\* No entry of the trace has been replaced by another one.
EntriesOf(t) == {e \in Entry : entry[e].allocated /\ entry[e].trace = t}
CachedOnce(t) == \A e, f \in EntriesOf(t) : e = f

\* The totals of a trace's row count every span row of it, since the trace is written
\* before its spans, as long as it was never evicted and cached again with totals
\* that start from zero (span_pg_exporter.go:161-166, 225-249).
TotalsCoverUnlessEvicted ==
    \A t \in Trace : CachedOnce(t) => Stored(t) \subseteq traceRow[t].agg

\* The totals of a trace that is clean are in its row, whichever spans ended while they
\* were written; error spans apart, whose early return skips version and dirty: one that
\* ends during a flush is in the row only with the next other span
\* (span_pg_exporter.go:361-379, 251-258).
CleanMeansWritten ==
    \A t \in Trace :
        traces[t] # NoEntry /\ ~entry[traces[t]].dirty =>
            entry[traces[t]].agg \ ErrorSpan \subseteq traceRow[t].agg

Waits(s) == \E t \in Cached : s \in entry[traces[t]].spans

\* A span that waits in the cache leaves it without a row only if it was appended
\* during a flush of its trace: after the batch was copied, or after the trace was
\* found inactive (span_pg_exporter.go:193-197, 214-254).
LossNeedsFlush ==
    [][\A s \in Span : Waits(s) /\ ~Waits(s)' /\ spanRows[s] = 0 =>
          \E p \in Flusher : /\ flush[p].entry = held[s]
                             /\ \/ flush[p].pc = "clear" /\ s \notin flush[p].batch
                                \/ flush[p].pc = "delete"]_vars

\* Once no more spans come, a trace leaves the cache ("Delete inactive traces to
\* prevent memory leak", span_pg_exporter.go:187) unless one of its own spans is
\* refused: the failing flush of one trace does not keep back the others.
CacheDrains ==
    \A t \in Trace :
        (\A s \in Span : export[s] = "done" /\ (TraceOf[s] = t => s \notin BadSpan))
            ~> (traces[t] = NoEntry \/ stopping)

=============================================================================
