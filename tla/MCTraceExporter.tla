-------------------------- MODULE MCTraceExporter --------------------------
(* TraceExporter for TLC: spans of one trace, or of two. *)
EXTENDS TraceExporter, TLC

CONSTANTS t1, t2, s1, s2, s3

OneTrace == [s \in Span |-> t1]
TwoTraces == [s \in Span |-> IF s = s1 THEN t1 ELSE t2]
EntrySymmetry == Permutations(Entry)
=============================================================================
