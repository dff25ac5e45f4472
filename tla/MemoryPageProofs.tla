-------------------------- MODULE MemoryPageProofs --------------------------
(***************************************************************************)
(* The properties of MemoryPage for any documents, index runs, number of   *)
(* chunks and bounds.                                                      *)
(***************************************************************************)
EXTENDS MemoryPage, TLAPS

-----------------------------------------------------------------------------
(* The inductive invariant. *)

\* What a run that is alone at its document has written there so far.
AloneInv ==
    \A r \in IndexRun : alone[r] /\ pc[r] = "insert" =>
        ChunksOfPath(doc[r]) =
            {[doc |-> doc[r], text |-> read[r][doc[r]], part |-> p, run |-> r] :
                p \in 1..(part[r] - 1)}

\* The chunks of a document that was indexed as a whole are those of one run.
WholeInv ==
    \A d \in Doc : whole[d] # NoText =>
        \E r \in IndexRun :
            ChunksOfPath(d) = {[doc |-> d, text |-> whole[d], part |-> p, run |-> r] :
                                  p \in 1..Parts}

\* Loads and texts are of this opening or of an earlier one; a load of this one is of the
\* document on view, and a load of its text has locked the text.
LoadInv ==
    /\ content.at <= opening
    /\ \A g \in gets : g.at <= opening
    /\ Shown => \A g \in gets : g.at = opening => g.doc = viewDoc
    /\ Shown /\ ~late => \A g \in gets : g.at = opening /\ g.kind = "detail" =>
                             loadingDetail /\ content.at # opening

\* Unless a late answer came, the dialog is about its document.
DialogInv ==
    Shown /\ ~late =>
        /\ detail \in {viewDoc, NoDoc}
        /\ detail # NoDoc => content.of = viewDoc
        /\ chunksLoaded => chunksOf \in {viewDoc, NoDoc}

SaveInv ==
    /\ put.pc # "none" => put.text.of = put.doc \/ put.doc \in mixed
    /\ \A d \in Doc : rows[d].of \in {d, NoDoc} \/ d \in mixed

IndexInv == TypeOK /\ AloneInv /\ WholeInv
PageInv == TypeOK /\ LoadInv /\ DialogInv /\ SaveInv

-----------------------------------------------------------------------------
(* Types. *)

LEMMA NoTextIsText == NoText \in Text
  BY MemoryAssumption DEF NoText, Text

LEMMA InitType == Init => TypeOK
  <1> SUFFICES ASSUME Init PROVE TypeOK
    OBVIOUS
  <1>1. 1 \in 1..Parts /\ 0 \in 0..MaxTexts /\ 0 \in 0..MaxActs /\ 0 \in 0..MaxFails
    BY MemoryAssumption
  <1>2. rows \in [Doc -> Text] /\ whole \in [Doc -> Text]
    BY <1>1, NoTextIsText DEF Init, Text
  <1>3. read \in [IndexRun -> [Doc -> Text]]
    BY NoTextIsText DEF Init
  <1>4. /\ content \in [of : Doc \cup {NoDoc}, by : {"none", "detail", "list", "user"},
                        at : 0..MaxActs]
        /\ put \in [pc : {"none", "find", "update", "saved", "failed"}, doc : Doc \cup {NoDoc},
                    text : Text]
    BY <1>1, NoTextIsText DEF Init, Empty, NoPut
  <1>5. put.pc = "none"
    BY DEF Init, NoPut
  <1>6. opening = 0 /\ acts = 0 /\ 0 \in 0..0
    BY DEF Init
  <1> QED
    BY <1>1, <1>2, <1>3, <1>4, <1>5, <1>6 DEF Init, TypeOK, Shown

LEMMA IndexAllType == ASSUME TypeOK, NEW r \in IndexRun, IndexAll(r) PROVE TypeOK'
  BY MemoryAssumption
     DEF TypeOK, IndexAll, Acts, database, dialog, chunksTab, calls, ghosts, Shown, Opening

LEMMA FailsType ==
    ASSUME fails \in 0..MaxFails, Fails \/ UNCHANGED fails PROVE fails' \in 0..MaxFails
  BY MemoryAssumption DEF Fails

LEMMA DeleteChunksType == ASSUME TypeOK, NEW r \in IndexRun, DeleteChunks(r) PROVE TypeOK'
  <1> PICK d \in todo[r] : DeleteChunks(r)!2!(d)
    BY DEF DeleteChunks
  <1>1. d \in Doc
    BY DEF TypeOK
  <1>2. chunks' \subseteq Chunk /\ whole' \in [Doc -> Text]
    BY <1>1, NoTextIsText DEF TypeOK
  <1>6. Fails \/ UNCHANGED fails
    OBVIOUS
  <1>7. fails \in 0..MaxFails
    BY DEF TypeOK
  <1>5. fails' \in 0..MaxFails
    BY <1>6, <1>7, FailsType
  <1>3. alone' \in [IndexRun -> BOOLEAN]
    BY DEF TypeOK, Disturbs
  <1>4. /\ todo' \in [IndexRun -> SUBSET Doc] /\ doc' \in [IndexRun -> Doc \cup {NoDoc}]
        /\ part' \in [IndexRun -> 1..Parts]
        /\ pc' \in [IndexRun -> {"none", "docs", "insert", "done"}]
        /\ \A q \in IndexRun : pc'[q] = "insert" => doc'[q] \in Doc
    BY <1>1, MemoryAssumption DEF TypeOK, DeleteChunks
  <1> QED
    BY <1>2, <1>3, <1>4, <1>5
       DEF TypeOK, DeleteChunks, dialog, chunksTab, calls, ghosts, Shown, Opening

LEMMA InsertChunkType == ASSUME TypeOK, NEW r \in IndexRun, InsertChunk(r) PROVE TypeOK'
  <1> DEFINE d == doc[r]
             c == [doc |-> d, text |-> read[r][d], part |-> part[r], run |-> r]
  <1>1. d \in Doc
    BY DEF TypeOK, InsertChunk
  <1>2. read[r][d] \in Text /\ part[r] \in 1..Parts
    BY <1>1 DEF TypeOK
  <1>3. c \in Chunk
    BY <1>1, <1>2 DEF Chunk
  <1>4. chunks' \subseteq Chunk /\ fails' \in 0..MaxFails
    BY <1>3, MemoryAssumption DEF TypeOK, InsertChunk, Fails
  <1>5. alone' \in [IndexRun -> BOOLEAN]
    BY <1>4 DEF TypeOK, Disturbs, InsertChunk
  <1>6. whole' \in [Doc -> Text]
    BY <1>1, <1>2, NoTextIsText DEF TypeOK, InsertChunk
  <1>8. part[r] # Parts => part[r] + 1 \in 1..Parts
    BY <1>2, MemoryAssumption
  <1>7. /\ pc' \in [IndexRun -> {"none", "docs", "insert", "done"}]
        /\ part' \in [IndexRun -> 1..Parts]
        /\ \A q \in IndexRun : pc'[q] = "insert" => doc'[q] \in Doc
    <2>1. CASE LastPart(r)
      BY <2>1 DEF TypeOK, InsertChunk
    <2>2. CASE ~LastPart(r)
      <3>1. part' = [part EXCEPT ![r] = part[r] + 1] /\ pc' = pc /\ doc' = doc
        BY <2>2 DEF InsertChunk
      <3>2. part[r] + 1 \in 1..Parts
        BY <2>2, <1>8 DEF LastPart
      <3> QED
        BY <3>1, <3>2 DEF TypeOK
    <2> QED
      BY <2>1, <2>2
  <1> QED
    BY <1>4, <1>5, <1>6, <1>7
       DEF TypeOK, InsertChunk, dialog, chunksTab, calls, ghosts, Shown, Opening

LEMMA IndexEndsType == ASSUME TypeOK, NEW r \in IndexRun, IndexEnds(r) PROVE TypeOK'
  BY DEF TypeOK, IndexEnds, database, dialog, chunksTab, calls, bounds, ghosts, Shown, Opening

LEMMA DeleteDocumentType == ASSUME TypeOK, NEW d \in Doc, DeleteDocument(d) PROVE TypeOK'
  BY NoTextIsText
     DEF TypeOK, DeleteDocument, runs, dialog, chunksTab, calls, bounds, ghosts, Shown, Opening

LEMMA OpenType == ASSUME TypeOK, NEW d \in Doc, Open(d) PROVE TypeOK'
  <1>1. /\ opening' \in Opening /\ acts' \in 0..MaxActs /\ opening' \in 0..acts'
        /\ opening' # 0
    BY MemoryAssumption DEF TypeOK, Open, Acts, Opening
  <1>2. gets' \subseteq [kind : {"detail", "chunks"}, doc : Doc, at : Opening]
    BY <1>1 DEF TypeOK, Open, Get
  <1>3. put.pc = "none" /\ put' = put
    BY DEF TypeOK, Open
  <1> QED
    BY <1>1, <1>2, <1>3 DEF TypeOK, Open, database, runs

LEMMA DetailAnsweredType == ASSUME TypeOK, NEW g \in gets, DetailAnswered(g) PROVE TypeOK'
  <1>1. g.doc \in Doc
    BY DEF TypeOK
  <1>2. fails' \in 0..MaxFails
    BY MemoryAssumption DEF TypeOK, DetailAnswered, Fails, NotFound
  <1>7. acts \in 0..MaxActs /\ opening \in 0..acts
    BY DEF TypeOK
  <1>3. opening \in 0..MaxActs
    BY <1>7, MemoryAssumption
  <1>4. late' \in BOOLEAN
    BY DEF TypeOK, DetailAnswered
  <1>5. content' \in [of : Doc \cup {NoDoc}, by : {"none", "detail", "list", "user"},
                      at : 0..MaxActs]
    BY <1>1, <1>3 DEF DetailAnswered
  <1>6. detail' \in Doc \cup {NoDoc} /\ gets' \subseteq gets
    BY <1>1 DEF TypeOK, DetailAnswered
  <1> QED
    BY <1>2, <1>4, <1>5, <1>6 DEF TypeOK, DetailAnswered, database, runs, chunksTab, Shown

LEMMA ChunksAnsweredType == ASSUME TypeOK, NEW g \in gets, ChunksAnswered(g) PROVE TypeOK'
  <1>1. g.doc \in Doc
    BY DEF TypeOK
  <1>2. fails' \in 0..MaxFails
    BY MemoryAssumption DEF TypeOK, ChunksAnswered, Fails
  <1>3. late' \in BOOLEAN
    BY DEF TypeOK, ChunksAnswered
  <1>4. chunksOf' \in Doc \cup {NoDoc}
    BY <1>1 DEF ChunksAnswered
  <1> QED
    BY ZenonT(90), <1>2, <1>3, <1>4 DEF TypeOK, ChunksAnswered, database, runs, Shown, Opening

LEMMA SelectChunksType == ASSUME TypeOK, SelectChunks PROVE TypeOK'
  <1>1. acts \in 0..MaxActs /\ opening \in 0..acts /\ opening # 0 /\ viewDoc \in Doc
    BY DEF TypeOK, SelectChunks, Shown
  <1>2. opening \in Opening
    BY <1>1, MemoryAssumption DEF Opening
  <1>3. gets' \subseteq [kind : {"detail", "chunks"}, doc : Doc, at : Opening]
    BY <1>1, <1>2 DEF TypeOK, SelectChunks
  <1>4. loadingChunks' \in BOOLEAN /\ tab' \in {"content", "chunks"} /\ opening' = opening
    BY DEF TypeOK, SelectChunks, bounds
  <1> QED
    BY <1>3, <1>4 DEF TypeOK, SelectChunks, database, runs, bounds, ghosts, Shown

LEMMA SelectContentType == ASSUME TypeOK, SelectContent PROVE TypeOK'
  BY DEF TypeOK, SelectContent, database, runs, chunksTab, calls, bounds, ghosts, Shown

LEMMA TypeType == ASSUME TypeOK, Type PROVE TypeOK'
  <1>1. acts \in 0..MaxActs /\ opening \in 0..acts /\ content.of \in Doc \cup {NoDoc}
    BY DEF TypeOK
  <1>2. content' \in [of : Doc \cup {NoDoc}, by : {"none", "detail", "list", "user"},
                      at : 0..MaxActs]
    BY <1>1, MemoryAssumption DEF Type
  <1> QED
    BY <1>2 DEF TypeOK, Type, database, runs, chunksTab, calls, bounds, ghosts, Shown

LEMMA SaveType == ASSUME TypeOK, Save PROVE TypeOK'
  <1>1. texts' \in 0..MaxTexts /\ viewDoc \in Doc /\ content.of \in Doc \cup {NoDoc}
    BY MemoryAssumption DEF TypeOK, Save, Shown
  <1>2. /\ put' \in [pc : {"none", "find", "update", "saved", "failed"}, doc : Doc \cup {NoDoc},
                     text : Text]
        /\ put'.doc = viewDoc
    BY <1>1 DEF Save, Text
  <1>3. mixed' \subseteq Doc
    BY <1>1 DEF TypeOK, Save
  <1> QED
    BY <1>1, <1>2, <1>3 DEF TypeOK, Save, database, runs, dialog, chunksTab, Shown

LEMMA CloseType == ASSUME TypeOK, Close PROVE TypeOK'
  BY DEF TypeOK, Close, database, runs, chunksTab, calls, bounds, ghosts, Shown

LEMMA PutFindType == ASSUME TypeOK, PutFind PROVE TypeOK'
  <1>1. fails' \in 0..MaxFails
    BY MemoryAssumption DEF TypeOK, PutFind, Fails, NotFound
  <1>2. /\ put' \in [pc : {"none", "find", "update", "saved", "failed"}, doc : Doc \cup {NoDoc},
                     text : Text]
        /\ put'.doc = put.doc
    BY DEF TypeOK, PutFind
  <1> QED
    BY <1>1, <1>2 DEF TypeOK, PutFind, database, runs, dialog, chunksTab, ghosts, Shown

LEMMA PutUpdateType == ASSUME TypeOK, PutUpdate PROVE TypeOK'
  <1>1. fails' \in 0..MaxFails
    BY MemoryAssumption DEF TypeOK, PutUpdate, Fails
  <1>2. /\ put' \in [pc : {"none", "find", "update", "saved", "failed"}, doc : Doc \cup {NoDoc},
                     text : Text]
        /\ put'.doc = put.doc
    BY DEF TypeOK, PutUpdate
  <1>3. rows' \in [Doc -> Text]
    BY DEF TypeOK, PutUpdate, Updated
  <1> QED
    BY <1>1, <1>2, <1>3 DEF TypeOK, PutUpdate, runs, dialog, chunksTab, ghosts, Shown

LEMMA PutAnsweredType == ASSUME TypeOK, PutAnswered PROVE TypeOK'
  BY NoTextIsText DEF TypeOK, PutAnswered, NoPut, database, runs, chunksTab, bounds, ghosts, Shown

LEMMA NextType == TypeOK /\ [Next]_vars => TypeOK'
  <1> SUFFICES ASSUME TypeOK, [Next]_vars PROVE TypeOK'
    OBVIOUS
  <1>1. CASE \E r \in IndexRun : IndexAll(r) \/ DeleteChunks(r) \/ InsertChunk(r) \/ IndexEnds(r)
    BY <1>1, IndexAllType, DeleteChunksType, InsertChunkType, IndexEndsType
  <1>2. CASE \E d \in Doc : DeleteDocument(d) \/ Open(d)
    BY <1>2, DeleteDocumentType, OpenType
  <1>3. CASE \E g \in gets : DetailAnswered(g) \/ ChunksAnswered(g)
    BY <1>3, DetailAnsweredType, ChunksAnsweredType
  <1>4. CASE SelectChunks \/ SelectContent \/ Type \/ Save \/ Close
    BY <1>4, SelectChunksType, SelectContentType, TypeType, SaveType, CloseType
  <1>5. CASE PutFind \/ PutUpdate \/ PutAnswered
    BY <1>5, PutFindType, PutUpdateType, PutAnsweredType
  <1>6. CASE UNCHANGED vars
    BY <1>6 DEF TypeOK, vars, database, runs, dialog, chunksTab, calls, bounds, ghosts, Shown
  <1> QED
    BY <1>1, <1>2, <1>3, <1>4, <1>5, <1>6 DEF Next

\* The variables keep their types.
THEOREM TypeCorrect == Spec => []TypeOK
  BY InitType, NextType, PTL DEF Spec

-----------------------------------------------------------------------------
(* Indexing.  The chunks that run r has written of document d, up to part n. *)

Written(r, d, t, n) ==
    {[doc |-> d, text |-> t, part |-> p, run |-> r] : p \in 1..n}

LEMMA OneMore ==
    ASSUME NEW r, NEW d, NEW t, NEW n \in Nat, n > 0,
           NEW old, old = Written(r, d, t, n - 1)
    PROVE  old \cup {[doc |-> d, text |-> t, part |-> n, run |-> r]} = Written(r, d, t, n)
  <1>1. 1..n = (1..(n - 1)) \cup {n}
    OBVIOUS
  <1> QED
    BY <1>1 DEF Written

LEMMA NothingWritten == ASSUME NEW r, NEW d, NEW t PROVE Written(r, d, t, 0) = {}
  BY DEF Written

\* The two parts of the invariant, in terms of Written.
LEMMA AloneWritten ==
    AloneInv <=> \A r \in IndexRun : alone[r] /\ pc[r] = "insert" =>
                    ChunksOfPath(doc[r]) = Written(r, doc[r], read[r][doc[r]], part[r] - 1)
  BY DEF AloneInv, Written

LEMMA WholeWritten ==
    WholeInv <=> \A d \in Doc : whole[d] # NoText =>
                    \E r \in IndexRun : ChunksOfPath(d) = Written(r, d, whole[d], Parts)
  BY DEF WholeInv, Written

IndexSame == UNCHANGED <<chunks, runs>>

LEMMA IndexSameInv == ASSUME IndexSame, AloneInv, WholeInv PROVE AloneInv' /\ WholeInv'
  BY DEF IndexSame, runs, AloneInv, WholeInv, ChunksOfPath

LEMMA IndexAllAlone ==
    ASSUME TypeOK, AloneInv, WholeInv, NEW r \in IndexRun, IndexAll(r)
    PROVE  AloneInv' /\ WholeInv'
  <1>1. UNCHANGED <<chunks, doc, part, whole, alone>>
    BY DEF IndexAll, database
  <1>2. ASSUME NEW q \in IndexRun, pc'[q] = "insert"
        PROVE  pc[q] = "insert" /\ read'[q] = read[q]
    BY <1>2 DEF IndexAll, TypeOK
  <1> QED
    BY <1>1, <1>2 DEF AloneInv, WholeInv, ChunksOfPath

LEMMA IndexEndsAlone ==
    ASSUME TypeOK, AloneInv, WholeInv, NEW r \in IndexRun, IndexEnds(r)
    PROVE  AloneInv' /\ WholeInv'
  <1>1. UNCHANGED <<chunks, doc, part, whole, alone, read>>
    BY DEF IndexEnds, database
  <1>2. \A q \in IndexRun : pc'[q] = "insert" => pc[q] = "insert"
    BY DEF IndexEnds, TypeOK
  <1> QED
    BY <1>1, <1>2 DEF AloneInv, WholeInv, ChunksOfPath

LEMMA DeleteChunksAlone ==
    ASSUME TypeOK, AloneInv, WholeInv, NEW r \in IndexRun, DeleteChunks(r)
    PROVE  AloneInv' /\ WholeInv'
  <1> PICK d \in todo[r] : DeleteChunks(r)!2!(d)
    BY DEF DeleteChunks
  <1>1. d \in Doc /\ doc' = [doc EXCEPT ![r] = d] /\ whole' = [whole EXCEPT ![d] = NoText]
    BY DEF TypeOK
  <1>2. /\ pc' = [pc EXCEPT ![r] = "insert"] /\ part' = [part EXCEPT ![r] = 1] /\ read' = read
        /\ pc[r] = "docs"
    BY DEF DeleteChunks
  <1>3. \/ chunks' = {c \in chunks : c.doc # d} /\ Disturbs(r, d, TRUE)
        \/ chunks' = chunks /\ Disturbs(r, d, FALSE)
    OBVIOUS
  <1>4. \A e \in Doc : e # d => ChunksOfPath(e)' = ChunksOfPath(e)
    BY <1>3 DEF ChunksOfPath
  <1>5. WholeInv'
    BY <1>1, <1>4 DEF WholeInv, TypeOK
  <1>6. ASSUME NEW q \in IndexRun, q # r, alone'[q], pc'[q] = "insert"
        PROVE  alone[q] /\ pc[q] = "insert" /\ doc[q] # d
    <2>1. pc[q] = "insert"
      BY <1>2, <1>6 DEF TypeOK
    <2> QED
      BY <2>1, <1>3, <1>6, Zenon DEF Disturbs
  <1>7. alone'[r] => chunks' = {c \in chunks : c.doc # d}
    BY <1>3 DEF Disturbs
  <1>8. ASSUME NEW q \in IndexRun, alone'[q], pc'[q] = "insert"
        PROVE  ChunksOfPath(doc[q])' = Written(q, doc'[q], read'[q][doc'[q]], part'[q] - 1)
    <2>1. CASE q = r
      <3>1. ChunksOfPath(d)' = {}
        BY <1>7, <1>8, <2>1 DEF ChunksOfPath
      <3>2. doc'[r] = d /\ part'[r] - 1 = 0
        BY <1>1, <1>2 DEF TypeOK
      <3> QED
        BY <2>1, <3>1, <3>2, NothingWritten DEF ChunksOfPath
    <2>2. CASE q # r
      <3>1. alone[q] /\ pc[q] = "insert" /\ doc[q] # d
        BY <1>6, <1>8, <2>2
      <3>2. doc'[q] = doc[q] /\ part'[q] = part[q] /\ doc[q] \in Doc
        BY <1>1, <1>2, <2>2, <3>1 DEF TypeOK
      <3>3. ChunksOfPath(doc[q]) = Written(q, doc[q], read[q][doc[q]], part[q] - 1)
        BY <3>1, AloneWritten
      <3>4. ChunksOfPath(doc[q])' = ChunksOfPath(doc[q])
        BY <1>3, <3>1, <3>2 DEF ChunksOfPath
      <3> QED
        BY <3>2, <3>3, <3>4, <1>2
    <2> QED
      BY <2>1, <2>2
  <1>9. AloneInv'
    BY <1>8 DEF AloneInv, Written
  <1> QED
    BY <1>5, <1>9

LEMMA InsertChunkAlone ==
    ASSUME TypeOK, AloneInv, WholeInv, NEW r \in IndexRun, InsertChunk(r)
    PROVE  AloneInv' /\ WholeInv'
  <1> DEFINE d == doc[r]
             t == read[r][d]
             c == [doc |-> d, text |-> t, part |-> part[r], run |-> r]
             isAlone == alone[r] /\ chunks' = chunks \cup {c}
  <1>1. d \in Doc /\ pc[r] = "insert" /\ part[r] \in 1..Parts /\ doc' = doc /\ read' = read
    BY DEF TypeOK, InsertChunk
  <1>2. chunks' = chunks \cup {c} \/ chunks' = chunks
    BY DEF InsertChunk
  <1>3. \A e \in Doc : e # d => ChunksOfPath(e)' = ChunksOfPath(e)
    BY <1>2 DEF ChunksOfPath
  <1>4. isAlone => ChunksOfPath(d)' = Written(r, d, t, part[r])
    <2> SUFFICES ASSUME isAlone PROVE ChunksOfPath(d)' = Written(r, d, t, part[r])
      OBVIOUS
    <2>1. ChunksOfPath(d) = Written(r, d, t, part[r] - 1)
      BY <1>1, AloneWritten
    <2>2. {e \in chunks' : e.doc = d} = ChunksOfPath(d) \cup {c}
      BY DEF ChunksOfPath
    <2>3. {e \in chunks' : e.doc = d} = Written(r, d, t, part[r])
      <3>1. part[r] \in Nat /\ part[r] > 0
        BY <1>1, MemoryAssumption
      <3> HIDE DEF d, t
      <3> QED
        BY <2>1, <2>2, <3>1, OneMore
    <2> QED
      BY <2>3, <1>1 DEF ChunksOfPath
  <1>5. Disturbs(r, d, isAlone)
    BY DEF InsertChunk
  <1>6. alone'[r] => isAlone
    BY <1>5, Zenon DEF Disturbs
  <1>7. ASSUME NEW q \in IndexRun, q # r, alone'[q], pc'[q] = "insert"
        PROVE  alone[q] /\ pc[q] = "insert" /\ doc[q] # d
    <2>1. pc[q] = "insert"
      BY <1>7 DEF TypeOK, InsertChunk
    <2> QED
      BY <2>1, <1>5, <1>7, Zenon DEF Disturbs
  <1>8. WholeInv'
    <2>1. whole' = [whole EXCEPT ![d] = IF LastPart(r) /\ isAlone THEN t ELSE NoText]
      BY DEF InsertChunk
    <2>2. ASSUME NEW e \in Doc, whole'[e] # NoText
          PROVE  \E q \in IndexRun : ChunksOfPath(e)' = Written(q, e, whole'[e], Parts)
      <3>1. CASE e = d
        <4>1. LastPart(r) /\ isAlone /\ whole'[e] = t
          BY <1>1, <2>1, <2>2, <3>1 DEF TypeOK
        <4>2. part[r] = Parts
          BY <4>1 DEF LastPart
        <4>3. {x \in chunks' : x.doc = d} = Written(r, d, t, Parts)
          BY <4>1, <4>2, <1>1, <1>4 DEF ChunksOfPath
        <4>4. {x \in chunks' : x.doc = e} = Written(r, e, whole'[e], Parts)
          BY <4>1, <4>3, <3>1
        <4> QED
          BY <4>4 DEF ChunksOfPath
      <3>2. CASE e # d
        <4>1. whole'[e] = whole[e]
          BY <1>1, <2>1, <3>2 DEF TypeOK
        <4> QED
          BY <4>1, <2>2, <3>2, <1>3, WholeWritten DEF ChunksOfPath
      <3> QED
        BY <3>1, <3>2
    <2> QED
      BY <2>2 DEF WholeInv, Written
  <1>9. ASSUME NEW q \in IndexRun, alone'[q], pc'[q] = "insert"
        PROVE  ChunksOfPath(doc[q])' = Written(q, doc'[q], read'[q][doc'[q]], part'[q] - 1)
    <2>1. CASE q = r
      <3>1. ~LastPart(r)
        BY <1>9, <2>1 DEF InsertChunk, TypeOK
      <3>2. part'[r] = part[r] + 1
        BY <3>1 DEF InsertChunk, TypeOK
      <3>3. part'[r] - 1 = part[r]
        BY <3>2, <1>1, MemoryAssumption
      <3>4. ChunksOfPath(d)' = Written(r, d, t, part[r])
        BY <1>4, <1>6, <1>9, <2>1
      <3> QED
        BY <2>1, <3>3, <3>4, <1>1 DEF ChunksOfPath
    <2>2. CASE q # r
      <3>1. alone[q] /\ pc[q] = "insert" /\ doc[q] # d
        BY <1>7, <1>9, <2>2
      <3>2. part'[q] = part[q] /\ doc[q] \in Doc
        BY <3>1, <2>2 DEF TypeOK, InsertChunk
      <3>3. ChunksOfPath(doc[q]) = Written(q, doc[q], read[q][doc[q]], part[q] - 1)
        BY <3>1, AloneWritten
      <3>4. {e \in chunks' : e.doc = doc[q]} = ChunksOfPath(doc[q])
        BY <1>2, <3>1 DEF ChunksOfPath
      <3> QED
        BY <3>2, <3>3, <3>4, <1>1 DEF ChunksOfPath
    <2> QED
      BY <2>1, <2>2
  <1>10. AloneInv'
    BY <1>9 DEF AloneInv, Written
  <1> QED
    BY <1>8, <1>10

LEMMA InitIndex == Init => IndexInv
  <1> SUFFICES ASSUME Init PROVE AloneInv /\ WholeInv
    BY InitType DEF IndexInv
  <1>1. \A r \in IndexRun : ~alone[r]
    BY DEF Init
  <1>2. \A d \in Doc : whole[d] = NoText
    BY DEF Init
  <1> QED
    BY <1>1, <1>2 DEF AloneInv, WholeInv

LEMMA NextIndex == IndexInv /\ [Next]_vars => IndexInv'
  <1> SUFFICES ASSUME TypeOK, AloneInv, WholeInv, [Next]_vars PROVE AloneInv' /\ WholeInv'
    BY NextType DEF IndexInv
  <1>1. CASE \E r \in IndexRun : IndexAll(r) \/ DeleteChunks(r) \/ InsertChunk(r) \/ IndexEnds(r)
    BY <1>1, IndexAllAlone, DeleteChunksAlone, InsertChunkAlone, IndexEndsAlone
  <1>2. CASE \E d \in Doc : DeleteDocument(d) \/ Open(d)
    <2>1. IndexSame
      BY <1>2 DEF DeleteDocument, Open, IndexSame, database
    <2> QED
      BY <2>1, IndexSameInv
  <1>3. CASE \E g \in gets : DetailAnswered(g) \/ ChunksAnswered(g)
    <2>1. IndexSame
      BY <1>3 DEF DetailAnswered, ChunksAnswered, IndexSame, database
    <2> QED
      BY <2>1, IndexSameInv
  <1>4. CASE SelectChunks \/ SelectContent \/ Type \/ Save \/ Close
    <2>1. IndexSame
      BY <1>4 DEF SelectChunks, SelectContent, Type, Save, Close, IndexSame, database
    <2> QED
      BY <2>1, IndexSameInv
  <1>5. CASE PutFind \/ PutUpdate \/ PutAnswered
    <2>1. IndexSame
      BY <1>5 DEF PutFind, PutUpdate, PutAnswered, IndexSame, database
    <2> QED
      BY <2>1, IndexSameInv
  <1>6. CASE UNCHANGED vars
    <2>1. IndexSame
      BY <1>6 DEF vars, IndexSame, database
    <2> QED
      BY <2>1, IndexSameInv
  <1> QED
    BY <1>1, <1>2, <1>3, <1>4, <1>5, <1>6 DEF Next

LEMMA WholeIsExact == WholeInv => IndexedExactly
  <1> SUFFICES ASSUME WholeInv, NEW d \in Doc, whole[d] # NoText
               PROVE  /\ \A c \in ChunksOfPath(d) : c.text = whole[d]
                      /\ \A p \in 1..Parts : \E c \in ChunksOfPath(d) : c.part = p
                      /\ \A c, e \in ChunksOfPath(d) : c.part = e.part => c = e
    BY DEF IndexedExactly
  <1> PICK r \in IndexRun : ChunksOfPath(d) = Written(r, d, whole[d], Parts)
    BY WholeWritten
  <1> DEFINE W == ChunksOfPath(d)
  <1>1. \A c \in W : \E p \in 1..Parts :
           c = [doc |-> d, text |-> whole[d], part |-> p, run |-> r]
    BY DEF Written
  <1>2. \A p \in 1..Parts : [doc |-> d, text |-> whole[d], part |-> p, run |-> r] \in W
    BY DEF Written
  <1> HIDE DEF W
  <1>3. \A c \in W : c.text = whole[d]
    BY <1>1
  <1>4. \A p \in 1..Parts : \E c \in W : c.part = p
    BY <1>2
  <1>5. \A c, e \in W : c.part = e.part => c = e
    BY <1>1
  <1> QED
    BY <1>3, <1>4, <1>5 DEF W

\* The chunks of a document are those of the text that the last run over it read, each
\* of them once, if that run was alone at the document and no statement of it failed
\* (indexalllogic.go:46-82).
THEOREM IndexedAsRead == Spec => []IndexedExactly
  <1>1. IndexInv => IndexedExactly
    BY WholeIsExact DEF IndexInv
  <1> QED
    BY <1>1, InitIndex, NextIndex, PTL DEF Spec

-----------------------------------------------------------------------------
(* The dialog. *)

PageSame == UNCHANGED <<rows, dialog, calls, opening, ghosts>>

LEMMA PageSameInv ==
    ASSUME LoadInv, DialogInv, SaveInv, PageSame PROVE LoadInv' /\ DialogInv' /\ SaveInv'
  BY DEF LoadInv, DialogInv, SaveInv, PageSame, dialog, chunksTab, calls, ghosts, Shown

LEMMA DeleteDocumentPage ==
    ASSUME TypeOK, LoadInv, DialogInv, SaveInv, NEW d \in Doc, DeleteDocument(d)
    PROVE  LoadInv' /\ DialogInv' /\ SaveInv'
  <1>1. UNCHANGED <<dialog, calls, opening, ghosts>>
    BY DEF DeleteDocument, bounds
  <1>2. LoadInv' /\ DialogInv'
    BY <1>1 DEF LoadInv, DialogInv, dialog, chunksTab, calls, ghosts, Shown
  <1>3. \A e \in Doc : rows'[e] = rows[e] \/ rows'[e].of = NoDoc
    BY DEF DeleteDocument, NoText, TypeOK
  <1>4. SaveInv'
    BY <1>1, <1>3 DEF SaveInv, calls, ghosts
  <1> QED
    BY <1>2, <1>4

LEMMA OpenPage ==
    ASSUME TypeOK, LoadInv, DialogInv, SaveInv, NEW d \in Doc, Open(d)
    PROVE  LoadInv' /\ DialogInv' /\ SaveInv'
  <1> DEFINE new == [kind |-> "detail", doc |-> d, at |-> opening']
  <1>1. /\ viewDoc' = d /\ opening' = opening + 1 /\ detail' = NoDoc /\ ~chunksLoaded'
        /\ loadingDetail' /\ content' = content
    BY DEF Open
  <1>2. gets' = gets \cup {new}
    BY <1>1 DEF Open, Get
  <1>3. opening \in Nat /\ content.at \in Nat /\ \A g \in gets : g.at \in Nat
    BY MemoryAssumption DEF TypeOK, Opening
  <1>4. content.at < opening' /\ \A g \in gets : g.at < opening'
    BY <1>1, <1>3 DEF LoadInv
  <1>5. \A g \in gets' : g.at = opening' => g = new
    BY <1>2, <1>4, <1>3, <1>1
  <1>6. \A g \in gets' : g.at <= opening'
    BY <1>2, <1>4, <1>3, <1>1
  <1>7. LoadInv'
    BY <1>1, <1>3, <1>4, <1>5, <1>6 DEF LoadInv
  <1>8. DialogInv'
    BY <1>1 DEF DialogInv
  <1>9. SaveInv'
    BY DEF Open, database, SaveInv
  <1> QED
    BY <1>7, <1>8, <1>9

LEMMA DetailAnsweredPage ==
    ASSUME TypeOK, LoadInv, DialogInv, SaveInv, NEW g \in gets, DetailAnswered(g)
    PROVE  LoadInv' /\ DialogInv' /\ SaveInv'
  <1>1. /\ gets' = gets \ {g} /\ g.kind = "detail" /\ late' = (late \/ g.at # opening)
        /\ UNCHANGED <<viewDoc, chunksTab, opening, put, rows, mixed>>
    BY DEF DetailAnswered, database
  <1>2. /\ content'.of = g.doc /\ content'.at = opening
        /\ detail' \in {g.doc, detail}
    BY DEF DetailAnswered
  <1>3. opening \in Nat
    BY MemoryAssumption DEF TypeOK
  <1>4. Shown /\ ~late' => g.at = opening /\ g.doc = viewDoc /\ ~late
    BY <1>1 DEF LoadInv
  <1>5. Shown /\ ~late' => ~ \E h \in gets' : h.at = opening /\ h.kind = "detail"
    <2> SUFFICES ASSUME Shown, ~late', NEW h \in gets, h # g, h.at = opening, h.kind = "detail"
                 PROVE  FALSE
      BY <1>1
    <2>1. h.doc = g.doc /\ h.at = g.at /\ h.kind = g.kind
      BY <1>1, <1>4 DEF LoadInv
    <2> QED
      BY <2>1 DEF TypeOK
  <1>6. LoadInv'
    BY <1>1, <1>2, <1>3, <1>5 DEF LoadInv, Shown
  <1>7. DialogInv'
    BY <1>1, <1>2, <1>4 DEF DialogInv, chunksTab, Shown
  <1>8. SaveInv'
    BY <1>1 DEF SaveInv
  <1> QED
    BY <1>6, <1>7, <1>8

LEMMA ChunksAnsweredPage ==
    ASSUME TypeOK, LoadInv, DialogInv, SaveInv, NEW g \in gets, ChunksAnswered(g)
    PROVE  LoadInv' /\ DialogInv' /\ SaveInv'
  <1>1. /\ gets' = gets \ {g} /\ late' = (late \/ g.at # opening)
        /\ chunksOf' \in {g.doc, NoDoc}
        /\ UNCHANGED <<viewDoc, detail, content, loadingDetail, opening, put, rows, mixed>>
    BY DEF ChunksAnswered, database
  <1>2. Shown /\ ~late' => g.at = opening /\ g.doc = viewDoc /\ ~late
    BY <1>1 DEF LoadInv
  <1>3. LoadInv'
    BY <1>1 DEF LoadInv, Shown
  <1>4. DialogInv'
    BY <1>1, <1>2 DEF DialogInv, Shown
  <1>5. SaveInv'
    BY <1>1 DEF SaveInv
  <1> QED
    BY <1>3, <1>4, <1>5

LEMMA SelectChunksPage ==
    ASSUME TypeOK, LoadInv, DialogInv, SaveInv, SelectChunks
    PROVE  LoadInv' /\ DialogInv' /\ SaveInv'
  <1> DEFINE new == [kind |-> "chunks", doc |-> viewDoc, at |-> opening]
  <1>1. /\ gets' \in {gets, gets \cup {new}}
        /\ UNCHANGED <<viewDoc, detail, content, loadingDetail, chunksOf, chunksLoaded, opening,
                       put, rows, late, mixed>>
    BY DEF SelectChunks, database, bounds, ghosts
  <1>2. opening \in Nat
    BY MemoryAssumption DEF TypeOK
  <1>3. \A h \in gets' : h \in gets \/ h = new
    BY <1>1
  <1>4. LoadInv'
    BY <1>1, <1>2, <1>3 DEF LoadInv, Shown
  <1>5. DialogInv' /\ SaveInv'
    BY <1>1 DEF DialogInv, SaveInv, Shown
  <1> QED
    BY <1>4, <1>5

LEMMA TypePage ==
    ASSUME TypeOK, LoadInv, DialogInv, SaveInv, Type
    PROVE  LoadInv' /\ DialogInv' /\ SaveInv'
  <1>1. /\ content'.of = content.of /\ content'.at = opening /\ ~loadingDetail /\ Shown
        /\ UNCHANGED <<viewDoc, detail, loadingDetail, chunksTab, opening, gets, put, rows, late,
                       mixed>>
    BY DEF Type, database, calls, bounds, ghosts
  <1>2. opening \in Nat
    BY MemoryAssumption DEF TypeOK
  <1>3. LoadInv'
    BY <1>1, <1>2 DEF LoadInv, Shown
  <1>4. DialogInv' /\ SaveInv'
    BY <1>1 DEF DialogInv, SaveInv, Shown, chunksTab
  <1> QED
    BY <1>3, <1>4

LEMMA SavePage ==
    ASSUME TypeOK, LoadInv, DialogInv, SaveInv, Save
    PROVE  LoadInv' /\ DialogInv' /\ SaveInv'
  <1>1. UNCHANGED <<dialog, gets, opening, late, rows>>
    BY DEF Save, database
  <1>2. LoadInv' /\ DialogInv'
    BY <1>1 DEF LoadInv, DialogInv, dialog, chunksTab, Shown
  <1>3. put'.doc = viewDoc /\ put'.text.of = content.of /\ mixed \subseteq mixed'
    BY DEF Save
  <1>4. content.of = viewDoc \/ viewDoc \in mixed'
    BY DEF Save, HasChanges, DialogInv
  <1>5. SaveInv'
    BY <1>1, <1>3, <1>4 DEF SaveInv
  <1> QED
    BY <1>2, <1>5

LEMMA ClosePage ==
    ASSUME TypeOK, LoadInv, DialogInv, SaveInv, Close
    PROVE  LoadInv' /\ DialogInv' /\ SaveInv'
  BY DEF Close, LoadInv, DialogInv, SaveInv, Shown, database, chunksTab, calls, bounds, ghosts

LEMMA PutFindPage ==
    ASSUME TypeOK, LoadInv, DialogInv, SaveInv, PutFind
    PROVE  LoadInv' /\ DialogInv' /\ SaveInv'
  <1>1. UNCHANGED <<dialog, gets, opening, ghosts, rows>>
    BY DEF PutFind, database
  <1>2. LoadInv' /\ DialogInv'
    BY <1>1 DEF LoadInv, DialogInv, dialog, chunksTab, ghosts, Shown
  <1>3. put'.text = put.text /\ put'.doc = put.doc /\ put.pc # "none"
    BY DEF PutFind, TypeOK
  <1>4. SaveInv'
    BY <1>1, <1>3 DEF SaveInv, ghosts
  <1> QED
    BY <1>2, <1>4

LEMMA PutUpdatePage ==
    ASSUME TypeOK, LoadInv, DialogInv, SaveInv, PutUpdate
    PROVE  LoadInv' /\ DialogInv' /\ SaveInv'
  <1>1. UNCHANGED <<dialog, gets, opening, ghosts>>
    BY DEF PutUpdate
  <1>2. LoadInv' /\ DialogInv'
    BY <1>1 DEF LoadInv, DialogInv, dialog, chunksTab, ghosts, Shown
  <1>3. put'.text = put.text /\ put'.doc = put.doc /\ put.pc # "none"
    BY DEF PutUpdate, TypeOK
  <1>4. \A d \in Doc : rows'[d] = rows[d] \/ (d = put.doc /\ rows'[d] = put.text)
    BY DEF PutUpdate, Updated, TypeOK
  <1>5. SaveInv'
    BY <1>1, <1>3, <1>4 DEF SaveInv, ghosts
  <1> QED
    BY <1>2, <1>5

LEMMA PutAnsweredPage ==
    ASSUME TypeOK, LoadInv, DialogInv, SaveInv, PutAnswered
    PROVE  LoadInv' /\ DialogInv' /\ SaveInv'
  <1>1. /\ viewDoc' \in {viewDoc, NoDoc} /\ put'.pc = "none"
        /\ UNCHANGED <<detail, content, loadingDetail, chunksTab, gets, opening, late, mixed, rows>>
    BY DEF PutAnswered, NoPut, database, bounds, ghosts
  <1>2. Shown' => viewDoc' = viewDoc /\ Shown
    BY <1>1 DEF Shown
  <1>3. LoadInv' /\ DialogInv'
    BY <1>1, <1>2 DEF LoadInv, DialogInv, chunksTab
  <1>4. SaveInv'
    BY <1>1 DEF SaveInv
  <1> QED
    BY <1>3, <1>4

LEMMA InitPage == Init => PageInv
  <1> SUFFICES ASSUME Init PROVE LoadInv /\ DialogInv /\ SaveInv
    BY InitType DEF PageInv
  <1>1. ~Shown /\ gets = {} /\ content.at = 0 /\ opening = 0 /\ put.pc = "none"
    BY DEF Init, Shown, Empty, NoPut
  <1>2. \A d \in Doc : rows[d].of = d
    BY DEF Init
  <1> QED
    BY <1>1, <1>2 DEF LoadInv, DialogInv, SaveInv

LEMMA NextPage == PageInv /\ [Next]_vars => PageInv'
  <1> SUFFICES ASSUME TypeOK, LoadInv, DialogInv, SaveInv, [Next]_vars
               PROVE  LoadInv' /\ DialogInv' /\ SaveInv'
    BY NextType DEF PageInv
  <1>1. CASE \E r \in IndexRun : IndexAll(r) \/ DeleteChunks(r) \/ InsertChunk(r) \/ IndexEnds(r)
    <2>1. PageSame
      BY <1>1 DEF IndexAll, DeleteChunks, InsertChunk, IndexEnds, PageSame, database, bounds
    <2> QED
      BY <2>1, PageSameInv
  <1>2. CASE \E d \in Doc : DeleteDocument(d) \/ Open(d)
    BY <1>2, DeleteDocumentPage, OpenPage
  <1>3. CASE \E g \in gets : DetailAnswered(g) \/ ChunksAnswered(g)
    BY <1>3, DetailAnsweredPage, ChunksAnsweredPage
  <1>4. CASE SelectContent
    BY <1>4
       DEF SelectContent, LoadInv, DialogInv, SaveInv, Shown, database, chunksTab, calls,
           bounds, ghosts
  <1>5. CASE SelectChunks \/ Type \/ Save \/ Close
    BY <1>5, SelectChunksPage, TypePage, SavePage, ClosePage
  <1>6. CASE PutFind \/ PutUpdate \/ PutAnswered
    BY <1>6, PutFindPage, PutUpdatePage, PutAnsweredPage
  <1>7. CASE UNCHANGED vars
    <2>1. PageSame
      BY <1>7 DEF vars, PageSame, database, bounds
    <2> QED
      BY <2>1, PageSameInv
  <1> QED
    BY <1>1, <1>2, <1>3, <1>4, <1>5, <1>6, <1>7 DEF Next

LEMMA PageInvariant == Spec => []PageInv
  BY InitPage, NextPage, PTL DEF Spec

\* A dialog that has taken no late answer shows and saves its own document only
\* (memory-document-dialog.tsx:39-75).
THEOREM DialogKeepsApart == Spec => []NoMixing
  <1>1. PageInv => NoMixing
    BY DEF PageInv, DialogInv, SaveInv, NoMixing
  <1> QED
    BY <1>1, PageInvariant, PTL

LEMMA EditStep ==
    PageInv /\ [Next]_vars =>
        (Shown /\ content.by = "user" /\ content.at = opening /\ opening' = opening
            => content' = content \/ late')
  <1> SUFFICES ASSUME PageInv, [Next]_vars, Shown, content.by = "user", content.at = opening,
                      opening' = opening, content' # content
               PROVE  late'
    BY Zenon
  <1>1. (\E g \in gets : DetailAnswered(g)) \/ Type
    BY DEF Next, vars, IndexAll, DeleteChunks, InsertChunk, IndexEnds, DeleteDocument, Open,
           ChunksAnswered, SelectChunks, SelectContent, Save, Close, PutFind, PutUpdate,
           PutAnswered, dialog
  <1>2. CASE Type
    <2>1. content = [of |-> content.of, by |-> "user", at |-> opening]
      BY DEF PageInv, TypeOK
    <2> QED
      BY <1>2, <2>1 DEF Type
  <1>3. CASE \E g \in gets : DetailAnswered(g)
    <2> PICK g \in gets : DetailAnswered(g)
      BY <1>3
    <2>1. late \/ g.at # opening
      BY DEF DetailAnswered, PageInv, LoadInv
    <2> QED
      BY <2>1 DEF DetailAnswered
  <1> QED
    BY <1>1, <1>2, <1>3

\* What the user has typed stays until he saves or closes the dialog, unless a late
\* answer came (memory-document-dialog.tsx:161-170).
THEOREM EditsStay == Spec => EditsKept
  <1>1. PageInv /\ [Next]_vars =>
           [Shown /\ content.by = "user" /\ content.at = opening /\ opening' = opening
               => content' = content \/ late']_vars
    BY EditStep
  <1> QED
    BY <1>1, PageInvariant, PTL DEF Spec, EditsKept

=============================================================================
