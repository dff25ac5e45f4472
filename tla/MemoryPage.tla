----------------------------- MODULE MemoryPage -----------------------------
(***************************************************************************)
(* The memory documents of an agent: the document dialog of the page       *)
(* (pages/memory/memory-page.tsx, documents/memory-document-dialog.tsx)    *)
(* over the handlers that read, write, delete and index documents          *)
(* (internal/logic/putmemorydocumentlogic.go, indexalllogic.go and their   *)
(* neighbours).  Pages of other users index and delete as well, and the    *)
(* agent deletes what it is told to forget.                                *)
(*                                                                         *)
(* A text is known by the document it was made from and a number; a        *)
(* chunk by the text it is a part of and the index run that wrote it.      *)
(***************************************************************************)
EXTENDS Naturals

CONSTANTS
    Doc,          \* documents of the agent
    IndexRun,     \* calls of IndexAll
    Parts,        \* chunks of a text, of 50 lines each
    MaxTexts,     \* bound: texts that are saved
    MaxActs,      \* bound: index runs and openings of the dialog together
    MaxFails,     \* bound: statements and calls that fail
    NoDoc         \* no document: a dialog that is closed, an empty state

ASSUME MemoryAssumption ==
    /\ Parts \in Nat \ {0} /\ MaxTexts \in Nat /\ MaxActs \in Nat /\ MaxFails \in Nat
    /\ NoDoc \notin Doc

Opening == 1..MaxActs
Text == [of : Doc \cup {NoDoc}, n : 0..MaxTexts]
NoText == [of |-> NoDoc, n |-> 0]           \* what a deleted document has
Chunk == [doc : Doc, text : Text, part : 1..Parts, run : IndexRun]

VARIABLES
    rows,                     \* memory_documents: the text of each document
    chunks,                   \* memory_chunks
    pc, read, todo, doc, part, \* of each index run: where it is, the texts it has read,
                              \* the documents it still has to visit, the one it is at
    viewDoc,                  \* the document of the dialog
    tab, detail, content, loadingDetail,         \* its states: what the server's document is,
    chunksOf, chunksLoaded, loadingChunks,       \* whose text is edited, whose chunks it shows
    gets,                     \* loads that are not answered
    put,                      \* the save, and where its handler is
    texts, acts, fails,       \* counters of the bounds
    opening,                  \* of the dialog, the last
    whole,                    \* history: the text that the last run over a document indexed,
                              \* if no statement of it failed and no other run came between
    alone,                    \* history: the run is such a run so far
    late,                     \* history: the dialog took an answer of an earlier opening
    mixed                     \* history: documents that were saved after one

database == <<rows, chunks>>
runs == <<pc, read, todo, doc, part, whole, alone>>
chunksTab == <<chunksOf, chunksLoaded, loadingChunks>>
dialog == <<viewDoc, tab, detail, content, loadingDetail, chunksTab>>
calls == <<gets, put>>
bounds == <<texts, acts, fails, opening>>
ghosts == <<late, mixed>>
vars == <<database, runs, dialog, calls, bounds, ghosts>>

Empty == [of |-> NoDoc, by |-> "none", at |-> 0]
NoPut == [pc |-> "none", doc |-> NoDoc, text |-> NoText]

Init ==
    /\ rows = [d \in Doc |-> [of |-> d, n |-> 0]] /\ chunks = {}
    /\ pc = [r \in IndexRun |-> "none"] /\ read = [r \in IndexRun |-> [d \in Doc |-> NoText]]
    /\ todo = [r \in IndexRun |-> {}] /\ doc = [r \in IndexRun |-> NoDoc]
    /\ part = [r \in IndexRun |-> 1]
    /\ viewDoc = NoDoc /\ tab = "content" /\ detail = NoDoc /\ content = Empty
    /\ loadingDetail = FALSE
    /\ chunksOf = NoDoc /\ chunksLoaded = FALSE /\ loadingChunks = FALSE
    /\ gets = {} /\ put = NoPut
    /\ texts = 0 /\ acts = 0 /\ fails = 0 /\ opening = 0
    /\ whole = [d \in Doc |-> NoText] /\ alone = [r \in IndexRun |-> FALSE]
    /\ late = FALSE /\ mixed = {}

Fails == fails < MaxFails /\ fails' = fails + 1
Acts == acts < MaxActs /\ acts' = acts + 1

-----------------------------------------------------------------------------
(* internal/logic/indexalllogic.go. *)

Exists(d) == rows[d] # NoText

\* FindOne, when it does not find the document or fails.
NotFound(d) == Fails \/ (~Exists(d) /\ UNCHANGED fails)

IndexAll(r) ==
    /\ pc[r] = "none" /\ Acts
    /\ pc' = [pc EXCEPT ![r] = "docs"]
    /\ read' = [read EXCEPT ![r] = rows]
    /\ todo' = [todo EXCEPT ![r] = {d \in Doc : Exists(d)}]
    /\ UNCHANGED <<database, doc, part, whole, alone, dialog, calls, texts, fails, opening, ghosts>>

\* What the writes of run r to the chunks of d mean for the runs that are at d too.
Disturbs(r, d, isAlone) ==
    alone' = [q \in IndexRun |-> IF q = r THEN isAlone
                                 ELSE alone[q] /\ ~(doc[q] = d /\ pc[q] = "insert")]

\* The next document, whose chunks are deleted first; an error is ignored.
DeleteChunks(r) ==
    /\ pc[r] = "docs"
    /\ \E d \in todo[r] :
          /\ todo' = [todo EXCEPT ![r] = @ \ {d}]
          /\ doc' = [doc EXCEPT ![r] = d]
          /\ \/ /\ chunks' = {c \in chunks : c.doc # d}
                /\ Disturbs(r, d, TRUE) /\ UNCHANGED fails
             \/ /\ Fails /\ Disturbs(r, d, FALSE) /\ UNCHANGED chunks
          /\ whole' = [whole EXCEPT ![d] = NoText]
    /\ pc' = [pc EXCEPT ![r] = "insert"] /\ part' = [part EXCEPT ![r] = 1]
    /\ UNCHANGED <<rows, read, dialog, calls, texts, acts, opening, ghosts>>

LastPartEarly(r) == part[r] + 1 >= Parts   \* mutant: the rest of the lines is forgotten

LastPart(r) == part[r] = Parts

\* One chunk; the run goes on to the next when the statement fails.
InsertChunk(r) ==
    LET d == doc[r]
        c == [doc |-> d, text |-> read[r][d], part |-> part[r], run |-> r]
        isAlone == alone[r] /\ chunks' = chunks \cup {c}
    IN  /\ pc[r] = "insert"
        /\ \/ chunks' = chunks \cup {c} /\ UNCHANGED fails
           \/ Fails /\ UNCHANGED chunks
        /\ Disturbs(r, d, isAlone)
        /\ IF LastPart(r)
           THEN /\ pc' = [pc EXCEPT ![r] = "docs"] /\ UNCHANGED part
                /\ whole' = [whole EXCEPT ![d] = IF isAlone THEN read[r][d] ELSE NoText]
           ELSE /\ part' = [part EXCEPT ![r] = @ + 1] /\ UNCHANGED pc
                /\ whole' = [whole EXCEPT ![d] = NoText]
        /\ UNCHANGED <<rows, read, todo, doc, dialog, calls, texts, acts, opening, ghosts>>

IndexEnds(r) ==
    /\ pc[r] = "docs" /\ todo[r] = {}
    /\ pc' = [pc EXCEPT ![r] = "done"]
    /\ UNCHANGED <<database, read, todo, doc, part, whole, alone, dialog, calls, bounds, ghosts>>

\* The document goes, its chunks stay (deletememorydocumentlogic.go).
DeleteDocument(d) ==
    /\ Exists(d)
    /\ rows' = [rows EXCEPT ![d] = NoText]
    /\ UNCHANGED <<chunks, runs, dialog, calls, bounds, ghosts>>

-----------------------------------------------------------------------------
(* documents/memory-document-dialog.tsx. *)

Shown == viewDoc # NoDoc
Get(kind) == [kind |-> kind, doc |-> viewDoc', at |-> opening']

OpenUnlocked(d) ==   \* mutant: the text can be edited before it is loaded
    /\ ~Shown /\ Acts
    /\ opening' = opening + 1 /\ viewDoc' = d
    /\ tab' = "content" /\ detail' = NoDoc /\ chunksOf' = NoDoc /\ chunksLoaded' = FALSE
    /\ gets' = gets \cup {Get("detail")}
    /\ late' = FALSE
    /\ UNCHANGED <<database, runs, content, loadingDetail, loadingChunks, put, texts, fails, mixed>>

\* The page passes a document of its list, and the effect resets the dialog and loads.
Open(d) ==
    /\ ~Shown /\ Acts
    /\ opening' = opening + 1 /\ viewDoc' = d
    /\ tab' = "content" /\ detail' = NoDoc /\ chunksOf' = NoDoc /\ chunksLoaded' = FALSE
    /\ loadingDetail' = TRUE
    /\ gets' = gets \cup {Get("detail")}
    /\ late' = FALSE
    /\ UNCHANGED <<database, runs, content, loadingChunks, put, texts, fails, mixed>>

\* Whatever the dialog shows by then; a failed load shows the text of the list.
DetailAnswered(g) ==
    /\ g \in gets /\ g.kind = "detail"
    /\ gets' = gets \ {g}
    /\ \/ /\ Exists(g.doc)
          /\ detail' = g.doc /\ content' = [of |-> g.doc, by |-> "detail", at |-> opening]
          /\ UNCHANGED fails
       \/ /\ NotFound(g.doc)
          /\ content' = [of |-> g.doc, by |-> "list", at |-> opening]
          /\ UNCHANGED detail
    /\ loadingDetail' = FALSE
    /\ late' = (late \/ g.at # opening)
    /\ UNCHANGED <<database, runs, viewDoc, tab, chunksTab, put, texts, acts, opening, mixed>>

\* The chunks tab loads when it is selected, unless it has loaded or is loading.
SelectChunks ==
    /\ Shown /\ tab = "content"
    /\ tab' = "chunks"
    /\ IF chunksLoaded \/ loadingChunks
       THEN UNCHANGED <<gets, loadingChunks>>
       ELSE /\ gets' = gets \cup {[kind |-> "chunks", doc |-> viewDoc, at |-> opening]}
            /\ loadingChunks' = TRUE
    /\ UNCHANGED <<database, runs, viewDoc, detail, content, loadingDetail, chunksOf, chunksLoaded,
                   put, bounds, ghosts>>

SelectContent ==
    /\ Shown /\ tab = "chunks"
    /\ tab' = "content"
    /\ UNCHANGED <<database, runs, viewDoc, detail, content, loadingDetail, chunksTab, calls,
                   bounds, ghosts>>

ChunksOfPath(d) == {c \in chunks : c.doc = d}

\* A failed load is an empty list.
ChunksAnswered(g) ==
    /\ g \in gets /\ g.kind = "chunks"
    /\ gets' = gets \ {g}
    /\ \/ /\ chunksOf' = IF ChunksOfPath(g.doc) = {} THEN NoDoc ELSE g.doc
          /\ UNCHANGED fails
       \/ Fails /\ chunksOf' = NoDoc
    /\ loadingChunks' = FALSE /\ chunksLoaded' = TRUE
    /\ late' = (late \/ g.at # opening)
    /\ UNCHANGED <<database, runs, viewDoc, tab, detail, content, loadingDetail, put, texts,
                   acts, opening, mixed>>

Type ==
    /\ Shown /\ tab = "content" /\ ~loadingDetail
    /\ content' = [of |-> content.of, by |-> "user", at |-> opening]
    /\ UNCHANGED <<database, runs, viewDoc, tab, detail, loadingDetail, chunksTab, calls, bounds,
                   ghosts>>

Differs == content.by # "detail" \/ content.of # detail
HasChangesLoading == Differs   \* mutant: does not wait for the document

\* Text of the list may differ from that of the server.
HasChanges == detail # NoDoc /\ Differs

Save ==
    /\ Shown /\ tab = "content" /\ put.pc = "none" /\ HasChanges /\ texts < MaxTexts
    /\ texts' = texts + 1
    /\ put' = [pc |-> "find", doc |-> viewDoc, text |-> [of |-> content.of, n |-> texts']]
    /\ mixed' = IF late THEN mixed \cup {viewDoc} ELSE mixed
    /\ UNCHANGED <<database, runs, dialog, gets, acts, opening, fails, late>>

Close ==
    /\ Shown /\ put.pc = "none"
    /\ viewDoc' = NoDoc
    /\ UNCHANGED <<database, runs, tab, detail, content, loadingDetail, chunksTab, calls, bounds,
                   ghosts>>

\* internal/logic/putmemorydocumentlogic.go: the row is found and then written whole; the
\* update of a row that has gone since reports success.
PutFind ==
    /\ put.pc = "find"
    /\ \/ Exists(put.doc) /\ put' = [put EXCEPT !.pc = "update"] /\ UNCHANGED fails
       \/ /\ NotFound(put.doc)
          /\ put' = [put EXCEPT !.pc = "failed"]
    /\ UNCHANGED <<database, runs, dialog, gets, texts, acts, opening, ghosts>>

Updated == IF Exists(put.doc) THEN [rows EXCEPT ![put.doc] = put.text] ELSE rows

PutUpdate ==
    /\ put.pc = "update"
    /\ \/ rows' = Updated /\ put' = [put EXCEPT !.pc = "saved"] /\ UNCHANGED fails
       \/ /\ Fails /\ put' = [put EXCEPT !.pc = "failed"]
          /\ rows' \in {rows, Updated}
    /\ UNCHANGED <<chunks, runs, dialog, gets, texts, acts, opening, ghosts>>

\* The dialog closes itself when its text is saved.
PutAnswered ==
    /\ put.pc \in {"saved", "failed"}
    /\ put' = NoPut
    /\ viewDoc' = IF put.pc = "saved" THEN NoDoc ELSE viewDoc
    /\ UNCHANGED <<database, runs, tab, detail, content, loadingDetail, chunksTab, gets, bounds,
                   ghosts>>

Next ==
    \/ \E r \in IndexRun : IndexAll(r) \/ DeleteChunks(r) \/ InsertChunk(r) \/ IndexEnds(r)
    \/ \E d \in Doc : DeleteDocument(d) \/ Open(d)
    \/ \E g \in gets : DetailAnswered(g) \/ ChunksAnswered(g)
    \/ SelectChunks \/ SelectContent \/ Type \/ Save \/ Close
    \/ PutFind \/ PutUpdate \/ PutAnswered

Spec == Init /\ [][Next]_vars

-----------------------------------------------------------------------------
\* The types of the variables, and who may be in flight: a save belongs to the document
\* on view, because the dialog cannot be closed before it is answered
\* (memory-document-dialog.tsx:112).
TypeOK ==
    /\ rows \in [Doc -> Text] /\ chunks \subseteq Chunk
    /\ pc \in [IndexRun -> {"none", "docs", "insert", "done"}]
    /\ read \in [IndexRun -> [Doc -> Text]] /\ todo \in [IndexRun -> SUBSET Doc]
    /\ doc \in [IndexRun -> Doc \cup {NoDoc}] /\ part \in [IndexRun -> 1..Parts]
    /\ \A r \in IndexRun : pc[r] = "insert" => doc[r] \in Doc
    /\ viewDoc \in Doc \cup {NoDoc} /\ tab \in {"content", "chunks"}
    /\ detail \in Doc \cup {NoDoc} /\ chunksOf \in Doc \cup {NoDoc}
    /\ content \in [of : Doc \cup {NoDoc}, by : {"none", "detail", "list", "user"}, at : 0..MaxActs]
    /\ loadingDetail \in BOOLEAN /\ loadingChunks \in BOOLEAN /\ chunksLoaded \in BOOLEAN
    /\ gets \subseteq [kind : {"detail", "chunks"}, doc : Doc, at : Opening]
    /\ put \in [pc : {"none", "find", "update", "saved", "failed"}, doc : Doc \cup {NoDoc},
                text : Text]
    /\ put.pc # "none" => Shown /\ put.doc = viewDoc
    /\ texts \in 0..MaxTexts /\ fails \in 0..MaxFails
    /\ acts \in 0..MaxActs /\ opening \in 0..acts /\ (Shown => opening # 0)
    /\ whole \in [Doc -> Text] /\ alone \in [IndexRun -> BOOLEAN]
    /\ late \in BOOLEAN /\ mixed \subseteq Doc

\* When the last run over a document was alone at it and no statement of it failed, the
\* chunks of the document are those of the text that the run had read, each of them once:
\* older ones, those of an overlapping run and those of a run that failed half-way are
\* gone, though delete and inserts are no transaction (indexalllogic.go:46-82).
IndexedExactly ==
    \A d \in Doc : whole[d] # NoText =>
        /\ \A c \in ChunksOfPath(d) : c.text = whole[d]
        /\ \A p \in 1..Parts : \E c \in ChunksOfPath(d) : c.part = p
        /\ \A c, e \in ChunksOfPath(d) : c.part = e.part => c = e

\* The dialog mixes no two documents: it shows chunks of its own document, and what it
\* saves was made from that document.  Except that answers to an earlier opening are
\* taken as those of the document on view (memory-document-dialog.tsx:39-75).
NoMixing ==
    /\ \A d \in Doc : rows[d].of \in {d, NoDoc} \/ d \in mixed
    /\ Shown /\ chunksLoaded => chunksOf \in {viewDoc, NoDoc} \/ late

\* What the user has typed stays in the dialog until he saves or closes it: the text is
\* locked while it loads (memory-document-dialog.tsx:161-170), except when the answer to an
\* earlier opening unlocks it.
EditsKept ==
    [][Shown /\ content.by = "user" /\ content.at = opening /\ opening' = opening
          => content' = content \/ late']_vars
=============================================================================
