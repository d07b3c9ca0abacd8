-------------------- MODULE DocumentaryCandidates_proofs --------------------
(***************************************************************************)
(* Proofs about canonical rows and the candidates that quote them, for     *)
(* every set of sources, pages and revisions and for every bound.          *)
(*                                                                         *)
(* The argument: the snapshot of a document names the revision whose       *)
(* pieces its chunks are, whatever was crawled since, so that chunking may *)
(* skip a document whose snapshot is its present revision; and a row is    *)
(* named by the attempt that inserted it, so that a candidate that was not *)
(* retracted quotes the row the model was shown.  A chunking transaction   *)
(* holds the row of its source from its first statement to its last, so    *)
(* that the documents it planned one after the other are still the         *)
(* outdated ones when it writes, and what it has sent is a part of what    *)
(* splitting them in one step gives.                                       *)
(***************************************************************************)
EXTENDS DocumentaryCandidates, ChunkTransaction, KnowledgeProjection_proofs, FiniteSetTheorems

-----------------------------------------------------------------------------
(* Canonical rows                                                          *)

ChunksOfRevision(s, u, row, revision) ==
  {[source |-> s, uri |-> u, row |-> row, piece |-> x] : x \in Pieces[revision]}

(* The chunks of a document are those of its snapshot.                     *)
Snapshotted(s, u) ==
  LET d == documents[s][u] IN
  /\ d.row = 0 => d.snapshot = None
  /\ d.snapshot = None => DocumentChunks(s, u) = {}
  /\ d.snapshot # None => DocumentChunks(s, u) = ChunksOfRevision(s, u, d.row, d.snapshot)

CanonicalInv ==
  /\ \A s \in Sources, u \in Uris : Snapshotted(s, u)
  /\ \A s \in Sources : ~Live(s) => \A u \in Uris : documents[s][u].row = 0
  /\ ChunksMatchDocuments

(* Documents and chunks stay, and no source is deleted or declared current. *)
CanonicalStaysPut ==
  /\ UNCHANGED <<documents, chunks>>
  /\ \A s \in Sources : /\ source'[s].current = source[s].current
                        /\ Live(s) => source'[s].life = "live"

LEMMA NoneIsNoContent == None \notin Contents
BY ProjectionAssumption

LEMMA CanonicalInit == Init => CanonicalInv
<1> SUFFICES ASSUME Init PROVE CanonicalInv
  OBVIOUS
<1>1. \A s \in Sources, u \in Uris : Snapshotted(s, u) /\ documents[s][u].row = 0
  BY DEF Init, Snapshotted, NoDocument, DocumentChunks
<1>2. ChunksMatchDocuments
  BY <1>1 DEF Init, ChunksMatchDocuments, ChunksOf, DocumentUris
<1> QED
  BY <1>1, <1>2 DEF CanonicalInv

LEMMA StaysPutKeeps ==
  ASSUME CanonicalInv, CanonicalStaysPut
  PROVE  CanonicalInv'
<1>1. \A s \in Sources, u \in Uris : Snapshotted(s, u)'
  BY DEF CanonicalInv, CanonicalStaysPut, Snapshotted, DocumentChunks
<1>2. ChunksMatchDocuments'
  BY DEF CanonicalInv, CanonicalStaysPut, ChunksMatchDocuments, ChunksOf, DocumentUris, SplitOf
<1> QED
  BY <1>1, <1>2 DEF CanonicalInv, CanonicalStaysPut, Live

(* The chunks of a source are those of its documents.                      *)
LEMMA ChunkHasDocument ==
  ASSUME TypeInv, CanonicalInv, NEW c \in chunks
  PROVE  /\ c.source \in Sources /\ c.uri \in Uris
         /\ documents[c.source][c.uri].row = c.row
         /\ documents[c.source][c.uri].row # 0
         /\ Live(c.source)
<1>1. c \in ChunkIds
  BY DEF TypeInv, TypeOK
<1>2. c.source \in Sources /\ c.uri \in Uris
  BY <1>1 DEF ChunkIds
<1>3. c \in DocumentChunks(c.source, c.uri) /\ Snapshotted(c.source, c.uri)
  BY <1>2 DEF DocumentChunks, CanonicalInv
<1>4. /\ documents[c.source][c.uri].snapshot # None
      /\ c.row = documents[c.source][c.uri].row
  BY <1>3 DEF Snapshotted, ChunksOfRevision
<1>5. documents[c.source][c.uri].row # 0
  BY <1>3, <1>4 DEF Snapshotted
<1> QED
  BY <1>2, <1>4, <1>5 DEF CanonicalInv

LEMMA StoreKeeps ==
  ASSUME IInv, CanonicalInv, NEW j \in JobIds, NEW s \in Sources, Live(s),
         NEW page, NEW gone,
         \A u \in Uris : page[u] # None => page[u] \in Contents /\ u \notin gone,
         StoreDocuments(s, j, page, gone)
  PROVE  CanonicalInv'
<1>1. /\ documents' = [documents EXCEPT ![s] = Stored(s, j, page, gone)]
      /\ chunks' = {c \in chunks : ~(c.source = s /\ c.uri \in gone)}
      /\ source' = [source EXCEPT ![s].status = "chunking", ![s].current = FALSE]
  BY DEF StoreDocuments
<1>2. /\ documents \in [Sources -> [Uris -> DocumentRows]]
      /\ source \in [Sources -> SourceRows]
  BY DEF IInv, TypeInv, TypeOK
<1>3. \A t \in Sources \ {s} : documents'[t] = documents[t] /\ source'[t] = source[t]
  BY <1>1, <1>2
<1>4. \A u \in Uris : documents'[s][u] = Stored(s, j, page, gone)[u]
  BY <1>1, <1>2
<1>5. source'[s].life = source[s].life /\ source'[s].current = FALSE
  BY <1>1, <1>2 DEF SourceRows
<1>6. ASSUME NEW t \in Sources, NEW u \in Uris
      PROVE  Snapshotted(t, u)'
  <2>1. Snapshotted(t, u)
    BY DEF CanonicalInv
  <2>2. DocumentChunks(t, u)' = IF t = s /\ u \in gone THEN {} ELSE DocumentChunks(t, u)
    BY <1>1 DEF DocumentChunks
  <2>3. CASE t # s
    BY <1>3, <2>1, <2>2, <2>3 DEF Snapshotted
  <2>4. CASE t = s /\ page[u] # None
    <3>1. u \notin gone
      BY <2>4
    <3>2. /\ documents'[s][u].row = IF documents[s][u].row = 0 THEN j ELSE documents[s][u].row
          /\ documents'[s][u].snapshot = documents[s][u].snapshot
      <4>1. documents'[s][u] = [row |-> IF documents[s][u].row = 0 THEN j ELSE documents[s][u].row,
                                content |-> page[u], snapshot |-> documents[s][u].snapshot]
        BY <1>4, <2>4 DEF Stored
      <4> QED
        BY <4>1
    <3>3. j # 0
      BY MaxJobsType DEF JobIds
    <3> QED
      BY <2>1, <2>2, <2>4, <3>1, <3>2, <3>3 DEF Snapshotted
  <2>5. CASE t = s /\ page[u] = None /\ u \in gone
    <3>1. documents'[s][u] = NoDocument
      BY <1>4, <2>5 DEF Stored
    <3> QED
      BY <2>2, <2>5, <3>1 DEF Snapshotted, NoDocument
  <2>6. CASE t = s /\ page[u] = None /\ u \notin gone
    <3>1. documents'[s][u] = documents[s][u]
      BY <1>4, <2>6 DEF Stored
    <3> QED
      BY <2>1, <2>2, <2>6, <3>1 DEF Snapshotted
  <2> QED
    BY <2>3, <2>4, <2>5, <2>6
<1>7. \A t \in Sources : ~Live(t)' => \A u \in Uris : documents'[t][u].row = 0
  BY <1>3, <1>5 DEF CanonicalInv, Live
<1>8. ASSUME NEW t \in Sources, source'[t].current
      PROVE  ChunksOf(t)' = UNION {SplitOf(t, u)' : u \in DocumentUris(t)'}
  <2>1. t # s
    BY <1>5, <1>8
  <2>2. documents'[t] = documents[t] /\ source[t].current
    BY <1>3, <1>8, <2>1
  <2>3. ChunksOf(t)' = ChunksOf(t)
    BY <1>1, <2>1 DEF ChunksOf
  <2>4. DocumentUris(t)' = DocumentUris(t) /\ \A u : SplitOf(t, u)' = SplitOf(t, u)
    BY <2>2 DEF DocumentUris, SplitOf
  <2>5. ChunksOf(t) = UNION {SplitOf(t, u) : u \in DocumentUris(t)}
    BY <2>2 DEF CanonicalInv, ChunksMatchDocuments
  <2> QED
    BY <2>3, <2>4, <2>5
<1>9. ChunksMatchDocuments'
  BY <1>8 DEF ChunksMatchDocuments
<1> QED
  BY <1>6, <1>7, <1>9 DEF CanonicalInv

(* What chunking makes of the rows of a source.                            *)
Rewritten(s) ==
  /\ documents' = [documents EXCEPT ![s] =
                     [u \in Uris |-> IF u \in Outdated(s)
                                     THEN [documents[s][u] EXCEPT !.snapshot = documents[s][u].content]
                                     ELSE documents[s][u]]]
  /\ chunks' = Replanned(s)
  /\ source' = [source EXCEPT ![s].status = "indexing", ![s].current = TRUE]

(* Splitting gives every outdated document the chunks of what it is now.   *)
LEMMA SplitKeeps ==
  ASSUME IInv, CanonicalInv, NEW s \in Sources, Live(s), Rewritten(s)
  PROVE  CanonicalInv'
<1> USE NoneIsNoContent
<1>1. PICK r \in Sources : r = s
  OBVIOUS
<1>2. PICK old : old = Outdated(r)
  OBVIOUS
<1>3. /\ documents' = [documents EXCEPT ![r] =
             [u \in Uris |-> IF u \in old
                             THEN [documents[r][u] EXCEPT !.snapshot = documents[r][u].content]
                             ELSE documents[r][u]]]
      /\ chunks' = {c \in chunks : ~(c.source = r /\ c.uri \in old)}
                     \cup UNION {SplitOf(r, u) : u \in old}
      /\ source' = [source EXCEPT ![r].status = "indexing", ![r].current = TRUE]
  BY <1>1, <1>2 DEF Rewritten, Replanned
<1>4. /\ documents \in [Sources -> [Uris -> DocumentRows]]
      /\ source \in [Sources -> SourceRows] /\ chunks \subseteq ChunkIds
  BY DEF IInv, TypeInv, TypeOK
<1>5. \A t \in Sources \ {r} : documents'[t] = documents[t] /\ source'[t] = source[t]
  BY <1>3, <1>4
<1>6. source'[r].life = source[r].life
  BY <1>3, <1>4 DEF SourceRows
<1>7. \A u \in old : u \in Uris /\ documents[r][u].row # 0 /\ documents[r][u].content \in Contents
  BY <1>2 DEF Outdated, DocumentUris, IInv, TypeInv
<1>8. \A u \in Uris \ old : documents'[r][u] = documents[r][u]
  BY <1>3, <1>4
<1>9. ASSUME NEW u \in old
      PROVE  /\ documents'[r][u].row = documents[r][u].row
             /\ documents'[r][u].content = documents[r][u].content
             /\ documents'[r][u].snapshot = documents[r][u].content
  <2>1. u \in Uris /\ documents[r][u] \in DocumentRows
    BY <1>4, <1>7
  <2>2. documents'[r][u] = [documents[r][u] EXCEPT !.snapshot = documents[r][u].content]
    BY <1>3, <1>4, <2>1
  <2> QED
    BY <2>1, <2>2 DEF DocumentRows
<1>10. \A u \in old : \A c \in SplitOf(r, u) : c.source = r /\ c.uri = u
  BY DEF SplitOf
<1>11. ASSUME NEW t \in Sources, NEW u \in Uris
       PROVE  DocumentChunks(t, u)' = IF t = r /\ u \in old THEN SplitOf(r, u)
                                      ELSE DocumentChunks(t, u)
  <2>1. \A c : c \in chunks' <=> \/ c \in chunks /\ ~(c.source = r /\ c.uri \in old)
                                 \/ \E v \in old : c \in SplitOf(r, v)
    BY <1>3
  <2> QED
    BY <1>10, <2>1 DEF DocumentChunks
<1>12. ASSUME NEW t \in Sources, NEW u \in Uris
       PROVE  Snapshotted(t, u)'
  <2>1. Snapshotted(t, u)
    BY DEF CanonicalInv
  <2>2. CASE t = r /\ u \in old
    <3>1. SplitOf(r, u) = ChunksOfRevision(r, u, documents[r][u].row, documents[r][u].content)
      BY DEF SplitOf, ChunksOfRevision
    <3> QED
      BY <1>7, <1>9, <1>11, <2>2, <3>1 DEF Snapshotted
  <2>3. CASE ~(t = r /\ u \in old)
    <3>1. documents'[t][u] = documents[t][u]
      BY <1>5, <1>8, <2>3
    <3> QED
      BY <1>11, <2>1, <2>3, <3>1 DEF Snapshotted
  <2> QED
    BY <2>2, <2>3
<1>13. \A t \in Sources : ~Live(t)' => \A u \in Uris : documents'[t][u].row = 0
  BY <1>1, <1>5, <1>6 DEF CanonicalInv, Live
<1>14. ASSUME NEW t \in Sources, source'[t].current
       PROVE  ChunksOf(t)' = UNION {SplitOf(t, u)' : u \in DocumentUris(t)'}
  <2>1. CASE t # r
    <3>1. documents'[t] = documents[t] /\ source[t].current
      BY <1>5, <1>14, <2>1
    <3>2. ChunksOf(t)' = ChunksOf(t)
      <4>1. \A u \in old : \A c \in SplitOf(r, u) : c.source # t
        BY <1>10, <2>1
      <4> QED
        BY <1>3, <2>1, <4>1 DEF ChunksOf
    <3>3. DocumentUris(t)' = DocumentUris(t) /\ \A u : SplitOf(t, u)' = SplitOf(t, u)
      BY <3>1 DEF DocumentUris, SplitOf
    <3>4. ChunksOf(t) = UNION {SplitOf(t, u) : u \in DocumentUris(t)}
      BY <3>1 DEF CanonicalInv, ChunksMatchDocuments
    <3> QED
      BY <3>2, <3>3, <3>4
  <2>2. CASE t = r
    <3>1. \A u \in Uris : /\ documents'[r][u].row = documents[r][u].row
                          /\ documents'[r][u].content = documents[r][u].content
      BY <1>8, <1>9
    <3>2. DocumentUris(r)' = DocumentUris(r)
      BY <3>1 DEF DocumentUris
    <3>3. \A u \in Uris : SplitOf(r, u)' = SplitOf(r, u)
      BY <3>1 DEF SplitOf
    <3>4. ASSUME NEW u \in DocumentUris(r)
          PROVE  DocumentChunks(r, u)' = SplitOf(r, u)
      <4>1. u \in Uris
        BY DEF DocumentUris
      <4>2. CASE u \in old
        BY <1>11, <4>1, <4>2
      <4>3. CASE u \notin old
        <5>1. documents[r][u].snapshot = documents[r][u].content
          BY <1>2, <4>3 DEF Outdated, SnapshotHolds
        <5>2. documents[r][u].content \in Contents
          BY <4>1 DEF DocumentUris, IInv, TypeInv
        <5>3. DocumentChunks(r, u) = ChunksOfRevision(r, u, documents[r][u].row, documents[r][u].content)
          BY <4>1, <5>1, <5>2 DEF CanonicalInv, Snapshotted
        <5> QED
          BY <1>11, <4>1, <4>3, <5>3 DEF SplitOf, ChunksOfRevision
      <4> QED
        BY <4>2, <4>3
    <3>5. ASSUME NEW u \in Uris, u \notin DocumentUris(r)
          PROVE  DocumentChunks(r, u)' = {}
      <4>1. documents'[r][u].row = 0
        BY <3>1, <3>5 DEF DocumentUris
      <4> QED
        BY <1>12, <4>1 DEF Snapshotted
    <3>6. \A c \in ChunksOf(r)' : c.uri \in Uris /\ c \in DocumentChunks(r, c.uri)'
      <4>1. \A c \in chunks' : c.uri \in Uris
        BY <1>3, <1>4, <1>7, <1>10 DEF ChunkIds
      <4> QED
        BY <4>1 DEF ChunksOf, DocumentChunks
    <3>7. \A u \in Uris : DocumentChunks(r, u)' \subseteq ChunksOf(r)'
      BY DEF ChunksOf, DocumentChunks
    <3>8. DocumentUris(r) \subseteq Uris
      BY DEF DocumentUris
    <3>9. ChunksOf(r)' = UNION {SplitOf(r, u) : u \in DocumentUris(r)}
      BY <3>4, <3>5, <3>6, <3>7, <3>8
    <3> QED
      BY <2>2, <3>2, <3>3, <3>8, <3>9
  <2> QED
    BY <2>1, <2>2
<1>15. ChunksMatchDocuments'
  BY <1>14 DEF ChunksMatchDocuments
<1> QED
  BY <1>12, <1>13, <1>15 DEF CanonicalInv

(* A deletion takes the documents and the chunks of its source.            *)
LEMMA DeleteKeeps ==
  ASSUME IInv, CanonicalInv, NEW p \in Procs, DeleteCommit(p)
  PROVE  CanonicalInv'
<1>1. PICK s \in Sources : s = proc[p].source
  BY DEF DeleteCommit, IInv, TypeInv, Named
<1>2. /\ documents' = [documents EXCEPT ![s] = [u \in Uris |-> NoDocument]]
      /\ chunks' = chunks \ ChunksOf(s)
      /\ source' = [source EXCEPT ![s].life = "gone"]
  BY <1>1 DEF DeleteCommit
<1>3. /\ documents \in [Sources -> [Uris -> DocumentRows]]
      /\ source \in [Sources -> SourceRows]
  BY DEF IInv, TypeInv, TypeOK
<1>4. \A t \in Sources \ {s} : documents'[t] = documents[t] /\ source'[t] = source[t]
  BY <1>2, <1>3
<1>5. \A u \in Uris : documents'[s][u] = NoDocument
  BY <1>2, <1>3
<1>6. ASSUME NEW t \in Sources, NEW u \in Uris
      PROVE  Snapshotted(t, u)'
  <2>1. DocumentChunks(t, u)' = IF t = s THEN {} ELSE DocumentChunks(t, u)
    BY <1>2 DEF DocumentChunks, ChunksOf
  <2>2. Snapshotted(t, u)
    BY DEF CanonicalInv
  <2>3. CASE t = s
    BY <1>5, <2>1, <2>3 DEF Snapshotted, NoDocument
  <2>4. CASE t # s
    BY <1>4, <2>1, <2>2, <2>4 DEF Snapshotted
  <2> QED
    BY <2>3, <2>4
<1>7. \A t \in Sources : ~Live(t)' => \A u \in Uris : documents'[t][u].row = 0
  BY <1>4, <1>5 DEF CanonicalInv, Live, NoDocument
<1>8. ASSUME NEW t \in Sources, source'[t].current
      PROVE  ChunksOf(t)' = UNION {SplitOf(t, u)' : u \in DocumentUris(t)'}
  <2>1. CASE t = s
    <3>1. ChunksOf(s)' = {}
      BY <1>2 DEF ChunksOf
    <3>2. DocumentUris(s)' = {}
      BY <1>5 DEF DocumentUris, NoDocument
    <3> QED
      BY <2>1, <3>1, <3>2
  <2>2. CASE t # s
    <3>1. documents'[t] = documents[t] /\ source[t].current
      BY <1>4, <1>8, <2>2
    <3>2. ChunksOf(t)' = ChunksOf(t)
      BY <1>2, <2>2 DEF ChunksOf
    <3>3. DocumentUris(t)' = DocumentUris(t) /\ \A u : SplitOf(t, u)' = SplitOf(t, u)
      BY <3>1 DEF DocumentUris, SplitOf
    <3>4. ChunksOf(t) = UNION {SplitOf(t, u) : u \in DocumentUris(t)}
      BY <3>1 DEF CanonicalInv, ChunksMatchDocuments
    <3> QED
      BY <3>2, <3>3, <3>4
  <2> QED
    BY <2>1, <2>2
<1>9. ChunksMatchDocuments'
  BY <1>8 DEF ChunksMatchDocuments
<1> QED
  BY <1>6, <1>7, <1>9 DEF CanonicalInv

-----------------------------------------------------------------------------
(* Every step                                                              *)

LEMMA RowsStay ==
  ASSUME TypeInv, UNCHANGED <<documents, chunks>>,
         \/ source' = source
         \/ \E s, first : OpenJob(s, first)
         \/ \E s, j, to : Transition(s, j, to)
         \/ \E s, g : source' = [source EXCEPT ![s].status = "ready", ![s].generation = g]
  PROVE  CanonicalStaysPut
<1>1. source \in [Sources -> SourceRows]
  BY DEF TypeInv, TypeOK
<1>2. \A r \in Sources : /\ source'[r].current = source[r].current
                         /\ Live(r) => source'[r].life = "live"
  <2>1. CASE source' = source
    BY <2>1 DEF Live
  <2>2. CASE \E s, first : OpenJob(s, first)
    BY <1>1, <2>2 DEF OpenJob, SourceRows, Live
  <2>3. CASE \E s, j, to : Transition(s, j, to)
    BY <1>1, <2>3 DEF Transition, SourceRows, Live
  <2>4. CASE \E s, g : source' = [source EXCEPT ![s].status = "ready", ![s].generation = g]
    BY <1>1, <2>4 DEF SourceRows, Live
  <2> QED
    BY <2>1, <2>2, <2>3, <2>4
<1> QED
  BY <1>2 DEF CanonicalStaysPut

LEMMA RequestStays ==
  ASSUME TypeInv, Request
  PROVE  CanonicalStaysPut
BY RowsStay DEF Request, CreateSource, RefreshSource, ReindexSource, OperatorTransition

LEMMA PollKeeps ==
  ASSUME IInv, CanonicalInv, PollCanonical
  PROVE  CanonicalInv'
<1>1. PICK j \in JobIds :
        \/ ParseFails(j) \/ ParseUnchanged(j) \/ ParseText(j)
        \/ \E page \in Crawls, gone \in SUBSET Uris : CrawlWebsite(j, page, gone)
        \/ SplitFails(j) \/ Split(j)
  BY DEF PollCanonical, PollDocuments
<1> DEFINE s == job[j].source
<1>2. TypeInv /\ s \in Sources /\ job[j].status # "absent"
  BY <1>1 DEF ParseFails, ParseUnchanged, ParseText, CrawlWebsite, SplitFails, Split,
              Claim, MayPick, ToParse, ToSplit, IInv, TypeInv, Owned
<1>3. Live(s)
  <2>1. source[s].life \in {"unborn", "live", "gone"}
    BY <1>2 DEF TypeInv, TypeOK, SourceRows
  <2> QED
    BY <1>2, <2>1 DEF IInv, AttemptInv, Born, Live
<1>4. CASE ParseFails(j) \/ ParseUnchanged(j) \/ SplitFails(j)
  <2>1. UNCHANGED <<documents, chunks>> /\ \E to : Transition(s, j, to)
    BY <1>4 DEF ParseFails, ParseUnchanged, SplitFails
  <2> QED
    BY <1>2, <2>1, RowsStay, StaysPutKeeps
<1>5. CASE ParseText(j)
  <2> DEFINE page == [u \in Uris |-> IF u = TextUri THEN TextContent ELSE None]
  <2>1. \A u \in Uris : page[u] # None => page[u] \in Contents /\ u \notin {}
    BY ProjectionAssumption
  <2>2. StoreDocuments(s, j, page, {})
    BY <1>5 DEF ParseText
  <2> HIDE DEF page
  <2> QED
    BY <1>2, <1>3, <2>1, <2>2, StoreKeeps
<1>6. ASSUME NEW page \in Crawls, NEW gone \in SUBSET Uris, CrawlWebsite(j, page, gone)
      PROVE  CanonicalInv'
  <2>1. \A u \in Uris : page[u] # None => page[u] \in Contents /\ u \notin gone
    BY <1>6 DEF CrawlWebsite, Crawls
  <2>2. StoreDocuments(s, j, page, gone)
    BY <1>6 DEF CrawlWebsite
  <2> QED
    BY <1>2, <1>3, <2>1, <2>2, StoreKeeps
<1>7. CASE Split(j)
  <2>1. Rewritten(s)
    BY <1>7 DEF Split, Rewritten
  <2> QED
    BY <1>2, <1>3, <2>1, SplitKeeps
<1> QED
  BY <1>1, <1>4, <1>5, <1>6, <1>7

LEMMA ProcessKeeps ==
  ASSUME IInv, CanonicalInv, NEW p \in Procs,
         PollIndex(p) \/ Continue(p) \/ Administer(p) \/ ProjectionError(p) \/ RollBack(p)
  PROVE  CanonicalInv'
<1>1. TypeInv
  BY DEF IInv
<1>2. CASE DeleteCommit(p)
  BY <1>2, DeleteKeeps
<1>3. CASE RejectProjection(p) \/ ProjectionError(p)
  <2>1. UNCHANGED <<documents, chunks>> /\ \E s, j, to : Transition(s, j, to)
    BY <1>3 DEF RejectProjection, ProjectionError
  <2> QED
    BY <1>1, <2>1, RowsStay, StaysPutKeeps
<1>4. CASE CommitReady(p)
  <2>1. /\ UNCHANGED <<documents, chunks>>
        /\ \E s, g : source' = [source EXCEPT ![s].status = "ready", ![s].generation = g]
    BY <1>4 DEF CommitReady
  <2> QED
    BY <1>1, <2>1, RowsStay, StaysPutKeeps
<1>5. CASE \E s \in Sources : RebuildReindexes(p, s)
  <2>1. UNCHANGED <<documents, chunks>> /\ \E s, first : OpenJob(s, first)
    BY <1>5 DEF RebuildReindexes
  <2> QED
    BY <1>1, <2>1, RowsStay, StaysPutKeeps
<1>6. CASE UNCHANGED canonical
  BY <1>1, <1>6, RowsStay, StaysPutKeeps DEF canonical
<1>7. CASE PollIndex(p) \/ Administer(p) \/ RollBack(p)
  BY <1>6, <1>7 DEF PollIndex, BeginProjection, Begin, Administer, DeleteLockOwner, RebuildStart,
                    RollBack
<1>8. CASE UpsertBatch(p) \/ DeleteStale(p) \/ DeleteLockSource(p) \/ DeletePoints(p)
  BY <1>6, <1>8 DEF UpsertBatch, DeleteStale, DeleteLockSource, DeletePoints
<1>9. CASE \/ \E s \in Sources : RebuildReuses(p, s) \/ RebuildStops(p, s)
           \/ \E j \in JobIds : RebuildProjects(p, j)
           \/ RebuildSkips(p) \/ RebuildLocksOwner(p) \/ RebuildDeletesOrphans(p)
  BY <1>6, <1>9 DEF RebuildReuses, RebuildStops, RebuildProjects, Begin, RebuildSkips,
                    RebuildLocksOwner, RebuildDeletesOrphans
<1> QED
  BY <1>2, <1>3, <1>4, <1>5, <1>7, <1>8, <1>9 DEF Continue

LEMMA CanonicalStep == IInv /\ CanonicalInv /\ [Next]_vars => CanonicalInv'
<1> SUFFICES ASSUME IInv, CanonicalInv, [Next]_vars
             PROVE  CanonicalInv'
  OBVIOUS
<1>1. CASE Request
  BY <1>1, RequestStays, StaysPutKeeps DEF IInv
<1>2. CASE PollCanonical
  BY <1>2, PollKeeps
<1>3. ASSUME NEW p \in Procs,
             PollIndex(p) \/ Continue(p) \/ Administer(p) \/ ProjectionError(p) \/ RollBack(p)
      PROVE  CanonicalInv'
  BY <1>3, ProcessKeeps
<1>4. CASE LandLate \/ UNCHANGED vars
  <2>1. UNCHANGED <<documents, chunks>> /\ source' = source
    BY <1>4 DEF LandLate, UpsertLands, DeleteLands, vars, canonical
  <2> QED
    BY <2>1, RowsStay, StaysPutKeeps DEF IInv
<1> QED
  BY <1>1, <1>2, <1>3, <1>4 DEF Next, Quiet

(***************************************************************************)
(* The chunks of a source that declares them current are exactly what      *)
(* splitting its documents gives, for every set of sources, pages and      *)
(* revisions: chunking, which skips the documents it takes for unchanged,  *)
(* never leaves a piece of an older revision behind and never loses one.   *)
(***************************************************************************)
THEOREM ChunksMatchDocumentsAlways == Spec => []ChunksMatchDocuments
<1>1. Init => IInv /\ CanonicalInv
  BY IInvInit, CanonicalInit
<1>2. IInv /\ CanonicalInv /\ [Next]_vars => (IInv /\ CanonicalInv)'
  BY IInvStep, CanonicalStep
<1>3. CanonicalInv => ChunksMatchDocuments
  BY DEF CanonicalInv
<1> QED
  BY <1>1, <1>2, <1>3, PTL DEF Spec

-----------------------------------------------------------------------------
(* Who writes canonical rows                                               *)

(* Documents and chunks stay, and so does everything about sources but     *)
(* what an attempt that opens or moves makes of them; only an operator who *)
(* may do so declares an attempt ready without a projection.               *)
OnlyAttempts ==
  /\ UNCHANGED <<documents, chunks>>
  /\ \/ source' = source
     \/ \E s \in Sources, first \in {"pending", "indexing"} : OpenJob(s, first)
     \/ \E s, j, to : Transition(s, j, to) /\ (to = "ready" => "ready" \in OperatorTargets)

LEMMA RowWriters ==
  ASSUME [Next]_vars
  PROVE  \/ OnlyAttempts
         \/ \E j \in JobIds : /\ Claim(j, ToParse)
                              /\ \E page, gone : StoreDocuments(job[j].source, j, page, gone)
         \/ \E j \in JobIds : Split(j)
         \/ \E p \in Procs : CommitReady(p)
         \/ \E p \in Procs : DeleteCommit(p)
<1>1. CASE Request
  <2>1. UNCHANGED <<documents, chunks>>
    BY <1>1 DEF Request, CreateSource, RefreshSource, ReindexSource, OperatorTransition
  <2>2. ASSUME NEW s \in Sources, CreateSource(s) \/ RefreshSource(s) \/ ReindexSource(s)
        PROVE  \E first \in {"pending", "indexing"} : OpenJob(s, first)
    BY <2>2 DEF CreateSource, RefreshSource, ReindexSource
  <2>3. ASSUME NEW j \in JobIds, NEW to \in Stages, OperatorTransition(j, to)
        PROVE  Transition(job[j].source, j, to) /\ (to = "ready" => "ready" \in OperatorTargets)
    BY <2>3 DEF OperatorTransition
  <2> QED
    BY <1>1, <2>1, <2>2, <2>3 DEF Request, OnlyAttempts
<1>2. CASE PollCanonical
  <2>1. PICK j \in JobIds :
          \/ ParseFails(j) \/ ParseUnchanged(j) \/ ParseText(j)
          \/ \E page \in Crawls, gone \in SUBSET Uris : CrawlWebsite(j, page, gone)
          \/ SplitFails(j) \/ Split(j)
    BY <1>2 DEF PollCanonical, PollDocuments
  <2>2. CASE ParseText(j) \/ \E page \in Crawls, gone \in SUBSET Uris : CrawlWebsite(j, page, gone)
    <3>1. Claim(j, ToParse) /\ \E page, gone : StoreDocuments(job[j].source, j, page, gone)
      BY <2>2 DEF ParseText, CrawlWebsite
    <3> QED
      BY <3>1
  <2>3. CASE ParseFails(j) \/ ParseUnchanged(j) \/ SplitFails(j)
    <3>1. /\ UNCHANGED <<documents, chunks>>
          /\ \E to : Transition(job[j].source, j, to) /\ to # "ready"
      BY <2>3 DEF ParseFails, ParseUnchanged, SplitFails
    <3> QED
      BY <3>1 DEF OnlyAttempts
  <2> QED
    BY <2>1, <2>2, <2>3
<1>3. ASSUME NEW p \in Procs,
             PollIndex(p) \/ Continue(p) \/ Administer(p) \/ ProjectionError(p) \/ RollBack(p)
      PROVE  OnlyAttempts \/ CommitReady(p) \/ DeleteCommit(p)
  <2>1. CASE RejectProjection(p) \/ ProjectionError(p)
    <3>1. /\ UNCHANGED <<documents, chunks>>
          /\ \E to : Transition(proc[p].source, proc[p].job, to) /\ to # "ready"
      BY <2>1 DEF RejectProjection, ProjectionError
    <3> QED
      BY <3>1 DEF OnlyAttempts
  <2>2. CASE \E s \in Sources : RebuildReindexes(p, s)
    BY <2>2 DEF RebuildReindexes, OnlyAttempts
  <2>3. CASE PollIndex(p) \/ Administer(p) \/ RollBack(p)
    BY <2>3 DEF PollIndex, BeginProjection, Begin, Administer, DeleteLockOwner, RebuildStart,
                RollBack, canonical, OnlyAttempts
  <2>4. CASE UpsertBatch(p) \/ DeleteStale(p) \/ DeleteLockSource(p) \/ DeletePoints(p)
    BY <2>4 DEF UpsertBatch, DeleteStale, DeleteLockSource, DeletePoints, canonical, OnlyAttempts
  <2>5. CASE \/ \E s \in Sources : RebuildReuses(p, s) \/ RebuildStops(p, s)
             \/ \E j \in JobIds : RebuildProjects(p, j)
             \/ RebuildSkips(p) \/ RebuildLocksOwner(p) \/ RebuildDeletesOrphans(p)
    BY <2>5 DEF RebuildReuses, RebuildStops, RebuildProjects, Begin, RebuildSkips,
                RebuildLocksOwner, RebuildDeletesOrphans, canonical, OnlyAttempts
  <2> QED
    BY <1>3, <2>1, <2>2, <2>3, <2>4, <2>5 DEF Continue
<1>4. CASE LandLate \/ UNCHANGED vars
  BY <1>4 DEF LandLate, UpsertLands, DeleteLands, vars, canonical, OnlyAttempts
<1> QED
  BY <1>1, <1>2, <1>3, <1>4 DEF Next, Quiet

(* No step of the pipeline but a commit of chunking writes rows and fails   *)
(* an attempt.                                                             *)
LEMMA FailureWritesNothing ==
  ASSUME TypeInv, [Next]_vars,
         NEW j \in JobIds, job[j].status # "failed", job'[j].status = "failed"
  PROVE  UNCHANGED <<documents, chunks>>
<1>1. job \in [JobIds -> JobRows]
  BY DEF TypeInv, TypeOK
<1>2. ASSUME NEW k \in JobIds, NEW page, NEW gone, StoreDocuments(job[k].source, k, page, gone)
      PROVE  FALSE
  BY <1>1, <1>2 DEF StoreDocuments, JobRows
<1>3. ASSUME NEW k \in JobIds, Split(k)
      PROVE  FALSE
  BY <1>1, <1>3 DEF Split, JobRows
<1>4. ASSUME NEW p \in Procs, DeleteCommit(p)
      PROVE  FALSE
  BY <1>1, <1>4 DEF DeleteCommit, JobRows
<1>5. ASSUME NEW p \in Procs, CommitReady(p)
      PROVE  UNCHANGED <<documents, chunks>>
  BY <1>5 DEF CommitReady
<1> QED
  BY <1>2, <1>3, <1>4, <1>5, RowWriters DEF OnlyAttempts

-----------------------------------------------------------------------------
(* Chunking statement by statement                                         *)

PlannedDocuments == [uri : Uris, read : [row : JobIds, content : Contents,
                                         snapshot : Contents \cup {None}]]

Sessions == [pc : {"closed", "plan", "write"}, job : 0..MaxJobs, left : SUBSET Uris,
             planned : SUBSET PlannedDocuments, counted : SUBSET ChunkIds,
             removed : SUBSET ChunkIds, added : SUBSET ChunkIds, written : SUBSET PlannedDocuments]

(* An open session is at an attempt that is to be split, of a source whose *)
(* row it has locked; the documents it has not planned exist, and until it *)
(* has planned every document it has written nothing.                      *)
Working(w) ==
  LET r == session[w] IN
  /\ proc[w].pc = "idle"
  /\ r.job \in JobIds /\ job[r.job].status = "chunking"
  /\ sourceLock[job[r.job].source] = w
  /\ r.left \subseteq DocumentUris(job[r.job].source)
  /\ r.pc = "plan" => r.removed = {} /\ r.added = {} /\ r.written = {}

ChunkingInv ==
  /\ IInv
  /\ session \in [Workers -> Sessions]
  /\ \A w \in Workers : session[w].pc # "closed" => Working(w)

(* What others leave to a session.                                         *)
Spared(v) ==
  /\ Undisturbed(v)
  /\ \A s \in Sources : sourceLock[s] = v => documents'[s] = documents[s]

LEMMA ClosedType == Closed \in Sessions /\ Closed.pc = "closed"
BY MaxJobsType DEF Closed, Sessions

LEMMA ChunkingInvInit == ChunkingInit => ChunkingInv
BY ClosedType, IInvInit DEF ChunkingInit, ChunkingInv

LEMMA ElsewhereIsNext == Elsewhere => Next
BY DEF Elsewhere, Next, PollCanonical

LEMMA WorkingFacts ==
  ASSUME ChunkingInv, NEW w \in Workers, session[w].pc # "closed"
  PROVE  /\ w \in Procs /\ session[w] \in Sessions /\ Working(w)
         /\ session[w].job \in JobIds
         /\ SourceOf(w) \in Sources /\ sourceLock[SourceOf(w)] = w
BY DEF ChunkingInv, Working, SourceOf, IInv, TypeInv, Owned, Procs

LEMMA WorkingKept ==
  ASSUME ChunkingInv, NEW v \in Workers, session[v].pc # "closed", session'[v] = session[v],
         Spared(v)
  PROVE  Working(v)'
<1> DEFINE j == session[v].job
<1>1. /\ j \in JobIds /\ job[j].status = "chunking" /\ job[j].source \in Sources
      /\ sourceLock[job[j].source] = v
  BY WorkingFacts DEF Working, SourceOf
<1>2. "chunking" \in Active
  BY DEF Active, Stages, Terminal
<1>3. /\ proc'[v] = proc[v] /\ job'[j] = job[j]
      /\ sourceLock'[job[j].source] = v /\ documents'[job[j].source] = documents[job[j].source]
  BY <1>1, <1>2 DEF Spared, Undisturbed
<1>4. DocumentUris(job[j].source)' = DocumentUris(job[j].source)
  BY <1>3 DEF DocumentUris
<1>5. Working(v)
  BY WorkingFacts
<1> QED
  BY <1>1, <1>3, <1>4, <1>5 DEF Working

(* Only the session of w changes.                                          *)
LEMMA SessionChange ==
  ASSUME ChunkingInv, NEW w \in Workers, IInv',
         session' \in [Workers -> Sessions],
         \A v \in Workers \ {w} : session'[v] = session[v],
         session'[w].pc # "closed" => Working(w)',
         \A v \in Workers \ {w} : Spared(v)
  PROVE  ChunkingInv'
<1>1. ASSUME NEW v \in Workers, session'[v].pc # "closed"
      PROVE  Working(v)'
  <2>1. CASE v = w
    BY <1>1, <2>1
  <2>2. CASE v # w
    BY <1>1, <2>2, WorkingKept
  <2> QED
    BY <2>1, <2>2
<1> QED
  BY <1>1 DEF ChunkingInv

(* The rows of a source that a session has locked are left to it.          *)
LEMMA LockedDocuments ==
  ASSUME IInv, [Next]_vars, NEW v \in Workers, proc'[v] = proc[v], proc[v].pc = "idle",
         NEW s \in Sources, sourceLock[s] = v
  PROVE  documents'[s] = documents[s]
<1>1. v \in Procs /\ v # None
  BY ProjectionAssumption DEF Procs
<1>2. documents \in [Sources -> [Uris -> DocumentRows]]
  BY DEF IInv, TypeInv, TypeOK
<1>3. CASE OnlyAttempts \/ \E p \in Procs : CommitReady(p)
  BY <1>3 DEF OnlyAttempts, CommitReady
<1>4. ASSUME NEW j \in JobIds, Claim(j, ToParse), NEW page, NEW gone,
             StoreDocuments(job[j].source, j, page, gone)
      PROVE  documents'[s] = documents[s]
  <2>1. sourceLock[job[j].source] = None
    BY <1>4 DEF Claim, MayPick, Unlocked
  <2> QED
    BY <1>1, <1>2, <1>4, <2>1 DEF StoreDocuments
<1>5. ASSUME NEW j \in JobIds, Split(j)
      PROVE  documents'[s] = documents[s]
  <2>1. sourceLock[job[j].source] = None
    BY <1>5 DEF Split, Claim, MayPick, Unlocked
  <2> QED
    BY <1>1, <1>2, <1>5, <2>1 DEF Split
<1>6. ASSUME NEW p \in Procs, DeleteCommit(p)
      PROVE  documents'[s] = documents[s]
  <2>1. proc[p].pc = "delCommit" /\ sourceLock[proc[p].source] = p
    BY <1>6 DEF DeleteCommit, IInv, LockInv, Holds
  <2>2. p # v
    BY <2>1
  <2> QED
    BY <1>2, <1>6, <2>1, <2>2 DEF DeleteCommit
<1> QED
  BY <1>3, <1>4, <1>5, <1>6, RowWriters

LEMMA ElsewhereSpares ==
  ASSUME ChunkingInv, Elsewhere, NEW v \in Workers, session[v].pc # "closed"
  PROVE  Spared(v)
<1>1. TypeInv /\ AttemptInv /\ LockInv /\ v \in Procs
  BY DEF ChunkingInv, IInv, Procs
<1>2. Undisturbed(v)
  <2>1. CASE Request
    BY <1>1, <2>1, RequestFine
  <2>2. CASE PollDocuments
    BY <1>1, <2>2, CanonicalFine DEF PollCanonical
  <2>3. ASSUME NEW p \in Procs, p \in Workers => session[p].pc = "closed",
               PollIndex(p) \/ Continue(p) \/ Administer(p) \/ ProjectionError(p) \/ RollBack(p)
        PROVE  Undisturbed(v)
    BY <1>1, <2>3, ProcessFine DEF Fine
  <2>4. CASE LandLate \/ Quiet
    <3>1. UNCHANGED <<canonical, control>>
      BY <2>4 DEF LandLate, UpsertLands, DeleteLands, Quiet, vars
    <3> QED
      BY <1>1, <3>1, CanonicalStays, StaysUndisturbed DEF control
  <2> QED
    BY <2>1, <2>2, <2>3, <2>4 DEF Elsewhere
<1>3. proc'[v] = proc[v] /\ proc[v].pc = "idle"
  BY <1>2, WorkingFacts DEF Undisturbed, Working
<1> QED
  BY <1>2, <1>3, ElsewhereIsNext, LockedDocuments DEF Spared, ChunkingInv

LEMMA ElsewhereKeeps ==
  ASSUME ChunkingInv, Elsewhere, UNCHANGED session
  PROVE  ChunkingInv'
<1>1. IInv'
  BY ElsewhereIsNext, IInvStep DEF ChunkingInv
<1>2. \A v \in Workers : session[v].pc # "closed" => Working(v)'
  BY ElsewhereSpares, WorkingKept
<1> QED
  BY <1>1, <1>2 DEF ChunkingInv

LEMMA NothingSpares ==
  ASSUME TypeInv, UNCHANGED vars, NEW v \in Workers
  PROVE  Spared(v)
BY StaysUndisturbed, CanonicalStays DEF Spared, vars, canonical, control, Procs

(* Reading and planning a document: only the session itself changes.       *)
LEMMA PlanKeeps ==
  ASSUME ChunkingInv, NEW w \in Workers, NEW u \in Uris, Skip(w, u) \/ Plan(w, u)
  PROVE  ChunkingInv'
<1> DEFINE s == SourceOf(w)
<1>1. session[w] \in Sessions /\ session[w].pc = "plan" /\ u \in session[w].left /\ UNCHANGED vars
  BY DEF ChunkingInv, Skip, Plan
<1>2. s \in Sources /\ Working(w) /\ TypeInv
  BY <1>1, WorkingFacts DEF ChunkingInv, IInv
<1>3. u \in DocumentUris(s)
  BY <1>1, <1>2 DEF Working, SourceOf
<1>4. SplitOf(s, u) \subseteq ChunkIds /\ DocumentChunks(s, u) \subseteq ChunkIds
  BY <1>2, <1>3, SplitType DEF TypeInv, TypeOK, DocumentChunks
<1>5. documents[s][u] \in [row : JobIds, content : Contents, snapshot : Contents \cup {None}]
  <2>1. documents[s][u] \in DocumentRows /\ documents[s][u].row # 0 /\ documents[s][u].content \in Contents
    BY <1>2, <1>3 DEF DocumentUris, TypeInv, TypeOK
  <2> QED
    BY <2>1, MaxJobsType DEF DocumentRows, JobIds
<1>6. [uri |-> u, read |-> documents[s][u]] \in PlannedDocuments
  BY <1>5 DEF PlannedDocuments
<1>7. PICK r \in Sessions :
        /\ session' = [session EXCEPT ![w] = r]
        /\ r.pc = "plan" /\ r.job = session[w].job /\ r.left \subseteq session[w].left
        /\ r.removed = session[w].removed /\ r.added = session[w].added
        /\ r.written = session[w].written
  <2>1. CASE Skip(w, u)
    <3> DEFINE r == [session[w] EXCEPT !.left = @ \ {u}, !.counted = @ \cup DocumentChunks(s, u)]
    <3>1. session' = [session EXCEPT ![w] = r]
      BY <2>1, Zenon DEF Skip
    <3>2. r \in Sessions
      BY <1>1, <1>4 DEF Sessions
    <3> QED
      BY <1>1, <3>1, <3>2 DEF Sessions
  <2>2. CASE Plan(w, u)
    <3> DEFINE d == [uri |-> u, read |-> documents[s][u]]
               r == [session[w] EXCEPT !.left = @ \ {u}, !.planned = @ \cup {d},
                                       !.counted = @ \cup SplitOf(s, u)]
    <3>1. session' = [session EXCEPT ![w] = r]
      BY <2>2, Zenon DEF Plan
    <3>2. r \in Sessions
      BY <1>1, <1>4, <1>6 DEF Sessions
    <3> QED
      BY <1>1, <3>1, <3>2 DEF Sessions
  <2> QED
    BY <2>1, <2>2
<1>8. /\ session' \in [Workers -> Sessions] /\ session'[w] = r
      /\ \A v \in Workers \ {w} : session'[v] = session[v]
  BY <1>7 DEF ChunkingInv
<1>9. Working(w)'
  BY <1>1, <1>2, <1>7, <1>8 DEF Working, DocumentUris, vars, canonical, control
<1>10. IInv'
  BY <1>1, IInvStep DEF ChunkingInv
<1> QED
  BY <1>1, <1>2, <1>8, <1>9, <1>10, NothingSpares, SessionChange

LEMMA OpenKeeps ==
  ASSUME ChunkingInv, NEW w \in Workers, NEW j \in JobIds, Open(w, j)
  PROVE  ChunkingInv'
<1> DEFINE s == job[j].source
           r == [Closed EXCEPT !.pc = "plan", !.job = j, !.left = DocumentUris(s)]
<1>1. /\ proc[w].pc = "idle" /\ j \in ToSplit /\ sourceLock[s] = None
      /\ sourceLock' = [sourceLock EXCEPT ![s] = w]
      /\ UNCHANGED <<canonical, remote, ownerLock, proc, bounds, disturbed>>
  BY DEF Open, MayPick, Unlocked
<1>2. /\ TypeInv /\ AttemptInv /\ LockInv /\ w \in Procs /\ s \in Sources
      /\ job[j].status = "chunking"
  BY <1>1 DEF ChunkingInv, IInv, Procs, ToSplit, TypeInv, Owned
<1>3. sourceLock'[s] = w /\ \A t \in Sources \ {s} : sourceLock'[t] = sourceLock[t]
  BY <1>1, <1>2 DEF TypeInv, TypeOK
<1>4. ASSUME NEW v \in Procs \ {w}
      PROVE  Undisturbed(v)
  <2>1. v # None
    BY ProjectionAssumption DEF Procs
  <2>2. \A t \in Sources : sourceLock[t] = v => sourceLock'[t] = v
    BY <1>1, <1>3, <2>1
  <2> QED
    BY <1>1, <1>2, <2>2, CanonicalStays, StaysUndisturbed DEF canonical
<1>5. IInv'
  <2>1. TypeInv'
    <3>1. sourceLock' \in [Sources -> Procs \cup {None}]
      BY <1>1, <1>2 DEF TypeInv, TypeOK
    <3> QED
      BY <1>1, <1>2, <3>1, TypeInvFromProc DEF TypeInv, TypeOK, canonical, remote
  <2>2. Fine(w)
    <3>1. Holds(w)'
      BY <1>1 DEF Holds
    <3> QED
      BY <1>1, <1>4, <3>1, CanonicalStays DEF Fine, AttemptStep
  <2> QED
    BY <1>2, <2>1, <2>2, FineKeeps DEF IInv
<1>6. r \in Sessions /\ r.pc = "plan" /\ r.job = j /\ r.left = DocumentUris(s)
      /\ r.removed = {} /\ r.added = {} /\ r.written = {}
  <2>1. /\ Closed \in Sessions
        /\ Closed.removed = {} /\ Closed.added = {} /\ Closed.written = {}
    BY ClosedType DEF Closed
  <2>2. DocumentUris(s) \in SUBSET Uris /\ j \in 0..MaxJobs
    BY MaxJobsType DEF DocumentUris, JobIds
  <2> QED
    BY <2>1, <2>2 DEF Sessions
<1>7. session' = [session EXCEPT ![w] = r]
  BY DEF Open
<1> HIDE DEF r
<1>8. /\ session' \in [Workers -> Sessions] /\ session'[w] = r
      /\ \A v \in Workers \ {w} : session'[v] = session[v]
  BY <1>6, <1>7 DEF ChunkingInv
<1>9. Working(w)'
  BY <1>1, <1>2, <1>3, <1>6, <1>8 DEF Working, DocumentUris, canonical
<1>10. \A v \in Workers \ {w} : Spared(v)
  BY <1>1, <1>4 DEF Spared, Procs, canonical
<1> QED
  BY <1>5, <1>8, <1>9, <1>10, SessionChange

LEMMA StartKeeps ==
  ASSUME ChunkingInv, NEW w \in Workers, StartWriting(w)
  PROVE  ChunkingInv'
<1> DEFINE r == [session[w] EXCEPT !.pc = "write"]
<1>1. session[w] \in Sessions /\ session[w].pc = "plan" /\ UNCHANGED vars
  BY DEF ChunkingInv, StartWriting
<1>2. Working(w) /\ TypeInv
  BY <1>1, WorkingFacts DEF ChunkingInv, IInv
<1>3. r \in Sessions /\ r.pc = "write" /\ r.job = session[w].job /\ r.left = session[w].left
  BY <1>1 DEF Sessions
<1>4. session' = [session EXCEPT ![w] = r]
  BY DEF StartWriting
<1> HIDE DEF r
<1>5. /\ session' \in [Workers -> Sessions] /\ session'[w] = r
      /\ \A v \in Workers \ {w} : session'[v] = session[v]
  BY <1>3, <1>4 DEF ChunkingInv
<1>6. Working(w)'
  BY <1>1, <1>2, <1>3, <1>5 DEF Working, DocumentUris, vars, canonical, control
<1>7. IInv'
  BY <1>1, IInvStep DEF ChunkingInv
<1> QED
  BY <1>1, <1>2, <1>5, <1>6, <1>7, NothingSpares, SessionChange

LEMMA WriteKeeps ==
  ASSUME ChunkingInv, NEW w \in Workers, Write(w)
  PROVE  ChunkingInv'
<1> DEFINE s == SourceOf(w)
<1>1. session[w] \in Sessions /\ session[w].pc = "write" /\ UNCHANGED vars
  BY DEF ChunkingInv, Write
<1>2. Working(w) /\ TypeInv /\ s \in Sources
  BY <1>1, WorkingFacts DEF ChunkingInv, IInv
<1>3. PICK d \in session[w].planned :
        session' = [session EXCEPT
          ![w].planned = @ \ {d},
          ![w].removed = @ \cup DocumentChunks(s, d.uri),
          ![w].added = @ \cup {[source |-> s, uri |-> d.uri, row |-> d.read.row, piece |-> x] :
                                 x \in Pieces[d.read.content]},
          ![w].written = @ \cup {d}]
  BY DEF Write
<1>4. PICK fresh : fresh = {[source |-> s, uri |-> d.uri, row |-> d.read.row, piece |-> x] :
                               x \in Pieces[d.read.content]}
  OBVIOUS
<1> DEFINE r == [session[w] EXCEPT !.planned = @ \ {d}, !.removed = @ \cup DocumentChunks(s, d.uri),
                                   !.added = @ \cup fresh, !.written = @ \cup {d}]
<1>5. d \in PlannedDocuments
  BY <1>1, <1>3 DEF Sessions
<1>6. fresh \in SUBSET ChunkIds /\ DocumentChunks(s, d.uri) \in SUBSET ChunkIds
  <2>1. /\ d.uri \in Uris /\ d.read.row \in JobIds /\ d.read.content \in Contents
        /\ Pieces[d.read.content] \subseteq AllPieces
    BY <1>5 DEF PlannedDocuments, AllPieces
  <2> QED
    BY <1>2, <1>4, <2>1 DEF ChunkIds, DocumentChunks, TypeInv, TypeOK
<1>7. session' = [session EXCEPT ![w] = r]
  BY <1>3, <1>4, Zenon
<1>8. r \in Sessions
  BY <1>1, <1>5, <1>6 DEF Sessions
<1>9. r.pc = "write" /\ r.job = session[w].job /\ r.left = session[w].left
  BY <1>1 DEF Sessions
<1> HIDE DEF r
<1>10. /\ session' \in [Workers -> Sessions] /\ session'[w] = r
       /\ \A v \in Workers \ {w} : session'[v] = session[v]
  BY <1>7, <1>8 DEF ChunkingInv
<1>11. Working(w)'
  BY <1>1, <1>2, <1>9, <1>10 DEF Working, DocumentUris, vars, canonical, control
<1>12. IInv'
  BY <1>1, IInvStep DEF ChunkingInv
<1> QED
  BY <1>1, <1>2, <1>10, <1>11, <1>12, NothingSpares, SessionChange

(* What a session writes into the rows of its source.                      *)
LEMMA CommitTypes ==
  ASSUME ChunkingInv, NEW w \in Workers, session[w].pc # "closed", Commit(w)
  PROVE  /\ documents' \in [Sources -> [Uris -> DocumentRows]] /\ chunks' \subseteq ChunkIds
         /\ \A s \in Sources, u \in Uris :
              documents'[s][u].row # 0 => documents'[s][u].content \in Contents
         /\ \A t \in Sources : t # SourceOf(w) => documents'[t] = documents[t]
<1> DEFINE s == SourceOf(w)
           New == [u \in Uris |->
                     IF \E d \in session[w].written : d.uri = u
                     THEN [documents[s][u] EXCEPT !.snapshot =
                             (CHOOSE d \in session[w].written : d.uri = u).read.content]
                     ELSE documents[s][u]]
<1>1. s \in Sources /\ session[w] \in Sessions /\ TypeInv
  BY WorkingFacts DEF ChunkingInv, IInv
<1>2. documents' = [documents EXCEPT ![s] = New]
  BY DEF Commit
<1>3. ASSUME NEW u \in Uris
      PROVE  /\ New[u] \in DocumentRows /\ New[u].row = documents[s][u].row
             /\ New[u].content = documents[s][u].content
  <2>1. documents[s][u] \in DocumentRows
    BY <1>1 DEF TypeInv, TypeOK
  <2>2. CASE \E d \in session[w].written : d.uri = u
    <3> DEFINE d == CHOOSE d \in session[w].written : d.uri = u
    <3>1. d \in session[w].written
      BY <2>2
    <3>2. d.read.content \in Contents
      BY <1>1, <3>1 DEF Sessions, PlannedDocuments
    <3>3. New[u] = [documents[s][u] EXCEPT !.snapshot = d.read.content]
      BY <2>2
    <3> HIDE DEF d, New
    <3> QED
      BY <2>1, <3>2, <3>3 DEF DocumentRows
  <2>3. CASE ~ \E d \in session[w].written : d.uri = u
    BY <2>1, <2>3
  <2> QED
    BY <2>2, <2>3
<1>4. New \in [Uris -> DocumentRows]
  BY <1>3
<1> HIDE DEF New
<1>5. documents \in [Sources -> [Uris -> DocumentRows]]
  BY <1>1 DEF TypeInv, TypeOK
<1>6. documents' \in [Sources -> [Uris -> DocumentRows]]
  BY <1>2, <1>4, <1>5
<1>7. \A t \in Sources : t # s => documents'[t] = documents[t]
  BY <1>2, <1>5
<1>8. documents'[s] = New
  BY <1>1, <1>2, <1>5
<1>9. ASSUME NEW t \in Sources, NEW u \in Uris, documents'[t][u].row # 0
      PROVE  documents'[t][u].content \in Contents
  <2>1. documents'[t][u].row = documents[t][u].row /\ documents'[t][u].content = documents[t][u].content
    BY <1>3, <1>7, <1>8
  <2> QED
    BY <1>1, <1>9, <2>1 DEF TypeInv
<1>10. chunks' \subseteq ChunkIds
  BY <1>1 DEF Commit, Sessions, TypeInv, TypeOK
<1> QED
  BY <1>6, <1>7, <1>9, <1>10

(* A session ends: its attempt moves, or nothing but the locks changes.    *)
LEMMA EndKeeps ==
  ASSUME ChunkingInv, NEW w \in Workers, Fail(w) \/ Finish(w) \/ Lose(w)
  PROVE  ChunkingInv'
<1> DEFINE s == SourceOf(w)
           j == session[w].job
<1>1. /\ session[w].pc # "closed" /\ Unlock(w)
      /\ session' = [session EXCEPT ![w] = Closed]
      /\ UNCHANGED <<opened, remote, proc, bounds, disturbed>>
  BY DEF Fail, Finish, Lose, Commit, canonical
<1>2. /\ TypeInv /\ AttemptInv /\ LockInv /\ w \in Procs /\ s \in Sources /\ j \in JobIds
      /\ job[j].status = "chunking" /\ job[j].source = s /\ sourceLock[s] = w
      /\ proc[w].pc = "idle" /\ opened' = opened
  BY <1>1, WorkingFacts DEF ChunkingInv, IInv, Working, SourceOf
<1>3. /\ ownerLock' \in [Owners -> Procs \cup {None}]
      /\ sourceLock' \in [Sources -> Procs \cup {None}]
      /\ \A v \in Procs \ {w} : /\ \A t \in Sources : sourceLock[t] = v => sourceLock'[t] = v
                               /\ \A o \in Owners : ownerLock[o] = v => ownerLock'[o] = v
  BY <1>1, <1>2 DEF Unlock, TypeInv, TypeOK
<1>4. "chunking" \in Active /\ "failed" \in Downstream("chunking") /\ "indexing" \in Downstream("chunking")
      /\ "failed" \in Stages /\ "indexing" \in Stages
  BY DEF Active, Stages, Terminal, Downstream
<1>5. ASSUME NEW to \in {"failed", "indexing"}, Moves(j, to), Commit(w),
             source' \in [Sources -> SourceRows], job' \in [JobIds -> JobRows], Owned', KeepsSources
      PROVE  IInv' /\ \A v \in Workers \ {w} : Spared(v)
  <2>1. TypeInv'
    BY <1>1, <1>2, <1>3, <1>5, CommitTypes
       DEF TypeInv, Named, TypeOK, KeepsSources, remote, bounds
  <2>2. ASSUME NEW v \in Procs \ {w}
        PROVE  Undisturbed(v)
    <3>1. proc'[v] = proc[v] /\ sourceLock[job[j].source] # v /\ to \in Stages
      BY <1>1, <1>2, <1>4, <1>5
    <3> QED
      BY <1>2, <1>3, <1>5, <3>1, MovesUndisturbed
  <2>3. Holds(w)'
    BY <1>1, <1>2 DEF Holds
  <2>4. AttemptInv' /\ LockInv'
    <3>1. Fine(w)
      <4>1. to \in Stages
        BY <1>4
      <4>2. AttemptStep
        BY <1>2, <1>5, <4>1 DEF AttemptStep
      <4> QED
        BY <2>2, <2>3, <4>2 DEF Fine
    <3> QED
      BY <1>2, <3>1, FineKeeps
  <2>5. \A t \in Sources : t # s => documents'[t] = documents[t]
    BY <1>1, <1>5, CommitTypes
  <2> QED
    BY <1>2, <2>1, <2>2, <2>4, <2>5 DEF IInv, Spared, Procs
<1>6. IInv' /\ \A v \in Workers \ {w} : Spared(v)
  <2>1. CASE Fail(w)
    <3>1. Transition(s, j, "failed") /\ Commit(w)
      BY <2>1 DEF Fail
    <3>2. Moves(j, "failed")
      BY <1>2, <1>4, <3>1, TransitionMoves
    <3> QED
      BY <1>2, <1>4, <1>5, <3>1, <3>2, TransitionTypes
  <2>2. CASE Finish(w)
    <3>1. /\ job' = [job EXCEPT ![j].status = "indexing"] /\ Commit(w)
          /\ source' = [source EXCEPT ![s].status = "indexing", ![s].current = TRUE]
      BY <2>2 DEF Finish
    <3>2. source' \in [Sources -> SourceRows]
      BY <1>2, <1>4, <3>1, SourceRowType DEF TypeInv, TypeOK
    <3>3. \A r \in Sources :
            /\ source'[r].life = source[r].life
            /\ source'[r].status = IF r = s THEN "indexing" ELSE source[r].status
      BY <1>2, <3>1 DEF TypeInv, TypeOK, SourceRows
    <3>4. Moves(j, "indexing")
      BY <1>2, <1>4, <3>1, <3>3 DEF Moves
    <3> QED
      BY <1>2, <1>4, <1>5, <3>1, <3>2, <3>4, JobStatusTypes
  <2>3. CASE Lose(w)
    <3>1. UNCHANGED canonical
      BY <2>3 DEF Lose
    <3>2. TypeInv'
      BY <1>1, <1>2, <1>3, <3>1, TypeInvFromProc DEF TypeInv, TypeOK, remote
    <3>3. ASSUME NEW v \in Procs \ {w}
          PROVE  Undisturbed(v)
      BY <1>1, <1>2, <1>3, <3>1, CanonicalStays, StaysUndisturbed
    <3>4. Fine(w)
      <4>1. Holds(w)'
        BY <1>1, <1>2 DEF Holds
      <4> QED
        BY <3>1, <3>3, <4>1, CanonicalStays DEF Fine, AttemptStep
    <3> QED
      BY <1>2, <3>1, <3>2, <3>3, <3>4, FineKeeps DEF IInv, Spared, Procs, canonical
  <2> QED
    BY <2>1, <2>2, <2>3
<1>7. /\ session' \in [Workers -> Sessions] /\ session'[w] = Closed
      /\ \A v \in Workers \ {w} : session'[v] = session[v]
  BY <1>1, ClosedType DEF ChunkingInv
<1> QED
  BY <1>6, <1>7, ClosedType, SessionChange

LEMMA ChunkingStep == ChunkingInv /\ [ChunkingNext]_chunkingVars => ChunkingInv'
<1> SUFFICES ASSUME ChunkingInv, [ChunkingNext]_chunkingVars
             PROVE  ChunkingInv'
  OBVIOUS
<1>1. ASSUME NEW w \in Workers, Chunking(w)
      PROVE  ChunkingInv'
  BY <1>1, OpenKeeps, PlanKeeps, StartKeeps, WriteKeeps, EndKeeps DEF Chunking
<1>2. CASE Elsewhere /\ UNCHANGED session
  BY <1>2, ElsewhereKeeps
<1>3. CASE UNCHANGED chunkingVars
  <2>1. IInv' /\ UNCHANGED session /\ \A v \in Workers : Spared(v)
    BY <1>3, IInvStep, NothingSpares DEF chunkingVars, ChunkingInv, IInv
  <2> QED
    BY <2>1, WorkingKept DEF ChunkingInv
<1> QED
  BY <1>1, <1>2, <1>3 DEF ChunkingNext

(* A session that fails commits what it wrote, and it has written nothing. *)
LEMMA FailWritesNothing ==
  ASSUME ChunkingInv, NEW w \in Workers, Fail(w)
  PROVE  UNCHANGED <<documents, chunks>>
<1> DEFINE s == SourceOf(w)
<1>1. /\ session[w].pc = "plan" /\ Commit(w)
  BY DEF Fail
<1>2. s \in Sources /\ session[w].removed = {} /\ session[w].added = {} /\ session[w].written = {}
  BY <1>1, WorkingFacts DEF Working
<1>3. chunks' = chunks
  BY <1>1, <1>2 DEF Commit
<1>4. documents \in [Sources -> [Uris -> DocumentRows]]
  BY DEF ChunkingInv, IInv, TypeInv, TypeOK
<1>5. documents' = [documents EXCEPT ![s] = [u \in Uris |-> documents[s][u]]]
  BY <1>1, <1>2 DEF Commit
<1>6. [u \in Uris |-> documents[s][u]] = documents[s]
  BY <1>2, <1>4
<1> QED
  BY <1>3, <1>4, <1>5, <1>6

LEMMA FailureStep ==
  ASSUME ChunkingInv, [ChunkingNext]_chunkingVars,
         NEW j \in JobIds, job[j].status # "failed", job'[j].status = "failed"
  PROVE  UNCHANGED <<documents, chunks>>
<1>1. job \in [JobIds -> JobRows] /\ TypeInv
  BY DEF ChunkingInv, IInv, TypeInv, TypeOK
<1>2. CASE [Next]_vars
  BY <1>1, <1>2, FailureWritesNothing
<1>3. ASSUME NEW w \in Workers, Chunking(w)
      PROVE  UNCHANGED <<documents, chunks>>
  <2>1. CASE Fail(w)
    BY <2>1, FailWritesNothing
  <2>2. CASE Finish(w)
    <3>1. job' = [job EXCEPT ![session[w].job].status = "indexing"]
      BY <2>2 DEF Finish
    <3> QED
      BY <1>1, <3>1 DEF JobRows
  <2>3. CASE \/ \E k \in JobIds : Open(w, k)
             \/ \E u \in Uris : Skip(w, u) \/ Plan(w, u)
             \/ StartWriting(w) \/ Write(w) \/ Lose(w)
    BY <2>3 DEF Open, Skip, Plan, StartWriting, Write, Lose, vars, canonical
  <2> QED
    BY <1>3, <2>1, <2>2, <2>3 DEF Chunking
<1> QED
  BY <1>2, <1>3, ElsewhereIsNext DEF ChunkingNext, chunkingVars

(***************************************************************************)
(* An attempt that fails leaves the canonical documents and chunks of      *)
(* every source as they were, at whichever of its documents it fails and   *)
(* whatever the database has been told by then, for every set of sources,  *)
(* documents, revisions and workers.                                       *)
(***************************************************************************)
THEOREM FailurePreservesCanonicalAlways == ChunkingSpec => FailurePreservesCanonical
<1>1. ChunkingInv /\ [ChunkingNext]_chunkingVars =>
        [(\E j \in JobIds : job[j].status # "failed" /\ job'[j].status = "failed")
           => UNCHANGED <<documents, chunks>>]_chunkingVars
  BY FailureStep
<1> QED
  BY <1>1, ChunkingInvInit, ChunkingStep, PTL DEF ChunkingSpec, FailurePreservesCanonical

-----------------------------------------------------------------------------
(* Chunking as one step                                                    *)

WrittenUris(r) == {d.uri : d \in r.written}

(* What a session r plans and writes of s is what splitting the documents  *)
(* gives that are outdated now, and nothing else is planned, written or    *)
(* removed.                                                                *)
Staged(r, s) ==
  /\ \A d \in r.planned \cup r.written : d.uri \in Outdated(s) /\ d.read = documents[s][d.uri]
  /\ \A u \in Outdated(s) \ r.left : \E d \in r.planned \cup r.written : d.uri = u
  /\ r.counted = {c \in ChunksOf(s) : c.uri \in DocumentUris(s) \ (Outdated(s) \cup r.left)}
                   \cup UNION {SplitOf(s, u) : u \in Outdated(s) \ r.left}
  /\ r.removed = {c \in ChunksOf(s) : c.uri \in WrittenUris(r)}
  /\ r.added = UNION {SplitOf(s, u) : u \in WrittenUris(r)}
  /\ r.pc = "write" => r.left = {} /\ Cardinality(r.counted) \in 1..MaxChunks

StagedInv ==
  /\ ChunkingInv /\ CanonicalInv
  /\ \A w \in Workers : session[w].pc # "closed" => Staged(session[w], SourceOf(w))

(* The rows of a source stay, and so does what chunking would make of them. *)
SourceStays(s) == documents'[s] = documents[s] /\ ChunksOf(s)' = ChunksOf(s)

LEMMA PlanStays ==
  ASSUME NEW s \in Sources, SourceStays(s)
  PROVE  /\ DocumentUris(s)' = DocumentUris(s) /\ Outdated(s)' = Outdated(s)
         /\ \A u \in Uris : SplitOf(s, u)' = SplitOf(s, u)
<1>1. DocumentUris(s)' = DocumentUris(s)
  BY DEF DocumentUris, SourceStays
<1>2. \A u \in Uris : SplitOf(s, u)' = SplitOf(s, u)
  BY DEF SplitOf, SourceStays
<1>3. \A u \in Uris : DocumentChunks(s, u)' = DocumentChunks(s, u)
  BY DEF DocumentChunks, ChunksOf, SourceStays
<1>4. \A u \in Uris : SnapshotHolds(s, u)' = SnapshotHolds(s, u)
  <2> TAKE u \in Uris
  <2>1. documents'[s][u] = documents[s][u]
    BY DEF SourceStays
  <2>2. SplitOf(s, u)' = SplitOf(s, u) /\ DocumentChunks(s, u)' = DocumentChunks(s, u)
    BY <1>2, <1>3
  <2> QED
    BY <2>1, <2>2 DEF SnapshotHolds
<1>5. DocumentUris(s) \subseteq Uris
  BY DEF DocumentUris
<1> QED
  BY <1>1, <1>2, <1>4, <1>5 DEF Outdated

LEMMA StagedUris ==
  ASSUME NEW r \in Sessions, NEW s \in Sources
  PROVE  Outdated(s) \subseteq Uris /\ WrittenUris(r) \subseteq Uris
BY DEF Outdated, DocumentUris, WrittenUris, Sessions, PlannedDocuments

LEMMA StagedKept ==
  ASSUME NEW r \in Sessions, NEW s \in Sources, Staged(r, s), SourceStays(s)
  PROVE  Staged(r, s)'
<1>1. /\ DocumentUris(s)' = DocumentUris(s) /\ Outdated(s)' = Outdated(s)
      /\ \A u \in Uris : SplitOf(s, u)' = SplitOf(s, u)
      /\ ChunksOf(s)' = ChunksOf(s) /\ documents'[s] = documents[s]
  BY PlanStays DEF SourceStays
<1>2. Outdated(s) \subseteq Uris /\ WrittenUris(r) \subseteq Uris /\ WrittenUris(r)' = WrittenUris(r)
  BY StagedUris DEF WrittenUris
<1>3. UNION {SplitOf(s, u)' : u \in Outdated(s) \ r.left}
        = UNION {SplitOf(s, u) : u \in Outdated(s) \ r.left}
  BY <1>1, <1>2
<1>4. UNION {SplitOf(s, u)' : u \in WrittenUris(r)} = UNION {SplitOf(s, u) : u \in WrittenUris(r)}
  BY <1>1, <1>2
<1>5. r.counted = {c \in ChunksOf(s) : c.uri \in DocumentUris(s) \ (Outdated(s) \cup r.left)}
                    \cup UNION {SplitOf(s, u)' : u \in Outdated(s) \ r.left}
  BY <1>3 DEF Staged
<1>6. r.added = UNION {SplitOf(s, u)' : u \in WrittenUris(r)}
  BY <1>4 DEF Staged
<1> QED
  BY <1>1, <1>2, <1>5, <1>6 DEF Staged

(* Planning and writing, as a session does it.                             *)
LEMMA SkipStages ==
  ASSUME TypeInv, NEW r \in Sessions, NEW s \in Sources, Staged(r, s), r.pc = "plan",
         r.left \subseteq DocumentUris(s), NEW u \in r.left, SnapshotHolds(s, u),
         NEW q \in Sessions,
         q = [r EXCEPT !.left = @ \ {u}, !.counted = @ \cup DocumentChunks(s, u)]
  PROVE  Staged(q, s)
<1>1. /\ q.pc = "plan" /\ q.left = r.left \ {u} /\ q.counted = r.counted \cup DocumentChunks(s, u)
      /\ q.planned = r.planned /\ q.written = r.written /\ q.removed = r.removed /\ q.added = r.added
  BY DEF Sessions
<1>2. u \in DocumentUris(s) /\ u \notin Outdated(s)
  BY DEF Outdated
<1>3. DocumentChunks(s, u) = {c \in ChunksOf(s) : c.uri = u}
  BY DEF DocumentChunks, ChunksOf
<1>4. Outdated(s) \ q.left = Outdated(s) \ r.left
  BY <1>1, <1>2
<1>5. q.counted = {c \in ChunksOf(s) : c.uri \in DocumentUris(s) \ (Outdated(s) \cup q.left)}
                    \cup UNION {SplitOf(s, v) : v \in Outdated(s) \ q.left}
  BY <1>1, <1>2, <1>3, <1>4 DEF Staged
<1>6. WrittenUris(q) = WrittenUris(r)
  BY <1>1 DEF WrittenUris
<1> QED
  BY <1>1, <1>4, <1>5, <1>6 DEF Staged

LEMMA SplitsOfOneMore ==
  ASSUME NEW s \in Sources, NEW U, NEW u
  PROVE  UNION {SplitOf(s, v) : v \in U \cup {u}}
           = (UNION {SplitOf(s, v) : v \in U}) \cup SplitOf(s, u)
OBVIOUS

LEMMA PlanStages ==
  ASSUME TypeInv, NEW r \in Sessions, NEW s \in Sources, Staged(r, s), r.pc = "plan",
         r.left \subseteq DocumentUris(s), NEW u \in r.left, ~SnapshotHolds(s, u),
         NEW q \in Sessions,
         q = [r EXCEPT !.left = @ \ {u},
                       !.planned = @ \cup {[uri |-> u, read |-> documents[s][u]]},
                       !.counted = @ \cup SplitOf(s, u)]
  PROVE  Staged(q, s)
<1> DEFINE d == [uri |-> u, read |-> documents[s][u]]
<1>1. /\ q.pc = "plan" /\ q.left = r.left \ {u} /\ q.counted = r.counted \cup SplitOf(s, u)
      /\ q.planned = r.planned \cup {d} /\ q.written = r.written
      /\ q.removed = r.removed /\ q.added = r.added
  BY DEF Sessions
<1>2. u \in Outdated(s) /\ d.uri = u /\ d.read = documents[s][d.uri]
  BY DEF Outdated
<1> HIDE DEF d
<1>3. Outdated(s) \ q.left = (Outdated(s) \ r.left) \cup {u}
  BY <1>1, <1>2
<1>4. UNION {SplitOf(s, v) : v \in Outdated(s) \ q.left}
        = (UNION {SplitOf(s, v) : v \in Outdated(s) \ r.left}) \cup SplitOf(s, u)
  BY <1>3, SplitsOfOneMore
<1>5. Outdated(s) \cup q.left = Outdated(s) \cup r.left
  BY <1>1, <1>2
<1>6. q.counted = {c \in ChunksOf(s) : c.uri \in DocumentUris(s) \ (Outdated(s) \cup q.left)}
                    \cup UNION {SplitOf(s, v) : v \in Outdated(s) \ q.left}
  BY <1>1, <1>4, <1>5 DEF Staged
<1>7. WrittenUris(q) = WrittenUris(r)
  BY <1>1 DEF WrittenUris
<1>8. /\ \A e \in q.planned \cup q.written : e.uri \in Outdated(s) /\ e.read = documents[s][e.uri]
      /\ \A v \in Outdated(s) \ q.left : \E e \in q.planned \cup q.written : e.uri = v
  BY <1>1, <1>2, <1>3 DEF Staged
<1> QED
  BY <1>1, <1>6, <1>7, <1>8 DEF Staged

LEMMA WriteStages ==
  ASSUME TypeInv, NEW r \in Sessions, NEW s \in Sources, Staged(r, s), r.pc = "write",
         NEW d \in r.planned, NEW q \in Sessions,
         q = [r EXCEPT !.planned = @ \ {d},
                       !.removed = @ \cup DocumentChunks(s, d.uri),
                       !.added = @ \cup {[source |-> s, uri |-> d.uri, row |-> d.read.row,
                                          piece |-> x] : x \in Pieces[d.read.content]},
                       !.written = @ \cup {d}]
  PROVE  Staged(q, s)
<1>1. d.read = documents[s][d.uri] /\ d.uri \in Outdated(s)
  BY DEF Staged
<1>2. {[source |-> s, uri |-> d.uri, row |-> d.read.row, piece |-> x] : x \in Pieces[d.read.content]}
        = SplitOf(s, d.uri)
  BY <1>1 DEF SplitOf
<1>3. /\ q.pc = "write" /\ q.left = r.left /\ q.counted = r.counted
      /\ q.planned = r.planned \ {d} /\ q.written = r.written \cup {d}
      /\ q.removed = r.removed \cup DocumentChunks(s, d.uri)
      /\ q.added = r.added \cup SplitOf(s, d.uri)
  <2>1. q = [r EXCEPT !.planned = @ \ {d}, !.removed = @ \cup DocumentChunks(s, d.uri),
                      !.added = @ \cup SplitOf(s, d.uri), !.written = @ \cup {d}]
    BY <1>2
  <2> QED
    BY <2>1 DEF Sessions
<1>4. WrittenUris(q) = WrittenUris(r) \cup {d.uri}
  BY <1>3 DEF WrittenUris
<1>5. DocumentChunks(s, d.uri) = {c \in ChunksOf(s) : c.uri = d.uri}
  BY DEF DocumentChunks, ChunksOf
<1>6. q.removed = {c \in ChunksOf(s) : c.uri \in WrittenUris(q)}
  BY <1>3, <1>4, <1>5 DEF Staged
<1>7. q.added = UNION {SplitOf(s, u) : u \in WrittenUris(q)}
  <2>1. r.added = UNION {SplitOf(s, u) : u \in WrittenUris(r)}
    BY DEF Staged
  <2>2. UNION {SplitOf(s, u) : u \in WrittenUris(r) \cup {d.uri}}
          = (UNION {SplitOf(s, u) : u \in WrittenUris(r)}) \cup SplitOf(s, d.uri)
    BY SplitsOfOneMore
  <2> QED
    BY <1>3, <1>4, <2>1, <2>2
<1>8. q.planned \cup q.written = r.planned \cup r.written
  BY <1>3
<1> QED
  BY <1>3, <1>6, <1>7, <1>8 DEF Staged

(* The end of a session that has written everything is a split.            *)
LEMMA FinishRewrites ==
  ASSUME StagedInv, NEW w \in Workers, Finish(w)
  PROVE  /\ Rewritten(SourceOf(w)) /\ DocumentUris(SourceOf(w)) # {}
         /\ Cardinality({c \in Replanned(SourceOf(w)) : c.source = SourceOf(w)}) <= MaxChunks
<1> DEFINE r == session[w]
           s == SourceOf(w)
           old == Outdated(s)
<1>1. /\ r.pc = "write" /\ r.planned = {} /\ Commit(w)
      /\ source' = [source EXCEPT ![s].status = "indexing", ![s].current = TRUE]
  BY DEF Finish
<1>2. s \in Sources /\ r \in Sessions /\ Staged(r, s) /\ TypeInv /\ CanonicalInv
  BY <1>1, WorkingFacts DEF StagedInv, ChunkingInv, IInv
<1>3. r.left = {} /\ Cardinality(r.counted) \in 1..MaxChunks
  BY <1>1, <1>2 DEF Staged
<1>4. /\ \A d \in r.written : d.uri \in old /\ d.read = documents[s][d.uri]
      /\ \A u \in old : \E d \in r.written : d.uri = u
  BY <1>1, <1>2, <1>3 DEF Staged
<1>5. WrittenUris(r) = old
  BY <1>4 DEF WrittenUris
<1>6. chunks' = Replanned(s)
  <2>1. chunks' = (chunks \ r.removed) \cup r.added
    BY <1>1 DEF Commit
  <2>2. r.removed = {c \in ChunksOf(s) : c.uri \in old} /\ r.added = UNION {SplitOf(s, u) : u \in old}
    BY <1>2, <1>5 DEF Staged
  <2>3. chunks \ r.removed = {c \in chunks : ~(c.source = s /\ c.uri \in old)}
    BY <2>2 DEF ChunksOf
  <2> QED
    BY <2>1, <2>2, <2>3 DEF Replanned
<1>7. documents' = [documents EXCEPT ![s] =
                     [u \in Uris |-> IF u \in old
                                     THEN [documents[s][u] EXCEPT !.snapshot = documents[s][u].content]
                                     ELSE documents[s][u]]]
  <2>1. ASSUME NEW u \in Uris
        PROVE  (IF \E d \in r.written : d.uri = u
                THEN [documents[s][u] EXCEPT !.snapshot =
                        (CHOOSE d \in r.written : d.uri = u).read.content]
                ELSE documents[s][u])
               = IF u \in old
                 THEN [documents[s][u] EXCEPT !.snapshot = documents[s][u].content]
                 ELSE documents[s][u]
    <3>1. CASE u \in old
      <4>1. \E d \in r.written : d.uri = u
        BY <1>4, <3>1
      <4>2. PICK d : d = CHOOSE e \in r.written : e.uri = u
        OBVIOUS
      <4>3. d \in r.written /\ d.uri = u
        BY <4>1, <4>2
      <4>4. d.read.content = documents[s][u].content
        BY <1>4, <4>3
      <4> QED
        BY <3>1, <4>1, <4>2, <4>4
    <3>2. CASE u \notin old
      <4>1. ~ \E d \in r.written : d.uri = u
        BY <1>4, <3>2
      <4> QED
        BY <3>2, <4>1
    <3> QED
      BY <3>1, <3>2
  <2>2. documents' = [documents EXCEPT ![s] =
                       [u \in Uris |-> IF \E d \in r.written : d.uri = u
                                       THEN [documents[s][u] EXCEPT !.snapshot =
                                               (CHOOSE d \in r.written : d.uri = u).read.content]
                                       ELSE documents[s][u]]]
    BY <1>1 DEF Commit
  <2> QED
    BY <2>1, <2>2, Zenon
<1>8. Rewritten(s)
  BY <1>1, <1>6, <1>7 DEF Rewritten
<1>9. {c \in Replanned(s) : c.source = s} = r.counted
  <2>1. \A c \in ChunksOf(s) : c.uri \in DocumentUris(s)
    <3>1. \A c \in chunks : documents[c.source][c.uri].row # 0 /\ c.uri \in Uris
      BY <1>2, ChunkHasDocument
    <3> QED
      BY <3>1 DEF ChunksOf, DocumentUris
  <2>2. r.counted = {c \in ChunksOf(s) : c.uri \in DocumentUris(s) \ old}
                      \cup UNION {SplitOf(s, u) : u \in old}
    <3>1. old \cup r.left = old /\ old \ r.left = old
      BY <1>3
    <3> QED
      BY <1>2, <3>1 DEF Staged
  <2>3. \A u \in old : \A c \in SplitOf(s, u) : c.source = s
    BY DEF SplitOf
  <2>4. {c \in ChunksOf(s) : c.uri \in DocumentUris(s) \ old}
          = {c \in chunks : c.source = s /\ c.uri \notin old}
    BY <2>1 DEF ChunksOf
  <2>5. Replanned(s) = {c \in chunks : ~(c.source = s /\ c.uri \in old)}
                         \cup UNION {SplitOf(s, u) : u \in old}
    BY DEF Replanned
  <2> HIDE DEF old, r
  <2> QED
    BY <2>2, <2>3, <2>4, <2>5
<1>10. DocumentUris(s) # {}
  <2>1. r.counted # {}
    <3>1. Cardinality({}) = 0
      BY FS_EmptySet
    <3> QED
      BY <1>3, <3>1
  <2>2. old \subseteq DocumentUris(s)
    BY DEF Outdated
  <2> QED
    BY <1>2, <2>1, <2>2 DEF Staged
<1>11. Cardinality(r.counted) <= MaxChunks
  BY <1>3, ProjectionAssumption
<1> QED
  BY <1>8, <1>9, <1>10, <1>11

(* A session that is open stays staged as long as others leave its rows.   *)
Untouched(v) ==
  /\ job'[session[v].job] = job[session[v].job]
  /\ \E s \in Sources : s = SourceOf(v) /\ SourceStays(s)

LEMMA UntouchedStays ==
  ASSUME StagedInv, NEW v \in Workers, session[v].pc # "closed", session'[v] = session[v],
         Untouched(v)
  PROVE  Staged(session[v], SourceOf(v))'
<1>1. PICK r : r = session[v]
  OBVIOUS
<1>2. PICK s \in Sources : s = SourceOf(v) /\ SourceStays(s)
  BY DEF Untouched
<1>3. r \in Sessions /\ Staged(r, s)
  BY <1>1, <1>2, WorkingFacts DEF StagedInv
<1>4. Staged(r, s)'
  BY <1>2, <1>3, StagedKept
<1>5. session'[v] = r /\ SourceOf(v)' = s
  BY <1>1, <1>2 DEF SourceOf, Untouched
<1> QED
  BY <1>4, <1>5

LEMMA StagedChange ==
  ASSUME StagedInv, ChunkingInv', CanonicalInv', NEW w \in Workers,
         \A v \in Workers \ {w} : session'[v] = session[v],
         \A v \in Workers \ {w} : session[v].pc # "closed" => Untouched(v),
         session'[w].pc # "closed" => Staged(session[w], SourceOf(w))'
  PROVE  StagedInv'
<1>1. ASSUME NEW v \in Workers, session'[v].pc # "closed"
      PROVE  Staged(session[v], SourceOf(v))'
  <2>1. CASE v = w
    BY <1>1, <2>1
  <2>2. CASE v # w
    BY <1>1, <2>2, UntouchedStays
  <2> QED
    BY <2>1, <2>2
<1> QED
  BY <1>1 DEF StagedInv

(* Nobody else writes chunks of a source that a session has locked.        *)
LEMMA LockedChunks ==
  ASSUME IInv, CanonicalInv, [Next]_vars, NEW v \in Workers, proc'[v] = proc[v],
         proc[v].pc = "idle", NEW s \in Sources, sourceLock[s] = v
  PROVE  ChunksOf(s)' = ChunksOf(s)
<1>1. v \in Procs /\ v # None
  BY ProjectionAssumption DEF Procs
<1>2. CASE OnlyAttempts \/ \E p \in Procs : CommitReady(p)
  BY <1>2 DEF OnlyAttempts, CommitReady, ChunksOf
<1>3. ASSUME NEW j \in JobIds, Claim(j, ToParse), NEW page, NEW gone,
             StoreDocuments(job[j].source, j, page, gone)
      PROVE  ChunksOf(s)' = ChunksOf(s)
  <2>1. sourceLock[job[j].source] = None
    BY <1>3 DEF Claim, MayPick, Unlocked
  <2> QED
    BY <1>1, <1>3, <2>1 DEF StoreDocuments, ChunksOf
<1>4. ASSUME NEW j \in JobIds, Split(j)
      PROVE  ChunksOf(s)' = ChunksOf(s)
  <2>1. sourceLock[job[j].source] = None
    BY <1>4 DEF Split, Claim, MayPick, Unlocked
  <2>2. PICK t : t = job[j].source
    OBVIOUS
  <2>3. t # s /\ chunks' = Replanned(t)
    BY <1>1, <1>4, <2>1, <2>2 DEF Split
  <2>4. \A u \in Outdated(t) : \A c \in SplitOf(t, u) : c.source = t
    BY DEF SplitOf
  <2> QED
    BY <2>3, <2>4 DEF Replanned, ChunksOf
<1>5. ASSUME NEW p \in Procs, DeleteCommit(p)
      PROVE  ChunksOf(s)' = ChunksOf(s)
  <2>1. proc[p].pc = "delCommit" /\ sourceLock[proc[p].source] = p
    BY <1>5 DEF DeleteCommit, IInv, LockInv, Holds
  <2>2. proc[p].source # s
    BY <2>1
  <2> QED
    BY <1>5, <2>2 DEF DeleteCommit, ChunksOf
<1> QED
  BY <1>2, <1>3, <1>4, <1>5, RowWriters

LEMMA ElsewhereUntouched ==
  ASSUME StagedInv, Elsewhere, NEW v \in Workers, session[v].pc # "closed"
  PROVE  Untouched(v)
<1>1. /\ ChunkingInv /\ IInv /\ CanonicalInv /\ Working(v) /\ SourceOf(v) \in Sources
      /\ sourceLock[SourceOf(v)] = v /\ session[v].job \in JobIds
  BY WorkingFacts DEF StagedInv, ChunkingInv
<1>2. Spared(v)
  BY <1>1, ElsewhereSpares
<1>3. "chunking" \in Active
  BY DEF Active, Stages, Terminal
<1>4. /\ proc'[v] = proc[v] /\ proc[v].pc = "idle"
      /\ job'[session[v].job] = job[session[v].job]
      /\ documents'[SourceOf(v)] = documents[SourceOf(v)]
  BY <1>1, <1>2, <1>3 DEF Spared, Undisturbed, Working, SourceOf
<1>5. PICK s \in Sources : s = SourceOf(v)
  BY <1>1
<1>6. ChunksOf(s)' = ChunksOf(s)
  BY <1>1, <1>4, <1>5, ElsewhereIsNext, LockedChunks
<1> QED
  BY <1>4, <1>5, <1>6 DEF Untouched, SourceStays

(* Documents and chunks stay, and so what every session has staged.        *)
LEMMA OwnStep ==
  ASSUME StagedInv, ChunkingInv', CanonicalInv', NEW w \in Workers,
         NEW q \in Sessions, NEW s \in Sources, session' = [session EXCEPT ![w] = q],
         job[q.job].source = s, Staged(q, s), UNCHANGED <<job, documents, chunks>>
  PROVE  StagedInv'
<1>1. session'[w] = q /\ \A v \in Workers \ {w} : session'[v] = session[v]
  BY DEF StagedInv, ChunkingInv
<1>2. \A t \in Sources : SourceStays(t)
  BY DEF SourceStays, ChunksOf
<1>3. \A v \in Workers \ {w} : session[v].pc # "closed" => Untouched(v)
  BY <1>2, WorkingFacts DEF Untouched, StagedInv
<1>4. Staged(q, s)'
  BY <1>2, StagedKept
<1>5. SourceOf(w)' = s
  BY <1>1 DEF SourceOf
<1>6. Staged(session[w], SourceOf(w))'
  BY <1>1, <1>4, <1>5
<1> QED
  BY <1>1, <1>3, <1>6, StagedChange

LEMMA CanonicalUnmoved ==
  ASSUME StagedInv, UNCHANGED <<source, documents, chunks>>
  PROVE  CanonicalInv'
BY RowsStay, StaysPutKeeps DEF StagedInv, ChunkingInv, IInv

LEMMA OpenStages ==
  ASSUME StagedInv, ChunkingInv', NEW w \in Workers, NEW j \in JobIds, Open(w, j)
  PROVE  StagedInv'
<1> DEFINE s == job[j].source
           q == [Closed EXCEPT !.pc = "plan", !.job = j, !.left = DocumentUris(s)]
<1>1. /\ session' = [session EXCEPT ![w] = q] /\ j \in ToSplit
      /\ UNCHANGED <<source, job, documents, chunks>>
  BY DEF Open, MayPick, canonical
<1>2. s \in Sources
  BY <1>1 DEF StagedInv, ChunkingInv, IInv, TypeInv, Owned, ToSplit
<1>3. /\ q.pc = "plan" /\ q.job = j /\ q.left = DocumentUris(s) /\ q.planned = {}
      /\ q.counted = {} /\ q.removed = {} /\ q.added = {} /\ q.written = {}
  BY DEF Closed
<1> HIDE DEF q
<1>4. q \in Sessions
  <2>1. session'[w] = q /\ session'[w] \in Sessions
    BY <1>1 DEF StagedInv, ChunkingInv
  <2> QED
    BY <2>1
<1>5. Outdated(s) \subseteq DocumentUris(s)
  BY DEF Outdated
<1>6. WrittenUris(q) = {}
  BY <1>3 DEF WrittenUris
<1>7. Staged(q, s)
  BY <1>3, <1>5, <1>6 DEF Staged
<1> QED
  BY <1>1, <1>2, <1>3, <1>4, <1>7, CanonicalUnmoved, OwnStep

(* What holds of a session that is open, and of the one it becomes.        *)
LEMMA StagedNext ==
  ASSUME StagedInv, ChunkingInv', NEW w \in Workers, session[w].pc # "closed",
         NEW q, session' = [session EXCEPT ![w] = q]
  PROVE  /\ TypeInv /\ SourceOf(w) \in Sources /\ session[w] \in Sessions /\ q \in Sessions
         /\ Staged(session[w], SourceOf(w)) /\ session[w].left \subseteq DocumentUris(SourceOf(w))
<1>1. session'[w] = q /\ session'[w] \in Sessions
  BY DEF StagedInv, ChunkingInv
<1> QED
  BY <1>1, WorkingFacts DEF StagedInv, ChunkingInv, IInv, Working, SourceOf

LEMMA WorkStages ==
  ASSUME StagedInv, ChunkingInv', NEW w \in Workers,
         (\E u \in Uris : Skip(w, u) \/ Plan(w, u)) \/ StartWriting(w) \/ Write(w)
  PROVE  StagedInv'
<1> DEFINE r == session[w]
           s == SourceOf(w)
<1>1. UNCHANGED vars /\ r.pc # "closed"
  BY DEF Skip, Plan, StartWriting, Write
<1>2. UNCHANGED <<source, job, documents, chunks>> /\ CanonicalInv'
  BY <1>1, CanonicalUnmoved DEF vars, canonical
<1>3. s = job[r.job].source
  BY DEF SourceOf
<1>4. ASSUME NEW u \in Uris, Skip(w, u)
      PROVE  StagedInv'
  <2> DEFINE q == [r EXCEPT !.left = @ \ {u}, !.counted = @ \cup DocumentChunks(s, u)]
  <2>1. session' = [session EXCEPT ![w] = q]
    BY <1>4, Zenon DEF Skip
  <2>2. r.pc = "plan" /\ u \in r.left /\ SnapshotHolds(s, u)
    BY <1>4 DEF Skip
  <2>3. /\ TypeInv /\ s \in Sources /\ r \in Sessions /\ q \in Sessions
        /\ Staged(r, s) /\ r.left \subseteq DocumentUris(s)
    BY <1>1, <2>1, StagedNext
  <2>4. q.job = r.job
    BY <2>3 DEF Sessions
  <2>5. Staged(q, s)
    BY <2>2, <2>3, SkipStages
  <2> HIDE DEF q, r, s
  <2> QED
    BY <1>2, <1>3, <2>1, <2>3, <2>4, <2>5, OwnStep
<1>5. ASSUME NEW u \in Uris, Plan(w, u)
      PROVE  StagedInv'
  <2> DEFINE q == [r EXCEPT !.left = @ \ {u},
                            !.planned = @ \cup {[uri |-> u, read |-> documents[s][u]]},
                            !.counted = @ \cup SplitOf(s, u)]
  <2>1. session' = [session EXCEPT ![w] = q]
    BY <1>5, Zenon DEF Plan
  <2>2. r.pc = "plan" /\ u \in r.left /\ ~SnapshotHolds(s, u)
    BY <1>5 DEF Plan
  <2>3. /\ TypeInv /\ s \in Sources /\ r \in Sessions /\ q \in Sessions
        /\ Staged(r, s) /\ r.left \subseteq DocumentUris(s)
    BY <1>1, <2>1, StagedNext
  <2>4. q.job = r.job
    BY <2>3 DEF Sessions
  <2>5. Staged(q, s)
    BY <2>2, <2>3, PlanStages
  <2> HIDE DEF q, r, s
  <2> QED
    BY <1>2, <1>3, <2>1, <2>3, <2>4, <2>5, OwnStep
<1>6. CASE StartWriting(w)
  <2> DEFINE q == [r EXCEPT !.pc = "write"]
  <2>1. session' = [session EXCEPT ![w] = q]
    BY <1>6 DEF StartWriting
  <2>2. r.left = {} /\ Cardinality(r.counted) \in 1..MaxChunks
    BY <1>6 DEF StartWriting, Fits
  <2>3. /\ s \in Sources /\ r \in Sessions /\ q \in Sessions /\ Staged(r, s)
    BY <1>1, <2>1, StagedNext
  <2>4. /\ q.job = r.job /\ q.left = r.left /\ q.planned = r.planned /\ q.counted = r.counted
        /\ q.removed = r.removed /\ q.added = r.added /\ q.written = r.written
    BY <2>3 DEF Sessions
  <2>5. WrittenUris(q) = WrittenUris(r)
    BY <2>4 DEF WrittenUris
  <2> HIDE DEF q, r, s
  <2>6. Staged(q, s)
    BY <2>2, <2>3, <2>4, <2>5 DEF Staged
  <2> QED
    BY <1>2, <1>3, <2>1, <2>3, <2>4, <2>6, OwnStep
<1>7. CASE Write(w)
  <2>1. PICK d \in r.planned :
          session' = [session EXCEPT
            ![w].planned = @ \ {d},
            ![w].removed = @ \cup DocumentChunks(s, d.uri),
            ![w].added = @ \cup {[source |-> s, uri |-> d.uri, row |-> d.read.row, piece |-> x] :
                                   x \in Pieces[d.read.content]},
            ![w].written = @ \cup {d}]
    BY <1>7 DEF Write
  <2> DEFINE q == [r EXCEPT
               !.planned = @ \ {d},
               !.removed = @ \cup DocumentChunks(s, d.uri),
               !.added = @ \cup {[source |-> s, uri |-> d.uri, row |-> d.read.row, piece |-> x] :
                                   x \in Pieces[d.read.content]},
               !.written = @ \cup {d}]
  <2>2. session' = [session EXCEPT ![w] = q]
    BY <2>1, Zenon
  <2>3. r.pc = "write"
    BY <1>7 DEF Write
  <2>4. /\ TypeInv /\ s \in Sources /\ r \in Sessions /\ q \in Sessions /\ Staged(r, s)
    BY <1>1, <2>2, StagedNext
  <2>5. q.job = r.job
    BY <2>4 DEF Sessions
  <2>6. Staged(q, s)
    BY <2>3, <2>4, WriteStages
  <2> HIDE DEF q, r, s
  <2> QED
    BY <1>2, <1>3, <2>2, <2>4, <2>5, <2>6, OwnStep
<1> QED
  BY <1>4, <1>5, <1>6, <1>7

(* Every end of a session leaves the rows of the others.                   *)
Ends(w) == Fail(w) \/ Finish(w) \/ Lose(w)

LEMMA EndUntouched ==
  ASSUME StagedInv, NEW w \in Workers, Ends(w),
         NEW v \in Workers \ {w}, session[v].pc # "closed"
  PROVE  Untouched(v)
<1>1. session[w].pc # "closed" /\ ChunkingInv /\ CanonicalInv
  BY DEF Ends, Fail, Finish, Lose, StagedInv
<1>2. PICK s \in Sources : s = SourceOf(w)
  BY <1>1, WorkingFacts
<1>3. PICK t \in Sources : t = SourceOf(v)
  BY <1>1, WorkingFacts
<1>4. s # t /\ session[v].job # session[w].job /\ session[v].job \in JobIds
  BY <1>1, <1>2, <1>3, WorkingFacts DEF SourceOf
<1>5. job \in [JobIds -> JobRows]
  BY <1>1 DEF ChunkingInv, IInv, TypeInv, TypeOK
<1>6. job'[session[v].job] = job[session[v].job]
  BY <1>4, <1>5 DEF Ends, Fail, Finish, Lose, Transition, canonical
<1>7. CASE Fail(w) \/ Lose(w)
  <2>1. UNCHANGED <<documents, chunks>>
    BY <1>1, <1>7, FailWritesNothing DEF Lose, canonical
  <2> QED
    BY <1>3, <1>6, <2>1 DEF Untouched, SourceStays, ChunksOf
<1>8. CASE Finish(w)
  <2>1. Commit(w) /\ chunks' = Replanned(s)
    BY <1>2, <1>8, FinishRewrites DEF Finish, Rewritten
  <2>2. documents'[t] = documents[t]
    BY <1>1, <1>2, <1>4, <2>1, CommitTypes
  <2>3. \A u \in Outdated(s) : \A c \in SplitOf(s, u) : c.source = s
    BY DEF SplitOf
  <2>4. ChunksOf(t)' = ChunksOf(t)
    BY <1>4, <2>1, <2>3 DEF Replanned, ChunksOf
  <2> QED
    BY <1>3, <1>6, <2>2, <2>4 DEF Untouched, SourceStays
<1> QED
  BY <1>7, <1>8 DEF Ends

LEMMA EndStages ==
  ASSUME StagedInv, ChunkingInv', NEW w \in Workers, Ends(w)
  PROVE  StagedInv'
<1>1. session[w].pc # "closed" /\ session' = [session EXCEPT ![w] = Closed]
  BY DEF Ends, Fail, Finish, Lose, Commit
<1>2. /\ IInv /\ TypeInv /\ CanonicalInv /\ SourceOf(w) \in Sources /\ ChunkingInv
      /\ session[w].job \in JobIds /\ Working(w)
  BY <1>1, WorkingFacts DEF StagedInv, ChunkingInv, IInv
<1>3. session'[w].pc = "closed" /\ \A v \in Workers \ {w} : session'[v] = session[v]
  BY <1>1, <1>2, ClosedType DEF ChunkingInv
<1>4. CanonicalInv'
  <2>1. CASE Fail(w)
    <3>1. Transition(SourceOf(w), session[w].job, "failed") /\ UNCHANGED <<documents, chunks>>
      BY <1>2, <2>1, FailWritesNothing DEF Fail
    <3> QED
      BY <1>2, <3>1, RowsStay, StaysPutKeeps
  <2>2. CASE Lose(w)
    BY <2>2, CanonicalUnmoved DEF Lose, canonical
  <2>3. CASE Finish(w)
    <3>1. source[SourceOf(w)].life \in {"unborn", "live", "gone"}
      BY <1>2 DEF TypeInv, TypeOK, SourceRows
    <3>2. job[session[w].job].status # "absent"
      BY <1>2 DEF Working
    <3>3. Live(SourceOf(w))
      BY <1>2, <3>1, <3>2 DEF IInv, AttemptInv, Born, Live, SourceOf
    <3>4. PICK s \in Sources : s = SourceOf(w) /\ Rewritten(s)
      BY <1>2, <2>3, FinishRewrites
    <3> QED
      BY <1>2, <3>3, <3>4, SplitKeeps
  <2> QED
    BY <2>1, <2>2, <2>3 DEF Ends
<1> QED
  BY <1>3, <1>4, EndUntouched, StagedChange

LEMMA StagedInvInit == ChunkingInit => StagedInv
BY ChunkingInvInit, CanonicalInit, ClosedType DEF ChunkingInit, StagedInv

LEMMA StagedStep == StagedInv /\ [ChunkingNext]_chunkingVars => StagedInv'
<1> SUFFICES ASSUME StagedInv, [ChunkingNext]_chunkingVars
             PROVE  StagedInv'
  OBVIOUS
<1>1. ChunkingInv' /\ ChunkingInv /\ CanonicalInv /\ IInv
  BY ChunkingStep DEF StagedInv, ChunkingInv
<1>2. ASSUME NEW w \in Workers, Chunking(w)
      PROVE  StagedInv'
  BY <1>1, <1>2, OpenStages, WorkStages, EndStages DEF Chunking, Ends
<1>3. CASE Elsewhere /\ UNCHANGED session
  <2>1. CanonicalInv'
    BY <1>1, <1>3, ElsewhereIsNext, CanonicalStep
  <2>2. ASSUME NEW v \in Workers, session[v].pc # "closed"
        PROVE  Staged(session[v], SourceOf(v))'
    BY <1>3, <2>2, ElsewhereUntouched, UntouchedStays
  <2> QED
    BY <1>1, <1>3, <2>1, <2>2 DEF StagedInv
<1>4. CASE UNCHANGED chunkingVars
  <2>1. UNCHANGED <<source, job, documents, chunks, session>>
    BY <1>4 DEF chunkingVars, vars, canonical
  <2>2. ASSUME NEW v \in Workers, session[v].pc # "closed"
        PROVE  Staged(session[v], SourceOf(v))'
    <3>1. Untouched(v)
      BY <1>1, <2>1, <2>2, WorkingFacts DEF Untouched, SourceStays, ChunksOf
    <3> QED
      BY <2>1, <2>2, <3>1, UntouchedStays
  <2> QED
    BY <1>1, <2>1, <2>2, CanonicalUnmoved DEF StagedInv
<1> QED
  BY <1>2, <1>3, <1>4 DEF ChunkingNext

(* KnowledgeProjection, with the locks as the others see them, has the     *)
(* same rows.                                                              *)
LEMMA AtomicCardinality ==
  ASSUME NEW S
  PROVE  Atomic!Cardinality(S) = Cardinality(S)
BY DEF Atomic!Cardinality, Cardinality

LEMMA AtomicRows ==
  ASSUME NEW s
  PROVE  /\ Atomic!ToSplit = ToSplit /\ Atomic!DocumentUris(s) = DocumentUris(s)
         /\ Atomic!Outdated(s) = Outdated(s) /\ Atomic!Replanned(s) = Replanned(s)
<1>1. Atomic!ToSplit = ToSplit
  BY DEF Atomic!ToSplit, ToSplit, Atomic!JobIds, JobIds
<1>2. Atomic!DocumentUris(s) = DocumentUris(s)
  BY DEF Atomic!DocumentUris, DocumentUris
<1>3. \A u : /\ Atomic!SplitOf(s, u) = SplitOf(s, u)
             /\ Atomic!DocumentChunks(s, u) = DocumentChunks(s, u)
  BY DEF Atomic!SplitOf, SplitOf, Atomic!DocumentChunks, DocumentChunks
<1>4. \A u : Atomic!SnapshotHolds(s, u) <=> SnapshotHolds(s, u)
  <2> TAKE u
  <2>1. /\ Atomic!SplitOf(s, u) = SplitOf(s, u)
        /\ Atomic!DocumentChunks(s, u) = DocumentChunks(s, u)
    BY <1>3
  <2> QED
    BY <2>1, AtomicCardinality, Zenon DEF Atomic!SnapshotHolds, SnapshotHolds
<1>5. Atomic!Outdated(s) = Outdated(s)
  BY <1>2, <1>4 DEF Atomic!Outdated, Outdated
<1>6. Atomic!Replanned(s) = Replanned(s)
  BY <1>3, <1>5 DEF Atomic!Replanned, Replanned
<1> QED
  BY <1>1, <1>2, <1>5, <1>6

(* Opening and ending a session is not seen in the locks.                  *)
LEMMA OpenUnseen ==
  ASSUME ChunkingInv, NEW w \in Workers, NEW j \in JobIds, Open(w, j)
  PROVE  VisibleLock' = VisibleLock
<1> DEFINE s == job[j].source
<1>1. /\ session[w].pc = "closed" /\ j \in ToSplit /\ sourceLock[s] = None
      /\ sourceLock' = [sourceLock EXCEPT ![s] = w] /\ job' = job
  BY DEF Open, MayPick, Unlocked, canonical
<1>2. /\ session'[w].pc = "plan" /\ session'[w].job = j
      /\ \A v \in Workers \ {w} : session'[v] = session[v]
  BY DEF ChunkingInv, Open, Closed
<1>3. sourceLock \in [Sources -> Procs \cup {None}]
  BY DEF ChunkingInv, IInv, TypeInv, TypeOK
<1>4. ASSUME NEW t \in Sources
      PROVE  VisibleLock'[t] = VisibleLock[t]
  <2>1. CASE t = s
    <3>1. VisibleLock[t] = None
      BY <1>1, <2>1 DEF VisibleLock
    <3>2. session'[w].pc # "closed" /\ SourceOf(w)' = t
      BY <1>1, <1>2, <2>1 DEF SourceOf
    <3>3. VisibleLock'[t] = None
      BY <3>2 DEF VisibleLock
    <3> QED
      BY <3>1, <3>3
  <2>2. CASE t # s
    <3>1. sourceLock'[t] = sourceLock[t]
      BY <1>1, <1>3, <2>2
    <3>2. (\E v \in Workers : session'[v].pc # "closed" /\ SourceOf(v)' = t)
            <=> \E v \in Workers : session[v].pc # "closed" /\ SourceOf(v) = t
      BY <1>1, <1>2, <2>2 DEF SourceOf
    <3> QED
      BY <3>1, <3>2 DEF VisibleLock
  <2> QED
    BY <2>1, <2>2
<1> QED
  BY <1>4 DEF VisibleLock

LEMMA EndUnseen ==
  ASSUME StagedInv, NEW w \in Workers, Ends(w)
  PROVE  /\ VisibleLock' = VisibleLock /\ VisibleLock[SourceOf(w)] = None
<1>1. /\ session[w].pc # "closed" /\ Unlock(w) /\ session' = [session EXCEPT ![w] = Closed]
  BY DEF Ends, Fail, Finish, Lose, Commit
<1>2. /\ session'[w].pc = "closed"
      /\ \A v \in Workers \ {w} : session'[v] = session[v]
  BY <1>1, ClosedType DEF StagedInv, ChunkingInv
<1>3. /\ sourceLock \in [Sources -> Procs \cup {None}] /\ SourceOf(w) \in Sources
  BY <1>1, WorkingFacts DEF StagedInv, ChunkingInv, IInv, TypeInv, TypeOK
<1>4. \A v \in Workers \ {w} : session[v].pc # "closed" => SourceOf(v)' = SourceOf(v)
  BY <1>2, EndUntouched DEF Untouched, SourceOf
<1>5. PICK s \in Sources : s = SourceOf(w)
  BY <1>3
<1>6. VisibleLock[s] = None
  BY <1>1, <1>5 DEF VisibleLock
<1>7. sourceLock' = [sourceLock EXCEPT ![s] = None]
  BY <1>1, <1>5 DEF Unlock
<1>8. ASSUME NEW t \in Sources
      PROVE  VisibleLock'[t] = VisibleLock[t]
  <2>1. CASE t = s
    <3>1. sourceLock'[t] = None
      BY <1>3, <1>7, <2>1
    <3> QED
      BY <1>6, <2>1, <3>1 DEF VisibleLock
  <2>2. CASE t # s
    <3>1. sourceLock'[t] = sourceLock[t]
      BY <1>3, <1>7, <2>2
    <3>2. (\E v \in Workers : session'[v].pc # "closed" /\ SourceOf(v)' = t)
            <=> \E v \in Workers : session[v].pc # "closed" /\ SourceOf(v) = t
      BY <1>2, <1>4, <1>5, <2>2
    <3> QED
      BY <3>1, <3>2 DEF VisibleLock
  <2> QED
    BY <2>1, <2>2
<1> QED
  BY <1>5, <1>6, <1>8 DEF VisibleLock

LEMMA WorkUnseen ==
  ASSUME ChunkingInv, NEW w \in Workers,
         (\E u \in Uris : Skip(w, u) \/ Plan(w, u)) \/ StartWriting(w) \/ Write(w)
  PROVE  UNCHANGED vars /\ VisibleLock' = VisibleLock
<1>1. UNCHANGED vars
  BY DEF Skip, Plan, StartWriting, Write
<1>2. /\ session[w].pc # "closed" /\ session'[w].pc # "closed" /\ session'[w].job = session[w].job
      /\ \A v \in Workers \ {w} : session'[v] = session[v]
  <2>1. session \in [Workers -> Sessions]
    BY DEF ChunkingInv
  <2>2. ASSUME NEW u \in Uris, Skip(w, u) \/ Plan(w, u)
        PROVE  \E q : /\ session' = [session EXCEPT ![w] = q]
                      /\ q.pc = session[w].pc /\ q.job = session[w].job
    <3>1. CASE Skip(w, u)
      <4> DEFINE q == [session[w] EXCEPT !.left = @ \ {u},
                                         !.counted = @ \cup DocumentChunks(SourceOf(w), u)]
      <4>1. session' = [session EXCEPT ![w] = q]
        BY <3>1, Zenon DEF Skip
      <4>2. q.pc = session[w].pc /\ q.job = session[w].job
        BY <2>1 DEF Sessions
      <4> QED
        BY <4>1, <4>2
    <3>2. CASE Plan(w, u)
      <4> DEFINE q == [session[w] EXCEPT
                   !.left = @ \ {u},
                   !.planned = @ \cup {[uri |-> u, read |-> documents[SourceOf(w)][u]]},
                   !.counted = @ \cup SplitOf(SourceOf(w), u)]
      <4>1. session' = [session EXCEPT ![w] = q]
        BY <3>2, Zenon DEF Plan
      <4>2. q.pc = session[w].pc /\ q.job = session[w].job
        BY <2>1 DEF Sessions
      <4> QED
        BY <4>1, <4>2
    <3> QED
      BY <2>2, <3>1, <3>2
  <2>3. ASSUME Write(w)
        PROVE  \E q : /\ session' = [session EXCEPT ![w] = q]
                      /\ q.pc = session[w].pc /\ q.job = session[w].job
    <3>1. PICK d, fresh :
            session' = [session EXCEPT
              ![w].planned = @ \ {d},
              ![w].removed = @ \cup DocumentChunks(SourceOf(w), d.uri),
              ![w].added = @ \cup fresh, ![w].written = @ \cup {d}]
      BY <2>3 DEF Write
    <3> DEFINE q == [session[w] EXCEPT
                 !.planned = @ \ {d}, !.removed = @ \cup DocumentChunks(SourceOf(w), d.uri),
                 !.added = @ \cup fresh, !.written = @ \cup {d}]
    <3>2. session' = [session EXCEPT ![w] = q]
      BY <3>1, Zenon
    <3>3. q.pc = session[w].pc /\ q.job = session[w].job
      BY <2>1 DEF Sessions
    <3> QED
      BY <3>2, <3>3
  <2>4. CASE StartWriting(w)
    BY <2>1, <2>4 DEF StartWriting, Sessions
  <2>5. CASE (\E u \in Uris : Skip(w, u) \/ Plan(w, u)) \/ Write(w)
    <3>1. session[w].pc # "closed"
      BY <2>5 DEF Skip, Plan, Write
    <3>2. PICK q : /\ session' = [session EXCEPT ![w] = q]
                   /\ q.pc = session[w].pc /\ q.job = session[w].job
      BY <2>2, <2>3, <2>5
    <3> QED
      BY <2>1, <3>1, <3>2
  <2> QED
    BY <2>4, <2>5
<1>3. \A v \in Workers : /\ session'[v].pc # "closed" <=> session[v].pc # "closed"
                         /\ SourceOf(v)' = SourceOf(v)
  BY <1>1, <1>2 DEF SourceOf, vars, canonical
<1>4. sourceLock' = sourceLock
  BY <1>1 DEF vars, control
<1> QED
  BY <1>1, <1>3, <1>4 DEF VisibleLock

LEMMA EndIsAtomic ==
  ASSUME StagedInv, NEW w \in Workers, Fail(w) \/ Finish(w)
  PROVE  Atomic!Split(session[w].job) \/ Atomic!SplitFails(session[w].job)
<1>1. /\ session[w].pc # "closed" /\ Commit(w) /\ ChunkingInv /\ Ends(w)
  BY DEF Fail, Finish, StagedInv, Ends
<1>2. PICK j \in JobIds : j = session[w].job
  BY <1>1, WorkingFacts
<1>3. PICK s : s = job[j].source
  OBVIOUS
<1>4. s = SourceOf(w) /\ proc[w].pc = "idle" /\ j \in ToSplit
  BY <1>1, <1>2, <1>3, WorkingFacts DEF Working, SourceOf, ToSplit
<1>5. Atomic!Claim(j, Atomic!ToSplit)
  BY <1>1, <1>3, <1>4, AtomicRows, EndUnseen
     DEF Atomic!Claim, Atomic!SomeWorkerIdle, Atomic!MayPick, Atomic!Unlocked
<1>6. UNCHANGED <<opened, Atomic!remote, Atomic!control, Atomic!bounds, disturbed>>
  BY <1>1, EndUnseen
     DEF Commit, Unlock, Atomic!remote, Atomic!control, Atomic!bounds, remote, bounds
<1>7. CASE Fail(w)
  <2>1. Transition(s, j, "failed") /\ UNCHANGED <<documents, chunks>>
    BY <1>1, <1>2, <1>4, <1>7, FailWritesNothing DEF Fail
  <2>2. Atomic!Transition(s, j, "failed")
    BY <2>1 DEF Transition, Atomic!Transition
  <2> QED
    BY <1>2, <1>3, <1>5, <1>6, <2>1, <2>2 DEF Atomic!SplitFails
<1>8. CASE Finish(w)
  <2>1. /\ Rewritten(s) /\ DocumentUris(s) # {}
        /\ Cardinality({c \in Replanned(s) : c.source = s}) <= MaxChunks
    <3>1. PICK t : t = SourceOf(w)
      OBVIOUS
    <3>2. /\ Rewritten(t) /\ DocumentUris(t) # {}
          /\ Cardinality({c \in Replanned(t) : c.source = t}) <= MaxChunks
      BY <1>8, <3>1, FinishRewrites
    <3> QED
      BY <1>4, <3>1, <3>2
  <2>2. job' = [job EXCEPT ![j].status = "indexing"]
    BY <1>2, <1>8 DEF Finish
  <2>3. /\ Atomic!Outdated(s) = Outdated(s) /\ Atomic!Replanned(s) = Replanned(s)
        /\ Atomic!DocumentUris(s) = DocumentUris(s)
    BY AtomicRows
  <2>4. /\ Atomic!DocumentUris(s) # {}
        /\ Atomic!Cardinality({c \in Atomic!Replanned(s) : c.source = s}) <= MaxChunks
    BY <2>1, <2>3, AtomicCardinality
  <2>5. /\ chunks' = Atomic!Replanned(s)
        /\ documents' = [documents EXCEPT ![s] =
                           [u \in Uris |->
                              IF u \in Atomic!Outdated(s)
                              THEN [documents[s][u] EXCEPT !.snapshot = documents[s][u].content]
                              ELSE documents[s][u]]]
        /\ source' = [source EXCEPT ![s].status = "indexing", ![s].current = TRUE]
    BY <2>1, <2>3 DEF Rewritten
  <2>6. Atomic!Split(j)
    BY <1>3, <1>5, <1>6, <2>2, <2>4, <2>5, Zenon DEF Atomic!Split
  <2> QED
    BY <1>2, <2>6
<1> QED
  BY <1>7, <1>8

LEMMA OneStep ==
  ASSUME StagedInv, [ChunkingNext]_chunkingVars, session' # session
  PROVE  \/ UNCHANGED <<canonical, remote, ownerLock, VisibleLock, proc, bounds, disturbed>>
         \/ \E j \in JobIds : Atomic!Split(j) \/ Atomic!SplitFails(j)
<1>1. PICK w \in Workers : Chunking(w)
  BY DEF ChunkingNext, chunkingVars
<1>2. ChunkingInv
  BY DEF StagedInv
<1>3. ASSUME NEW j \in JobIds, Open(w, j)
      PROVE  UNCHANGED <<canonical, remote, ownerLock, VisibleLock, proc, bounds, disturbed>>
  BY <1>2, <1>3, OpenUnseen DEF Open
<1>4. CASE (\E u \in Uris : Skip(w, u) \/ Plan(w, u)) \/ StartWriting(w) \/ Write(w)
  BY <1>2, <1>4, WorkUnseen DEF vars, control
<1>5. CASE Fail(w) \/ Finish(w)
  <2>1. session[w].job \in JobIds
    BY <1>2, <1>5, WorkingFacts DEF Fail, Finish
  <2> QED
    BY <1>5, <2>1, EndIsAtomic
<1>6. CASE Lose(w)
  BY <1>6, EndUnseen DEF Ends, Lose, Unlock
<1> QED
  BY <1>1, <1>3, <1>4, <1>5, <1>6 DEF Chunking

(***************************************************************************)
(* However many documents a source has and wherever its chunking stops,    *)
(* what others see of it is nothing, or the one step that splits all its   *)
(* documents as they then are, or the one that fails, for every number of  *)
(* sources, workers and revisions and whatever is requested, crawled,      *)
(* deleted and rebuilt meanwhile.                                          *)
(***************************************************************************)
THEOREM ChunkingIsOneStepAlways == ChunkingSpec => ChunkingIsOneStep
<1>1. StagedInv /\ [ChunkingNext]_chunkingVars =>
        [session' # session =>
           \/ UNCHANGED <<canonical, remote, ownerLock, VisibleLock, proc, bounds, disturbed>>
           \/ \E j \in JobIds : Atomic!Split(j) \/ Atomic!SplitFails(j)]_chunkingVars
  BY OneStep
<1> QED
  BY <1>1, StagedInvInit, StagedStep, PTL DEF ChunkingSpec, ChunkingIsOneStep

(***************************************************************************)
(* The chunks a source declares current match its documents also while     *)
(* sessions are open, die and are rolled back between two statements.      *)
(***************************************************************************)
THEOREM ChunksMatchMidway == ChunkingSpec => []ChunksMatchDocuments
<1>1. StagedInv => ChunksMatchDocuments
  BY DEF StagedInv, CanonicalInv
<1> QED
  BY <1>1, StagedInvInit, StagedStep, PTL DEF ChunkingSpec

-----------------------------------------------------------------------------
(* Candidates                                                              *)

Rows == [chunk : ChunkIds, content : Contents \cup {None}, active : BOOLEAN]

CandidateTypes ==
  /\ candidates \subseteq Rows
  /\ extraction.evidence \subseteq [chunk : ChunkIds, content : Contents \cup {None}]
  /\ extraction.evidence # {} => extraction.source \in Sources

CandidatesInv == IInv /\ CanonicalInv /\ CandidateTypes /\ ActiveCandidatesAreCurrent

(* What the triggers leave active is still what it was.                    *)
LEMMA RetractKeeps ==
  ASSUME CandidatesInv, candidates' = Retract(candidates), UNCHANGED extraction
  PROVE  CandidateTypes' /\ ActiveCandidatesAreCurrent'
<1>1. CandidateTypes'
  <2>1. \A c \in Rows, b \in BOOLEAN : [c EXCEPT !.active = b] \in Rows
    BY DEF Rows
  <2>2. \A c \in candidates :
          [c EXCEPT !.active = @ /\ ~DocumentChanges(c) /\ ~ChunkRemoved(c) /\ ~SourceDeleted(c)] \in Rows
    <3> SUFFICES ASSUME NEW c \in candidates
                 PROVE  [c EXCEPT !.active = c.active /\ ~DocumentChanges(c) /\ ~ChunkRemoved(c)
                                             /\ ~SourceDeleted(c)] \in Rows
      OBVIOUS
    <3>1. c \in Rows
      BY DEF CandidatesInv, CandidateTypes
    <3>2. (c.active /\ ~DocumentChanges(c) /\ ~ChunkRemoved(c) /\ ~SourceDeleted(c)) \in BOOLEAN
      OBVIOUS
    <3> QED
      BY <2>1, <3>1, <3>2, Zenon
  <2> QED
    BY <2>2 DEF CandidatesInv, CandidateTypes, Retract
<1>2. ASSUME NEW n \in candidates', n.active
      PROVE  /\ Live(n.chunk.source)' /\ n.chunk \in chunks'
             /\ documents'[n.chunk.source][n.chunk.uri].row = n.chunk.row
             /\ documents'[n.chunk.source][n.chunk.uri].content = n.content
  <2>1. PICK c \in candidates :
          n = [c EXCEPT !.active = @ /\ ~DocumentChanges(c) /\ ~ChunkRemoved(c) /\ ~SourceDeleted(c)]
    BY DEF Retract
  <2>2. c \in Rows
    BY DEF CandidatesInv, CandidateTypes
  <2>3. n.chunk = c.chunk /\ n.content = c.content
    BY <2>1, <2>2 DEF Rows
  <2>4. c.active /\ ~DocumentChanges(c) /\ ~ChunkRemoved(c) /\ ~SourceDeleted(c)
    BY <1>2, <2>1, <2>2, Zenon DEF Rows
  <2>5. /\ Live(c.chunk.source) /\ c.chunk \in chunks
        /\ documents[c.chunk.source][c.chunk.uri].row = c.chunk.row
        /\ documents[c.chunk.source][c.chunk.uri].content = c.content
    BY <2>4 DEF CandidatesInv, ActiveCandidatesAreCurrent, Quoted
  <2> QED
    BY <2>3, <2>4, <2>5 DEF DocumentChanges, ChunkRemoved, SourceDeleted, Quoted, Live
<1>3. ActiveCandidatesAreCurrent'
  BY <1>2 DEF ActiveCandidatesAreCurrent, Quoted
<1> QED
  BY <1>1, <1>3

(* Evidence is what is canonical when it is read.                          *)
LEMMA SnapshotIsCanonical ==
  ASSUME TypeInv, CanonicalInv, NEW s \in Sources, NEW uris, NEW e \in Snapshot(s, uris)
  PROVE  /\ e \in [chunk : ChunkIds, content : Contents \cup {None}]
         /\ e.chunk \in chunks /\ e.chunk.source = s
         /\ documents[s][e.chunk.uri].row = e.chunk.row
         /\ documents[s][e.chunk.uri].content = e.content
<1>1. PICK c \in chunks : /\ c.source = s
                          /\ e = [chunk |-> c, content |-> documents[s][c.uri].content]
  BY DEF Snapshot, ChunksOf
<1>2. /\ c \in ChunkIds /\ c.uri \in Uris
      /\ documents[s][c.uri].row = c.row
  BY <1>1, ChunkHasDocument DEF TypeInv, TypeOK
<1>3. documents[s][c.uri].content \in Contents \cup {None}
  BY <1>2 DEF TypeInv, TypeOK, DocumentRows
<1> QED
  BY <1>1, <1>2, <1>3

LEMMA CommitKeeps ==
  ASSUME CandidatesInv, NEW found \in SUBSET extraction.evidence, CommitExtraction(found)
  PROVE  CandidateTypes' /\ ActiveCandidatesAreCurrent'
<1> DEFINE s == extraction.source
           same == /\ Extractable(s, extraction.documents)
                   /\ Snapshot(s, extraction.documents) = extraction.evidence
<1>1. /\ candidates' = IF same THEN Replace(candidates, found) ELSE candidates
      /\ extraction' = NoExtraction
      /\ UNCHANGED vars
  BY DEF CommitExtraction
<1>2. extraction'.evidence = {}
  BY <1>1 DEF NoExtraction
<1>3. ASSUME NEW n \in candidates'
      PROVE  \/ \E c \in candidates : /\ n \in Rows /\ n.chunk = c.chunk /\ n.content = c.content
                                      /\ n.active => c.active
             \/ same /\ \E e \in found : n = [chunk |-> e.chunk, content |-> e.content, active |-> TRUE]
  <2>1. \A c \in candidates : c \in Rows
    BY DEF CandidatesInv, CandidateTypes
  <2>2. CASE ~same
    BY <1>1, <2>1, <2>2
  <2>3. CASE same /\ ~ \E e \in found : n = [chunk |-> e.chunk, content |-> e.content, active |-> TRUE]
    <3>1. n \in Replace(candidates, found)
      BY <1>1, <2>3
    <3>2. PICK c \in candidates, b \in BOOLEAN : n = [c EXCEPT !.active = @ /\ b]
      BY <2>3, <3>1 DEF Replace
    <3>3. c \in Rows
      BY <2>1
    <3>4. (c.active /\ b) \in BOOLEAN
      OBVIOUS
    <3>5. n \in Rows /\ n.chunk = c.chunk /\ n.content = c.content
      BY <3>2, <3>3, <3>4 DEF Rows
    <3>6. n.active = (c.active /\ b)
      BY <3>2, <3>3, Zenon DEF Rows
    <3> QED
      BY <3>5, <3>6
  <2> QED
    BY <2>2, <2>3
<1>4. ASSUME same, NEW e \in found
      PROVE  /\ [chunk |-> e.chunk, content |-> e.content, active |-> TRUE] \in Rows
             /\ Live(e.chunk.source) /\ e.chunk \in chunks
             /\ documents[e.chunk.source][e.chunk.uri].row = e.chunk.row
             /\ documents[e.chunk.source][e.chunk.uri].content = e.content
  <2>1. Live(s) /\ s \in Sources
    BY <1>4 DEF Extractable, CandidatesInv, CandidateTypes
  <2>2. e \in Snapshot(s, extraction.documents)
    BY <1>4
  <2>3. /\ e \in [chunk : ChunkIds, content : Contents \cup {None}]
        /\ e.chunk \in chunks /\ e.chunk.source = s
        /\ documents[s][e.chunk.uri].row = e.chunk.row
        /\ documents[s][e.chunk.uri].content = e.content
    BY <2>1, <2>2, SnapshotIsCanonical DEF CandidatesInv, IInv
  <2> QED
    BY <2>1, <2>3 DEF Rows
<1>5. CandidateTypes'
  BY <1>2, <1>3, <1>4 DEF CandidateTypes
<1>6. ActiveCandidatesAreCurrent'
  <2> SUFFICES ASSUME NEW n \in candidates', n.active
               PROVE  /\ Live(n.chunk.source) /\ n.chunk \in chunks
                      /\ documents[n.chunk.source][n.chunk.uri].row = n.chunk.row
                      /\ documents[n.chunk.source][n.chunk.uri].content = n.content
    BY <1>1 DEF ActiveCandidatesAreCurrent, Quoted, Live, vars, canonical
  <2>1. CASE \E c \in candidates : /\ n.chunk = c.chunk /\ n.content = c.content
                                   /\ n.active => c.active
    <3>1. PICK c \in candidates : /\ n.chunk = c.chunk /\ n.content = c.content
                                  /\ n.active => c.active
      BY <2>1
    <3>2. c \in {x \in candidates : x.active}
      BY <3>1, Zenon
    <3>3. /\ Live(c.chunk.source) /\ c.chunk \in chunks
          /\ documents[c.chunk.source][c.chunk.uri].row = c.chunk.row
          /\ documents[c.chunk.source][c.chunk.uri].content = c.content
      BY <3>2 DEF CandidatesInv, ActiveCandidatesAreCurrent, Quoted
    <3> QED
      BY <3>1, <3>3
  <2>2. CASE same /\ \E e \in found : n = [chunk |-> e.chunk, content |-> e.content, active |-> TRUE]
    <3>1. PICK e \in found : n = [chunk |-> e.chunk, content |-> e.content, active |-> TRUE]
      BY <2>2
    <3>2. n.chunk = e.chunk /\ n.content = e.content
      BY <3>1
    <3> QED
      BY <1>4, <2>2, <3>2
  <2> QED
    BY <1>3, <2>1, <2>2
<1> QED
  BY <1>5, <1>6

LEMMA CandidatesStep ==
  CandidatesInv /\ [CandidatesNext]_candidateVars => CandidatesInv'
<1> SUFFICES ASSUME CandidatesInv, [CandidatesNext]_candidateVars
             PROVE  CandidatesInv'
  OBVIOUS
<1>1. [Next]_vars
  BY DEF CandidatesNext, candidateVars, StartExtraction, CommitExtraction, ExtractionFails,
         PurgeCandidate
<1>2. IInv' /\ CanonicalInv'
  BY <1>1, IInvStep, CanonicalStep DEF CandidatesInv
<1>3. CASE candidates' = Retract(candidates) /\ UNCHANGED extraction
  BY <1>2, <1>3, RetractKeeps DEF CandidatesInv
<1>4. ASSUME NEW found \in SUBSET extraction.evidence, CommitExtraction(found)
      PROVE  CandidatesInv'
  BY <1>2, <1>4, CommitKeeps DEF CandidatesInv
<1>5. ASSUME candidates' \subseteq candidates, UNCHANGED vars,
             extraction'.evidence \subseteq [chunk : ChunkIds, content : Contents \cup {None}],
             extraction'.evidence # {} => extraction'.source \in Sources
      PROVE  CandidatesInv'
  BY <1>2, <1>5 DEF CandidatesInv, CandidateTypes, ActiveCandidatesAreCurrent, Quoted, Live,
                    vars, canonical
<1>6. ASSUME NEW s \in Sources, NEW uris \in SUBSET Uris, StartExtraction(s, uris)
      PROVE  CandidatesInv'
  <2>1. /\ candidates' = candidates /\ UNCHANGED vars
        /\ extraction'.evidence = Snapshot(s, uris) /\ extraction'.source = s
    BY <1>6 DEF StartExtraction
  <2>2. Snapshot(s, uris) \subseteq [chunk : ChunkIds, content : Contents \cup {None}]
    BY SnapshotIsCanonical DEF CandidatesInv, IInv
  <2> QED
    BY <1>5, <2>1, <2>2
<1>7. CASE ExtractionFails \/ (\E c \in candidates : PurgeCandidate(c)) \/ UNCHANGED candidateVars
  <2>1. candidates' \subseteq candidates /\ UNCHANGED vars
    BY <1>7 DEF ExtractionFails, PurgeCandidate, candidateVars
  <2>2. extraction'.evidence = {} \/ extraction' = extraction
    BY <1>7 DEF ExtractionFails, PurgeCandidate, candidateVars, NoExtraction
  <2> QED
    BY <1>5, <2>1, <2>2 DEF CandidatesInv, CandidateTypes
<1> QED
  BY <1>3, <1>4, <1>6, <1>7 DEF CandidatesNext

(***************************************************************************)
(* A candidate that is offered quotes what is canonical, for every number  *)
(* of sources, pages, revisions and attempts, whatever was stored, split   *)
(* and deleted while a model was thinking.                                 *)
(***************************************************************************)
THEOREM ActiveCandidatesAreCurrentAlways == CandidatesSpec => []ActiveCandidatesAreCurrent
<1>1. CandidatesInit => CandidatesInv
  BY IInvInit, CanonicalInit
     DEF CandidatesInit, CandidatesInv, CandidateTypes, NoExtraction, ActiveCandidatesAreCurrent
<1>2. CandidatesInv => ActiveCandidatesAreCurrent
  BY DEF CandidatesInv
<1> QED
  BY <1>1, <1>2, CandidatesStep, PTL DEF CandidatesSpec
=============================================================================
