--------------------- MODULE KnowledgeProjection_proofs ---------------------
(***************************************************************************)
(* Proofs about the ingestion pipeline, for every set of sources, owners,  *)
(* pages, revisions and processes and for every bound: its types, that a   *)
(* source has at most one unfinished attempt, and that the pipeline with   *)
(* its transactions, locks and crashes implements the contract of          *)
(* JobLifecycle.                                                           *)
(*                                                                         *)
(* The argument: every step of the pipeline opens one attempt, moves one   *)
(* attempt forward, drops the attempts of one deleted source, or leaves    *)
(* attempts alone.  That a projection still finds its attempt at           *)
(* "indexing" when it commits, after all its remote writes, is because     *)
(* nobody else touches a source while its row is locked.                   *)
(***************************************************************************)
EXTENDS KnowledgeProjection, TLAPS

-----------------------------------------------------------------------------
(* Types                                                                   *)

(* Besides its type, an attempt that is not absent belongs to a source, a  *)
(* document that exists has a content, so that it can be split, and a      *)
(* transaction that projects has a source and an attempt for its points.      *)
Owned == \A j \in JobIds : job[j].status # "absent" => job[j].source \in Sources

Named(r) ==
  /\ r.pc \in {"project", "commit", "delOwner", "delClean", "delCommit", "try"}
       => r.source \in Sources
  /\ r.pc \in {"project", "commit"} => r.job \in JobIds /\ job[r.job].source \in Sources

TypeInv ==
  /\ TypeOK
  /\ Owned
  /\ \A s \in Sources, u \in Uris :
       documents[s][u].row # 0 => documents[s][u].content \in Contents
  /\ \A p \in Procs : Named(proc[p])

(* An attempt never loses its source. *)
KeepsSources == \A j \in JobIds : job[j].source \in Sources => job'[j].source \in Sources

LEMMA MaxJobsType == MaxJobs \in Nat
BY ProjectionAssumption

LEMMA TypeInvInit == Init => TypeInv
BY ProjectionAssumption
   DEF Init, TypeInv, Named, Owned, TypeOK, SourceRows, JobRows, DocumentRows, ProcStates, NoDocument, Idle,
       Stages, JobIds, Procs

LEMMA OpenJobTypes ==
  ASSUME TypeInv, NEW s \in Sources, NEW first \in Stages, OpenJob(s, first)
  PROVE  /\ source' \in [Sources -> SourceRows]
         /\ job' \in [JobIds -> JobRows]
         /\ opened' \in 0..MaxJobs
         /\ Owned' /\ KeepsSources
<1>1. source' \in [Sources -> SourceRows]
  BY DEF OpenJob, TypeInv, TypeOK, SourceRows
<1>2. job' \in [JobIds -> JobRows]
  BY DEF OpenJob, TypeInv, TypeOK, JobRows, Stages
<1>3. opened' \in 0..MaxJobs
  BY ProjectionAssumption DEF OpenJob, TypeInv, TypeOK
<1>4. Owned' /\ KeepsSources
  BY DEF OpenJob, Owned, KeepsSources, TypeInv, TypeOK, JobRows
<1> QED
  BY <1>1, <1>2, <1>3, <1>4

LEMMA JobStatusTypes ==
  ASSUME TypeInv, NEW j \in JobIds, NEW to \in Stages, job[j].source \in Sources,
         job' = [job EXCEPT ![j].status = to]
  PROVE  job' \in [JobIds -> JobRows] /\ Owned' /\ KeepsSources
<1>1. job' \in [JobIds -> JobRows]
  BY DEF TypeInv, TypeOK, JobRows
<1>2. Owned' /\ KeepsSources
  BY DEF Owned, KeepsSources, TypeInv, TypeOK, JobRows
<1> QED
  BY <1>1, <1>2

LEMMA TransitionTypes ==
  ASSUME TypeInv, NEW s, NEW j \in JobIds, NEW to \in Stages, Transition(s, j, to),
         job[j].source \in Sources
  PROVE  /\ source' \in [Sources -> SourceRows]
         /\ job' \in [JobIds -> JobRows]
         /\ Owned' /\ KeepsSources
<1>1. source' \in [Sources -> SourceRows]
  BY DEF Transition, TypeInv, TypeOK, SourceRows
<1>2. job' = [job EXCEPT ![j].status = to]
  BY DEF Transition
<1> QED
  BY <1>1, <1>2, JobStatusTypes

LEMMA ReleaseTypes ==
  ASSUME TypeOK, NEW p, Release(p)
  PROVE  /\ ownerLock' \in [Owners -> Procs \cup {None}]
         /\ sourceLock' \in [Sources -> Procs \cup {None}]
BY DEF Release, TypeOK

LEMMA IdleType == Idle \in ProcStates
BY ProjectionAssumption DEF Idle, ProcStates

LEMMA RebuildingType ==
  ASSUME NEW pc \in {"loop", "try", "orphans"}, NEW o \in Owners \cup {None},
         NEW s \in Sources \cup {None}, NEW ids \in SUBSET Sources
  PROVE  /\ Rebuilding(pc, o, s, ids) \in ProcStates
         /\ Rebuilding(pc, o, s, ids).pc = pc
         /\ Rebuilding(pc, o, s, ids).source = s
BY MaxJobsType DEF Rebuilding, ProcStates

LEMMA ProjectingType ==
  ASSUME NEW r \in ProcStates, NEW s \in Sources, NEW j \in JobIds, NEW todo \in SUBSET ChunkIds
  PROVE  [r EXCEPT !.pc = "project", !.source = s, !.job = j, !.todo = todo] \in ProcStates
<1> DEFINE first == [r EXCEPT !.pc = "project", !.source = s]
<1>1. first \in ProcStates
  BY DEF ProcStates
<1> HIDE DEF first
<1> DEFINE second == [first EXCEPT !.job = j]
<1>2. second \in ProcStates
  BY <1>1, MaxJobsType DEF ProcStates, JobIds
<1> HIDE DEF second
<1>3. [second EXCEPT !.todo = todo] \in ProcStates
  BY <1>2 DEF ProcStates
<1> QED
  BY <1>3 DEF first, second

LEMMA ResumeTypes ==
  ASSUME TypeInv, NEW p \in Procs, Resume(p)
  PROVE  /\ proc' \in [Procs -> ProcStates]
         /\ \A q \in Procs : Named(proc'[q])
<1>1. CASE p \in Workers
  BY <1>1, IdleType DEF Resume, TypeInv, Named, TypeOK, Idle
<1>2. CASE p \notin Workers
  <2> DEFINE r == Rebuilding("loop", proc[p].owner, None, proc[p].ids)
  <2>1. proc[p].owner \in Owners \cup {None} /\ proc[p].ids \in SUBSET Sources
    BY DEF TypeInv, TypeOK, ProcStates
  <2>2. r \in ProcStates /\ r.pc = "loop"
    BY <2>1, RebuildingType
  <2>3. proc' = [proc EXCEPT ![p] = r]
    BY <1>2 DEF Resume
  <2> HIDE DEF r
  <2> QED
    BY <2>2, <2>3 DEF TypeInv, Named, TypeOK
<1> QED
  BY <1>1, <1>2

(* What the actions that touch only jobs and sources share.                *)
LEMMA TypeInvFromRows ==
  ASSUME TypeInv, source' \in [Sources -> SourceRows], job' \in [JobIds -> JobRows],
         opened' \in 0..MaxJobs,
         Owned', KeepsSources, UNCHANGED <<documents, chunks, remote, control, bounds, disturbed>>
  PROVE  TypeInv'
BY DEF TypeInv, Named, TypeOK, KeepsSources, remote, control, bounds

LEMMA TypeInvRequest ==
  ASSUME TypeInv, Request
  PROVE  TypeInv'
<1>1. ASSUME NEW s \in Sources, CreateSource(s) PROVE TypeInv'
  BY <1>1, OpenJobTypes, TypeInvFromRows DEF CreateSource, TypeInv, Stages
<1>2. ASSUME NEW s \in Sources, RefreshSource(s) PROVE TypeInv'
  BY <1>2, OpenJobTypes, TypeInvFromRows DEF RefreshSource, TypeInv, Stages
<1>3. ASSUME NEW s \in Sources, ReindexSource(s) PROVE TypeInv'
  BY <1>3, OpenJobTypes, TypeInvFromRows DEF ReindexSource, TypeInv, Stages
<1>4. ASSUME NEW j \in JobIds, NEW to \in Stages, OperatorTransition(j, to) PROVE TypeInv'
  <2>1. opened' \in 0..MaxJobs
    BY <1>4 DEF OperatorTransition, TypeInv, TypeOK
  <2>2. job[j].source \in Sources
    BY <1>4 DEF OperatorTransition, TypeInv, Owned, Active, Stages
  <2> QED
    BY <1>4, <2>1, <2>2, TransitionTypes, TypeInvFromRows DEF OperatorTransition, TypeInv
<1> QED
  BY <1>1, <1>2, <1>3, <1>4 DEF Request

LEMMA SourceRowType ==
  ASSUME NEW f \in [Sources -> SourceRows], NEW s \in Sources, NEW status \in Stages,
         NEW current \in BOOLEAN
  PROVE  [f EXCEPT ![s].status = status, ![s].current = current] \in [Sources -> SourceRows]
BY DEF SourceRows

LEMMA ProjectedRowType ==
  ASSUME NEW f \in [Sources -> SourceRows], NEW s \in Sources, NEW j \in JobIds
  PROVE  [f EXCEPT ![s].status = "ready", ![s].generation = j] \in [Sources -> SourceRows]
<1> DEFINE half == [f EXCEPT ![s].status = "ready"]
<1>1. half \in [Sources -> SourceRows]
  BY DEF SourceRows, Stages
<1> HIDE DEF half
<1>2. [half EXCEPT ![s].generation = j] \in [Sources -> SourceRows]
  BY <1>1, MaxJobsType DEF SourceRows, JobIds
<1> QED
  BY <1>2 DEF half

LEMMA StoreDocumentsTypes ==
  ASSUME TypeInv, NEW s \in Sources, NEW j \in JobIds, NEW page \in Crawls, NEW gone \in SUBSET Uris,
         job[j].source = s, \A u \in gone : page[u] = None, StoreDocuments(s, j, page, gone)
  PROVE  TypeInv'
<1>1. \A u \in Uris : /\ Stored(s, j, page, gone)[u] \in DocumentRows
                      /\ Stored(s, j, page, gone)[u].row # 0
                           => Stored(s, j, page, gone)[u].content \in Contents
  <2> SUFFICES ASSUME NEW u \in Uris
               PROVE  /\ Stored(s, j, page, gone)[u] \in DocumentRows
                      /\ Stored(s, j, page, gone)[u].row # 0
                           => Stored(s, j, page, gone)[u].content \in Contents
    OBVIOUS
  <2> DEFINE d == documents[s][u]
  <2>1. d \in DocumentRows /\ (d.row # 0 => d.content \in Contents)
    BY DEF TypeInv, TypeOK
  <2>2. CASE page[u] # None
    <3>1. Stored(s, j, page, gone)[u] =
            [row |-> IF d.row = 0 THEN j ELSE d.row, content |-> page[u], snapshot |-> d.snapshot]
      BY <2>2, u \notin gone DEF Stored
    <3>2. page[u] \in Contents
      BY <2>2 DEF Crawls
    <3> QED
      BY <2>1, <3>1, <3>2, MaxJobsType DEF DocumentRows, JobIds
  <2>3. CASE page[u] = None /\ u \in gone
    <3>1. Stored(s, j, page, gone)[u] = NoDocument
      BY <2>3 DEF Stored
    <3> QED
      BY <3>1, MaxJobsType DEF NoDocument, DocumentRows
  <2>4. CASE page[u] = None /\ u \notin gone
    <3>1. Stored(s, j, page, gone)[u] = d
      BY <2>4 DEF Stored
    <3> QED
      BY <2>1, <3>1
  <2> QED
    BY <2>2, <2>3, <2>4
<1>2. Stored(s, j, page, gone) \in [Uris -> DocumentRows]
  BY <1>1 DEF Stored
<1>3. job' \in [JobIds -> JobRows] /\ Owned' /\ KeepsSources
  <2>1. job' = [job EXCEPT ![j].status = "chunking"] /\ "chunking" \in Stages
    BY DEF StoreDocuments, Stages
  <2> QED
    BY <2>1, JobStatusTypes
<1>6. source' \in [Sources -> SourceRows]
  <2>1. source' = [source EXCEPT ![s].status = "chunking", ![s].current = FALSE]
    BY DEF StoreDocuments
  <2>2. source \in [Sources -> SourceRows] /\ "chunking" \in Stages
    BY DEF TypeInv, TypeOK, Stages
  <2> QED
    BY <2>1, <2>2, SourceRowType
<1>4. documents' \in [Sources -> [Uris -> DocumentRows]] /\ chunks' \subseteq ChunkIds
  BY <1>2 DEF StoreDocuments, TypeInv, TypeOK
<1>5. \A r \in Sources, u \in Uris :
        documents'[r][u].row # 0 => documents'[r][u].content \in Contents
  BY <1>1, <1>2 DEF StoreDocuments, TypeInv, TypeOK
<1> QED
  BY <1>3, <1>4, <1>5, <1>6 DEF StoreDocuments, KeepsSources, TypeInv, Named, TypeOK, remote, control, bounds

LEMMA SplitType ==
  ASSUME TypeInv, NEW s \in Sources, NEW u \in DocumentUris(s)
  PROVE  SplitOf(s, u) \subseteq ChunkIds
<1>1. /\ u \in Uris /\ documents[s][u].row \in JobIds
      /\ documents[s][u].content \in Contents
  BY MaxJobsType DEF DocumentUris, TypeInv, TypeOK, DocumentRows, JobIds
<1>2. Pieces[documents[s][u].content] \subseteq AllPieces
  BY <1>1 DEF AllPieces
<1> QED
  BY <1>1, <1>2 DEF SplitOf, ChunkIds

LEMMA ReplannedType ==
  ASSUME TypeInv, NEW s \in Sources
  PROVE  Replanned(s) \subseteq ChunkIds
<1>1. \A u \in Outdated(s) : SplitOf(s, u) \subseteq ChunkIds
  BY SplitType DEF Outdated
<1> QED
  BY <1>1 DEF Replanned, TypeInv, TypeOK

LEMMA SplitTypes ==
  ASSUME TypeInv, NEW s \in Sources, NEW j \in JobIds, job[j].source = s, Split(j)
  PROVE  TypeInv'
<1> DEFINE Snapped ==
      [u \in Uris |-> IF u \in Outdated(s)
                      THEN [documents[s][u] EXCEPT !.snapshot = documents[s][u].content]
                      ELSE documents[s][u]]
<1>1. Snapped \in [Uris -> DocumentRows]
  <2>1. \A d \in DocumentRows : [d EXCEPT !.snapshot = d.content] \in DocumentRows
    BY DEF DocumentRows
  <2>2. \A u \in Uris : documents[s][u] \in DocumentRows
    BY DEF TypeInv, TypeOK
  <2> QED
    BY <2>1, <2>2
<1>2. \A u \in Uris : /\ Snapped[u].row = documents[s][u].row
                      /\ Snapped[u].content = documents[s][u].content
  BY DEF TypeInv, TypeOK, DocumentRows
<1>3. documents' = [documents EXCEPT ![s] = Snapped]
  BY DEF Split
<1>4. documents' \in [Sources -> [Uris -> DocumentRows]]
  BY <1>1, <1>3 DEF TypeInv, TypeOK
<1>5. \A r \in Sources, u \in Uris :
        documents'[r][u].row # 0 => documents'[r][u].content \in Contents
  BY <1>1, <1>2, <1>3 DEF TypeInv, TypeOK
<1>6. job' \in [JobIds -> JobRows] /\ Owned' /\ KeepsSources
  <2>1. job' = [job EXCEPT ![j].status = "indexing"] /\ "indexing" \in Stages
    BY DEF Split, Stages
  <2> QED
    BY <2>1, JobStatusTypes
<1>7. source' \in [Sources -> SourceRows]
  BY SourceRowType DEF Split, TypeInv, TypeOK, Stages
<1>8. chunks' \subseteq ChunkIds
  BY ReplannedType DEF Split
<1> QED
  BY <1>4, <1>5, <1>6, <1>7, <1>8 DEF Split, KeepsSources, TypeInv, Named, TypeOK, remote, control, bounds

LEMMA TypeInvCanonical ==
  ASSUME TypeInv, PollCanonical
  PROVE  TypeInv'
<1> SUFFICES ASSUME NEW j \in JobIds,
                    \/ ParseFails(j) \/ ParseUnchanged(j) \/ ParseText(j)
                    \/ \E page \in Crawls, gone \in SUBSET Uris : CrawlWebsite(j, page, gone)
                    \/ SplitFails(j) \/ Split(j)
             PROVE  TypeInv'
  BY DEF PollCanonical, PollDocuments
<1> DEFINE s == job[j].source
<1>1. s \in Sources
  BY DEF ParseFails, ParseUnchanged, ParseText, CrawlWebsite, SplitFails, Split,
         Claim, MayPick, ToParse, ToSplit, TypeInv, Owned
<1>2. CASE ParseFails(j) \/ ParseUnchanged(j) \/ SplitFails(j)
  <2>1. opened' \in 0..MaxJobs
    BY <1>2 DEF ParseFails, ParseUnchanged, SplitFails, TypeInv, TypeOK
  <2> QED
    BY <1>1, <1>2, <2>1, TransitionTypes, TypeInvFromRows
       DEF ParseFails, ParseUnchanged, SplitFails, TypeInv, Stages
<1>3. CASE ParseText(j)
  <2> DEFINE page == [u \in Uris |-> IF u = TextUri THEN TextContent ELSE None]
  <2>1. page \in Crawls
    BY ProjectionAssumption DEF Crawls
  <2> QED
    BY <1>1, <1>3, <2>1, StoreDocumentsTypes DEF ParseText
<1>4. ASSUME NEW page \in Crawls, NEW gone \in SUBSET Uris, CrawlWebsite(j, page, gone)
      PROVE  TypeInv'
  <2>1. \A u \in gone : page[u] = None
    BY <1>4 DEF CrawlWebsite
  <2> QED
    BY <1>1, <1>4, <2>1, StoreDocumentsTypes DEF CrawlWebsite
<1>5. CASE Split(j)
  BY <1>1, <1>5, SplitTypes
<1> QED
  BY <1>2, <1>3, <1>4, <1>5

(* What a step that leaves the rows and the locks' holders alone has to    *)
(* show about processes and points.                                        *)
LEMMA TypeInvFromProc ==
  ASSUME TypeInv, UNCHANGED <<canonical, inflight, erasures, bounds>>,
         points' \subseteq Points, disturbed' \subseteq Sources,
         ownerLock' \in [Owners -> Procs \cup {None}],
         sourceLock' \in [Sources -> Procs \cup {None}],
         proc' \in [Procs -> ProcStates],
         \A q \in Procs : Named(proc'[q])
  PROVE  TypeInv'
BY DEF TypeInv, Named, TypeOK, Owned, canonical, bounds

LEMMA TypeInvBegin ==
  ASSUME TypeInv, NEW p \in Procs, NEW j \in JobIds, job[j].status = "indexing", Begin(p, j)
  PROVE  TypeInv'
<1> DEFINE s == job[j].source
           r == [proc[p] EXCEPT !.pc = "project", !.source = s, !.job = j, !.todo = ChunksOf(s)]
<1>1. s \in Sources /\ ChunksOf(s) \in SUBSET ChunkIds /\ proc[p] \in ProcStates
  BY DEF TypeInv, Owned, TypeOK, ChunksOf
<1>2. r \in ProcStates
  BY <1>1, ProjectingType
<1>3. r.job = j /\ r.source = s
  BY <1>1 DEF ProcStates
<1>4. proc' = [proc EXCEPT ![p] = r]
  BY DEF Begin
<1> HIDE DEF r
<1>5. /\ proc' \in [Procs -> ProcStates]
      /\ \A q \in Procs : Named(proc'[q])
  BY <1>1, <1>2, <1>3, <1>4 DEF TypeInv, Named, TypeOK
<1>6. /\ ownerLock' \in [Owners -> Procs \cup {None}]
      /\ sourceLock' \in [Sources -> Procs \cup {None}]
      /\ points' \subseteq Points /\ disturbed' \subseteq Sources
      /\ UNCHANGED <<canonical, inflight, erasures, bounds>>
  BY DEF Begin, Lock, remote, TypeInv, TypeOK
<1> QED
  BY <1>5, <1>6, TypeInvFromProc

LEMMA StampTypes ==
  ASSUME TypeInv, NEW p \in Procs, proc[p].pc = "project", NEW batch \in SUBSET proc[p].todo
  PROVE  /\ Stamp(batch, proc[p].job) \subseteq Points
         /\ Upserted(points, Stamp(batch, proc[p].job)) \subseteq Points
BY DEF TypeInv, Named, TypeOK, ProcStates, Stamp, Upserted, Points

LEMMA TypeInvProjection ==
  ASSUME TypeInv, NEW p \in Procs,
         \/ PollIndex(p) \/ RejectProjection(p) \/ UpsertBatch(p) \/ DeleteStale(p) \/ CommitReady(p)
  PROVE  TypeInv'
<1>1. CASE PollIndex(p)
  BY <1>1, TypeInvBegin DEF PollIndex, BeginProjection
<1>2. CASE RejectProjection(p)
  <2>1. proc[p].job \in JobIds /\ job[proc[p].job].source \in Sources
    BY <1>2 DEF RejectProjection, TypeInv, Named
  <2>2. /\ source' \in [Sources -> SourceRows] /\ job' \in [JobIds -> JobRows]
        /\ Owned' /\ KeepsSources
    BY <1>2, <2>1, TransitionTypes DEF RejectProjection, Stages
  <2>3. /\ ownerLock' \in [Owners -> Procs \cup {None}]
        /\ sourceLock' \in [Sources -> Procs \cup {None}]
    BY <1>2, ReleaseTypes DEF RejectProjection, TypeInv
  <2>4. /\ proc' \in [Procs -> ProcStates]
        /\ \A q \in Procs : Named(proc'[q])
    BY <1>2, ResumeTypes DEF RejectProjection
  <2> QED
    BY <1>2, <2>2, <2>3, <2>4
       DEF RejectProjection, KeepsSources, TypeInv, Named, TypeOK, remote, bounds
<1>3. CASE UpsertBatch(p)
  <2>1. PICK batch \in Batches(proc[p].todo) :
          /\ points' = Upserted(points, Stamp(batch, proc[p].job))
          /\ proc' = [proc EXCEPT ![p].todo = @ \ batch]
    BY <1>3 DEF UpsertBatch
  <2>2. batch \in SUBSET proc[p].todo
    BY <2>1 DEF Batches
  <2>3. points' \subseteq Points
    BY <1>3, <2>1, <2>2, StampTypes DEF UpsertBatch
  <2>4. [proc[p] EXCEPT !.todo = @ \ batch] \in ProcStates
    BY DEF TypeInv, TypeOK, ProcStates
  <2>5. /\ proc' \in [Procs -> ProcStates]
        /\ \A q \in Procs : Named(proc'[q])
    BY <2>1, <2>4 DEF TypeInv, Named, TypeOK, ProcStates
  <2> QED
    BY <1>3, <2>3, <2>5, TypeInvFromProc DEF UpsertBatch, TypeInv, TypeOK
<1>4. CASE DeleteStale(p)
  <2> DEFINE r == [proc[p] EXCEPT !.pc = "commit"]
  <2>3. r \in ProcStates /\ r.source = proc[p].source /\ r.job = proc[p].job
    BY DEF TypeInv, TypeOK, ProcStates
  <2>4. proc' = [proc EXCEPT ![p] = r] /\ proc[p].pc = "project"
    BY <1>4 DEF DeleteStale
  <2> HIDE DEF r
  <2>1. /\ proc' \in [Procs -> ProcStates]
        /\ \A q \in Procs : Named(proc'[q])
    BY <2>3, <2>4 DEF TypeInv, Named, TypeOK
  <2>2. points' \subseteq Points
    BY <1>4 DEF DeleteStale, TypeInv, TypeOK
  <2> QED
    BY <1>4, <2>1, <2>2, TypeInvFromProc DEF DeleteStale, TypeInv, TypeOK
<1>5. CASE CommitReady(p)
  <2> DEFINE s == proc[p].source
  <2>1. s \in Sources /\ proc[p].job \in JobIds /\ job[proc[p].job].source \in Sources
    BY <1>5 DEF CommitReady, TypeInv, Named
  <2>6. /\ source' = [source EXCEPT ![s].status = "ready", ![s].generation = proc[p].job]
        /\ job' = [job EXCEPT ![proc[p].job].status = "ready"]
        /\ Release(p) /\ Resume(p)
        /\ disturbed' = disturbed \ {s}
        /\ UNCHANGED <<opened, documents, chunks, remote, bounds>>
    BY <1>5 DEF CommitReady
  <2>2. source' \in [Sources -> SourceRows]
    BY <2>1, <2>6, ProjectedRowType DEF TypeInv, TypeOK
  <2>3. job' \in [JobIds -> JobRows] /\ Owned' /\ KeepsSources
    BY <2>1, <2>6, JobStatusTypes DEF Stages
  <2>4. /\ ownerLock' \in [Owners -> Procs \cup {None}]
        /\ sourceLock' \in [Sources -> Procs \cup {None}]
    BY <2>6, ReleaseTypes DEF TypeInv
  <2>5. /\ proc' \in [Procs -> ProcStates]
        /\ \A q \in Procs : Named(proc'[q])
    BY <2>6, ResumeTypes
  <2>7. disturbed' \subseteq Sources /\ UNCHANGED <<opened, documents, chunks, remote, bounds>>
    BY <2>6 DEF TypeInv, TypeOK
  <2> QED
    BY <2>2, <2>3, <2>4, <2>5, <2>7
       DEF KeepsSources, TypeInv, Named, TypeOK, remote, bounds
<1> QED
  BY <1>1, <1>2, <1>3, <1>4, <1>5

LEMMA ProcTypes ==
  ASSUME TypeInv, NEW p \in Procs, NEW r \in ProcStates, Named(r), proc' = [proc EXCEPT ![p] = r]
  PROVE  proc' \in [Procs -> ProcStates] /\ \A q \in Procs : Named(proc'[q])
BY DEF TypeInv, TypeOK

LEMMA IdleNamed == Named(Idle)
BY DEF Named, Idle

LEMMA DeletingType ==
  ASSUME TypeInv, NEW p \in Procs, proc[p].pc \in {"delOwner", "delClean"},
         NEW pc \in {"delClean", "delCommit"}
  PROVE  [proc[p] EXCEPT !.pc = pc] \in ProcStates /\ Named([proc[p] EXCEPT !.pc = pc])
<1> DEFINE x == [proc[p] EXCEPT !.pc = pc]
<1>1. proc[p] \in ProcStates /\ proc[p].source \in Sources
  BY DEF TypeInv, TypeOK, Named
<1>2. x \in ProcStates /\ x.source = proc[p].source /\ x.pc = pc
  BY <1>1 DEF ProcStates
<1> HIDE DEF x
<1>3. Named(x)
  BY <1>1, <1>2 DEF Named
<1> QED
  BY <1>2, <1>3 DEF x

LEMMA TypeInvDeletion ==
  ASSUME TypeInv, NEW p \in Procs,
         \/ \E s \in Sources : DeleteLockOwner(p, s)
         \/ DeleteLockSource(p) \/ DeletePoints(p) \/ DeleteCommit(p)
  PROVE  TypeInv'
<1> DEFINE s == proc[p].source
<1>1. ASSUME NEW r \in Sources, DeleteLockOwner(p, r) PROVE TypeInv'
  <2> DEFINE x == [Idle EXCEPT !.pc = "delOwner", !.source = r]
  <2>1. x \in ProcStates /\ Named(x)
    BY IdleType DEF Idle, ProcStates, Named
  <2>2. proc' \in [Procs -> ProcStates] /\ \A q \in Procs : Named(proc'[q])
    BY <1>1, <2>1, ProcTypes DEF DeleteLockOwner
  <2> QED
    BY <1>1, <2>2, TypeInvFromProc DEF DeleteLockOwner, remote, TypeInv, TypeOK
<1>2. CASE DeleteLockSource(p)
  <2> DEFINE x == [proc[p] EXCEPT !.pc = "delClean"]
  <2>1. x \in ProcStates /\ Named(x)
    BY <1>2, DeletingType DEF DeleteLockSource
  <2>2. proc' \in [Procs -> ProcStates] /\ \A q \in Procs : Named(proc'[q])
    BY <1>2, <2>1, ProcTypes DEF DeleteLockSource
  <2> QED
    BY <1>2, <2>2, TypeInvFromProc DEF DeleteLockSource, remote, TypeInv, TypeOK
<1>3. CASE DeletePoints(p)
  <2> DEFINE x == [proc[p] EXCEPT !.pc = "delCommit"]
  <2>1. x \in ProcStates /\ Named(x)
    BY <1>3, DeletingType DEF DeletePoints
  <2>2. proc' \in [Procs -> ProcStates] /\ \A q \in Procs : Named(proc'[q])
    BY <1>3, <2>1, ProcTypes DEF DeletePoints
  <2>3. disturbed' \subseteq Sources
    BY <1>3 DEF DeletePoints, TypeInv, TypeOK, Named
  <2> QED
    BY <1>3, <2>2, <2>3, TypeInvFromProc DEF DeletePoints, TypeInv, TypeOK
<1>4. CASE DeleteCommit(p)
  <2>1. proc' \in [Procs -> ProcStates] /\ \A q \in Procs : Named(proc'[q])
    <3>1. Named(Idle) /\ proc' = [proc EXCEPT ![p] = Idle]
      BY <1>4, IdleNamed DEF DeleteCommit
    <3> QED
      BY <3>1, IdleType, ProcTypes
  <2>2. source' \in [Sources -> SourceRows]
    <3>1. source' = [source EXCEPT ![s].life = "gone"]
      BY <1>4 DEF DeleteCommit
    <3>2. \A r \in SourceRows : [r EXCEPT !.life = "gone"] \in SourceRows
      BY DEF SourceRows
    <3> QED
      BY <3>1, <3>2 DEF TypeInv, TypeOK
  <2>3. job' \in [JobIds -> JobRows] /\ Owned' /\ KeepsSources
    <3>1. job' = [j \in JobIds |-> IF job[j].source = s THEN [job[j] EXCEPT !.status = "absent"]
                                    ELSE job[j]]
      BY <1>4 DEF DeleteCommit
    <3>2. \A j \in JobIds : job'[j] \in JobRows /\ job'[j].source = job[j].source
                           /\ (job'[j].status # "absent" => job[j].status # "absent")
      BY <3>1 DEF TypeInv, TypeOK, JobRows
    <3> QED
      BY <3>1, <3>2 DEF TypeInv, Owned, KeepsSources
  <2>4. /\ documents' \in [Sources -> [Uris -> DocumentRows]]
        /\ \A r \in Sources, u \in Uris :
             documents'[r][u].row # 0 => documents'[r][u].content \in Contents
    <3>1. NoDocument \in DocumentRows /\ NoDocument.row = 0
      BY MaxJobsType DEF NoDocument, DocumentRows
    <3>2. documents' = [documents EXCEPT ![s] = [u \in Uris |-> NoDocument]]
      BY <1>4 DEF DeleteCommit
    <3> QED
      BY <3>1, <3>2 DEF TypeInv, TypeOK
  <2>5. /\ ownerLock' \in [Owners -> Procs \cup {None}]
        /\ sourceLock' \in [Sources -> Procs \cup {None}]
    BY <1>4, ReleaseTypes DEF DeleteCommit, TypeInv
  <2>6. /\ chunks' \subseteq ChunkIds /\ disturbed' \subseteq Sources
        /\ UNCHANGED <<opened, remote, bounds>>
    BY <1>4 DEF DeleteCommit, TypeInv, TypeOK
  <2>7. \A q \in Procs : Named(proc[q])' 
    BY <2>1, <2>3 DEF Named, KeepsSources
  <2> QED
    BY <2>1, <2>2, <2>3, <2>4, <2>5, <2>6, <2>7 DEF TypeInv, TypeOK, remote, bounds
<1> QED
  BY <1>1, <1>2, <1>3, <1>4

LEMMA RebuildProcTypes ==
  ASSUME TypeInv, NEW p \in Procs, NEW pc \in {"loop", "try", "orphans"},
         NEW o \in Owners \cup {None}, NEW s \in Sources \cup {None}, NEW ids \in SUBSET Sources,
         pc = "try" => s \in Sources,
         proc' = [proc EXCEPT ![p] = Rebuilding(pc, o, s, ids)]
  PROVE  proc' \in [Procs -> ProcStates] /\ \A q \in Procs : Named(proc'[q])
<1>1. Named(Rebuilding(pc, o, s, ids))
  BY RebuildingType DEF Named
<1> QED
  BY <1>1, RebuildingType, ProcTypes

LEMMA TakesTypes ==
  ASSUME TypeInv, NEW p \in Procs, NEW s \in Sources, RebuildTakes(p, s)
  PROVE  proc' \in [Procs -> ProcStates] /\ \A q \in Procs : Named(proc'[q])
<1>1. proc[p].owner \in Owners \cup {None} /\ proc[p].ids \ {s} \in SUBSET Sources
  BY DEF TypeInv, TypeOK, ProcStates
<1> QED
  BY <1>1, RebuildProcTypes DEF RebuildTakes

LEMMA TypeInvRebuild ==
  ASSUME TypeInv, NEW p \in Procs,
         \/ \E o \in Owners : RebuildStart(p, o)
         \/ \E s \in Sources : RebuildReuses(p, s) \/ RebuildReindexes(p, s) \/ RebuildStops(p, s)
         \/ \E j \in JobIds : RebuildProjects(p, j)
         \/ RebuildSkips(p) \/ RebuildLocksOwner(p) \/ RebuildDeletesOrphans(p)
  PROVE  TypeInv'
<1>1. ASSUME NEW o \in Owners, RebuildStart(p, o) PROVE TypeInv'
  <2>1. {s \in LiveOf(o) : ChunksOf(s) # {}} \in SUBSET Sources
    BY DEF LiveOf
  <2>3. proc' \in [Procs -> ProcStates] /\ \A q \in Procs : Named(proc'[q])
    BY <1>1, <2>1, RebuildProcTypes DEF RebuildStart
  <2>4. rebuilds' \in 0..MaxRebuilds
    BY <1>1, ProjectionAssumption DEF RebuildStart, TypeInv, TypeOK
  <2>5. UNCHANGED <<canonical, remote, ownerLock, sourceLock, faults, disturbed>>
    BY <1>1 DEF RebuildStart
  <2>6. \A q \in Procs : Named(proc[q])'
    BY <2>3, <2>5 DEF Named, canonical
  <2> QED
    BY <2>3, <2>4, <2>5, <2>6 DEF TypeInv, TypeOK, Owned, canonical, remote
<1>2. ASSUME NEW s \in Sources, RebuildReuses(p, s) PROVE TypeInv'
  <2>1. proc' \in [Procs -> ProcStates] /\ \A q \in Procs : Named(proc'[q])
    BY <1>2, TakesTypes DEF RebuildReuses
  <2> QED
    BY <1>2, <2>1, TypeInvFromProc DEF RebuildReuses, remote, TypeInv, TypeOK
<1>3. ASSUME NEW s \in Sources, RebuildReindexes(p, s) PROVE TypeInv'
  <2>1. proc' \in [Procs -> ProcStates] /\ \A q \in Procs : Named(proc'[q])
    BY <1>3, TakesTypes DEF RebuildReindexes
  <2>2. /\ source' \in [Sources -> SourceRows] /\ job' \in [JobIds -> JobRows]
        /\ opened' \in 0..MaxJobs /\ Owned' /\ KeepsSources
    BY <1>3, OpenJobTypes DEF RebuildReindexes, Stages
  <2>3. UNCHANGED <<documents, chunks, remote, ownerLock, sourceLock, bounds, disturbed>>
    BY <1>3 DEF RebuildReindexes
  <2>4. \A q \in Procs : Named(proc[q])'
    BY <2>1, <2>2 DEF Named, KeepsSources
  <2> QED
    BY <2>1, <2>2, <2>3, <2>4 DEF TypeInv, TypeOK, remote, bounds
<1>4. ASSUME NEW s \in Sources, RebuildStops(p, s) PROVE TypeInv'
  <2>1. proc' \in [Procs -> ProcStates] /\ \A q \in Procs : Named(proc'[q])
    BY <1>4, IdleType, IdleNamed, ProcTypes DEF RebuildStops
  <2> QED
    BY <1>4, <2>1, TypeInvFromProc DEF RebuildStops, remote, TypeInv, TypeOK
<1>5. ASSUME NEW j \in JobIds, RebuildProjects(p, j) PROVE TypeInv'
  BY <1>5, TypeInvBegin DEF RebuildProjects
<1>6. CASE RebuildSkips(p)
  <2>1. proc' \in [Procs -> ProcStates] /\ \A q \in Procs : Named(proc'[q])
    BY <1>6, ResumeTypes DEF RebuildSkips
  <2> QED
    BY <1>6, <2>1, TypeInvFromProc DEF RebuildSkips, remote, TypeInv, TypeOK
<1>7. CASE RebuildLocksOwner(p)
  <2> DEFINE o == proc[p].owner
  <2>1. o \in Owners \cup {None} /\ LiveOf(o) \in SUBSET Sources
    BY DEF TypeInv, TypeOK, ProcStates, LiveOf
  <2>3. proc' \in [Procs -> ProcStates] /\ \A q \in Procs : Named(proc'[q])
    BY <1>7, <2>1, RebuildProcTypes DEF RebuildLocksOwner
  <2>4. ownerLock' \in [Owners -> Procs \cup {None}]
    BY <1>7 DEF RebuildLocksOwner, TypeInv, TypeOK
  <2> QED
    BY <1>7, <2>3, <2>4, TypeInvFromProc DEF RebuildLocksOwner, remote, TypeInv, TypeOK
<1>8. CASE RebuildDeletesOrphans(p)
  <2>1. proc' \in [Procs -> ProcStates] /\ \A q \in Procs : Named(proc'[q])
    BY <1>8, IdleType, IdleNamed, ProcTypes DEF RebuildDeletesOrphans
  <2>2. /\ ownerLock' \in [Owners -> Procs \cup {None}]
        /\ sourceLock' \in [Sources -> Procs \cup {None}]
    BY <1>8, ReleaseTypes DEF RebuildDeletesOrphans, TypeInv
  <2>3. points' \subseteq Points
    BY <1>8 DEF RebuildDeletesOrphans, TypeInv, TypeOK
  <2> QED
    BY <1>8, <2>1, <2>2, <2>3, TypeInvFromProc DEF RebuildDeletesOrphans, TypeInv, TypeOK
<1> QED
  BY <1>1, <1>2, <1>3, <1>4, <1>5, <1>6, <1>7, <1>8

LEMMA LostRequestTypes ==
  ASSUME TypeInv, NEW p \in Procs,
         LostRequest(p) \/ UNCHANGED <<remote, disturbed>>
  PROVE  /\ points' \subseteq Points /\ inflight' \subseteq Points
         /\ erasures' \subseteq Filters /\ disturbed' \subseteq Sources
<1>1. CASE UNCHANGED <<remote, disturbed>>
  BY <1>1 DEF TypeInv, TypeOK, remote
<1>2. CASE LostUpsert(p)
  <2>7. PICK batch \in Batches(proc[p].todo) : \E landed \in SUBSET batch :
          /\ points' = Upserted(points, Stamp(landed, proc[p].job))
          /\ inflight' = IF LateDelivery
                         THEN inflight \cup Stamp(batch \ landed, proc[p].job) ELSE inflight
    BY <1>2 DEF LostUpsert
  <2>1. PICK landed \in SUBSET batch :
          /\ points' = Upserted(points, Stamp(landed, proc[p].job))
          /\ inflight' = IF LateDelivery
                         THEN inflight \cup Stamp(batch \ landed, proc[p].job) ELSE inflight
    BY <2>7
  <2>2. landed \in SUBSET proc[p].todo /\ batch \ landed \in SUBSET proc[p].todo
    BY <2>1 DEF Batches
  <2>3. proc[p].pc = "project" /\ disturbed' = disturbed
    BY <1>2 DEF LostUpsert
  <2>4. points' \subseteq Points
    BY <2>1, <2>2, <2>3, StampTypes
  <2>5. Stamp(batch \ landed, proc[p].job) \subseteq Points
    BY <2>2, <2>3, StampTypes
  <2>6. inflight' \subseteq Points
    BY <2>1, <2>5 DEF TypeInv, TypeOK
  <2> QED
    BY <1>2, <2>3, <2>4, <2>6 DEF LostUpsert, TypeInv, TypeOK
<1>3. ASSUME NEW f \in Filters, proc[p].pc \in {"project", "delClean", "orphans"},
             LostDelete(p, f)
      PROVE  /\ points' \subseteq Points /\ inflight' \subseteq Points
             /\ erasures' \subseteq Filters /\ disturbed' \subseteq Sources
  <2>1. points' \subseteq Points /\ inflight' \subseteq Points /\ erasures' \subseteq Filters
    BY <1>3 DEF LostDelete, TypeInv, TypeOK
  <2>2. proc[p].pc = "delClean" => proc[p].source \in Sources
    BY DEF TypeInv, Named
  <2>3. disturbed' \subseteq Sources
    BY <1>3, <2>2 DEF LostDelete, TypeInv, TypeOK
  <2> QED
    BY <2>1, <2>3
<1>4. CASE LostRequest(p) /\ ~LostUpsert(p)
  <2>1. PICK f \in {Stale(proc[p].source, proc[p].job), OfSource(proc[p].source),
                    Orphans(proc[p].owner, proc[p].ids)} :
          /\ proc[p].pc \in {"project", "delClean", "orphans"}
          /\ proc[p].pc # "orphans" =>
               f \in {Stale(proc[p].source, proc[p].job), OfSource(proc[p].source)}
          /\ proc[p].pc = "orphans" => f = Orphans(proc[p].owner, proc[p].ids)
          /\ LostDelete(p, f)
    BY <1>4 DEF LostRequest
  <2>2. 0 \in 0..MaxJobs /\ proc[p].job \in 0..MaxJobs
    BY ProjectionAssumption DEF TypeInv, TypeOK, ProcStates
  <2>3. f \in Filters
    <3>1. Orphans(proc[p].owner, proc[p].ids) \in Filters
      <4>1. {s \in Sources : OwnerOf[s] = proc[p].owner} \ proc[p].ids \in SUBSET Sources
        OBVIOUS
      <4> QED
        BY <2>2, <4>1 DEF Filters, Orphans
    <3>2. CASE proc[p].pc # "orphans"
      <4>1. proc[p].source \in Sources
        BY <2>1, <3>2 DEF TypeInv, Named
      <4> QED
        BY <2>1, <2>2, <3>2, <4>1 DEF Filters, Stale, OfSource
    <3> QED
      BY <2>1, <3>1, <3>2
  <2> QED
    BY <1>3, <2>1, <2>3
<1> QED
  BY <1>1, <1>2, <1>4

LEMMA TypeInvFaults ==
  ASSUME TypeInv, NEW p \in Procs, ProjectionError(p) \/ RollBack(p)
  PROVE  TypeInv'
<1>1. faults' \in 0..MaxFaults /\ UNCHANGED rebuilds
  BY ProjectionAssumption DEF ProjectionError, RollBack, Fault, TypeInv, TypeOK
<1>2. /\ points' \subseteq Points /\ inflight' \subseteq Points
      /\ erasures' \subseteq Filters /\ disturbed' \subseteq Sources
  BY LostRequestTypes DEF ProjectionError, RollBack
<1>3. /\ ownerLock' \in [Owners -> Procs \cup {None}]
      /\ sourceLock' \in [Sources -> Procs \cup {None}]
  BY ReleaseTypes DEF ProjectionError, RollBack, TypeInv
<1>4. CASE ProjectionError(p)
  <2>1. proc[p].job \in JobIds /\ job[proc[p].job].source \in Sources
    BY <1>4 DEF ProjectionError, TypeInv, Named
  <2>2. /\ source' \in [Sources -> SourceRows] /\ job' \in [JobIds -> JobRows]
        /\ Owned' /\ KeepsSources
    BY <1>4, <2>1, TransitionTypes DEF ProjectionError, Stages
  <2>3. proc' \in [Procs -> ProcStates] /\ \A q \in Procs : Named(proc'[q])
    BY <1>4, ResumeTypes DEF ProjectionError
  <2>4. UNCHANGED <<opened, documents, chunks>>
    BY <1>4 DEF ProjectionError
  <2>5. \A q \in Procs : Named(proc[q])'
    BY <2>2, <2>3 DEF Named, KeepsSources
  <2> QED
    BY <1>1, <1>2, <1>3, <2>2, <2>3, <2>4, <2>5 DEF TypeInv, TypeOK
<1>5. CASE RollBack(p)
  <2>1. proc' \in [Procs -> ProcStates] /\ \A q \in Procs : Named(proc'[q])
    BY <1>5, IdleType, IdleNamed, ProcTypes DEF RollBack
  <2>2. UNCHANGED canonical
    BY <1>5 DEF RollBack
  <2>3. \A q \in Procs : Named(proc[q])'
    BY <2>1, <2>2 DEF Named, canonical
  <2> QED
    BY <1>1, <1>2, <1>3, <2>1, <2>2, <2>3 DEF TypeInv, TypeOK, Owned, canonical
<1> QED
  BY <1>4, <1>5

LEMMA TypeInvStep == TypeInv /\ [Next]_vars => TypeInv'
<1> SUFFICES ASSUME TypeInv, [Next]_vars PROVE TypeInv'
  OBVIOUS
<1>1. CASE Request
  BY <1>1, TypeInvRequest
<1>2. CASE PollCanonical
  BY <1>2, TypeInvCanonical
<1>3. ASSUME NEW p \in Procs,
             PollIndex(p) \/ Continue(p) \/ Administer(p) \/ ProjectionError(p) \/ RollBack(p)
      PROVE  TypeInv'
  BY <1>3, TypeInvProjection, TypeInvDeletion, TypeInvRebuild, TypeInvFaults
     DEF Continue, Administer
<1>4. CASE LandLate
  <2>1. /\ points' \subseteq Points /\ inflight' \subseteq Points /\ erasures' \subseteq Filters
        /\ UNCHANGED <<canonical, control, bounds, disturbed>>
    <3>1. CASE UpsertLands
      <4>1. PICK q \in inflight : points' = Upserted(points, {q}) /\ inflight' = inflight \ {q}
        BY <3>1 DEF UpsertLands
      <4> QED
        BY <3>1, <4>1 DEF UpsertLands, TypeInv, TypeOK, Upserted
    <3>2. CASE DeleteLands
      BY <3>2 DEF DeleteLands, TypeInv, TypeOK
    <3> QED
      BY <1>4, <3>1, <3>2 DEF LandLate
  <2> QED
    BY <2>1 DEF TypeInv, TypeOK, Owned, Named, canonical, control, bounds
<1>5. CASE UNCHANGED vars
  BY <1>5 DEF vars, canonical, remote, control, bounds, TypeInv, TypeOK, Owned, Named
<1> QED
  BY <1>1, <1>2, <1>3, <1>4, <1>5 DEF Next, Quiet

(* The state of the pipeline stays within its types in every behaviour.    *)
THEOREM TypeCorrect == Spec => []TypeOK
<1>1. TypeInv => TypeOK
  BY DEF TypeInv
<1> QED
  BY TypeInvInit, TypeInvStep, <1>1, PTL DEF Spec

-----------------------------------------------------------------------------
(* What a step can do to attempts                                          *)

Opens(s, first) ==
  /\ source[s].life # "gone"
  /\ JobsAt(s, Active) = {}
  /\ OpenJob(s, first)

Moves(j, to) ==
  /\ job[j].status \in Active /\ to \in Downstream(job[j].status)
  /\ job' = [job EXCEPT ![j].status = to]
  /\ opened' = opened
  /\ \A s \in Sources :
       /\ source'[s].life = source[s].life
       /\ source'[s].status = IF s = job[j].source THEN to ELSE source[s].status

Drops(s) ==
  /\ Live(s)
  /\ job' = [j \in JobIds |-> IF job[j].source = s THEN [job[j] EXCEPT !.status = "absent"]
                              ELSE job[j]]
  /\ opened' = opened
  /\ \A r \in Sources :
       /\ source'[r].life = IF r = s THEN "gone" ELSE source[r].life
       /\ source'[r].status = source[r].status

Stays ==
  /\ UNCHANGED <<job, opened>>
  /\ \A s \in Sources : source'[s].life = source[s].life /\ source'[s].status = source[s].status

AttemptStep ==
  \/ \E s \in Sources, first \in {"pending", "indexing"} : Opens(s, first)
  \/ \E j \in JobIds, to \in Stages : Moves(j, to)
  \/ \E s \in Sources : Drops(s)
  \/ Stays

-----------------------------------------------------------------------------
(* The inductive invariant on attempts                                     *)

(* Attempts are numbered as they are opened.                               *)
Slots == \A j \in JobIds : j > opened => job[j].status = "absent"

(* An attempt's source has been created, and drops it when it is deleted.  *)
Born ==
  \A j \in JobIds : job[j].source \in Sources =>
    /\ source[job[j].source].life # "unborn"
    /\ source[job[j].source].life = "gone" => job[j].status = "absent"

(* The source shows the status of its unfinished attempt.                  *)
Shown ==
  \A j \in JobIds : job[j].status \in Active =>
    source[job[j].source].status = job[j].status

AttemptInv == Slots /\ Born /\ Shown /\ OneActiveJob

LEMMA AttemptInvInit == Init => AttemptInv
BY ProjectionAssumption
   DEF Init, AttemptInv, Slots, Born, Shown, OneActiveJob, Active, Stages, Terminal

LEMMA OpensKeeps ==
  ASSUME TypeInv, AttemptInv, NEW s \in Sources, NEW first \in {"pending", "indexing"}, Opens(s, first)
  PROVE  AttemptInv'
<1>1. /\ opened + 1 \in JobIds /\ opened' = opened + 1
      /\ job' = [job EXCEPT ![opened + 1] = [source |-> s, status |-> first]]
  BY ProjectionAssumption DEF Opens, OpenJob, TypeInv, TypeOK, JobIds
<1>2. /\ source'[s].life = "live" /\ source'[s].status = first
      /\ \A r \in Sources : r # s => source'[r] = source[r]
  BY DEF Opens, OpenJob, TypeInv, TypeOK, SourceRows
<1>3. job'[opened + 1].source = s /\ job'[opened + 1].status = first
  BY <1>1 DEF TypeInv, TypeOK
<1>4. \A j \in JobIds : j # opened + 1 => job'[j] = job[j]
  BY <1>1 DEF TypeInv, TypeOK
<1>5. \A j \in JobIds : job[j].status \in Active => job[j].source \in Sources \ {s}
  BY DEF Opens, JobsAt, TypeInv, Owned, Active, Stages
<1>6. Slots'
  BY <1>1, <1>4 DEF AttemptInv, Slots, JobIds, TypeInv, TypeOK
<1>7. Born'
  BY <1>2, <1>3, <1>4 DEF AttemptInv, Born, Opens
<1>8. Shown'
  BY <1>2, <1>3, <1>4, <1>5 DEF AttemptInv, Shown
<1>9. OneActiveJob'
  BY <1>3, <1>4, <1>5 DEF AttemptInv, OneActiveJob
<1> QED
  BY <1>6, <1>7, <1>8, <1>9 DEF AttemptInv

LEMMA MovesKeeps ==
  ASSUME TypeInv, AttemptInv, NEW j \in JobIds, NEW to \in Stages, Moves(j, to)
  PROVE  AttemptInv'
<1>1. /\ job'[j].source = job[j].source /\ job'[j].status = to
      /\ \A k \in JobIds : k # j => job'[k] = job[k]
  BY DEF Moves, TypeInv, TypeOK, JobRows
<1>2. job[j].source \in Sources /\ job[j].status \in Active /\ job[j].status # "absent"
  BY DEF Moves, TypeInv, Owned, Active, Stages
<1>3. \A s \in Sources : /\ source'[s].life = source[s].life
                         /\ s # job[j].source => source'[s].status = source[s].status
  BY DEF Moves
<1>4. source'[job[j].source].status = to
  BY <1>2 DEF Moves
<1>5. Slots'
  BY <1>1, <1>2 DEF AttemptInv, Slots, Moves
<1>6. Born'
  BY <1>1, <1>2, <1>3 DEF AttemptInv, Born
<1>7. OneActiveJob'
  BY <1>1, <1>2 DEF AttemptInv, OneActiveJob
<1>8. Shown'
  <2> SUFFICES ASSUME NEW k \in JobIds, job'[k].status \in Active
               PROVE  source'[job'[k].source].status = job'[k].status
    BY DEF Shown
  <2>1. CASE k = j
    BY <1>1, <1>4, <2>1
  <2>2. CASE k # j
    <3>1. job'[k] = job[k] /\ job[k].source # job[j].source
      BY <1>1, <1>2, <2>2 DEF AttemptInv, OneActiveJob
    <3>2. job[k].source \in Sources
      BY <3>1 DEF TypeInv, Owned, Active, Stages
    <3> QED
      BY <1>3, <3>1, <3>2 DEF AttemptInv, Shown
  <2> QED
    BY <2>1, <2>2
<1> QED
  BY <1>5, <1>6, <1>7, <1>8 DEF AttemptInv

LEMMA DropsKeeps ==
  ASSUME TypeInv, AttemptInv, NEW s \in Sources, Drops(s)
  PROVE  AttemptInv'
<1>1. \A j \in JobIds :
        /\ job'[j].source = job[j].source
        /\ job[j].source # s => job'[j] = job[j]
        /\ job[j].source = s => job'[j].status = "absent"
  BY DEF Drops, TypeInv, TypeOK, JobRows
<1>2. "absent" \notin Active
  BY DEF Active, Stages
<1>3. Slots'
  BY <1>1 DEF AttemptInv, Slots, Drops
<1>4. Born'
  BY <1>1 DEF AttemptInv, Born, Drops
<1>5. Shown'
  BY <1>1, <1>2 DEF AttemptInv, Shown, Drops, TypeInv, Owned
<1>6. OneActiveJob'
  BY <1>1, <1>2 DEF AttemptInv, OneActiveJob
<1> QED
  BY <1>3, <1>4, <1>5, <1>6 DEF AttemptInv

LEMMA StaysKeeps ==
  ASSUME TypeInv, AttemptInv, Stays
  PROVE  AttemptInv'
<1>1. \A j \in JobIds : job[j].status \in Active => job[j].source \in Sources
  BY DEF TypeInv, Owned, Active, Stages
<1> QED
  BY <1>1 DEF Stays, AttemptInv, Slots, Born, Shown, OneActiveJob

LEMMA AttemptStepKeeps ==
  ASSUME TypeInv, AttemptInv, AttemptStep
  PROVE  AttemptInv'
BY OpensKeeps, MovesKeeps, DropsKeeps, StaysKeeps DEF AttemptStep

-----------------------------------------------------------------------------
(* The inductive invariant on locks                                        *)

(* What an open transaction relies on between its steps.                   *)
Holds(q) ==
  LET s == proc[q].source IN
  /\ proc[q].pc \in {"project", "commit"} =>
       /\ sourceLock[s] = q /\ ownerLock[OwnerOf[s]] = q
       /\ job[proc[q].job].source = s /\ job[proc[q].job].status = "indexing"
  /\ proc[q].pc \in {"delOwner", "delClean", "delCommit"} =>
       ownerLock[OwnerOf[s]] = q /\ Live(s)
  /\ proc[q].pc \in {"delClean", "delCommit"} => sourceLock[s] = q
  /\ proc[q].pc = "orphans" /\ proc[q].owner \in Owners => ownerLock[proc[q].owner] = q

LockInv == \A q \in Procs : Holds(q)

(* A step of others that leaves what a transaction relies on.              *)
Undisturbed(q) ==
  /\ proc'[q] = proc[q]
  /\ \A s \in Sources : sourceLock[s] = q => sourceLock'[s] = q
  /\ \A o \in Owners : ownerLock[o] = q => ownerLock'[o] = q
  /\ \A j \in JobIds : job[j].status \in Active /\ sourceLock[job[j].source] = q => job'[j] = job[j]
  /\ \A s \in Sources : ownerLock[OwnerOf[s]] = q /\ Live(s) => source'[s].life = "live"

LEMMA LockInvInit == Init => LockInv
BY DEF Init, LockInv, Holds, Idle

LEMMA HoldsKept ==
  ASSUME TypeInv, NEW q \in Procs, Holds(q), Undisturbed(q)
  PROVE  Holds(q)'
<1> DEFINE s == proc[q].source
<1>1. proc'[q] = proc[q]
  BY DEF Undisturbed
<1>2. CASE proc[q].pc \in {"project", "commit"}
  <2>1. s \in Sources /\ OwnerOf[s] \in Owners /\ proc[q].job \in JobIds
    BY <1>2, ProjectionAssumption DEF TypeInv, Named
  <2>2. /\ sourceLock'[s] = q /\ ownerLock'[OwnerOf[s]] = q
        /\ job'[proc[q].job] = job[proc[q].job]
    BY <1>2, <2>1, "indexing" \in Active DEF Holds, Undisturbed, Active, Stages, Terminal
  <2> QED
    BY <1>1, <1>2, <2>2 DEF Holds
<1>3. CASE proc[q].pc \in {"delOwner", "delClean", "delCommit"}
  <2>1. s \in Sources /\ OwnerOf[s] \in Owners
    BY <1>3, ProjectionAssumption DEF TypeInv, Named
  <2>2. /\ ownerLock'[OwnerOf[s]] = q /\ source'[s].life = "live"
        /\ proc[q].pc \in {"delClean", "delCommit"} => sourceLock'[s] = q
    BY <1>3, <2>1 DEF Holds, Undisturbed
  <2> QED
    BY <1>1, <1>3, <2>2 DEF Holds, Live
<1>4. CASE proc[q].pc = "orphans"
  BY <1>1, <1>4 DEF Holds, Undisturbed
<1>5. CASE proc[q].pc \in {"idle", "loop", "try"}
  BY <1>1, <1>5 DEF Holds
<1>6. proc[q].pc \in {"idle", "project", "commit", "delOwner", "delClean", "delCommit",
                     "loop", "try", "orphans"}
  BY DEF TypeInv, TypeOK, ProcStates
<1> QED
  BY <1>2, <1>3, <1>4, <1>5, <1>6

(* An attempt that opens takes a slot nobody is working on.                *)
LEMMA OpensUndisturbed ==
  ASSUME TypeInv, AttemptInv, NEW s \in Sources, NEW first \in {"pending", "indexing"},
         Opens(s, first), UNCHANGED <<ownerLock, sourceLock>>,
         NEW q \in Procs, proc'[q] = proc[q]
  PROVE  Undisturbed(q)
<1>1. opened + 1 \in JobIds /\ opened \in Nat
  BY ProjectionAssumption DEF Opens, OpenJob, TypeInv, TypeOK, JobIds
<1>2. job[opened + 1].status = "absent"
  BY <1>1 DEF AttemptInv, Slots
<1>3. \A j \in JobIds : job[j].status \in Active => job'[j] = job[j]
  BY <1>1, <1>2 DEF Opens, OpenJob, TypeInv, TypeOK, Active, Stages
<1>4. \A r \in Sources : Live(r) => source'[r].life = "live"
  BY DEF Opens, OpenJob, Live, TypeInv, TypeOK, SourceRows
<1> QED
  BY <1>3, <1>4 DEF Undisturbed

(* An attempt that moves belongs to a source nobody else has locked.       *)
LEMMA MovesUndisturbed ==
  ASSUME TypeInv, NEW j \in JobIds, NEW to \in Stages, Moves(j, to),
         NEW q \in Procs, proc'[q] = proc[q], sourceLock[job[j].source] # q,
         \A s \in Sources : sourceLock[s] = q => sourceLock'[s] = q,
         \A o \in Owners : ownerLock[o] = q => ownerLock'[o] = q
  PROVE  Undisturbed(q)
<1>1. \A k \in JobIds : k # j => job'[k] = job[k]
  BY DEF Moves, TypeInv, TypeOK
<1>2. \A r \in Sources : Live(r) => source'[r].life = "live"
  BY DEF Moves, Live
<1> QED
  BY <1>1, <1>2 DEF Undisturbed

LEMMA TransitionMoves ==
  ASSUME TypeInv, NEW j \in JobIds, NEW to \in Stages, job[j].status \in Active,
         to \in Downstream(job[j].status), Transition(job[j].source, j, to), opened' = opened
  PROVE  Moves(j, to)
<1>1. job[j].source \in Sources
  BY DEF TypeInv, Owned, Active, Stages
<1>2. \A s \in Sources :
       /\ source'[s].life = source[s].life
       /\ source'[s].status = IF s = job[j].source THEN to ELSE source[s].status
  BY <1>1 DEF Transition, TypeInv, TypeOK, SourceRows
<1> QED
  BY <1>2 DEF Moves, Transition
-----------------------------------------------------------------------------
(* Every step, action by action                                            *)

(* A step of process p. *)
Fine(p) ==
  /\ AttemptStep
  /\ Holds(p)'
  /\ \A q \in Procs \ {p} : Undisturbed(q)

LEMMA FineKeeps ==
  ASSUME TypeInv, AttemptInv, LockInv, NEW p \in Procs, Fine(p)
  PROVE  AttemptStep /\ AttemptInv' /\ LockInv'
BY AttemptStepKeeps, HoldsKept DEF Fine, LockInv

(* A step of nobody's transaction. *)
LEMMA UndisturbedKeeps ==
  ASSUME TypeInv, AttemptInv, LockInv, AttemptStep, \A q \in Procs : Undisturbed(q)
  PROVE  AttemptStep /\ AttemptInv' /\ LockInv'
BY AttemptStepKeeps, HoldsKept DEF LockInv

LEMMA StaysUndisturbed ==
  ASSUME TypeInv, Stays, NEW q \in Procs, proc'[q] = proc[q],
         \A s \in Sources : sourceLock[s] = q => sourceLock'[s] = q,
         \A o \in Owners : ownerLock[o] = q => ownerLock'[o] = q
  PROVE  Undisturbed(q)
BY DEF Stays, Undisturbed, Live

LEMMA CanonicalStays == UNCHANGED canonical => Stays
BY DEF canonical, Stays

LEMMA ReleaseKeepsOthers ==
  ASSUME TypeInv, NEW p \in Procs, Release(p), NEW q \in Procs \ {p}
  PROVE  /\ \A s \in Sources : sourceLock[s] = q => sourceLock'[s] = q
         /\ \A o \in Owners : ownerLock[o] = q => ownerLock'[o] = q
BY DEF Release

LEMMA ResumeHolds ==
  ASSUME TypeInv, NEW p \in Procs, Resume(p)
  PROVE  Holds(p)' /\ \A q \in Procs \ {p} : proc'[q] = proc[q]
<1>1. proc'[p].pc \in {"idle", "loop"}
  BY DEF Resume, Idle, Rebuilding, TypeInv, TypeOK
<1>2. \A q \in Procs \ {p} : proc'[q] = proc[q]
  BY DEF Resume, TypeInv, TypeOK
<1> QED
  BY <1>1, <1>2 DEF Holds

LEMMA IdleHolds ==
  ASSUME TypeInv, NEW p \in Procs, proc' = [proc EXCEPT ![p] = Idle]
  PROVE  Holds(p)' /\ \A q \in Procs \ {p} : proc'[q] = proc[q]
BY DEF Holds, Idle, TypeInv, TypeOK

LEMMA NobodyHolds ==
  ASSUME NEW s, Unlocked(s), NEW q \in Procs
  PROVE  sourceLock[s] # q
BY ProjectionAssumption DEF Unlocked, Procs

LEMMA RequestFine ==
  ASSUME TypeInv, AttemptInv, Request
  PROVE  AttemptStep /\ \A q \in Procs : Undisturbed(q)
<1>1. UNCHANGED <<ownerLock, sourceLock, proc>>
  BY DEF Request, CreateSource, RefreshSource, ReindexSource, OperatorTransition, control
<1>2. ASSUME NEW s \in Sources, NEW first \in {"pending", "indexing"}, Opens(s, first)
      PROVE  AttemptStep /\ \A q \in Procs : Undisturbed(q)
  BY <1>1, <1>2, OpensUndisturbed DEF AttemptStep
<1>3. ASSUME NEW s \in Sources, CreateSource(s)
      PROVE  Opens(s, "pending")
  <2>1. JobsAt(s, Active) = {}
    BY <1>3 DEF CreateSource, AttemptInv, Born, JobsAt
  <2> QED
    BY <1>3, <2>1 DEF CreateSource, Opens
<1>4. ASSUME NEW s \in Sources, RefreshSource(s)
      PROVE  Opens(s, "pending")
  BY <1>4 DEF RefreshSource, Opens, Live
<1>5. ASSUME NEW s \in Sources, ReindexSource(s)
      PROVE  Opens(s, "indexing")
  BY <1>5 DEF ReindexSource, Opens, Live
<1>6. ASSUME NEW j \in JobIds, NEW to \in Stages, OperatorTransition(j, to)
      PROVE  AttemptStep /\ \A q \in Procs : Undisturbed(q)
  <2>1. job[j].source \in Sources
    BY <1>6 DEF OperatorTransition, TypeInv, Owned, Active, Stages
  <2>2. Kind[job[j].source] \in Kinds
    BY <2>1, ProjectionAssumption
  <2>3. job[j].status \in Active /\ to \in Downstream(job[j].status)
    BY <1>6, <2>2 DEF OperatorTransition, MayMove, NextStage, Downstream, Kinds, Active,
                      Stages, Terminal
  <2>4. Moves(j, to)
    BY <1>6, <2>3, TransitionMoves DEF OperatorTransition
  <2>5. \A q \in Procs : Undisturbed(q)
    BY <1>1, <1>6, <2>4, NobodyHolds, MovesUndisturbed DEF OperatorTransition
  <2> QED
    BY <2>4, <2>5 DEF AttemptStep
<1> QED
  BY <1>2, <1>3, <1>4, <1>5, <1>6 DEF Request

LEMMA CanonicalFine ==
  ASSUME TypeInv, AttemptInv, PollCanonical
  PROVE  AttemptStep /\ \A q \in Procs : Undisturbed(q)
<1>1. PICK j \in JobIds :
        \/ ParseFails(j) \/ ParseUnchanged(j) \/ ParseText(j)
        \/ \E page \in Crawls, gone \in SUBSET Uris : CrawlWebsite(j, page, gone)
        \/ SplitFails(j) \/ Split(j)
  BY DEF PollCanonical, PollDocuments
<1> DEFINE s == job[j].source
<1>2. UNCHANGED <<ownerLock, sourceLock, proc>>
  BY <1>1 DEF ParseFails, ParseUnchanged, ParseText, CrawlWebsite, StoreDocuments,
              SplitFails, Split, control
<1>3. opened' = opened
  BY <1>1 DEF ParseFails, ParseUnchanged, ParseText, CrawlWebsite, StoreDocuments,
              SplitFails, Split
<1>4. job[j].status \in {"pending", "fetching", "parsing", "chunking"} /\ Unlocked(s)
  BY <1>1 DEF ParseFails, ParseUnchanged, ParseText, CrawlWebsite, SplitFails, Split,
              Claim, MayPick, ToParse, ToSplit, ClaimStages
<1>5. job[j].status \in Active /\ s \in Sources
  BY <1>4 DEF Active, Stages, Terminal, TypeInv, Owned
<1>6. SUFFICES \E to \in Stages : Moves(j, to)
  BY <1>2, <1>4, NobodyHolds, MovesUndisturbed DEF AttemptStep
<1>7. CASE ParseFails(j) \/ SplitFails(j)
  <2>1. Transition(s, j, "failed") /\ "failed" \in Stages /\ "failed" \in Downstream(job[j].status)
    BY <1>4, <1>7 DEF ParseFails, SplitFails, Downstream, Stages
  <2> QED
    BY <1>3, <1>5, <2>1, TransitionMoves
<1>8. CASE ParseUnchanged(j)
  <2>1. Transition(s, j, "chunking") /\ job[j].status \in {"pending", "fetching", "parsing"}
    BY <1>8 DEF ParseUnchanged, Claim, MayPick, ToParse, ClaimStages
  <2>2. "chunking" \in Stages /\ "chunking" \in Downstream(job[j].status)
    BY <2>1 DEF Downstream, Stages
  <2> QED
    BY <1>3, <1>5, <2>1, <2>2, TransitionMoves
<1>9. CASE ParseText(j) \/ \E page \in Crawls, gone \in SUBSET Uris : CrawlWebsite(j, page, gone)
  <2>1. /\ job' = [job EXCEPT ![j].status = "chunking"]
        /\ source' = [source EXCEPT ![s].status = "chunking", ![s].current = FALSE]
    BY <1>9 DEF ParseText, CrawlWebsite, StoreDocuments
  <2>2. job[j].status \in {"pending", "fetching", "parsing"}
    BY <1>9 DEF ParseText, CrawlWebsite, Claim, MayPick, ToParse, ClaimStages
  <2>3. "chunking" \in Stages /\ "chunking" \in Downstream(job[j].status)
    BY <2>2 DEF Downstream, Stages
  <2>4. \A r \in Sources :
          /\ source'[r].life = source[r].life
          /\ source'[r].status = IF r = s THEN "chunking" ELSE source[r].status
    BY <1>5, <2>1 DEF TypeInv, TypeOK, SourceRows
  <2> QED
    BY <1>3, <1>5, <2>1, <2>3, <2>4 DEF Moves
<1>10. CASE Split(j)
  <2>1. /\ job' = [job EXCEPT ![j].status = "indexing"]
        /\ source' = [source EXCEPT ![s].status = "indexing", ![s].current = TRUE]
    BY <1>10 DEF Split
  <2>2. "indexing" \in Stages /\ "indexing" \in Downstream(job[j].status)
    BY <1>4 DEF Downstream, Stages
  <2>3. \A r \in Sources :
          /\ source'[r].life = source[r].life
          /\ source'[r].status = IF r = s THEN "indexing" ELSE source[r].status
    BY <1>5, <2>1 DEF TypeInv, TypeOK, SourceRows
  <2> QED
    BY <1>3, <1>5, <2>1, <2>2, <2>3 DEF Moves
<1> QED
  BY <1>1, <1>7, <1>8, <1>9, <1>10
LEMMA BeginHolds ==
  ASSUME TypeInv, AttemptInv, NEW p \in Procs, NEW j \in JobIds, job[j].status = "indexing", Begin(p, j)
  PROVE  Fine(p)
<1> DEFINE s == job[j].source
<1>1. s \in Sources /\ OwnerOf[s] \in Owners
  BY ProjectionAssumption DEF TypeInv, Owned
<1>2. /\ ownerLock[OwnerOf[s]] = None /\ sourceLock[s] = None
      /\ ownerLock' = [ownerLock EXCEPT ![OwnerOf[s]] = p]
      /\ sourceLock' = [sourceLock EXCEPT ![s] = p]
  BY DEF Begin, Lock, Unlocked
<1>3. UNCHANGED canonical
  BY DEF Begin
<1>4. /\ proc'[p].pc = "project" /\ proc'[p].source = s /\ proc'[p].job = j
      /\ \A q \in Procs \ {p} : proc'[q] = proc[q]
  BY DEF Begin, TypeInv, TypeOK, ProcStates
<1>5. ownerLock'[OwnerOf[s]] = p /\ sourceLock'[s] = p
  BY <1>1, <1>2 DEF TypeInv, TypeOK
<1>6. Holds(p)'
  BY <1>3, <1>4, <1>5 DEF Holds, canonical
<1>7. ASSUME NEW q \in Procs \ {p}
      PROVE  /\ \A r \in Sources : sourceLock[r] = q => sourceLock'[r] = q
             /\ \A o \in Owners : ownerLock[o] = q => ownerLock'[o] = q
  BY <1>1, <1>2, ProjectionAssumption DEF TypeInv, TypeOK, Procs
<1> QED
  BY <1>3, <1>4, <1>6, <1>7, CanonicalStays, StaysUndisturbed DEF Fine, AttemptStep

(* The transaction of p ends by moving its own attempt. *)
LEMMA FinishFine ==
  ASSUME TypeInv, AttemptInv, NEW p \in Procs, Holds(p), proc[p].pc \in {"project", "commit"},
         NEW to \in Terminal, Release(p), Resume(p), opened' = opened,
         job' = [job EXCEPT ![proc[p].job].status = to],
         \A r \in Sources :
           /\ source'[r].life = source[r].life
           /\ source'[r].status = IF r = proc[p].source THEN to ELSE source[r].status
  PROVE  Fine(p)
<1> DEFINE j == proc[p].job
<1>1. /\ j \in JobIds /\ job[j].source = proc[p].source
      /\ job[j].status = "indexing" /\ sourceLock[job[j].source] = p
  BY DEF Holds, TypeInv, Named
<1>2. to \in Stages /\ to \in Downstream("indexing") /\ "indexing" \in Active
  BY DEF Terminal, Stages, Downstream, Active
<1>3. Moves(j, to)
  BY <1>1, <1>2 DEF Moves
<1>4. \A q \in Procs \ {p} : Undisturbed(q)
  BY <1>1, <1>2, <1>3, ResumeHolds, ReleaseKeepsOthers, MovesUndisturbed
<1> QED
  BY <1>1, <1>2, <1>3, <1>4, ResumeHolds DEF Fine, AttemptStep

LEMMA ProjectionFine ==
  ASSUME TypeInv, AttemptInv, LockInv, NEW p \in Procs,
         \/ PollIndex(p)
         \/ RejectProjection(p) \/ UpsertBatch(p) \/ DeleteStale(p) \/ CommitReady(p)
         \/ ProjectionError(p)
  PROVE  Fine(p)
<1>0. Holds(p)
  BY DEF LockInv
<1>1. CASE PollIndex(p)
  BY <1>1, BeginHolds DEF PollIndex, BeginProjection
<1>2. CASE RejectProjection(p) \/ ProjectionError(p)
  <2>1. /\ proc[p].pc = "project" /\ Release(p) /\ Resume(p) /\ opened' = opened
        /\ Transition(proc[p].source, proc[p].job, "failed")
    BY <1>2 DEF RejectProjection, ProjectionError
  <2>2. \A r \in Sources :
           /\ source'[r].life = source[r].life
           /\ source'[r].status = IF r = proc[p].source THEN "failed" ELSE source[r].status
    BY <2>1 DEF Transition, TypeInv, TypeOK, SourceRows
  <2>3. "failed" \in Terminal
    BY DEF Terminal
  <2> QED
    BY <1>0, <2>1, <2>2, <2>3, FinishFine DEF Transition
<1>3. CASE CommitReady(p)
  <2>1. /\ proc[p].pc = "commit" /\ Release(p) /\ Resume(p) /\ opened' = opened
        /\ job' = [job EXCEPT ![proc[p].job].status = "ready"]
        /\ source' = [source EXCEPT ![proc[p].source].status = "ready",
                                    ![proc[p].source].generation = proc[p].job]
    BY <1>3 DEF CommitReady
  <2>2. \A r \in Sources :
           /\ source'[r].life = source[r].life
           /\ source'[r].status = IF r = proc[p].source THEN "ready" ELSE source[r].status
    BY <2>1 DEF TypeInv, TypeOK, SourceRows
  <2>3. "ready" \in Terminal
    BY DEF Terminal
  <2> QED
    BY <1>0, <2>1, <2>2, <2>3, FinishFine
<1>4. CASE UpsertBatch(p) \/ DeleteStale(p)
  <2>1. UNCHANGED canonical /\ UNCHANGED <<ownerLock, sourceLock>>
    BY <1>4 DEF UpsertBatch, DeleteStale
  <2>2. \A q \in Procs \ {p} : proc'[q] = proc[q]
    BY <1>4 DEF UpsertBatch, DeleteStale, TypeInv, TypeOK
  <2>3. /\ proc[p].pc = "project" /\ proc'[p].pc \in {"project", "commit"}
        /\ proc'[p].source = proc[p].source /\ proc'[p].job = proc[p].job
    BY <1>4 DEF UpsertBatch, DeleteStale, TypeInv, TypeOK, ProcStates
  <2>4. Holds(p)'
    BY <1>0, <2>1, <2>3 DEF Holds, canonical
  <2> QED
    BY <2>1, <2>2, <2>4, CanonicalStays, StaysUndisturbed DEF Fine, AttemptStep
<1> QED
  BY <1>1, <1>2, <1>3, <1>4

LEMMA DeletionFine ==
  ASSUME TypeInv, AttemptInv, LockInv, NEW p \in Procs,
         \/ \E s \in Sources : DeleteLockOwner(p, s)
         \/ DeleteLockSource(p) \/ DeletePoints(p) \/ DeleteCommit(p)
  PROVE  Fine(p)
<1>0. Holds(p)
  BY DEF LockInv
<1>1. ASSUME NEW s \in Sources, DeleteLockOwner(p, s)
      PROVE  Fine(p)
  <2>1. /\ UNCHANGED canonical /\ UNCHANGED sourceLock /\ Live(s)
        /\ ownerLock[OwnerOf[s]] = None /\ OwnerOf[s] \in Owners
        /\ ownerLock' = [ownerLock EXCEPT ![OwnerOf[s]] = p]
    BY <1>1, ProjectionAssumption DEF DeleteLockOwner
  <2>2. /\ proc'[p].pc = "delOwner" /\ proc'[p].source = s
        /\ \A q \in Procs \ {p} : proc'[q] = proc[q]
    BY <1>1 DEF DeleteLockOwner, Idle, TypeInv, TypeOK
  <2>3. ownerLock'[OwnerOf[s]] = p
    BY <2>1 DEF TypeInv, TypeOK
  <2>4. Holds(p)'
    BY <2>1, <2>2, <2>3 DEF Holds, canonical, Live
  <2>5. ASSUME NEW q \in Procs \ {p}
        PROVE  \A o \in Owners : ownerLock[o] = q => ownerLock'[o] = q
    BY <2>1, ProjectionAssumption DEF TypeInv, TypeOK, Procs
  <2> QED
    BY <2>1, <2>2, <2>4, <2>5, CanonicalStays, StaysUndisturbed DEF Fine, AttemptStep
<1>2. CASE DeleteLockSource(p)
  <2> DEFINE s == proc[p].source
  <2>1. /\ UNCHANGED canonical /\ UNCHANGED ownerLock /\ proc[p].pc = "delOwner"
        /\ sourceLock[s] = None /\ sourceLock' = [sourceLock EXCEPT ![s] = p]
    BY <1>2 DEF DeleteLockSource, Unlocked
  <2>2. /\ proc'[p].pc = "delClean" /\ proc'[p].source = s
        /\ \A q \in Procs \ {p} : proc'[q] = proc[q]
    BY <1>2 DEF DeleteLockSource, TypeInv, TypeOK, ProcStates
  <2>3. s \in Sources
    BY <2>1 DEF TypeInv, Named
  <2>4. sourceLock'[s] = p
    BY <2>1, <2>3 DEF TypeInv, TypeOK
  <2>5. Holds(p)'
    BY <1>0, <2>1, <2>2, <2>4 DEF Holds, canonical, Live
  <2>6. ASSUME NEW q \in Procs \ {p}
        PROVE  \A r \in Sources : sourceLock[r] = q => sourceLock'[r] = q
    BY <2>1, ProjectionAssumption DEF TypeInv, TypeOK, Procs
  <2> QED
    BY <2>1, <2>2, <2>5, <2>6, CanonicalStays, StaysUndisturbed DEF Fine, AttemptStep
<1>3. CASE DeletePoints(p)
  <2>1. UNCHANGED canonical /\ UNCHANGED <<ownerLock, sourceLock>> /\ proc[p].pc = "delClean"
    BY <1>3 DEF DeletePoints
  <2>2. /\ proc'[p].pc = "delCommit" /\ proc'[p].source = proc[p].source
        /\ \A q \in Procs \ {p} : proc'[q] = proc[q]
    BY <1>3 DEF DeletePoints, TypeInv, TypeOK, ProcStates
  <2>3. Holds(p)'
    BY <1>0, <2>1, <2>2 DEF Holds, canonical, Live
  <2> QED
    BY <2>1, <2>2, <2>3, CanonicalStays, StaysUndisturbed DEF Fine, AttemptStep
<1>4. CASE DeleteCommit(p)
  <2> DEFINE s == proc[p].source
  <2>1. /\ proc[p].pc = "delCommit" /\ opened' = opened /\ Release(p)
        /\ source' = [source EXCEPT ![s].life = "gone"]
        /\ job' = [j \in JobIds |-> IF job[j].source = s THEN [job[j] EXCEPT !.status = "absent"]
                                    ELSE job[j]]
        /\ proc' = [proc EXCEPT ![p] = Idle]
    BY <1>4 DEF DeleteCommit
  <2>2. s \in Sources /\ sourceLock[s] = p /\ ownerLock[OwnerOf[s]] = p /\ Live(s)
    BY <1>0, <2>1 DEF Holds, TypeInv, Named
  <2>3. Drops(s)
    <3>1. \A r \in Sources : /\ source'[r].life = IF r = s THEN "gone" ELSE source[r].life
                             /\ source'[r].status = source[r].status
      BY <2>1, <2>2 DEF TypeInv, TypeOK, SourceRows
    <3> QED
      BY <2>1, <2>2, <3>1 DEF Drops
  <2>4. ASSUME NEW q \in Procs \ {p}
        PROVE  Undisturbed(q)
    <3>1. \A r \in Sources : ownerLock[OwnerOf[r]] = q /\ Live(r) => source'[r].life = "live"
      BY <2>1, <2>2 DEF TypeInv, TypeOK, SourceRows, Live
    <3>2. \A j \in JobIds : sourceLock[job[j].source] = q => job'[j] = job[j]
      BY <2>1, <2>2
    <3>3. proc'[q] = proc[q]
      BY <2>1, IdleHolds
    <3> QED
      BY <2>1, <3>1, <3>2, <3>3, ReleaseKeepsOthers DEF Undisturbed
  <2> QED
    BY <2>1, <2>2, <2>3, <2>4, IdleHolds DEF Fine, AttemptStep
<1> QED
  BY <1>1, <1>2, <1>3, <1>4
LEMMA TakesHolds ==
  ASSUME TypeInv, NEW p \in Procs, NEW s \in Sources, RebuildTakes(p, s)
  PROVE  Holds(p)' /\ \A q \in Procs \ {p} : proc'[q] = proc[q]
<1>1. proc'[p].pc = "try"
  BY DEF RebuildTakes, Rebuilding, TypeInv, TypeOK
<1>2. \A q \in Procs \ {p} : proc'[q] = proc[q]
  BY DEF RebuildTakes, TypeInv, TypeOK
<1> QED
  BY <1>1, <1>2 DEF Holds

LEMMA RebuildFine ==
  ASSUME TypeInv, AttemptInv, LockInv, NEW p \in Procs,
         \/ \E o \in Owners : RebuildStart(p, o)
         \/ \E s \in Sources : RebuildReuses(p, s) \/ RebuildReindexes(p, s) \/ RebuildStops(p, s)
         \/ \E j \in JobIds : RebuildProjects(p, j)
         \/ RebuildSkips(p) \/ RebuildLocksOwner(p) \/ RebuildDeletesOrphans(p)
  PROVE  Fine(p)
<1>1. ASSUME UNCHANGED canonical, UNCHANGED <<ownerLock, sourceLock>>, Holds(p)',
             \A q \in Procs \ {p} : proc'[q] = proc[q]
      PROVE  Fine(p)
  BY <1>1, CanonicalStays, StaysUndisturbed DEF Fine, AttemptStep
<1>2. ASSUME NEW o \in Owners, RebuildStart(p, o)
      PROVE  Fine(p)
  <2>1. proc'[p].pc = "loop" /\ \A q \in Procs \ {p} : proc'[q] = proc[q]
    BY <1>2 DEF RebuildStart, Rebuilding, TypeInv, TypeOK
  <2> QED
    BY <1>1, <1>2, <2>1 DEF RebuildStart, Holds
<1>3. ASSUME NEW s \in Sources, RebuildReuses(p, s)
      PROVE  Fine(p)
  BY <1>1, <1>3, TakesHolds DEF RebuildReuses
<1>4. ASSUME NEW s \in Sources, RebuildReindexes(p, s)
      PROVE  Fine(p)
  <2>1. Opens(s, "indexing") /\ UNCHANGED <<ownerLock, sourceLock>> /\ RebuildTakes(p, s)
    BY <1>4 DEF RebuildReindexes, Opens, Live
  <2> QED
    BY <2>1, TakesHolds, OpensUndisturbed DEF Fine, AttemptStep
<1>5. ASSUME NEW s \in Sources, RebuildStops(p, s)
      PROVE  Fine(p)
  BY <1>1, <1>5, IdleHolds DEF RebuildStops
<1>6. ASSUME NEW j \in JobIds, RebuildProjects(p, j)
      PROVE  Fine(p)
  BY <1>6, BeginHolds DEF RebuildProjects
<1>7. CASE RebuildSkips(p)
  BY <1>1, <1>7, ResumeHolds DEF RebuildSkips
<1>8. CASE RebuildLocksOwner(p)
  <2> DEFINE o == proc[p].owner
  <2>1. /\ UNCHANGED canonical /\ UNCHANGED sourceLock /\ ownerLock[o] = None
        /\ ownerLock' = [ownerLock EXCEPT ![o] = p]
    BY <1>8 DEF RebuildLocksOwner
  <2>2. /\ proc'[p].pc = "orphans" /\ proc'[p].owner = o
        /\ \A q \in Procs \ {p} : proc'[q] = proc[q]
    BY <1>8 DEF RebuildLocksOwner, Rebuilding, TypeInv, TypeOK
  <2>3. Holds(p)'
    BY <2>1, <2>2 DEF Holds, TypeInv, TypeOK
  <2>4. ASSUME NEW q \in Procs \ {p}
        PROVE  \A r \in Owners : ownerLock[r] = q => ownerLock'[r] = q
    BY <2>1, ProjectionAssumption DEF TypeInv, TypeOK, Procs
  <2> QED
    BY <2>1, <2>2, <2>3, <2>4, CanonicalStays, StaysUndisturbed DEF Fine, AttemptStep
<1>9. CASE RebuildDeletesOrphans(p)
  <2>1. UNCHANGED canonical /\ Release(p) /\ proc' = [proc EXCEPT ![p] = Idle]
    BY <1>9 DEF RebuildDeletesOrphans
  <2> QED
    BY <2>1, IdleHolds, ReleaseKeepsOthers, CanonicalStays, StaysUndisturbed DEF Fine, AttemptStep
<1> QED
  BY <1>2, <1>3, <1>4, <1>5, <1>6, <1>7, <1>8, <1>9

LEMMA RollBackFine ==
  ASSUME TypeInv, AttemptInv, LockInv, NEW p \in Procs, RollBack(p)
  PROVE  Fine(p)
<1>1. UNCHANGED canonical /\ Release(p) /\ proc' = [proc EXCEPT ![p] = Idle]
  BY DEF RollBack
<1> QED
  BY <1>1, IdleHolds, ReleaseKeepsOthers, CanonicalStays, StaysUndisturbed DEF Fine, AttemptStep

LEMMA ProcessFine ==
  ASSUME TypeInv, AttemptInv, LockInv, NEW p \in Procs,
         PollIndex(p) \/ Continue(p) \/ Administer(p) \/ ProjectionError(p) \/ RollBack(p)
  PROVE  Fine(p)
BY ProjectionFine, DeletionFine, RebuildFine, RollBackFine DEF Continue, Administer

LEMMA AttemptInvStep ==
  TypeInv /\ AttemptInv /\ LockInv /\ [Next]_vars => AttemptStep /\ AttemptInv' /\ LockInv'
<1> SUFFICES ASSUME TypeInv, AttemptInv, LockInv, [Next]_vars
             PROVE  AttemptStep /\ AttemptInv' /\ LockInv'
  OBVIOUS
<1>1. CASE Request
  BY <1>1, RequestFine, UndisturbedKeeps
<1>2. CASE PollCanonical
  BY <1>2, CanonicalFine, UndisturbedKeeps
<1>3. ASSUME NEW p \in Procs,
             PollIndex(p) \/ Continue(p) \/ Administer(p) \/ ProjectionError(p) \/ RollBack(p)
      PROVE  Fine(p)
  BY <1>3, ProcessFine
<1>4. CASE LandLate \/ UNCHANGED vars
  <2>1. UNCHANGED <<canonical, control>>
    BY <1>4 DEF LandLate, UpsertLands, DeleteLands, vars
  <2> QED
    BY <2>1, CanonicalStays, StaysUndisturbed, UndisturbedKeeps DEF control, AttemptStep
<1> QED
  BY <1>1, <1>2, <1>3, <1>4, FineKeeps DEF Next, Quiet

-----------------------------------------------------------------------------
(* The theorems                                                            *)

IInv == TypeInv /\ AttemptInv /\ LockInv

LEMMA IInvInit == Init => IInv
BY TypeInvInit, AttemptInvInit, LockInvInit DEF IInv

LEMMA IInvStep == IInv /\ [Next]_vars => IInv'
BY TypeInvStep, AttemptInvStep DEF IInv

LEMMA IInvAlways == Spec => []IInv
BY IInvInit, IInvStep, PTL DEF Spec

(***************************************************************************)
(* A source never has two unfinished attempts, for every number of         *)
(* sources, workers, deletions and rebuilds, and through every crash: the  *)
(* unique index uq_jobs_active_source never has to refuse anything.        *)
(***************************************************************************)
THEOREM OneActiveJobAlways == Spec => []OneActiveJob
<1>1. IInv => OneActiveJob
  BY DEF IInv, AttemptInv
<1> QED
  BY <1>1, IInvAlways, PTL

(***************************************************************************)
(* The attempt that a projection is about to commit is still the one it    *)
(* claimed, at "indexing", under both of its locks (process_index_next     *)
(* reads it once, before all its remote writes).                           *)
(***************************************************************************)
THEOREM ProjectionKeepsItsAttempt ==
  Spec => [](\A p \in Procs : proc[p].pc = "commit" =>
               /\ job[proc[p].job].source = proc[p].source
               /\ job[proc[p].job].status = "indexing"
               /\ sourceLock[proc[p].source] = p)
<1>1. IInv => \A p \in Procs : proc[p].pc = "commit" =>
               /\ job[proc[p].job].source = proc[p].source
               /\ job[proc[p].job].status = "indexing"
               /\ sourceLock[proc[p].source] = p
  BY DEF IInv, LockInv, Holds
<1> QED
  BY <1>1, IInvAlways, PTL

-----------------------------------------------------------------------------
(* The status a source shows                                               *)

(* A slot that was never opened belongs to no source, and an unfinished    *)
(* attempt is the newest of its source.                                    *)
Unopened == \A j \in JobIds : j > opened => job[j].source \notin Sources

ActiveIsNewest ==
  \A j, k \in JobIds :
    job[j].status \in Active /\ job[k].source = job[j].source => k <= j

NewestInv == Unopened /\ ActiveIsNewest /\ SourceShowsNewestJob

(* What SourceShowsNewestJob says of one source. *)
ShowsNewest(s) ==
  \E j \in JobIds :
    /\ job[j].source = s
    /\ \A k \in JobIds : job[k].source = s => k <= j
    /\ source[s].status = job[j].status

LEMMA ShowsNewestIsEnough ==
  SourceShowsNewestJob <=> \A s \in Sources : Live(s) => ShowsNewest(s)
BY DEF SourceShowsNewestJob, ShowsNewest

LEMMA NewestInvInit == Init => NewestInv
BY ProjectionAssumption
   DEF Init, NewestInv, Unopened, ActiveIsNewest, SourceShowsNewestJob, Live, Active, Stages

(* The attempt that opens gets the highest number of all. *)
LEMMA OpensNewest ==
  ASSUME IInv, NewestInv, NEW s \in Sources, NEW first \in {"pending", "indexing"}, Opens(s, first)
  PROVE  NewestInv'
<1> DEFINE n == opened + 1
<1>1. /\ n \in JobIds /\ opened' = n /\ opened \in Nat
      /\ job' = [job EXCEPT ![n] = [source |-> s, status |-> first]]
      /\ source' = [source EXCEPT ![s].life = "live", ![s].status = first]
  BY ProjectionAssumption DEF Opens, OpenJob, IInv, TypeInv, TypeOK, JobIds
<1>2. /\ source'[s].status = first
      /\ \A r \in Sources \ {s} : source'[r] = source[r]
  BY <1>1 DEF IInv, TypeInv, TypeOK, SourceRows
<1>3. /\ job'[n].source = s /\ job'[n].status = first
      /\ \A j \in JobIds : j # n => job'[j] = job[j]
  BY <1>1 DEF IInv, TypeInv, TypeOK
<1>4. \A j \in JobIds : job[j].source \in Sources => j < n /\ j # n
  BY <1>1 DEF NewestInv, Unopened, JobIds
<1>5. \A j \in JobIds : job[j].status \in Active => job[j].source \in Sources \ {s}
  BY DEF Opens, JobsAt, IInv, TypeInv, Owned, Active, Stages
<1>6. Unopened'
  BY <1>1, <1>3, <1>4 DEF Unopened, JobIds
<1>7. ActiveIsNewest'
  <2> SUFFICES ASSUME NEW j \in JobIds, NEW k \in JobIds,
                      job'[j].status \in Active, job'[k].source = job'[j].source
               PROVE  k <= j
    BY DEF ActiveIsNewest
  <2>1. CASE j = n
    BY <1>1, <1>3, <1>4, <2>1 DEF JobIds
  <2>2. CASE j # n
    <3>1. job'[j] = job[j] /\ job[j].source # s
      BY <1>3, <1>5, <2>2
    <3>2. job'[k] = job[k]
      BY <1>3, <3>1
    <3> QED
      BY <3>1, <3>2 DEF NewestInv, ActiveIsNewest
  <2> QED
    BY <2>1, <2>2
<1>8. ASSUME NEW r \in Sources, Live(r)'
      PROVE  ShowsNewest(r)'
  <2>1. CASE r = s
    <3>1. \A k \in JobIds : job'[k].source = s => k <= n
      BY <1>1, <1>3, <1>4 DEF JobIds
    <3> QED
      BY <1>1, <1>2, <1>3, <2>1, <3>1 DEF ShowsNewest
  <2>2. CASE r # s
    <3>1. source'[r] = source[r] /\ Live(r)
      BY <1>2, <1>8, <2>2 DEF Live
    <3>2. PICK j \in JobIds : /\ job[j].source = r
                              /\ \A k \in JobIds : job[k].source = r => k <= j
                              /\ source[r].status = job[j].status
      BY <3>1, ShowsNewestIsEnough DEF NewestInv, ShowsNewest
    <3>3. \A k \in JobIds : job'[k].source = r <=> job[k].source = r
      BY <1>1, <1>3, <1>4, <2>2
    <3>4. job'[j] = job[j]
      BY <1>3, <1>4, <3>2
    <3> QED
      BY <3>1, <3>2, <3>3, <3>4 DEF ShowsNewest
  <2> QED
    BY <2>1, <2>2
<1>9. SourceShowsNewestJob'
  BY <1>8 DEF SourceShowsNewestJob, ShowsNewest, Live
<1> QED
  BY <1>6, <1>7, <1>9 DEF NewestInv

(* The attempt that moves is the newest of its source, so that the status  *)
(* the source takes over is the one it should show.                        *)
LEMMA MovesNewest ==
  ASSUME IInv, NewestInv, NEW j \in JobIds, NEW to \in Stages, Moves(j, to)
  PROVE  NewestInv'
<1>1. /\ job'[j].source = job[j].source /\ job'[j].status = to
      /\ \A k \in JobIds : k # j => job'[k] = job[k]
  BY DEF Moves, IInv, TypeInv, TypeOK, JobRows
<1>2. job[j].status \in Active /\ job[j].source \in Sources /\ opened' = opened
  BY DEF Moves, IInv, TypeInv, Owned, Active, Stages
<1>3. \A k \in JobIds : job'[k].source = job[k].source
  BY <1>1
<1>4. \A k \in JobIds : job[k].source = job[j].source => k <= j
  BY <1>2 DEF NewestInv, ActiveIsNewest
<1>5. Unopened' /\ ActiveIsNewest'
  BY <1>1, <1>2, <1>3 DEF NewestInv, Unopened, ActiveIsNewest
<1>6. ASSUME NEW r \in Sources, Live(r)'
      PROVE  ShowsNewest(r)'
  <2>1. Live(r) /\ source'[r].status = IF r = job[j].source THEN to ELSE source[r].status
    BY <1>6 DEF Moves, Live
  <2>2. CASE r = job[j].source
    BY <1>1, <1>3, <1>4, <2>1, <2>2 DEF ShowsNewest
  <2>3. CASE r # job[j].source
    <3>1. PICK k \in JobIds : /\ job[k].source = r
                              /\ \A i \in JobIds : job[i].source = r => i <= k
                              /\ source[r].status = job[k].status
      BY <2>1, ShowsNewestIsEnough DEF NewestInv, ShowsNewest
    <3> QED
      BY <1>1, <1>3, <2>1, <2>3, <3>1 DEF ShowsNewest
  <2> QED
    BY <2>2, <2>3
<1>7. SourceShowsNewestJob'
  BY <1>6 DEF SourceShowsNewestJob, ShowsNewest, Live
<1> QED
  BY <1>5, <1>7 DEF NewestInv

LEMMA DropsNewest ==
  ASSUME IInv, NewestInv, NEW s \in Sources, Drops(s)
  PROVE  NewestInv'
<1>1. \A j \in JobIds :
        /\ job'[j].source = job[j].source
        /\ job[j].source # s => job'[j] = job[j]
        /\ job[j].source = s => job'[j].status = "absent"
  BY DEF Drops, IInv, TypeInv, TypeOK, JobRows
<1>2. "absent" \notin Active /\ opened' = opened
  BY DEF Active, Stages, Drops
<1>3. Unopened' /\ ActiveIsNewest'
  BY <1>1, <1>2 DEF NewestInv, Unopened, ActiveIsNewest
<1>4. ASSUME NEW r \in Sources, Live(r)'
      PROVE  ShowsNewest(r)'
  <2>1. r # s /\ Live(r) /\ source'[r].status = source[r].status
    BY <1>4 DEF Drops, Live
  <2>2. PICK k \in JobIds : /\ job[k].source = r
                            /\ \A i \in JobIds : job[i].source = r => i <= k
                            /\ source[r].status = job[k].status
    BY <2>1, ShowsNewestIsEnough DEF NewestInv, ShowsNewest
  <2> QED
    BY <1>1, <2>1, <2>2 DEF ShowsNewest
<1>5. SourceShowsNewestJob'
  BY <1>4 DEF SourceShowsNewestJob, ShowsNewest, Live
<1> QED
  BY <1>3, <1>5 DEF NewestInv

LEMMA StaysNewest ==
  ASSUME NewestInv, Stays
  PROVE  NewestInv'
<1>1. Unopened' /\ ActiveIsNewest'
  BY DEF Stays, NewestInv, Unopened, ActiveIsNewest
<1>2. ASSUME NEW r \in Sources, Live(r)'
      PROVE  ShowsNewest(r)'
  <2>1. Live(r) /\ source'[r].status = source[r].status
    BY <1>2 DEF Stays, Live
  <2>2. ShowsNewest(r)
    BY <2>1, ShowsNewestIsEnough DEF NewestInv
  <2> QED
    BY <2>1, <2>2 DEF Stays, ShowsNewest
<1>3. SourceShowsNewestJob'
  BY <1>2 DEF SourceShowsNewestJob, ShowsNewest, Live
<1> QED
  BY <1>1, <1>3 DEF NewestInv

LEMMA NewestInvStep == IInv /\ NewestInv /\ [Next]_vars => NewestInv'
<1> SUFFICES ASSUME IInv, NewestInv, [Next]_vars
             PROVE  NewestInv'
  OBVIOUS
<1>1. AttemptStep
  BY AttemptInvStep DEF IInv
<1> QED
  BY <1>1, OpensNewest, MovesNewest, DropsNewest, StaysNewest DEF AttemptStep

(***************************************************************************)
(* The source row shows the status of its newest attempt in every          *)
(* reachable state, for every number of sources and attempts, although     *)
(* requests, workers, operators and rebuilds write it independently.       *)
(***************************************************************************)
THEOREM SourceShowsNewestJobAlways == Spec => []SourceShowsNewestJob
<1>1. Init => IInv /\ NewestInv
  BY IInvInit, NewestInvInit
<1>2. IInv /\ NewestInv /\ [Next]_vars => (IInv /\ NewestInv)'
  BY IInvStep, NewestInvStep
<1>3. NewestInv => SourceShowsNewestJob
  BY DEF NewestInv
<1> QED
  BY <1>1, <1>2, <1>3, PTL DEF Spec

-----------------------------------------------------------------------------
(* The pipeline implements the contract on attempts                        *)

LEMMA LifecycleInit == Init => Lifecycle!Init
BY DEF Init, Lifecycle!Init, Lifecycle!JobIds, JobIds

(* Both modules mean the same by a stage. *)
LEMMA SameStages ==
  /\ Lifecycle!Stages = Stages /\ Lifecycle!Active = Active
  /\ \A stage : Lifecycle!Downstream(stage) = Downstream(stage)
BY DEF Lifecycle!Stages, Lifecycle!Active, Lifecycle!Terminal, Lifecycle!Downstream,
       Stages, Active, Terminal, Downstream

LEMMA LifecycleStep == IInv /\ AttemptStep => [Lifecycle!Next]_(Lifecycle!vars)
<1> SUFFICES ASSUME TypeInv, AttemptInv, AttemptStep
             PROVE  [Lifecycle!Next]_(Lifecycle!vars)
  BY DEF IInv
<1> DEFINE attemptOf == [j \in JobIds |-> job[j].source]
           attemptStatus == [j \in JobIds |-> job[j].status]
           retired == {s \in Sources : source[s].life = "gone"}
<1>1. ASSUME NEW s \in Sources, NEW first \in {"pending", "indexing"}, Opens(s, first)
      PROVE  Lifecycle!Open(s, first)
  <2>1. /\ opened < MaxJobs /\ opened' = opened + 1 /\ opened + 1 \in JobIds
        /\ job' = [job EXCEPT ![opened + 1] = [source |-> s, status |-> first]]
    BY <1>1, ProjectionAssumption DEF Opens, OpenJob, TypeInv, TypeOK, JobIds
  <2>2. attemptOf' = [attemptOf EXCEPT ![opened + 1] = s]
    BY <2>1 DEF TypeInv, TypeOK
  <2>3. attemptStatus' = [attemptStatus EXCEPT ![opened + 1] = first]
    BY <2>1 DEF TypeInv, TypeOK
  <2>4. retired' = retired /\ s \notin retired
    BY <1>1 DEF Opens, OpenJob, TypeInv, TypeOK, SourceRows
  <2>5. \A j \in JobIds : ~(attemptOf[j] = s /\ attemptStatus[j] \in Active)
    BY <1>1 DEF Opens, JobsAt
  <2> QED
    BY <2>1, <2>2, <2>3, <2>4, <2>5, SameStages
       DEF Lifecycle!Open, Lifecycle!Unfinished, Lifecycle!JobIds, JobIds
<1>2. ASSUME NEW j \in JobIds, NEW to \in Stages, Moves(j, to)
      PROVE  Lifecycle!Move(j, to)
  <2>1. attemptOf' = attemptOf /\ attemptStatus' = [attemptStatus EXCEPT ![j] = to]
    BY <1>2 DEF Moves, TypeInv, TypeOK, JobRows
  <2>2. retired' = retired
    BY <1>2 DEF Moves
  <2>3. attemptStatus[j] = job[j].status
    OBVIOUS
  <2> QED
    BY <1>2, <2>1, <2>2, <2>3, SameStages DEF Moves, Lifecycle!Move
<1>3. ASSUME NEW s \in Sources, Drops(s)
      PROVE  Lifecycle!Retire(s)
  <2>1. /\ attemptOf' = attemptOf
        /\ attemptStatus' = [j \in JobIds |-> IF attemptOf[j] = s THEN "absent" ELSE attemptStatus[j]]
    BY <1>3 DEF Drops, TypeInv, TypeOK, JobRows
  <2>2. retired' = retired \cup {s} /\ s \notin retired
    BY <1>3 DEF Drops, Live
  <2> QED
    BY <1>3, <2>1, <2>2 DEF Drops, Lifecycle!Retire, Lifecycle!JobIds, JobIds
<1>4. CASE Stays
  BY <1>4 DEF Stays, Lifecycle!vars
<1> QED
  BY <1>1, <1>2, <1>3, <1>4, SameStages DEF AttemptStep, Lifecycle!Next, Lifecycle!JobIds, JobIds

(***************************************************************************)
(* The pipeline implements the contract of JobLifecycle: every step opens  *)
(* an attempt where there is none unfinished, moves one forward, drops     *)
(* those of a source that is deleted for good, or is invisible.            *)
(***************************************************************************)
THEOREM PipelineImplementsLifecycle == Spec => ImplementsLifecycle
<1>1. IInv /\ [Next]_vars => [Lifecycle!Next]_(Lifecycle!vars)
  BY LifecycleStep, AttemptInvStep DEF IInv
<1> QED
  BY <1>1, LifecycleInit, IInvAlways, PTL DEF Spec, ImplementsLifecycle, Lifecycle!Spec
=============================================================================
