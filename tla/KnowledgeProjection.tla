------------------------- MODULE KnowledgeProjection -------------------------
(***************************************************************************)
(* The ingestion pipeline of the Python knowledge service and its two      *)
(* stores: the canonical rows in Postgres (sources, attempts, documents,   *)
(* chunks) and the disposable projection in Qdrant (points).               *)
(*                                                                         *)
(* One step is one database transaction, unless the transaction talks to   *)
(* Qdrant half way: such a transaction is split at every remote write,     *)
(* with the locks it holds kept in ownerLock and sourceLock, and it can    *)
(* lose its connection between any two of its steps.  Rows it writes are   *)
(* visible to others only from its committing step.                        *)
(***************************************************************************)
EXTENDS Naturals, FiniteSets, JobStages

CONSTANTS
  Sources,          (* source identities, never reused                     *)
  Owners,           (* bearer-token owners                                 *)
  OwnerOf,          (* the owner of each source                            *)
  Kind,             (* "url" or "text" for each source                     *)
  Uris,             (* document identities within a source                 *)
  TextUri,          (* the URI of the only document of a text source       *)
  Contents,         (* revisions a document can have                       *)
  TextContent,      (* what a text source's retained input parses to       *)
  Pieces,           (* the chunk hashes each revision is split into        *)
  Workers,          (* polling ingestion workers (API processes)           *)
  Admins,           (* deletion requests and rebuild-index commands        *)
  BatchSize,        (* settings.index_batch_size                           *)
  MaxChunks,        (* settings.max_chunks_per_source                      *)
  MaxPages,         (* settings.web_max_pages                              *)
  OperatorTargets,  (* statuses the operator sets with transition-job      *)
  LateDelivery,     (* may an abandoned write still be applied later?      *)
  MaxJobs,          (* bound: attempts opened                              *)
  MaxFaults,        (* bound: lost connections and backend errors          *)
  MaxRebuilds,      (* bound: rebuild-index commands                       *)
  None

JobIds == 1..MaxJobs
Procs == Workers \cup Admins

ASSUME ProjectionAssumption ==
  /\ OwnerOf \in [Sources -> Owners]
  /\ Kind \in [Sources -> Kinds]
  /\ TextUri \in Uris /\ TextContent \in Contents
  /\ DOMAIN Pieces = Contents
  /\ \A c \in Contents : IsFiniteSet(Pieces[c]) /\ Pieces[c] # {}
  /\ BatchSize \in Nat \ {0} /\ MaxChunks \in Nat /\ MaxPages \in Nat
  /\ OperatorTargets \subseteq Stages
  /\ LateDelivery \in BOOLEAN
  /\ MaxJobs \in Nat /\ MaxFaults \in Nat /\ MaxRebuilds \in Nat
  /\ None \notin Sources \cup Owners \cup Procs \cup Contents

AllPieces == UNION {Pieces[c] : c \in Contents}

(***************************************************************************)
(* A chunk's UUID is derived from its document row, its hash and its       *)
(* occurrence.  A document row is named by its source, its URI and the     *)
(* attempt that inserted it: a page deleted and seen again gets a new row. *)
(***************************************************************************)
ChunkIds == [source : Sources, uri : Uris, row : JobIds, piece : AllPieces]

(* A point carries its chunk's id and the attempt that projected it.       *)
Points == [chunk : ChunkIds, generation : JobIds]

(***************************************************************************)
(* The filter of a delete: the sources whose points it matches and the     *)
(* attempt whose points it spares (0: none).  It is evaluated by Qdrant    *)
(* when it is applied, not when it is sent.                                *)
(***************************************************************************)
Filters == [sources : SUBSET Sources, spared : 0..MaxJobs]

(* row = 0: there is no document at this URI.                              *)
NoDocument == [row |-> 0, content |-> None, snapshot |-> None]

Idle == [pc |-> "idle", source |-> None, owner |-> None, job |-> 0,
         todo |-> {}, ids |-> {}]

(* A rebuild-index command between its projections: its owner, the source  *)
(* it is at and the sources it has before it (or, at the end, keeps).      *)
Rebuilding(pc, o, s, ids) ==
  [pc |-> pc, source |-> s, owner |-> o, job |-> 0, todo |-> {}, ids |-> ids]

VARIABLES
  source,      (* per source: life, status, chunks_current, index generation *)
  job,         (* per attempt: the source it belongs to and its status     *)
  opened,      (* attempts opened so far                                   *)
  documents,   (* per source and URI: the canonical document row           *)
  chunks,      (* the canonical chunk rows                                 *)
  points,      (* the points in the Qdrant collection                      *)
  inflight,    (* upserts of abandoned requests that may still land        *)
  erasures,    (* deletes of abandoned requests that may still be applied  *)
  ownerLock,   (* holder of each owner's advisory lock                     *)
  sourceLock,  (* holder of each source row's lock, if it outlives a step  *)
  proc,        (* the open transaction of each process                     *)
  faults,      (* lost connections and backend errors so far               *)
  rebuilds,    (* rebuild-index commands so far                            *)
  disturbed    (* sources with points removed by a deletion that has not   *)
               (* committed, and not projected again since (history only)  *)

canonical == <<source, job, opened, documents, chunks>>
remote == <<points, inflight, erasures>>
control == <<ownerLock, sourceLock, proc>>
bounds == <<faults, rebuilds>>
vars == <<canonical, remote, control, bounds, disturbed>>

-----------------------------------------------------------------------------
(* Rows                                                                    *)

Live(s) == source[s].life = "live"
ChunksOf(s) == {c \in chunks : c.source = s}
PointsOf(s) == {p \in points : p.chunk.source = s}
JobsAt(s, stages) == {j \in JobIds : job[j].source = s /\ job[j].status \in stages}
DocumentUris(s) == {u \in Uris : documents[s][u].row # 0}

(* No transaction that outlives a step holds the row (FOR UPDATE waits for *)
(* one, SKIP LOCKED passes over the source).                               *)
Unlocked(s) == sourceLock[s] = None

(***************************************************************************)
(* A poll picks the oldest claimable job whose source is not locked.  Any  *)
(* other worker, request or operator may hold an older one for the length  *)
(* of its own step, so any unlocked claimable job may be the one picked.   *)
(***************************************************************************)
MayPick(j, claimable) == j \in claimable /\ Unlocked(job[j].source)

(* apply_transition: the source row follows its job row.                   *)
Transition(s, j, to) ==
  /\ job' = [job EXCEPT ![j].status = to]
  /\ source' = [source EXCEPT ![s].status = to]

(* Refuted variant: one more attempt than the bound allows.                *)
OpenJobPastBound(s, first) ==
  /\ opened <= MaxJobs
  /\ opened' = opened + 1
  /\ job' = [j \in JobIds \cup {opened + 1} |->
              IF j = opened + 1 THEN [source |-> s, status |-> first] ELSE job[j]]
  /\ source' = [source EXCEPT ![s].life = "live", ![s].status = first]

(* Refuted variant: the source keeps the status of its previous attempt.   *)
OpenJobOnly(s, first) ==
  /\ opened < MaxJobs
  /\ opened' = opened + 1
  /\ job' = [job EXCEPT ![opened + 1] = [source |-> s, status |-> first]]
  /\ source' = [source EXCEPT ![s].life = "live"]

OpenJob(s, first) ==
  /\ opened < MaxJobs
  /\ opened' = opened + 1
  /\ job' = [job EXCEPT ![opened + 1] = [source |-> s, status |-> first]]
  /\ source' = [source EXCEPT ![s].life = "live", ![s].status = first]

-----------------------------------------------------------------------------
(* Requests and the operator                                               *)

CreateSource(s) ==
  /\ source[s].life = "unborn"
  /\ OpenJob(s, "pending")
  /\ UNCHANGED <<documents, chunks, remote, control, bounds, disturbed>>

(* Refuted variant: unfinished work is not looked for.                     *)
RefreshAlways(s) ==
  /\ Live(s) /\ Unlocked(s)
  /\ OpenJob(s, "pending")
  /\ UNCHANGED <<documents, chunks, remote, control, bounds, disturbed>>

(* An unfinished attempt is returned instead of a new one.                 *)
RefreshSource(s) ==
  /\ Live(s) /\ Unlocked(s)
  /\ JobsAt(s, Active) = {}
  /\ OpenJob(s, "pending")
  /\ UNCHANGED <<documents, chunks, remote, control, bounds, disturbed>>

(***************************************************************************)
(* reindex_source: a new attempt that starts at "indexing", refused while  *)
(* the chunks are older than the documents, or when there are none.        *)
(***************************************************************************)
Reindexable(s) == source[s].current /\ ChunksOf(s) # {}

ReindexSource(s) ==
  /\ Live(s) /\ Unlocked(s)
  /\ JobsAt(s, Active) = {}
  /\ Reindexable(s)
  /\ OpenJob(s, "indexing")
  /\ UNCHANGED <<documents, chunks, remote, control, bounds, disturbed>>

OperatorTransition(j, to) ==
  /\ job[j].status \in Active
  /\ Unlocked(job[j].source)
  /\ to \in OperatorTargets \ {job[j].status}
  /\ MayMove(Kind[job[j].source], job[j].status, to)
  /\ Transition(job[j].source, j, to)
  /\ UNCHANGED <<opened, documents, chunks, remote, control, bounds, disturbed>>

-----------------------------------------------------------------------------
(* Parsing and crawling: process_next                                      *)

ClaimStages(kind) == IF kind = "url" THEN {"pending", "fetching"}
                                     ELSE {"pending", "parsing"}

ToParse == {j \in JobIds : /\ job[j].status # "absent"
                           /\ job[j].status \in ClaimStages(Kind[job[j].source])}

SomeWorkerIdle == \E w \in Workers : proc[w].pc = "idle"

Claim(j, claimable) == SomeWorkerIdle /\ MayPick(j, claimable)

(* A parser or crawler error ends the attempt and leaves the rows alone.   *)
ParseFails(j) ==
  /\ Claim(j, ToParse)
  /\ Transition(job[j].source, j, "failed")
  /\ UNCHANGED <<opened, documents, chunks, remote, control, bounds, disturbed>>

(* The input and every limit are those of the stored document.             *)
ParseUnchanged(j) ==
  LET s == job[j].source IN
  /\ Claim(j, ToParse)
  /\ Kind[s] = "text"
  /\ TextUri \in DocumentUris(s)
  /\ Transition(s, j, "chunking")
  /\ UNCHANGED <<opened, documents, chunks, remote, control, bounds, disturbed>>

(***************************************************************************)
(* What an attempt leaves of the documents when it observed page[u] at     *)
(* each u with page[u] # None and established the absence of gone: rows    *)
(* that exist keep their identity and their chunk snapshot.                *)
(***************************************************************************)
Stored(s, j, page, gone) ==
  [u \in Uris |->
     LET d == documents[s][u] IN
     CASE page[u] # None -> [row |-> IF d.row = 0 THEN j ELSE d.row,
                             content |-> page[u], snapshot |-> d.snapshot]
       [] u \in gone     -> NoDocument
       [] OTHER          -> d]

(* Documents are written, chunks are declared outdated, the chunks of      *)
(* deleted documents cascade.                                              *)
StoreDocuments(s, j, page, gone) ==
  /\ documents' = [documents EXCEPT ![s] = Stored(s, j, page, gone)]
  /\ chunks' = {c \in chunks : ~(c.source = s /\ c.uri \in gone)}
  /\ job' = [job EXCEPT ![j].status = "chunking"]
  /\ source' = [source EXCEPT ![s].status = "chunking", ![s].current = FALSE]
  /\ UNCHANGED <<opened, remote, control, bounds, disturbed>>

ParseText(j) ==
  /\ Claim(j, ToParse)
  /\ Kind[job[j].source] = "text"
  /\ StoreDocuments(job[j].source, j,
                    [u \in Uris |-> IF u = TextUri THEN TextContent ELSE None], {})

(***************************************************************************)
(* A crawl observes some pages.  An exhausted crawl establishes that every *)
(* other page is gone, any other crawl only those that answered 404 or     *)
(* 410, and it may not leave more pages than the limit.                    *)
(***************************************************************************)
CrawlWebsite(j, page, gone) ==
  LET s == job[j].source
      observed == {u \in Uris : page[u] # None}
      retained == (DocumentUris(s) \ observed) \ gone
  IN
  /\ Claim(j, ToParse)
  /\ Kind[s] = "url"
  /\ observed # {} /\ observed \cap gone = {}
  /\ Cardinality(observed) + Cardinality(retained) <= MaxPages
  /\ StoreDocuments(s, j, page, gone)

-----------------------------------------------------------------------------
(* Chunking: process_chunk_next                                            *)

ToSplit == {j \in JobIds : job[j].status = "chunking"}

DocumentChunks(s, u) == {c \in chunks : c.source = s /\ c.uri = u}

SplitOf(s, u) == {[source |-> s, uri |-> u, row |-> documents[s][u].row, piece |-> x] :
                     x \in Pieces[documents[s][u].content]}

(* Refuted variant: chunks of any revision do if there are enough of them. *)
SnapshotSuffices(s, u) ==
  /\ documents[s][u].snapshot # None
  /\ Cardinality(DocumentChunks(s, u)) >= Cardinality(SplitOf(s, u))

(* The chunks are those of this very revision, and all of them are there.  *)
SnapshotHolds(s, u) ==
  /\ documents[s][u].snapshot = documents[s][u].content
  /\ Cardinality(DocumentChunks(s, u)) = Cardinality(SplitOf(s, u))

Outdated(s) == {u \in DocumentUris(s) : ~SnapshotHolds(s, u)}

Replanned(s) ==
  {c \in chunks : ~(c.source = s /\ c.uri \in Outdated(s))}
    \cup UNION {SplitOf(s, u) : u \in Outdated(s)}

(* One transaction under the row's lock, in one step here: its loops over  *)
(* the documents are the steps of ChunkTransaction, which implements this. *)
SplitFails(j) ==
  /\ Claim(j, ToSplit)
  /\ Transition(job[j].source, j, "failed")
  /\ UNCHANGED <<opened, documents, chunks, remote, control, bounds, disturbed>>

Split(j) ==
  LET s == job[j].source IN
  /\ Claim(j, ToSplit)
  /\ DocumentUris(s) # {}
  /\ Cardinality({c \in Replanned(s) : c.source = s}) <= MaxChunks
  /\ chunks' = Replanned(s)
  /\ documents' = [documents EXCEPT ![s] =
                     [u \in Uris |-> IF u \in Outdated(s)
                                     THEN [documents[s][u] EXCEPT !.snapshot = documents[s][u].content]
                                     ELSE documents[s][u]]]
  /\ job' = [job EXCEPT ![j].status = "indexing"]
  /\ source' = [source EXCEPT ![s].status = "indexing", ![s].current = TRUE]
  /\ UNCHANGED <<opened, remote, control, bounds, disturbed>>

-----------------------------------------------------------------------------
(* Projection: process_index_next and project_source                       *)

(* Refuted variant: locks survive the transaction (session-level locks).   *)
ReleaseNothing(p) == UNCHANGED <<ownerLock, sourceLock>>

Release(p) ==
  /\ ownerLock' = [o \in Owners |-> IF ownerLock[o] = p THEN None ELSE ownerLock[o]]
  /\ sourceLock' = [s \in Sources |-> IF sourceLock[s] = p THEN None ELSE sourceLock[s]]

(* A worker polls again; a rebuild goes on with its next source.           *)
Resume(p) ==
  proc' = [proc EXCEPT ![p] =
             IF p \in Workers THEN Idle
             ELSE Rebuilding("loop", proc[p].owner, None, proc[p].ids)]

ToIndex(o) == {j \in JobIds : /\ job[j].status = "indexing"
                              /\ OwnerOf[job[j].source] = o}

(* Refuted variant: no lock at all.                                        *)
LockNothing(p, s) == UNCHANGED <<ownerLock, sourceLock>>

(* The owner's advisory lock is tried, never waited for, and taken before  *)
(* the source row.                                                         *)
Lock(p, s) ==
  /\ ownerLock[OwnerOf[s]] = None /\ Unlocked(s)
  /\ ownerLock' = [ownerLock EXCEPT ![OwnerOf[s]] = p]
  /\ sourceLock' = [sourceLock EXCEPT ![s] = p]

Begin(p, j) ==
  LET s == job[j].source IN
  /\ Lock(p, s)
  /\ proc' = [proc EXCEPT ![p] = [@ EXCEPT !.pc = "project", !.source = s, !.job = j,
                                           !.todo = ChunksOf(s)]]
  /\ UNCHANGED <<canonical, remote, bounds, disturbed>>

BeginProjection(p, j) ==
  /\ p \in Workers /\ proc[p].pc = "idle"
  /\ job[j].status = "indexing"
  /\ MayPick(j, ToIndex(OwnerOf[job[j].source]))
  /\ Begin(p, j)

Projectable(s) == ChunksOf(s) # {} /\ Cardinality(ChunksOf(s)) <= MaxChunks

(* index_no_chunks: refused before any remote write.                       *)
RejectProjection(p) ==
  /\ proc[p].pc = "project"
  /\ ~Projectable(proc[p].source)
  /\ Transition(proc[p].source, proc[p].job, "failed")
  /\ Release(p) /\ Resume(p)
  /\ UNCHANGED <<opened, documents, chunks, remote, bounds, disturbed>>

(* The next request to send, in any order of the rows.                     *)
Batches(todo) ==
  {b \in SUBSET todo : Cardinality(b) = IF Cardinality(todo) < BatchSize
                                        THEN Cardinality(todo) ELSE BatchSize}

Stamp(cs, j) == {[chunk |-> c, generation |-> j] : c \in cs}

(* A point is replaced as a whole when its id is written again.            *)
Upserted(ps, stamped) ==
  {p \in ps : \A q \in stamped : q.chunk # p.chunk} \cup stamped

UpsertBatch(p) ==
  /\ proc[p].pc = "project"
  /\ Projectable(proc[p].source)
  /\ proc[p].todo # {}
  /\ \E batch \in Batches(proc[p].todo) :
       /\ points' = Upserted(points, Stamp(batch, proc[p].job))
       /\ proc' = [proc EXCEPT ![p].todo = @ \ batch]
  /\ UNCHANGED <<canonical, inflight, erasures, ownerLock, sourceLock, bounds, disturbed>>

Matching(f) == {q \in points : q.chunk.source \in f.sources /\ q.generation # f.spared}

(* Refuted variant: points of earlier generations stay.                    *)
StaleNever(s, j) == [sources |-> {}, spared |-> j]

Stale(s, j) == [sources |-> {s}, spared |-> j]

(* Only once every chunk of the source was acknowledged.                   *)
DeleteStale(p) ==
  /\ proc[p].pc = "project"
  /\ Projectable(proc[p].source)
  /\ proc[p].todo = {}
  /\ points' = points \ Matching(Stale(proc[p].source, proc[p].job))
  /\ proc' = [proc EXCEPT ![p].pc = "commit"]
  /\ UNCHANGED <<canonical, inflight, erasures, ownerLock, sourceLock, bounds, disturbed>>

CommitReady(p) ==
  LET s == proc[p].source IN
  /\ proc[p].pc = "commit"
  /\ job' = [job EXCEPT ![proc[p].job].status = "ready"]
  /\ source' = [source EXCEPT ![s].status = "ready", ![s].generation = proc[p].job]
  /\ disturbed' = disturbed \ {s}
  /\ Release(p) /\ Resume(p)
  /\ UNCHANGED <<opened, documents, chunks, remote, bounds>>

-----------------------------------------------------------------------------
(* Deletion: delete_source                                                 *)

DeleteLockOwner(p, s) ==
  /\ p \in Admins /\ proc[p].pc = "idle"
  /\ Live(s)
  /\ ownerLock[OwnerOf[s]] = None
  /\ ownerLock' = [ownerLock EXCEPT ![OwnerOf[s]] = p]
  /\ proc' = [proc EXCEPT ![p] = [Idle EXCEPT !.pc = "delOwner", !.source = s]]
  /\ UNCHANGED <<canonical, remote, sourceLock, bounds, disturbed>>

DeleteLockSource(p) ==
  LET s == proc[p].source IN
  /\ proc[p].pc = "delOwner"
  /\ Unlocked(s)
  /\ sourceLock' = [sourceLock EXCEPT ![s] = p]
  /\ proc' = [proc EXCEPT ![p].pc = "delClean"]
  /\ UNCHANGED <<canonical, remote, ownerLock, bounds, disturbed>>

OfSource(s) == [sources |-> {s}, spared |-> 0]

DeletePoints(p) ==
  LET s == proc[p].source IN
  /\ proc[p].pc = "delClean"
  /\ points' = points \ Matching(OfSource(s))
  /\ disturbed' = disturbed \cup {s}
  /\ proc' = [proc EXCEPT ![p].pc = "delCommit"]
  /\ UNCHANGED <<canonical, inflight, erasures, ownerLock, sourceLock, bounds>>

(* The source row goes, and everything that references it.                 *)
DeleteCommit(p) ==
  LET s == proc[p].source IN
  /\ proc[p].pc = "delCommit"
  /\ source' = [source EXCEPT ![s].life = "gone"]
  /\ job' = [j \in JobIds |-> IF job[j].source = s THEN [job[j] EXCEPT !.status = "absent"]
                              ELSE job[j]]
  /\ documents' = [documents EXCEPT ![s] = [u \in Uris |-> NoDocument]]
  /\ chunks' = chunks \ ChunksOf(s)
  /\ disturbed' = disturbed \ {s}
  /\ Release(p)
  /\ proc' = [proc EXCEPT ![p] = Idle]
  /\ UNCHANGED <<opened, remote, bounds>>

-----------------------------------------------------------------------------
(* Rebuild and reconciliation: rebuild_index                               *)

LiveOf(o) == {s \in Sources : Live(s) /\ OwnerOf[s] = o}

RebuildStart(p, o) ==
  /\ p \in Admins /\ proc[p].pc = "idle"
  /\ rebuilds < MaxRebuilds
  /\ rebuilds' = rebuilds + 1
  /\ proc' = [proc EXCEPT ![p] =
                Rebuilding("loop", o, None, {s \in LiveOf(o) : ChunksOf(s) # {}})]
  /\ UNCHANGED <<canonical, remote, ownerLock, sourceLock, faults, disturbed>>

RebuildTakes(p, s) ==
  proc' = [proc EXCEPT ![p] = Rebuilding("try", proc[p].owner, s, proc[p].ids \ {s})]

(* reindex_source for the next source: its unfinished attempt is reused.   *)
RebuildReuses(p, s) ==
  /\ proc[p].pc = "loop" /\ s \in proc[p].ids
  /\ Live(s) /\ Unlocked(s)
  /\ JobsAt(s, Active) # {}
  /\ RebuildTakes(p, s)
  /\ UNCHANGED <<canonical, remote, ownerLock, sourceLock, bounds, disturbed>>

RebuildReindexes(p, s) ==
  /\ proc[p].pc = "loop" /\ s \in proc[p].ids
  /\ Live(s) /\ Unlocked(s)
  /\ JobsAt(s, Active) = {}
  /\ Reindexable(s)
  /\ OpenJob(s, "indexing")
  /\ RebuildTakes(p, s)
  /\ UNCHANGED <<documents, chunks, remote, ownerLock, sourceLock, bounds, disturbed>>

(***************************************************************************)
(* The error of one source ends the whole command, before its orphan       *)
(* cleanup: the source was deleted, its chunks are outdated or gone.       *)
(***************************************************************************)
RebuildStops(p, s) ==
  /\ proc[p].pc = "loop" /\ s \in proc[p].ids
  /\ \/ ~Live(s)
     \/ Unlocked(s) /\ JobsAt(s, Active) = {} /\ ~Reindexable(s)
  /\ proc' = [proc EXCEPT ![p] = Idle]
  /\ UNCHANGED <<canonical, remote, ownerLock, sourceLock, bounds, disturbed>>

RebuildProjects(p, j) ==
  /\ proc[p].pc = "try"
  /\ job[j].source = proc[p].source /\ job[j].status = "indexing"
  /\ Begin(p, j)

(* Nothing to index yet, or somebody else holds a lock: the attempt is     *)
(* left to the workers.                                                    *)
RebuildSkips(p) ==
  LET s == proc[p].source IN
  /\ proc[p].pc = "try"
  /\ \/ JobsAt(s, {"indexing"}) = {}
     \/ ownerLock[OwnerOf[s]] # None
     \/ ~Unlocked(s)
  /\ Resume(p)
  /\ UNCHANGED <<canonical, remote, ownerLock, sourceLock, bounds, disturbed>>

(* The sources whose points stay are read under the owner's lock.          *)
RebuildLocksOwner(p) ==
  LET o == proc[p].owner IN
  /\ proc[p].pc = "loop" /\ proc[p].ids = {}
  /\ ownerLock[o] = None
  /\ ownerLock' = [ownerLock EXCEPT ![o] = p]
  /\ proc' = [proc EXCEPT ![p] = Rebuilding("orphans", o, None, LiveOf(o))]
  /\ UNCHANGED <<canonical, remote, sourceLock, bounds, disturbed>>

(* Refuted variants: the sweep is not confined to the owner, or spares the *)
(* newest attempt as a projection does.                                    *)
OrphansOfAnyone(o, current) == [sources |-> Sources \ current, spared |-> 0]

OrphansButNewest(o, current) ==
  [sources |-> {s \in Sources : OwnerOf[s] = o} \ current, spared |-> opened]

(* Every source of the owner but those listed, born or not.                *)
Orphans(o, current) ==
  [sources |-> {s \in Sources : OwnerOf[s] = o} \ current, spared |-> 0]

RebuildDeletesOrphans(p) ==
  /\ proc[p].pc = "orphans"
  /\ points' = points \ Matching(Orphans(proc[p].owner, proc[p].ids))
  /\ Release(p)
  /\ proc' = [proc EXCEPT ![p] = Idle]
  /\ UNCHANGED <<canonical, inflight, erasures, bounds, disturbed>>

-----------------------------------------------------------------------------
(* Faults                                                                  *)

(***************************************************************************)
(* A request whose answer never came took effect on some of the points it  *)
(* names, possibly none or all.  If LateDelivery, what is left of an       *)
(* upsert may still land later, and a delete may still be applied later,   *)
(* to whatever its filter matches by then: both wait for no lock.          *)
(***************************************************************************)
LostUpsert(p) ==
  /\ proc[p].pc = "project" /\ Projectable(proc[p].source) /\ proc[p].todo # {}
  /\ \E batch \in Batches(proc[p].todo) : \E landed \in SUBSET batch :
       /\ points' = Upserted(points, Stamp(landed, proc[p].job))
       /\ inflight' = IF LateDelivery
                      THEN inflight \cup Stamp(batch \ landed, proc[p].job) ELSE inflight
  /\ UNCHANGED <<erasures, disturbed>>

LostDelete(p, f) ==
  /\ \E removed \in SUBSET Matching(f) :
       /\ points' = points \ removed
       /\ disturbed' = IF proc[p].pc = "delClean" /\ removed # {}
                       THEN disturbed \cup {proc[p].source} ELSE disturbed
  /\ erasures' = IF LateDelivery THEN erasures \cup {f} ELSE erasures
  /\ UNCHANGED inflight

LostRequest(p) ==
  \/ LostUpsert(p)
  \/ /\ proc[p].pc = "project" /\ Projectable(proc[p].source) /\ proc[p].todo = {}
     /\ LostDelete(p, Stale(proc[p].source, proc[p].job))
  \/ /\ proc[p].pc = "delClean"
     /\ LostDelete(p, OfSource(proc[p].source))
  \/ /\ proc[p].pc = "orphans"
     /\ LostDelete(p, Orphans(proc[p].owner, proc[p].ids))

Fault == faults < MaxFaults /\ faults' = faults + 1 /\ UNCHANGED rebuilds

(* IndexError: the attempt fails in the same transaction.                  *)
ProjectionError(p) ==
  /\ proc[p].pc = "project"
  /\ Fault /\ LostRequest(p)
  /\ Transition(proc[p].source, proc[p].job, "failed")
  /\ Release(p) /\ Resume(p)
  /\ UNCHANGED <<opened, documents, chunks>>

(* The process dies, its connection is lost, a lock wait times out, or a   *)
(* deletion or a rebuild meets an IndexError: the transaction rolls back.  *)
RollBack(p) ==
  /\ proc[p].pc # "idle"
  /\ Fault
  /\ \/ LostRequest(p)
     \/ UNCHANGED <<remote, disturbed>>
  /\ Release(p)
  /\ proc' = [proc EXCEPT ![p] = Idle]
  /\ UNCHANGED canonical

UpsertLands ==
  /\ \E q \in inflight : /\ points' = Upserted(points, {q})
                         /\ inflight' = inflight \ {q}
  /\ UNCHANGED <<canonical, erasures, control, bounds, disturbed>>

DeleteLands ==
  /\ \E f \in erasures : /\ points' = points \ Matching(f)
                         /\ erasures' = erasures \ {f}
  /\ UNCHANGED <<canonical, inflight, control, bounds, disturbed>>

LandLate == UpsertLands \/ DeleteLands

-----------------------------------------------------------------------------

Init ==
  /\ source = [s \in Sources |-> [life |-> "unborn", status |-> "pending",
                                  current |-> TRUE, generation |-> 0]]
  /\ job = [j \in JobIds |-> [source |-> None, status |-> "absent"]]
  /\ opened = 0
  /\ documents = [s \in Sources |-> [u \in Uris |-> NoDocument]]
  /\ chunks = {} /\ points = {} /\ inflight = {} /\ erasures = {}
  /\ ownerLock = [o \in Owners |-> None]
  /\ sourceLock = [s \in Sources |-> None]
  /\ proc = [p \in Procs |-> Idle]
  /\ faults = 0 /\ rebuilds = 0
  /\ disturbed = {}

Request ==
  \/ \E s \in Sources : CreateSource(s) \/ RefreshSource(s) \/ ReindexSource(s)
  \/ \E j \in JobIds, to \in Stages : OperatorTransition(j, to)

Crawls == [Uris -> Contents \cup {None}]

PollDocuments ==
  \E j \in JobIds :
    \/ ParseFails(j) \/ ParseUnchanged(j) \/ ParseText(j)
    \/ \E page \in Crawls, gone \in SUBSET Uris : CrawlWebsite(j, page, gone)

PollCanonical ==
  \/ PollDocuments
  \/ \E j \in JobIds : SplitFails(j) \/ Split(j)

PollIndex(p) == \E j \in JobIds : BeginProjection(p, j)

Continue(p) ==
  \/ RejectProjection(p) \/ UpsertBatch(p) \/ DeleteStale(p) \/ CommitReady(p)
  \/ DeleteLockSource(p) \/ DeletePoints(p) \/ DeleteCommit(p)
  \/ \E s \in Sources : RebuildReuses(p, s) \/ RebuildReindexes(p, s) \/ RebuildStops(p, s)
  \/ \E j \in JobIds : RebuildProjects(p, j)
  \/ RebuildSkips(p) \/ RebuildLocksOwner(p) \/ RebuildDeletesOrphans(p)

Administer(p) ==
  \/ \E s \in Sources : DeleteLockOwner(p, s)
  \/ \E o \in Owners : RebuildStart(p, o)

(* Polls find nothing, nobody is inside a transaction: the service waits.  *)
(* (An operator who moves a website to "parsing" parks it: no poll claims  *)
(* that stage of a website.)                                               *)
Quiet ==
  /\ \A p \in Procs : \/ proc[p].pc = "idle"
                      \/ proc[p].pc = "loop" /\ opened = MaxJobs
  /\ \A j \in JobIds :
       job[j].status \in Active =>
         Kind[job[j].source] = "url" /\ job[j].status = "parsing"
  /\ UNCHANGED vars

Next ==
  \/ Request
  \/ PollCanonical
  \/ \E p \in Procs : PollIndex(p) \/ Continue(p) \/ Administer(p)
                      \/ ProjectionError(p) \/ RollBack(p)
  \/ LandLate
  \/ Quiet

Spec == Init /\ [][Next]_vars

(***************************************************************************)
(* The polling thread never stops trying, a process inside a transaction   *)
(* takes its next step, and faults are bounded.  Nobody has to call the    *)
(* API or the command line.                                                *)
(***************************************************************************)
Fairness ==
  /\ WF_vars(PollCanonical)
  /\ \A p \in Procs : WF_vars(PollIndex(p)) /\ WF_vars(Continue(p))

FairSpec == Spec /\ Fairness

-----------------------------------------------------------------------------
(* Types                                                                   *)

SourceRows == [life : {"unborn", "live", "gone"}, status : Stages,
               current : BOOLEAN, generation : 0..MaxJobs]

JobRows == [source : Sources \cup {None}, status : Stages \cup {"absent"}]

DocumentRows == [row : 0..MaxJobs, content : Contents \cup {None},
                 snapshot : Contents \cup {None}]

ProcStates == [pc : {"idle", "project", "commit", "delOwner", "delClean", "delCommit",
                     "loop", "try", "orphans"},
               source : Sources \cup {None}, owner : Owners \cup {None},
               job : 0..MaxJobs, todo : SUBSET ChunkIds, ids : SUBSET Sources]

TypeOK ==
  /\ source \in [Sources -> SourceRows]
  /\ job \in [JobIds -> JobRows]
  /\ opened \in 0..MaxJobs
  /\ documents \in [Sources -> [Uris -> DocumentRows]]
  /\ chunks \subseteq ChunkIds
  /\ points \subseteq Points
  /\ inflight \subseteq Points
  /\ erasures \subseteq Filters
  /\ ownerLock \in [Owners -> Procs \cup {None}]
  /\ sourceLock \in [Sources -> Procs \cup {None}]
  /\ proc \in [Procs -> ProcStates]
  /\ faults \in 0..MaxFaults /\ rebuilds \in 0..MaxRebuilds
  /\ disturbed \subseteq Sources

-----------------------------------------------------------------------------
(* Safety                                                                  *)

(***************************************************************************)
(* A source never has two unfinished attempts.  RefreshSource and          *)
(* ReindexSource rely on the lock of the source row for this; the unique   *)
(* index uq_jobs_active_source is a second line that must never trip.      *)
(***************************************************************************)
OneActiveJob ==
  \A j, k \in JobIds :
    /\ job[j].source = job[k].source
    /\ job[j].status \in Active
    /\ job[k].status \in Active
    => j = k

(***************************************************************************)
(* The source row shows the status of its newest attempt, although an      *)
(* operator, a worker and a request write it independently.                *)
(***************************************************************************)
SourceShowsNewestJob ==
  \A s \in Sources : Live(s) =>
    LET mine == {j \in JobIds : job[j].source = s} IN
    \E j \in mine : /\ \A k \in mine : k <= j
                    /\ source[s].status = job[j].status

(***************************************************************************)
(* Unless chunks_current says otherwise, the canonical chunks of a source  *)
(* are exactly the chunks of the present revision of each of its documents *)
(* (chunk_source skips documents by their snapshot; crawls delete, add and *)
(* revise documents under it, and attempts fail half way).                 *)
(***************************************************************************)
ChunksMatchDocuments ==
  \A s \in Sources : source[s].current =>
    ChunksOf(s) = UNION {SplitOf(s, u) : u \in DocumentUris(s)}

(***************************************************************************)
(* A source that a projection made ready is exactly projected: one point   *)
(* of the committed generation per canonical chunk and no other point,     *)
(* through crashes, lost requests, rebuilds of the owner and concurrent    *)
(* writers.  The exception is a deletion that removed points and then      *)
(* could not commit.  Presumes that no abandoned write is applied late (an *)
(* upsert would add a point, a delete would take points of the generation  *)
(* in use) and that no operator declares an attempt ready.                 *)
(***************************************************************************)
ReadyIsProjected ==
  \A s \in Sources :
    Live(s) /\ source[s].status = "ready" /\ s \notin disturbed =>
      PointsOf(s) = Stamp(ChunksOf(s), source[s].generation)

(***************************************************************************)
(* No point outlives its source: a deletion and a projection of the same   *)
(* source never interleave so that a point is written after the clean-up.  *)
(* Presumes that no abandoned upsert lands late.                           *)
(***************************************************************************)
NoOrphanPoints == \A q \in points : Live(q.chunk.source)

-----------------------------------------------------------------------------
(* Action properties                                                       *)

(***************************************************************************)
(* Deletes are sent under the advisory lock of the owner of every source   *)
(* they match, so that no projection of that owner is under way, and only  *)
(* they take chunks out of the index: under that lock, or late, when their *)
(* sender gave up.  Deletions, sweeps and projections for one owner never  *)
(* take points of another, not even late.                                  *)
(***************************************************************************)
Applied == erasures \ erasures'

PointsVanishUnderLock ==
  [][/\ \A f \in erasures' \ erasures : \A s \in f.sources : ownerLock[OwnerOf[s]] # None
     /\ \A q \in points :
          \/ \E r \in points' : r.chunk = q.chunk
          \/ ownerLock[OwnerOf[q.chunk.source]] # None
          \/ \E f \in Applied : q \in Matching(f)]_vars

(***************************************************************************)
(* Rebuilding or reconciling an owner's index leaves no point of a source  *)
(* that is gone, whatever happened since the command started.              *)
(***************************************************************************)
RebuildSweepsOrphans ==
  [][\A p \in Admins :
       proc[p].pc = "orphans" /\ proc'[p].pc = "idle" /\ faults' = faults =>
         \A q \in points' : OwnerOf[q.chunk.source] = proc[p].owner
                              => source'[q.chunk.source].life = "live"]_vars

(***************************************************************************)
(* A rebuild that ends without a fault has dealt with every source it set  *)
(* out to replay that still has chunks: "Replay all existing canonical     *)
(* chunks" (pipeline.rebuild_index).                                       *)
(***************************************************************************)
RebuildReplaysRetainedChunks ==
  [][\A p \in Admins :
       proc[p].pc = "loop" /\ proc'[p].pc = "idle" /\ faults' = faults =>
         \A s \in proc[p].ids : ~Live(s) \/ ChunksOf(s) = {}]_vars

(* Every behaviour implements the contract on attempts.                    *)
Lifecycle == INSTANCE JobLifecycle WITH
               attemptOf     <- [j \in JobIds |-> job[j].source],
               attemptStatus <- [j \in JobIds |-> job[j].status],
               opened        <- opened,
               retired       <- {s \in Sources : source[s].life = "gone"}

ImplementsLifecycle == Lifecycle!Spec

-----------------------------------------------------------------------------
(* Liveness                                                                *)

(***************************************************************************)
(* Every attempt finishes or is deleted with its source, and every lock of *)
(* an owner is released, whatever crashes and failing requests there are   *)
(* and whoever competes for the locks.                                     *)
(***************************************************************************)
WorkFinishes ==
  /\ \A j \in JobIds : job[j].status \in Active ~> job[j].status \notin Active
  /\ \A o \in Owners : ownerLock[o] # None ~> ownerLock[o] = None
=============================================================================
