# SecondContext in TLA+

SecondContext is two programs around two stores. The **gateway** (Go,
`internal/`, `cmd/api`) answers its callers with what it learned about them:
memories, outcomes of interactions, person models and beliefs. The **knowledge
service** (Python, `services/knowledge-bootstrap`) keeps documents its owners
gave it and searches them. Both treat Postgres as the truth and Qdrant as an
index that can be rebuilt, and neither has a transaction that spans the two.
Almost everything that is hard about this code follows from that sentence: what
is left in one store when a request dies between two writes, what another
request sees of it, and what repeating the request does.

The modules here describe that part of both programs: every database
transaction and every remote write is a step, requests and workers interleave
freely, and any of them can die between two steps.

## 1. Inventory

### Knowledge service

| part | state it keeps | operations | what must hold |
|---|---|---|---|
| ingestion attempts (`service.py`, `ingestion.py`) | source row, job rows with stage and counters, request keys | create, refresh, reindex, operator transition, claim, parse, crawl, fail | one unfinished attempt per source, one answer per key, stages only move forward, the source shows its newest attempt, every attempt finishes |
| chunking (`pipeline.py: chunk_source`) | chunk rows, a snapshot per document, `chunks_current` | split, replan, reject | chunks are those of the present documents unless marked outdated; a failure keeps the previous ones |
| projection (`pipeline.py: project_source`) | points stamped with the attempt (`projection_generation`), advisory lock of the owner, lock of the source row | claim, upsert in batches, delete stale points, commit | a ready source is exactly projected |
| deletion (`management.py`) | | lock, delete points, delete rows | no point outlives its source |
| rebuild (`pipeline.py: rebuild_index`) | | replay each source of an owner, sweep orphans | replays every retained chunk, sweeps only this owner |
| search (`search.py`) | | check, query without a transaction, validate | only present, owned, committed evidence |
| candidates (`derived.py`) | candidate rows with their evidence | snapshot, ask a model, revalidate, replace, retract, purge | what is offered quotes what is canonical now |
| crawler, parsers, splitter | frontier of one crawl | fetch, extract, split | bounded, no page twice, exact coverage |
| index adapter (`index.py`) | recipe manifest, collection | | one recipe per collection |
| HTTP API, UI, CLI, settings, metrics | | | rendering around the above |

API processes each run a polling thread (`run_worker`); several may run at
once. Deletion requests and the `rebuild-index` command run beside them. They
meet in the locks: the owner's advisory lock first (a projection and a rebuild
try it, a deletion waits for it), then the lock of the source row.

### Gateway

| part | state it keeps | operations | what must hold |
|---|---|---|---|
| admission (`api/client_ip.go`, `auth.go`, `rate_limit.go`, `server.go`) | stamps per client, gauge of requests in flight | resolve the address, authenticate, allow, log, lock, handle, recover | nobody chooses who it is, the limit is exact, nothing stays behind of a request |
| subject fence (`api/subject_purge.go`) | an advisory lock per subject, held on a connection of its own for a whole HTTP operation; `subject_purges` | admit, refuse, purge | one request of a subject at a time; a confirmed purge leaves nothing and nothing comes back |
| memories (`memory/`) | `memory_items` with three processing stages, `memory_entities`, points | ingest, extract, delete | a completed index stage means a point; a memory has all entities of its answer, or its request was refused |
| outcomes (`outcomes/`) | `interaction_outcomes` by idempotency key, graph edges | report, repeat a report | one outcome, one memory and one analysis per key; about one conversation of its subject; completed means all of it |
| person models (`modeling/`), beliefs (`beliefs/`) | people, topics, scores, stances, each with its evidence | observe a memory, edit (debug) | a memory counts once, evidence is not lost, contradictions are remembered, nothing is learned about who was not named |
| retrieval (`retrieval/`, `scoring/`, `api/memory_search.go`) | | three searches, rank, drop repetitions | the best of what was wanted |
| responses (`api/openai_handlers.go`, `response_context.go`, `scenarios/`, `knowledge/`, `prompts/context_budget.go`) | sessions, messages, plans | two branches in parallel, budgets, session, plan and its repair, answer | branches do not suppress each other, sections fit, sessions are owned and read as conversations |
| debug endpoint (`api/debug_context_handlers.go`) | | show a message or session and its context | shows a user nothing of another's, and what the model was told |
| bodies, LLM and Qdrant clients, observability, configuration, commands | none shared | | |

Handlers run concurrently, in one process or several. Callers repeat a failed
report with its key, and a failed purge. Without authentication there is no
fence at all.

### What is hard

- A request timed out is not a request that did not happen: a point can be
  written, or a filter of points deleted, after the locks that protected them
  were released.
- Three writes say "this memory is indexed" (point, point id, stage status).
- Locks are held across remote calls and lost with their connection.
- Search has no transaction while the backend answers; neither has the model
  that extracts candidates.
- Rows are read, merged and written back whole, in two statements, or written
  anew without what they held.
- A failure caught inside a transaction commits what the transaction wrote.
- Repeating a request must continue where it stopped, with the model's first
  answer, not with a new one, while the session it is about goes on.
- Deletions run in the middle of all of it.

`PROJECT.json` lists each of these at its line, with the properties that would
notice.

## 2. Modules

| module | models | code |
|---|---|---|
| `JobStages` | stages, which moves are accepted | `models.py`, `service.apply_transition` |
| `JobLifecycle` | abstract contract on attempts | `service.py`, unique index of `models.py` |
| `IngestionJobs` | rows of sources and attempts: keys, counters, claims, operators | `service.py`, `ingestion.py`, `pipeline.py`, `management.py` |
| `KnowledgeProjection` | attempts, documents, chunks, points, locks, workers, deletions, rebuilds | `ingestion.py`, `pipeline.py`, `management.py`, `service.py`, `index.py` |
| `ChunkTransaction` | the transaction that chunks a source, statement by statement | `pipeline.py: process_chunk_next, chunk_source` |
| `KnowledgeSearch` | searches beside the pipeline | `search.py` |
| `DocumentaryCandidates` | candidates beside the pipeline | `derived.py`, retraction triggers of the schema |
| `SubjectMemory` | fence, ingestion, extraction, deletion, purge | `internal/memory`, `internal/api`, `internal/db`, `internal/qdrant` |
| `OutcomeProcessing` | outcome reports beside all of these | `internal/outcomes` |
| `ObservedNames` | people and topics by name; the handler that learns | `internal/db`, `internal/modeling`, `internal/beliefs` |
| `PersonModels`, `Beliefs` | what is learned from a memory, and the debug edit | `internal/modeling`, `internal/beliefs` |
| `DerivedViews` | both together | `internal/memory` |
| `RequestAdmission` | what a request passes before its handler | `internal/api` |
| `MemorySearch` | three searches, ranking, selection | `internal/retrieval`, `internal/scoring`, `internal/api` |
| `ContextAssembly` | two branches, sections, budgets | `internal/api`, `internal/prompts`, `internal/knowledge` |
| `Responses` | sessions, messages, plans, debug views | `internal/api`, `internal/scenarios`, `internal/db` |
| `NameLists` | lists of names as they are spelled | `internal/memory`, `internal/outcomes` |
| `MemoryExtraction` | an extraction with its entities and its compensation | `internal/memory` |
| `OutcomeContext` | which answer a report is about | `internal/outcomes` |
| `MC*` | instances for TLC | |
| `IngestionJobs_proofs` (the contract and the rows), `KnowledgeProjection_proofs`, `DocumentaryCandidates_proofs`, `KnowledgeIndex_proofs` | theorems on the knowledge service | |
| `SubjectFence_proofs`, `OutcomeRecords_proofs`, `GatewayRequests_proofs`, `GatewayContext_proofs` | theorems on the gateway | |

### How they are composed

`JobLifecycle` is the abstract specification. Two detailed ones implement it:
`IngestionJobs`, which extends it and counts documents and chunks without
saying which they are, so that counters, keys, claims and operators can be
explored in full; and `KnowledgeProjection`, which has the documents, chunks,
points, locks and crashes, through its instance `Lifecycle` (attempts are the
job rows, retired sources the deleted ones).

`KnowledgeProjection` is in turn the abstract specification of
`ChunkTransaction`, which extends it and replaces its step `Split`, or
`SplitFails`, by the loops over documents that make it up. What a session does
is, seen with the locks that others see (`VisibleLock`), one of these two steps
or nothing (`ChunkingIsOneStep`); everything else is a step of the pipeline as
it stands.

`KnowledgeSearch` and `DocumentaryCandidates` both extend `KnowledgeProjection`
with requests of their own. `MCKnowledgeSearch` runs them beside one pipeline;
neither writes what the other reads, so requests of one kind wait there for
those of the other.

`OutcomeProcessing` extends `SubjectMemory`. These two have the stages of a
memory and of a report, each step of which can be the last, with data reduced
to keys and model values. The remaining gateway modules take one stage each
and give it its data: `DerivedViews` (extending `PersonModels` and `Beliefs`
over `ObservedNames`) what the two observation steps compute;
`MemoryExtraction` and `OutcomeContext` (both over `NameLists`) what comes
before the stages and around them, where those stages are two steps;
`ContextAssembly` (over `MemorySearch`) and `Responses` what is read for a
response and stored of it; `RequestAdmission` the fence that the others assume
and the rest of the chain. In the code these parts share rows and the fence, but
no property here relates the state of two of them, so `MCGateway` runs them
side by side: a behaviour explores the part it starts in. Those that rely on
the fence are explored with it and without it.

Definitions marked *refuted variant* are not part of any specification: they
are plausible wrong versions of the definition they precede, and each of them
breaks the property it is paired with in `PROJECT.json`.

### State and actions: knowledge service

**`KnowledgeProjection`.** `source`, `job`, `documents` and `chunks` are the
rows; a document row is named by the attempt that inserted it, so a page deleted
and seen again is another document and gets other chunk ids, as the UUIDs do.
`points` is the collection: a chunk and the generation stamped on it; an upsert
replaces the point of its chunk. `ownerLock` and `sourceLock` are the locks that
outlive a step, `proc` the open transaction of each process.

A transaction that stays in Postgres is one action (`RefreshSource`,
`CrawlWebsite`, `Split`, ...). One that talks to Qdrant is split at each remote
write, and its rows change in the last action: `BeginProjection`, `UpsertBatch`
(once per batch), `DeleteStale`, `CommitReady`; `DeleteLockOwner`,
`DeleteLockSource`, `DeletePoints`, `DeleteCommit`; a rebuild is a loop over
`RebuildReuses`, `RebuildReindexes`, `RebuildProjects`, `RebuildSkips`,
`RebuildStops`, then `RebuildLocksOwner`, `RebuildDeletesOrphans`. `RollBack`
is a lost connection or a dead process: locks go, rows stay as they were,
points stay as they are. A lost request (`LostUpsert`, `LostDelete`) took effect
on any part of what it named. With `LateDelivery` the rest of an upsert may still
land (`inflight`, `UpsertLands`), and a delete may be applied at any later time,
to what its filter matches then (`erasures`, `DeleteLands`); neither waits for a
lock. What a crawl finds is a choice: any pages observed, any
pages known to be gone, complete or not.

**`ChunkTransaction`.** `session` is the open transaction of each worker: what it
has still to plan, what it has planned and what it has written and nobody else
sees. `Open` claims an attempt and locks its source, `Skip` and `Plan` take one
document each, `StartWriting` follows the check of the limit, `Write` stores one
document. `Fail`, at any document or at the limit, commits whatever was
written with the failed attempt, because the code catches the error inside
the transaction; `Finish` commits all of it, `Lose` nothing.

**`IngestionJobs`.** Every writer locks the source row first, so a transaction
is one step, and only what is read before the lock is a step of its own: the
look-up of a key (`Replay`, `Insert`, and `Replay` again for who lost the race),
and the query of a claim (`Look`, then `Parse` under the lock, which reads the
attempt again by its status alone). `progress` holds the counters, `canonical`
the numbers of documents and chunks. `Work` is the shape of a worker's
transaction: it commits what it did, or its transition is refused and all of it
is rolled back, to be found again by the next poll. `answers`, `touched` and
`refused` are histories: what creations were answered, which attempts an
operator wrote, which had a transition of a worker refused.

**`KnowledgeSearch`, `DocumentaryCandidates`.** A search is checked, asks the
backend without a transaction, and validates what came back. An extraction
takes a snapshot (`StartExtraction`), waits for the model, and reads the same
again under the lock of the source (`CommitExtraction`); the triggers of the
schema are part of whatever step fires them (`Retract`, conjoined to every step
of the pipeline). Candidates quote a chunk by value, as their rows do.

### State and actions: gateway

**`SubjectMemory`, `OutcomeProcessing`.** One subject. `memories` holds
`memory_items` (key, point id known, the three statuses), `outcomes` and `edges`
the rows of each idempotency key, `learned` the evidence of one row per derived
view, `fence` the advisory lock, `proc` what each handler does and remembers.
The fence is not lost here while a handler runs; that the database may drop the
connection that holds it is in `RequestAdmission`.

Every statement and every remote call is an action: a report goes through
`LookUpOutcome`, `Analyze`, `ReserveOutcome`, then the ingest steps
`CreateMemory`, `GetProcessingState`, `UpsertPoint`, `UpdateQdrantPointID`,
`CompleteStage`, `ObserveMemory`, `SaveObservation`, ..., then `LinkMemory`,
`CreateGraphEdge` (once per edge) and `CompleteOutcome`. `Abandon` ends a
handler anywhere: a process that dies, the 30 second timeout of the router, or
an error that is answered without another write. `UpsertFails`, `StageFails`,
`IngestFails` and `GraphEdgeFails` are the errors the code reacts to; the
`UPDATE ... 'failed'` they make is an action that can fail too. The delete of a
point does not wait for completion in Qdrant, but Qdrant applies the updates of a
collection in order, so the model applies it at once.

**`DerivedViews`.** A handler ingests a memory, for the first time or again
(`Process`): it writes the people and then the topics it names, each anew and
without aliases (`UpsertTaxonomy`, one row per step), and only then reads which
stages are complete and resumes at the next (`StartStages`). It asks the model
(`AskForPairs`, `AskForBeliefs`: answers name whom they like and are filtered),
and for each pair or claim reads and writes the person, the topic and the row,
one statement per step (`ReadPerson`, `WritePerson`, ..., `SaveModel`,
`SaveBelief`). What the model calls a person or a topic is taken under one of
the memory's names (`Match`, `Resolve`); a pair with a side that matches none is
passed over (`SkipPair`). Belief rows stand in order of their ids with the time
of their last update, and the one updated last is merged into (`Newest`). Whole
rows are written back, as the code does. `SubmitEdit` is the debug endpoint, a
third read-merge-save of the same row. Scores are exact fractions of whole
numbers, where the code rounds floating point numbers; the five scores of a row
are one.

**`RequestAdmission`.** A request is received (`Receive`: address, token and the
time it was stamped with), then passes the limiter's mutex (`Allow`) in whatever
order, with a stamp up to `MaxDelay` old. The forwarding header is a list of
lines, of which the code reads the first (`FirstLine`). `Lock` waits for the
subject and looks for its deletion afterwards; `LockFails`, `Panic` and
`DropConnection` are the ways in which it goes wrong. When the database ends the
session that holds the lock, nobody tells the handler: the model admits that two
may then run, and `overlapped` says of whom.

**`MemorySearch`, `ContextAssembly`.** One request. A search is embedded, asks
three queries of which the last decides the hits, loads rows and ranks them
(`LoadAndRank`). The filter of the queries says nothing of expiry, and the number
of hits is capped, so points that have expired or lost their row count against
the cap. Rows and points may be lost in between (`LoseRow`,
`LosePoint`). The memory branch and the knowledge branch run independently;
`Join` puts the packet together and cuts it (`ApplyContextBudgets`). Sizes are
sums of abstract units; a cut may fall inside a character of `RuneWidth` units.
`DebugPacket` is what the debug endpoint computes from the packet.

**`Responses`.** `FindSession` and `CreateSession` are apart, messages are
stored one per step, then the model answers (`Generate`, with one repair of a
plan) and the answer is stored. `Views` is what the debug endpoint shows.

**`MemoryExtraction`.** The answer of the model is accepted, or repaired once and
then accepted or refused (`Extract`); the row is created, its stages run
(`RunStages`, detailed in `SubjectMemory`), entities are stored one by one
(`StoreEntity`), and what stops one of them is compensated in two steps
(`Compensate`, `DropRow`) whose errors are dropped.

**`OutcomeContext`.** A report names a message, a session or neither. Every
attempt works out its context anew (`ResolveReport`), while messages are added
(`Post`); the outcome keeps what the first attempt found (`ReserveReport`), its
memory what the attempt found that made it (`RecordReport`).

## 3. Runs

| run | instance | shows |
|---|---|---|
| `lifecycle` | `IngestionJobs`: 1 website and 1 text, 3 attempts, 2 pages, 2 chunks; either 2 callers with 1 key and 2 payloads, or 1 worker and an operator that writes 1 attempt | one answer per key, no attempt that nobody claims or whose transition is refused for ever |
| `site` | `ChunkTransaction`: 1 website, 2 pages, 2 revisions of which the second lost a piece, room for 3 chunks (two pages of the first revision are too many, one of each is two batches), 1 worker, 3 attempts, 1 fault, sessions that die anywhere, 1 rebuild, deletions, an operator | canonical chunks follow the documents through recrawls, deleted pages and failed attempts; ready means exactly projected; a chunking that fails, at whichever page or at the limit, costs nothing canonical, although its failure commits what it wrote; chunking is the one step of `KnowledgeProjection` |
| `reconcile` | 2 owners, one with a website and one with a text, late upserts and late deletes, 3 attempts, 1 fault, 1 rebuild, deletions, an operator who moves attempts to `indexing` | a completed rebuild leaves no orphan of its owner; no chunk leaves the index unless its owner is locked or an abandoned delete of its own owner was still due |
| `liveness` | 2 text sources of one owner, 2 workers, 1 administrator, 2 attempts, 1 fault, fair | the source shows its newest attempt, no point survives its source, `JobLifecycle` is implemented, every attempt finishes and every advisory lock is released |
| `search` | 1 website of one page, 2 revisions, late writes, an operator, 1 searcher, candidates | evidence is present, owned, committed when it is validated; candidates that are offered quote what is canonical |
| `subject` | 2 handlers, 1 key, 1 free memory, 1 deletion, 2 analyses, 1 fault, purges | purges erase and keep out, indexed memories have points, analyses are not mixed, evidence is kept |
| `open` | 2 handlers without a fence, 2 payloads, late upserts, 1 deletion, 1 fault | only the owner of a key proceeds, and an outcome's memory is its own |
| `recovery` | 2 handlers, 1 key, 1 deletion, 2 faults, fair | completed outcomes are complete, reserved ones get completed, marked purges complete |
| `gateway` | the six parts of `MCGateway`, each with 2 handlers | see below |
| `rebuild`, `repair`, `late` | | the disagreements of section 6 |

What `gateway` checks, part by part:

| part | instance | properties |
|---|---|---|
| views | 5 memories that name people and topics differently, answers with foreign, aliased and repeated names, 2 failures, 2 edits; fenced and not | `EachMemoryCountsOnce`: a score is the mean of what its evidence was counted with, each memory once, however its stage was repeated. `OnlyNamedPairs`: nothing is learned about who the memory does not name. `ContradictionIsRemembered`: stances that cancel leave their conflict behind. `NothingLearnedIsLost`: behind the fence no request undoes what another learned, but for an ingest, which takes the aliases of a name its memory uses and nothing else, and a claim has one row |
| admission | 7 ticks of time, limit 2 in a window of 2, addresses, forged headers, in one line or several, plain and service tokens, 1 dropped connection | `LimitIsExact`, whatever was evicted and in whatever order stamps pass the mutex. `IdentityIsVouched`: an address is the peer's or one that every hop behind it on the line that is read vouches for, a subject that of the token or of its service. `FenceHolds`: one handler per subject, and no lock or place in the gauge stays behind |
| context | 6 memories (a repetition, someone else's, an expired one), 5 requests, 6 answers of the knowledge service, 1 lost row or point | `BestOfWanted`: what is returned is wanted and not repeated; of all that is wanted, one is left out only if it repeats one not below it, the limit was reached, it has no point, or as many points as are fetched are as near, expired and stale ones among them (one of the memories is crowded out so). `BranchesAreIndependent`: a branch that fails costs nothing of the other. `BudgetsHold`: every section fits, and applying the budgets twice changes nothing |
| responses | 2 users, a session id both use, 2 messages | `SessionsAreOwned`: messages are of the user whose session it is, and views show nobody another's. `SessionsReadAsConversations`: questions stand together and before their answer; a plan recommends a strategy it has |
| extraction | 2 requests, answers that are unreadable, repetitive or of a strange type, a deletion by others | `ExtractionIsWhole`: a memory is of an acceptable answer, names nobody and nothing twice, and has all its entities and its point if its request was answered |
| reports | 2 sessions of 2 subjects, 3 messages of which 2 are read, 5 payloads, 2 reports | `OutcomesKeepTheirContext`: an outcome and its memory stay with one subject and one session; behind the fence its memory is never about an earlier answer than its row, and about the same one if the report names it |

Why these bounds are enough. Three attempts give a source a first, a failed and
a repeated one, which is what generations and snapshots distinguish; two batches
give a projection a middle; two pages are one that changes and one that stays or
disappears; two revisions that share a chunk exercise both kept and replaced
chunks. A second worker would find the only source of `site` locked from the
first statement of a chunking to its last, as the administrator does; in
`liveness` two workers and one administrator are all roles that meet in a lock,
and the third actor in a queue for the same lock waits like the second. In
`lifecycle` two callers are a winner and a loser of the race for a key, a
conflict of payloads or a repetition; an operator that touches one attempt
leaves its successors untouched. In the gateway two handlers are enough for
every race of two, a key's memory can be created again after the one deletion,
and two faults break an attempt and its repetition. Time in the admission part
covers the life of an entry (4) and the cleanup after it. The enumerated data of
`MCGateway` (questions, answers, headers, payloads) are chosen so that each
condition of the code is met both ways. Counters (`MaxJobs`, `MaxFaults`,
`MaxRebuilds`, `MaxIngests`, `MaxDeletes`, `MaxTouched`, `MaxFailures`,
`MaxEdits`, `MaxTime`, `MaxDrops`, `MaxLosses`, `MaxPosts`, `MaxReports`,
`MaxTakenBack`) bound events of a behaviour, not what a single step can do;
`MaxChunks` is a setting of the code. `ViewsBound` leaves out that a memory
whose work is done is ingested again without the fence; behind it, it is.

Symmetry is declared where pages, handlers, users, callers, payloads or the two
revisions with their chunks are interchangeable, and in no run with a temporal
property under fairness. `site`, `liveness`, `subject` and `recovery` exclude
late writes because properties they check are known not to survive them:
`ReadyIsProjected` and `NoOrphanPoints` (an upsert of an abandoned attempt may
land after the stale points were deleted, and a late delete, which spares only
the attempt of its own sender, may take points of the generation in use), and
`PurgeErases` and `PendingPurgeFences` (finding 3). `Lose`, a chunking session
that dies, is not counted among the faults. Deadlock is checked everywhere
except in `lifecycle` and `gateway`, where a behaviour ends when its bounded
counters or one-shot requests are used up.

## 4. Fairness

Knowledge service: `WF(PollCanonical)` and `WF(PollIndex(p))`, because
`run_worker` polls for ever and survives exceptions, and `WF(Continue(p))`,
because a process inside a transaction either takes its next step or loses its
connection, which is a fault, and faults are bounded. Nothing forces a request,
a deletion, a rebuild or a fault.

Gateway: `WF(Proceed(r))`, a handler takes its next step; `SF(Admit(r))`,
because waiters of a Postgres advisory lock are queued; and strong fairness of
`RetryOutcome(k)` and `RetryPurge`, which is not the code's doing: it is the
caller's part of the contract ("retry the original payload with the same
`Idempotency-Key`", `docs/operations.md`; "retry the same subject",
`subject_purge.go`). Without it nothing recovers, since the gateway has no
background worker.

An operator can park an attempt for ever: a website moved to `parsing` is
claimed by no poll, and an attempt whose counters were raised past what its
source yields has its next transition refused whenever it is tried.
`WorkFinishes` is therefore checked with operators that only fail attempts, and
`UntouchedWorkIsAccepted` says that nobody else parks one.

## 5. Proofs

`tlapm` checks these for every value of the constants that satisfies the
assumptions the modules name:

| assumption | says | because |
|---|---|---|
| `LifecycleAssumption`, `JobsAssumption`, `ProjectionAssumption`, `SubjectAssumption` | counters are naturals, functions have the right domains, `None` is nobody | bounds, and the kinds of the rows |
| `LimiterAssumption` | times are naturals, the limit and the window are positive, a silent key is remembered for a window and two delays | a limit of 0 disables the limiter; the constants of `rate_limit.go` are 1 and 10 minutes |
| `AnswersAssumption`, `ReportsAssumption` | where an answer, a report or a message has a list, it is a sequence; messages are known by their place | what JSON decodes to; ids of messages, abstracted to their order |
| `SearchAssumption` | finitely many memories; limits, those of candidates too, are naturals | a table; the limits are checked where they are read, those of candidates are constants |
| `ContextAssumption` | `NoQuestion` is no request; people, topics, models, beliefs and evidence come as sequences; sizes are naturals; every reservation but that of evidence has room for its heading | slices; the constants of `context_budget.go` (400 and more) against headings of less than 200 bytes |
| `AdmissionAssumption` | finitely many requests at a time; `None` is no slot, subject or proxy; the first line of a header is a sequence | a process has finitely many goroutines |
| `ResponsesAssumption` | `Nobody` is no user and no call; a plan may keep at least one strategy; strategies are sequences of an id, a draft or none, and a score | the fields of `scenarios.Plan`, decoded from JSON, and its constant for the number kept |
| `NamesAssumption`, `PairsAssumption`, `BeliefsAssumption` | `Nothing` is no name; what a memory names are names; answers are sequences of typed pairs or beliefs with a numeric score or confidence; an edit names a person | the types the answers are decoded into, and `handleDebugPersonTopicModel` looks its person up |

| theorem | says |
|---|---|
| `OneUnfinishedAlways`, `RetiredIsEmptyAlways` | the contract `JobLifecycle` keeps its promises |
| `JobsImplementLifecycle` | keys, counters, workers and operators implement `JobLifecycle` |
| `OneUnfinishedAmongJobs` | so a source has one unfinished attempt among any number of callers, workers and operators |
| `OneAnswerPerKeyAlways` | a key is answered with one source and its first attempt, however often it is used |
| `UntouchedWorkIsAcceptedAlways` | an attempt that no operator wrote is never left behind or refused |
| `TypeCorrect` | `Spec => []TypeOK` for the pipeline |
| `OneActiveJobAlways` | a source never has two unfinished attempts |
| `SourceShowsNewestJobAlways` | the row of a source shows the status of its newest attempt |
| `ProjectionKeepsItsAttempt` | a projection that is about to commit still finds its attempt at `indexing` and its source locked by it |
| `PipelineImplementsLifecycle` | the pipeline implements `JobLifecycle` |
| `ChunksMatchDocumentsAlways` | chunks a source declares current are what splitting its documents gives |
| `FailurePreservesCanonicalAlways` | statement by statement, a chunking that fails at any document, or at the limit after all of them, commits a transaction that has written nothing, and a crawl, parse or projection that fails writes nothing either |
| `ChunkingIsOneStepAlways`, `ChunksMatchMidway` | however many documents a source has and wherever its chunking stops, others see nothing of it, or one step that splits all documents as they are at its end, or one that fails; and the chunks a source declares current match its documents between any two statements |
| `ActiveCandidatesAreCurrentAlways` | candidates that are offered quote the present revision of an existing chunk |
| `PointsVanishUnderLockAlways` | no chunk loses its last point unless the lock of its owner is held, or a delete is applied late that a process of that owner sent under it, gave up, and whose filter matches |
| `RebuildSweepsOrphansAlways` | a rebuild that ends leaves no point of a source of its owner that is gone, late upserts included |
| `NoOrphanPointsAlways` | no point outlives its source, if no upsert lands late (`LateDelivery = FALSE`) |
| `ReadyIsProjectedAlways` | a source that says ready has exactly the points of its chunks, of the committed generation, if no abandoned write, upsert or delete, is applied late and if operators do not declare sources ready themselves (`"ready" \notin OperatorTargets`) |
| `EvidenceIsCurrentAlways`, `EvidenceIsCommittedAlways` | what a search answers is, when it is validated, canonical text of a live, ready source of its caller, written by an attempt that committed; nothing is assumed of the index |
| `PurgeErasesAlways` | after a confirmed purge no row and no point of the subject is left or comes back, provided no upsert lands late (`LateDelivery = FALSE`; the run `late` shows the proviso is needed) |
| `PendingPurgeFencesAlways` | from the moment a purge is marked nothing is added to the subject, under the same proviso |
| `EvidenceIsKeptAlways` | if callers are authenticated, no request undoes what another one merged into a person model or a belief |
| `OnlyTheOwnerProceedsAlways` | fenced or not, of all payloads that race for a key only the one in the outcome's row gets to write for it |
| `LinkedMemoryIsOwnAlways` | fenced or not, the memory an outcome names exists and was made for its key |
| `IndexedIsFindableAlways` | fenced or not, a memory whose index stage is completed has its point, unless a deletion took it |
| `EdgesFollowAnalysisAlways`, `CompletedIsDurableAlways` | if callers are authenticated, the edges of an outcome are those of its stored analysis, and a completed one whose memory is still there has all its stages behind it and its edges cite that memory |
| `FenceHoldsAlways` | one handler per subject unless the database dropped a connection; no lock or place in the gauge stays behind |
| `IdentityIsVouchedAlways` | an address is the peer's or one that every hop behind it on the first line of the forwarding header vouches for, for any lines and whatever the others say (section 6); a subject is that of the token or of its service |
| `LimitIsExactAlways` | at most the limit was admitted in the window that ends at a key's newest admission, and who is refused used it up, in whatever order stamps pass the mutex and whatever was evicted |
| `SessionsAreOwnedAlways` | a session's messages are its user's, and the debug endpoint shows nobody another's |
| `SessionsReadAsConversationsAlways` | behind the fence questions stand together before their answer; without it no answer precedes its questions; plans recommend what they have |
| `OnlyNamedPairsAlways` | estimates rest on memories that name both sides |
| `ContradictionIsRememberedAlways` | a belief says contradicted exactly if two memories took different stances |
| `EachMemoryCountsOnceAlways` | the score of an unedited estimate, and the confidence of a belief that was never contradicted, is the mean of one vote per memory of its evidence, whatever failed or was repeated |
| `NothingLearnedIsLostAlways` | behind the fence no step takes evidence away or makes a second row of a belief, and only an ingest takes aliases, those of a name its memory uses |
| `FirstOfEachIs` | of a list of any length the items that are the first with their key are kept, each once, and no key is lost |
| `ExtractionIsWholeAlways` | a memory is of an acceptable answer, names nobody and nothing twice, and has all of the answer once its request was answered |
| `OutcomesKeepTheirContextAlways` | an outcome and its memory stay with one subject and one session; behind the fence its memory is never about an earlier answer than its row, and about the same one if the report names it |
| `BestOfWantedAlways` | a search returns, in order of score and without repetitions, the best of all memories that have a row and satisfy the question, expiry included; one is missing only because it repeats one not below it, the limit was reached, it has no point, or as many points as are fetched are as near; however stale the index is and however equals are ordered |
| `BranchesAreIndependentAlways` | evidence and memories are each told or counted as omitted, whatever became of the other branch |
| `BudgetsHoldAlways` | every section fits its reservation, texts are cut only at their end, and to apply the budgets again changes nothing |

The pipeline's inductive invariant is `IInv == TypeInv /\ AttemptInv /\ LockInv`.
`TypeInv` strengthens `TypeOK` with the owner, source and attempt a process must
name at each of its steps. `AttemptInv` says attempts are numbered as they are
opened, belong to sources that exist and are gone with them, and are alone.
`LockInv` ties a process that is inside a projection, a deletion or a rebuild to
the locks it holds and to the stage of its attempt. The last is what makes the
others inductive: a commit moves an attempt it claimed many steps ago, and only
the lock of the source row explains why nobody finished it meanwhile. The proof
first shows that each action opens, moves, drops or leaves attempts
(`AttemptStep`), then that each of these four keeps `AttemptInv` and, unless it
is disturbed, the `Holds` of every process; refinement follows from the same
four cases.

On top of it, `CanonicalInv` says which revision a document's chunks are split
from: the one its snapshot names, whatever was crawled since. That is what
justifies skipping a document whose snapshot is its present revision, and with
it `ChunksMatchDocuments`. For candidates it remains to show that the triggers
retract whatever a step takes away, and that a commit, which reads again under
the lock, adds only what it read; since a row is named by the attempt that
inserted it and attempts only count up, a chunk that comes back is another one.

For `IngestionJobs` the invariant has two halves. `UntouchedAreOrderly` says
what the stage of an attempt tells of its counters, as long as no operator wrote
it; workers then never meet counters they could not raise. `AnswersAreFirst`
with `KeysAreUnique` says that a key belongs to one live source and was answered
with its first attempt, which stays the first because attempts are only added.

On the gateway everything rests on `FenceInv`: past the fence is only its
holder (`Fenced`), some steps are a purge's own (`PurgeSteps`), and once the
purge is marked only purges are past the fence (`Closed`). The handlers' many
steps are first reduced to one shape, `Advances`: a request goes on or returns,
touches no other request and leaves the mark alone. `EraseInv` adds that a subject
without its row in `users` has nothing else and that nobody is past the point
where the row is made; that is what a purge needs which finds no user, calls no
Qdrant and still confirms. `ReadInv` says that a request about to write a view
back has read all that is in it by now, and `OwnerInv` that a report past its
reservation carries the hash of the stored row. The last needs no
authentication: it holds because reserving and comparing are one statement and
only a purge, alone behind its fence, ever removes a row.

That a source shows its newest attempt (`NewestInv`) needs that an unfinished
attempt is the newest one, and that an attempt that was never opened has no
status. The index proofs add what the points of a chunk say. `IndexInv` holds
with late upserts too: nothing is in flight unless some may be, every point
carries the stamp of an attempt that was opened, and inside a projection the
points of the batches done are there; `KeepsInv` says that a rebuild in its
sweep keeps only sources that still exist, which is what makes the sweep exact.
Without late upserts, `ReadyInv` says that past `DeleteStale` only the points of
the present generation are left (`Swept`), and `NoOrphanPoints` follows since a
deletion holds the owner's lock from the first removed point to its commit. For
searches `GenerationInv` suffices: a committed source names a generation that
was opened and reached ready. A search trusts nothing else, because it reads
the rows again.

`OutcomeRecords_proofs` follows ids through a report. `RecordInv` and `IdInv`
say that an id is given once, also after the deletion of its memory, and that a
handler's id, the row's and the outcome's agree; `OwnInv` is their use.
`FindInv` relates the three writes of "indexed": a handler that is past the
upsert has its point written (`PointWritten`) or the memory was deleted
meanwhile. `AnalysisInv` says that a handler past its reservation works with the
analysis that is stored (`FollowsStored`), so that edges which an earlier
attempt wrote are rewritten by equal ones; `DurableInv` that it knows of no
stage which is not completed in the row (`StagesKnown`).

`GatewayRequests_proofs` has one invariant per part. Admission: the lock of a
subject is of the slot that handles it or of nobody, whoever handles without it
is in `overlapped`, and the gauge is the number of slots that are busy
(`FenceInv`); a slot's address and subject are functions of the request in it
(`KnownInv`). Responses: a session keeps its user (`OwnerInv`), a call that is
past its session stores into its own, and behind the fence it is alone there
from its first message to its last (`TalkInv`). Views: what is worked on was
resolved against the memory of the work (`NamedInv`); a row that was read
remembers stances exactly (`BelievedInv`), so writing back an old row loses
evidence but does not forge a contradiction; behind the fence only the
holder works, and everything it read is still in the row (`FreshInv`). Every row
that is there or was read has as many votes as memories and their mean
(`TallyInv`); an edited estimate, or a belief whose confidence a contradiction
capped, promises no mean, and never does again. The sum over a set is a recursive
function that adds its members in the order CHOOSE gives them: it is shown to
exist, to be the same on the subsets of a larger set, and to take any member last
(`SumExists`, `SumsAgree`, `AnyVoteLast`), so that one vote more adds itself. The
greatest and the least of a set of numbers (`GreatestNumber`, `LeastNumber`,
`BestScore`) exist by the well-founded order of the naturals, applied to a set,
not to an operator.

The limiter forgets: stamps that left the window when a later one was looked at,
and all of a key that was silent. `LimitInv` says that an admission it no longer
has is `Gone`: superseded by an admission of its key more than a window later;
or older than any stamp still to come, which is why a silent key must be kept
for a window and two delays; or passed by a request that came late, was refused
and left the limit of newer ones behind it. So the admissions that are kept
decide as all of them would.

`GatewayContext_proofs` starts with `FirstOfEach`, a recursive function: that it
has a value, and what the value is, is shown for the least length that would be
a counterexample. For extractions, `ExtractionInv` says that the entities of a
memory are a first part of the accepted answer, whose rest is what the handler
has left. For reports, `ReportsInv` says of every attempt and every row what its
report is about (`Cites`), which stays true while conversations grow: the latest
answer of a session never moves back (`LatestGrows`), although one with a plan
is preferred to later ones without. A handler that is about to record works for
the row that is there (`SameReport`), and behind the fence it is alone with its
subject from reading the session to recording (`OneByOne`), so that what it
found is not older than any row.

`FailurePreservesCanonical` rests on `ChunkingInv`: an open session holds the lock
of its source, whose attempt is still to be split, and while it plans it has
sent nothing to the database, so that the commit of its failure changes no row
of a document or chunk. `ChunkingIsOneStep` needs more: `StagedInv` says that what
a session has planned and written is what splitting gives of the documents that
are outdated *now* (`Staged`), although it read them one after the other. Others
keep that true because they leave the rows of a locked source alone
(`LockedDocuments`, `LockedChunks`); so what is left at the end of the session is
what the one step writes (`FinishRewrites`), and the locks of the two differ
only while a session is open (`OpenUnseen`, `EndUnseen`).

For the search, `WantedInv` says that hits satisfy the question they were found
for, that a part of the search which came less far found nothing, and that what
was not fetched had no point or was crowded out (`LeftOut`). A selection is
described by the places its members had among the candidates (`SelectedUpTo`):
they increase, and whatever was passed over repeats a member that came before it
or found the selection full. That does not depend on which of the orders among
equals the sort chose. For the context, `ContextInv` says what each branch may
leave: nothing, or memories of the search with their lines in lists; evidence
with text; and that a packet is what the budgets made of both. The rest is about
the budgets alone. What is kept of evidence fits at each of its lengths
(`FitsAll`), because items are only added that fit, so a second pass adds every
one of them whole. Memories and lines that fit are left as they are. Each
recursive function along a list is first shown to have a value (`GrownExists`)
and then followed to its end (`EveryPart`), both by the least place where it
would go wrong.

Model-checked only: liveness (`WorkFinishes`, `Recovers`, `PurgeCompletes`), which
with ENABLED and RECURSIVE operators is beyond the proof system used here. The
statements of the runs `rebuild`, `repair` and `late` are refuted. Every other
property of the runs has a theorem.

## 6. Where the code and its documents disagree

1. **`rebuild`**. `rebuild_index` lets the error of one source whose chunks are
   outdated end the command (`pipeline.py:349`), before the sources after it are
   replayed and before orphans are swept. Its docstring says it replays all
   existing canonical chunks.
2. **`repair`**. "Outcome retries repair their associated memory points"
   (`docs/operations.md:12-13`). A retry skips the upsert once the stage was
   completed (`memory/service.go:184`), and nothing takes that status back: a
   memory whose deletion removed the point and then failed stays without one,
   and its report is answered with success.
3. **`late`**. "Index upserts ... wait for completion before the subject lock is
   released" (`docs/contracts/service-context-v1.md:53-54`). An upsert that times
   out after ten seconds does not: it may be applied after a purge of the
   subject was confirmed.
Observed on the way, without a run:

- "The API evaluates the header from right to left and uses the first untrusted
  hop as the client" (`README.md:430`, and `docs/operations.md:95`). The code
  reads the first `X-Forwarded-For` line only (`client_ip.go:37`, `Header.Get`).
  A proxy that appends its hop to the line, as most do, is evaluated as
  described; one that adds it as a line of its own leaves the first line in
  force, whatever the lines after it say. `IdentityIsVouched` therefore speaks
  of the first line.
- "Retries skip durable completed stages" (`docs/architecture.md:95`, and
  `docs/operations.md:42`). Every ingest first writes the rows of the people and
  topics it names with empty aliases (`memory/service.go:136`,
  `person_repository.go:33`), also the repetition of one that is complete:
  aliases learned or edited for these names are gone, and the completed stage
  that learned them does not run again. `NothingLearnedIsLost` makes that one
  exception, and no other.
- "Retrieve with owner/expiry/confidence/type/people/topic filters, then apply
  configurable salience weights"
  (`docs/adr/0002-memory-context-and-outcomes.md:20`). The filter sent to Qdrant
  says nothing of expiry (`retrieval/service.go:180`, `223-254`); what has
  expired is dropped after the candidates were counted. Where at least 20
  expired points, the least number of candidates, are nearer than a memory that
  is wanted, the search does not find it; `BestOfWanted` names the case, and
  `gateway`, with a smaller cap, contains it.
- Repeating the report of a completed outcome sets it to `pending` and writes
  its edges again (`outcomes/service.go:219-222`) before it is completed again,
  so a failure of that attempt leaves an outcome that had been completed as
  `pending` or `failed`; the run `recovery` shows it is completed in the end if
  the caller goes on repeating.
- A repeated report that names a session and no message is about the latest
  answer of the session at the time of the repetition. A memory that the first
  attempt did not get to make may so cite a later answer, and its people and
  topics, than the outcome's row, and the replay of a completed report writes
  the person and topic of the row again. `README.md:347` links outcome memories
  to "the originating assistant message", and `README.md:480` promises "the same
  outcome and memory". `OutcomesKeepTheirContext` states what does hold.
- An ingestion that fails inside an extraction leaves its memory behind: only
  the failure of an entity is compensated (`memory/extraction.go`). Entities are
  compared without folding inner white space, while their `normalized_name`
  folds it, so two rows of one memory may share a name.
- A plan none of whose strategies has a label or a draft counts as parsed, loses
  them all when it is normalized, and rendering it then takes the first of no
  strategies (`scenarios/service.go:333`): the handler panics and is answered
  with 500.
- The debug endpoint, and the search for the latest answer of a session, see the
  oldest 100 messages of it only.

## 7. What is not modelled

- **Splitter, parsers, crawler.** Conversions of text, HTML, PDF and DOCX, and
  HTTP with address checks. What they return (pieces, pages, failures) is a
  choice of the modules that use them.
- **Recipe manifest and collection schema.** One fixed recipe; where the
  manifest says another, the code refuses to project or to sweep.
- **LLM client, prompts.** An answer, unreadable, foreign or contradictory, or a
  failure, is a choice of the module that asks.
- **HTTP API, UI, CLI, configuration, metrics, logging** of both programs beyond
  `RequestAdmission`: rendering and settings around the modelled operations.
- **`cmd/eval`, `cmd/demo`, deployment and release scripts**: programs that call
  the gateway, and packaging.
- **Partly modelled**: the ranking of search results of the knowledge service;
  the single scores behind recency, importance, utility, impact and confidence,
  and sparse vectors, which are numbers of the instance; the session an ingest
  may create; the lists of the debug endpoint; the references of an outcome's row
  to one person and one topic. Person, topic, session and message rows are not
  in `SubjectMemory`, where a purge cascades over them as over memories.

## 8. Plan

1. `RecipeManifest`: two processes with different settings that reserve, verify
   and replace the manifest of one collection.
2. Pure algorithms against reference definitions: the splitter, the crawl
   frontier, the ranking and diversification of knowledge search.
