---------------------------- MODULE IngestionJobs ----------------------------
(***************************************************************************)
(* The rows of sources and attempts: creation with idempotency keys,       *)
(* refresh, the counters of an attempt, which attempts a worker claims,    *)
(* and which transitions are accepted of workers and operators.            *)
(*                                                                         *)
(* Everyone locks the source row first, so a transaction is one step; only *)
(* what is read before the lock (the look-up of a key, the condition of a  *)
(* claim) is a step of its own.  Documents and chunks are counted only.    *)
(***************************************************************************)
EXTENDS JobLifecycle, FiniteSets

CONSTANTS
  Kind,       (* "url" or "text" for each source                           *)
  Callers,    (* concurrent requests to create a source                    *)
  Keys,       (* idempotency keys                                          *)
  Payloads,
  Workers,
  MaxPages,   (* settings.web_max_pages                                    *)
  MaxChunks,  (* settings.max_chunks_per_source                            *)
  MaxTouched  (* bound: attempts an operator writes                        *)

ASSUME JobsAssumption == /\ Kind \in [Sources -> Kinds] /\ None \notin Keys
                         /\ None \notin [key : Keys \cup {None}, payload : Payloads]
                         /\ MaxPages \in Nat /\ MaxChunks \in Nat

VARIABLES
  identity,    (* per source: key and payload, or None                     *)
  canonical,   (* per source: its documents, chunks, are they current?     *)
  progress,    (* per attempt: its counters                                *)
  callers,     (* per caller: its request and how far it came              *)
  claims,      (* per worker: the source its query found                   *)
  answers,     (* history: what creations with a key were answered         *)
  touched,     (* history: attempts an operator wrote                      *)
  refused      (* history: attempts with a transition of a worker refused  *)

history == <<answers, touched, refused>>
jobsVars == <<vars, identity, canonical, progress, callers, claims, history>>

NoProgress == [found |-> 0, processed |-> 0, chunks |-> 0]
NoCall == [pc |-> "idle", key |-> None, payload |-> None]
Nothing == [documents |-> 0, chunks |-> 0, current |-> TRUE]

JobsInit ==
  /\ Init
  /\ identity = [s \in Sources |-> None]
  /\ canonical = [s \in Sources |-> Nothing]
  /\ progress = [j \in JobIds |-> NoProgress]
  /\ callers = [c \in Callers |-> NoCall]
  /\ claims = [w \in Workers |-> None]
  /\ answers = {}
  /\ touched = {}
  /\ refused = {}

Live(s) == identity[s] # None /\ s \notin retired
AttemptsOf(s) == {j \in JobIds : attemptOf[j] = s}

-----------------------------------------------------------------------------
(* Creation                                                                *)

Holding(key) == {s \in Sources : Live(s) /\ identity[s].key = key /\ key # None}

(* Refuted variant: the newest attempt answers a repeated request.         *)
NewestAttempt(s) == CHOOSE j \in AttemptsOf(s) : \A k \in AttemptsOf(s) : k <= j

OriginalAttempt(s) == CHOOSE j \in AttemptsOf(s) : \A k \in AttemptsOf(s) : j <= k

Answered(c, s, j) ==
  /\ callers' = [callers EXCEPT ![c] = NoCall]
  /\ answers' = IF callers[c].key = None THEN answers
                ELSE answers \cup {[key |-> callers[c].key, payload |-> callers[c].payload,
                                    source |-> s, attempt |-> j]}

Call(c, key, payload) ==
  /\ callers[c].pc = "idle"
  /\ callers' = [callers EXCEPT ![c] = [pc |-> "look", key |-> key, payload |-> payload]]
  /\ UNCHANGED <<vars, identity, canonical, progress, claims, history>>

(* The same payload is answered what it was answered before; another one   *)
(* is a conflict.  Who lost the race for the key looks once more, and if   *)
(* the winner is deleted by then the request fails.                        *)
Replay(c) ==
  LET call == callers[c] IN
  /\ call.pc \in {"look", "lost"}
  /\ IF \E s \in Holding(call.key) : identity[s].payload = call.payload
     THEN \E s \in Holding(call.key) : Answered(c, s, OriginalAttempt(s))
     ELSE /\ callers' = [callers EXCEPT ![c] =
               IF Holding(call.key) = {} /\ call.pc = "look"
               THEN [call EXCEPT !.pc = "insert"] ELSE NoCall]
          /\ UNCHANGED answers
  /\ UNCHANGED <<vars, identity, canonical, progress, claims, touched, refused>>

(* The unique key waits for an insert under way and then refuses the row.  *)
Insert(c) ==
  LET call == callers[c] IN
  /\ call.pc = "insert"
  /\ IF Holding(call.key) # {}
     THEN /\ callers' = [callers EXCEPT ![c].pc = "lost"]
          /\ UNCHANGED <<vars, identity, answers>>
     ELSE \E s \in Sources :
            /\ identity[s] = None
            /\ Open(s, "pending")
            /\ identity' = [identity EXCEPT ![s] = [key |-> call.key, payload |-> call.payload]]
            /\ Answered(c, s, opened + 1)
  /\ UNCHANGED <<canonical, progress, claims, touched, refused>>

-----------------------------------------------------------------------------
(* Refresh, reindexing and deletion                                        *)

(* Work that is outstanding is answered instead of a new attempt.          *)
Refresh(s) ==
  /\ Live(s)
  /\ Open(s, "pending")
  /\ UNCHANGED <<identity, canonical, progress, callers, claims, history>>

(* Refuted variant: the documents count as found, not as processed.        *)
ReplayedAsFound(c) == [found |-> c.documents, processed |-> 0, chunks |-> c.chunks]

Replayed(c) == [found |-> c.documents, processed |-> c.documents, chunks |-> c.chunks]

Reindex(s) ==
  /\ Live(s)
  /\ canonical[s].current /\ canonical[s].chunks > 0
  /\ Open(s, "indexing")
  /\ progress' = [progress EXCEPT ![opened + 1] = Replayed(canonical[s])]
  /\ UNCHANGED <<identity, canonical, callers, claims, history>>

Delete(s) ==
  /\ Live(s)
  /\ Retire(s)
  /\ canonical' = [canonical EXCEPT ![s] = Nothing]
  /\ UNCHANGED <<identity, progress, callers, claims, history>>

-----------------------------------------------------------------------------
(* Transitions                                                             *)

(* Every counter that is given grows or stays.                             *)
MayCount(row, next) ==
  /\ \A field \in DOMAIN row : next[field] >= row[field]
  /\ next.processed <= next.found

Accepts(j, to, next) ==
  /\ MayCount(progress[j], next)
  /\ MayMove(Kind[attemptOf[j]], attemptStatus[j], to)
  /\ to = "ready" => next.processed = next.found

Write(j, to, next) ==
  /\ attemptStatus' = [attemptStatus EXCEPT ![j] = to]
  /\ progress' = [progress EXCEPT ![j] = next]
  /\ UNCHANGED <<attemptOf, opened, retired>>

(* A repeated transition is answered and writes nothing; it is left out.   *)
Operate(j, to, next) ==
  /\ attemptStatus[j] \in Active
  /\ Accepts(j, to, next)
  /\ Write(j, to, next)
  /\ touched' = touched \cup {j} /\ Cardinality(touched') <= MaxTouched
  /\ UNCHANGED <<identity, canonical, callers, claims, answers, refused>>

-----------------------------------------------------------------------------
(* Workers                                                                 *)

ParseStates(kind) == IF kind = "url" THEN {"pending", "fetching"} ELSE {"pending", "parsing"}

(* Counters that a parser did not leave are taken for work already done.   *)
Claimable(j) ==
  LET kind == Kind[attemptOf[j]]
      most == IF kind = "url" THEN 0 ELSE 1
  IN /\ attemptOf[j] # None
     /\ attemptStatus[j] \in ParseStates(kind)
     /\ progress[j].found <= most /\ progress[j].processed <= most
     /\ progress[j].chunks = 0

(* The query that claims sees the rows before it has the lock.             *)
Look(w) ==
  /\ claims[w] = None
  /\ \E j \in JobIds : Claimable(j) /\ claims' = [claims EXCEPT ![w] = attemptOf[j]]
  /\ UNCHANGED <<vars, identity, canonical, progress, callers, history>>

(* A worker makes its transitions and commits once.  If one is refused, all *)
(* is rolled back and a later poll finds the attempt again.                *)
Work(j, to, next, rows) ==
  /\ IF MayCount(progress[j], next) /\ (to = "ready" => next.processed = next.found)
     THEN /\ Write(j, to, next)
          /\ canonical' = [canonical EXCEPT ![attemptOf[j]] = rows]
          /\ UNCHANGED refused
     ELSE /\ refused' = refused \cup {j}
          /\ UNCHANGED <<vars, progress, canonical>>
  /\ UNCHANGED <<identity, callers, answers, touched>>

(* An input that parsed to the same before leaves the chunks current.      *)
ParseText(j) ==
  LET p == [progress[j] EXCEPT !.found = 1]
      rows == canonical[attemptOf[j]]
  IN \/ Work(j, "failed", p, rows)
     \/ Work(j, "chunking", [p EXCEPT !.processed = 1],
             [rows EXCEPT !.documents = 1, !.current = FALSE])
     \/ rows.documents = 1 /\ Work(j, "chunking", [p EXCEPT !.processed = 1], rows)

(* Pages that this crawl did not see are retained unless it was complete.  *)
CrawlWebsite(j) ==
  LET p == progress[j]
      rows == canonical[attemptOf[j]]
  IN \/ Work(j, "failed", p, rows)
     \/ \E n \in 1..MaxPages : \E all \in n..MaxPages :
          /\ all <= n + rows.documents
          /\ Work(j, "chunking", [p EXCEPT !.found = n, !.processed = n],
                  [rows EXCEPT !.documents = all, !.current = FALSE])

(* The attempt is read again under the lock, by its status alone.          *)
Parse(w) ==
  LET s == claims[w]
      mine == {j \in AttemptsOf(s) : attemptStatus[j] \in ParseStates(Kind[s])}
  IN /\ s # None
     /\ claims' = [claims EXCEPT ![w] = None]
     /\ IF mine = {} THEN UNCHANGED <<vars, identity, canonical, progress, callers, history>>
        ELSE \E j \in mine : IF Kind[s] = "url" THEN CrawlWebsite(j) ELSE ParseText(j)

LoseWorker(w) ==
  /\ claims[w] # None
  /\ claims' = [claims EXCEPT ![w] = None]
  /\ UNCHANGED <<vars, identity, canonical, progress, callers, history>>

(* Every document has a chunk; without documents there is nothing to index. *)
Chunk(j) ==
  LET rows == canonical[attemptOf[j]] IN
  /\ attemptStatus[j] = "chunking"
  /\ \/ Work(j, "failed", progress[j], rows)
     \/ /\ rows.documents > 0
        /\ \E total \in rows.documents..MaxChunks :
             Work(j, "indexing", [progress[j] EXCEPT !.chunks = total],
                  [rows EXCEPT !.chunks = total, !.current = TRUE])
  /\ UNCHANGED claims

(* The transition to ready comes after everything was written to Qdrant.   *)
Index(j) ==
  LET rows == canonical[attemptOf[j]] IN
  /\ attemptStatus[j] = "indexing"
  /\ \/ Work(j, "failed", progress[j], rows)
     \/ rows.chunks > 0 /\ Work(j, "ready", progress[j], rows)
  /\ UNCHANGED claims

-----------------------------------------------------------------------------

Counters == [found : 0..MaxPages, processed : 0..MaxPages, chunks : 0..MaxChunks]

Create(c) ==
  \/ \E key \in Keys \cup {None}, payload \in Payloads : Call(c, key, payload)
  \/ Replay(c) \/ Insert(c)

Request(s) == Refresh(s) \/ Reindex(s) \/ Delete(s)

Poll ==
  \/ \E w \in Workers : Look(w) \/ Parse(w) \/ LoseWorker(w)
  \/ \E j \in JobIds : Chunk(j) \/ Index(j)

JobsNext ==
  \/ \E c \in Callers : Create(c)
  \/ \E s \in Sources : Request(s)
  \/ \E j \in JobIds, to \in Stages, next \in Counters : Operate(j, to, next)
  \/ Poll

JobsSpec == JobsInit /\ [][JobsNext]_jobsVars

-----------------------------------------------------------------------------

(***************************************************************************)
(* A key is answered with one source and the attempt that was opened with  *)
(* it, however often and by however many callers it is used at once, and   *)
(* whatever was refreshed or finished since; and never with a source that  *)
(* was created from another payload.                                       *)
(***************************************************************************)
OneAnswerPerKey ==
  \A a, b \in {x \in answers : Live(x.source)} :
    /\ identity[a.source] = [key |-> a.key, payload |-> a.payload]
    /\ a.attempt = OriginalAttempt(a.source)
    /\ a.key = b.key => a = b

(***************************************************************************)
(* No attempt is left behind: one that is not finished is claimed by a     *)
(* worker of its stage and no transition of a worker is refused, which     *)
(* would be repeated for ever, unless an operator wrote its counters or    *)
(* its stage.                                                              *)
(***************************************************************************)
UntouchedWorkIsAccepted ==
  /\ refused \subseteq touched
  /\ \A j \in JobIds \ touched : attemptStatus[j] \in Active =>
       Claimable(j) \/ attemptStatus[j] \in {"chunking", "indexing"}
=============================================================================
