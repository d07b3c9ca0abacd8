-------------------------- MODULE OutcomeProcessing --------------------------
(***************************************************************************)
(* POST /interactions/outcome beside the other requests of the subject.    *)
(* A report reserves its outcome row under an idempotency key, ingests a   *)
(* memory keyed by the outcome, links it, writes the graph edges of its    *)
(* analysis and marks the outcome completed.  The caller repeats a failed  *)
(* report with the same key and payload.                                   *)
(***************************************************************************)
EXTENDS SubjectMemory

Reserved(k) == outcomes[k].hash # None

SubmitOutcome(r, k, h) ==
  /\ Arrive(r, [Idle EXCEPT !.op = "outcome", !.pc = "fence", !.key = k, !.hash = h])
  /\ UNCHANGED <<rows, index, fence, bounds>>

-----------------------------------------------------------------------------

(* Refuted variant: a replay asks the model again.                         *)
LookUpAndAnalyze(r) ==
  LET p == proc[r]
      request == [p EXCEPT !.pc = "analyze"]
  IN /\ At(r, {"outcome"}, "start")
     /\ IF Reserved(p.key) /\ outcomes[p.key].hash # p.hash
        THEN Respond(r) /\ UNCHANGED user
        ELSE EnsureUser(r, request)
     /\ UNCHANGED <<purge, memories, made, derived, index, bounds>>

(* Refuted variant: a replay is answered with the stored row as it is.     *)
LookUpAndReturn(r) ==
  LET p == proc[r]
  IN /\ At(r, {"outcome"}, "start")
     /\ IF Reserved(p.key)
        THEN Respond(r) /\ UNCHANGED user
        ELSE EnsureUser(r, [p EXCEPT !.pc = "analyze"])
     /\ UNCHANGED <<purge, memories, made, derived, index, bounds>>

\* A replay continues with the stored analysis, a new report asks the model,
\* and a key that belongs to another payload is answered 409.
LookUpOutcome(r) ==
  LET p == proc[r]
      stored == outcomes[p.key]
  IN /\ At(r, {"outcome"}, "start")
     /\ EnsureUser(r, CASE ~Reserved(p.key) -> [p EXCEPT !.pc = "analyze"]
                       [] stored.hash = p.hash ->
                            [p EXCEPT !.analysis = stored.analysis, !.pc = "create"]
                       [] OTHER -> [p EXCEPT !.pc = "conflict"])
     /\ UNCHANGED <<purge, memories, made, derived, index, bounds>>

RespondConflict(r) ==
  /\ proc[r].pc = "conflict"
  /\ Respond(r)
  /\ UNCHANGED <<rows, index, bounds>>

Analyze(r) ==
  /\ proc[r].pc = "analyze"
  /\ \E a \in Analyses :
       proc' = [proc EXCEPT ![r].analysis = a, ![r].pc = "reserve"]
  /\ UNCHANGED <<rows, index, fence, bounds>>

(* Refuted variant: the hash of the row that came back is not compared.    *)
ReserveAnyOutcome(r) ==
  LET p == proc[r]
  IN /\ p.pc = "reserve"
     /\ outcomes' = [outcomes EXCEPT ![p.key] =
          IF Reserved(p.key) THEN @
          ELSE [NoOutcome EXCEPT !.hash = p.hash, !.analysis = p.analysis]]
     /\ Goto(r, "create")
     /\ UNCHANGED <<user, purge, memories, made, learned, edges, index, fence, bounds>>

\* INSERT ... ON CONFLICT returns the row of whoever came first; the request
\* compares the hash again, and goes on with the analysis it made itself.
ReserveOutcome(r) ==
  LET p == proc[r]
  IN /\ p.pc = "reserve"
     /\ outcomes' = [outcomes EXCEPT ![p.key] =
          IF Reserved(p.key) THEN @
          ELSE [NoOutcome EXCEPT !.hash = p.hash, !.analysis = p.analysis]]
     /\ IF outcomes'[p.key].hash = p.hash
        THEN Goto(r, "create") ELSE Goto(r, "conflict")
     /\ UNCHANGED <<user, purge, memories, made, learned, edges, index, fence, bounds>>

\* UpdateProcessing leaves the memory alone when it is given none.
RecordMemoryFailure(r) ==
  LET k == proc[r].key
  IN /\ At(r, {"outcome"}, "ingestFailed")
     /\ outcomes' = [outcomes EXCEPT ![k].status = "failed", ![k].stage = "memory"]
     /\ Respond(r)
     /\ UNCHANGED <<user, purge, memories, made, learned, edges, index, bounds>>

\* The status goes back to pending whatever it was.  memory_id is a foreign
\* key: linking a memory that is gone is an error nothing records.
LinkMemory(r) ==
  LET p == proc[r]
  IN /\ At(r, {"outcome"}, "ingested")
     /\ IF memories[p.memory].live
        THEN /\ outcomes' = [outcomes EXCEPT ![p.key] =
                  [@ EXCEPT !.status = "pending", !.stage = "none", !.memory = p.memory]]
             /\ proc' = [proc EXCEPT ![r].edges = EdgesOf[p.analysis], ![r].pc = "edges"]
             /\ UNCHANGED fence
        ELSE UNCHANGED outcomes /\ Respond(r)
     /\ UNCHANGED <<user, purge, memories, made, learned, edges, index, bounds>>

\* An edge of the outcome that exists already has its evidence replaced.
CreateGraphEdge(r) ==
  LET p == proc[r]
  IN /\ p.pc = "edges"
     /\ \E e \in p.edges :
          /\ edges' = [edges EXCEPT ![p.key][e] = p.memory]
          /\ proc' = [proc EXCEPT ![r].edges = @ \ {e}]
     /\ UNCHANGED <<user, purge, memories, made, learned, outcomes, index, fence, bounds>>

GraphEdgeFails(r) ==
  LET p == proc[r]
  IN /\ p.pc = "edges" /\ p.edges # {}
     /\ Fault
     /\ outcomes' = [outcomes EXCEPT ![p.key] =
          IF memories[p.memory].live
          THEN [@ EXCEPT !.status = "failed", !.stage = "graph_edges", !.memory = p.memory]
          ELSE @]
     /\ Respond(r)
     /\ UNCHANGED <<user, purge, memories, made, learned, edges, index, ingests, deletes>>

CompleteOutcome(r) ==
  LET p == proc[r]
  IN /\ p.pc = "edges" /\ p.edges = {}
     /\ outcomes' = [outcomes EXCEPT ![p.key] =
          IF memories[p.memory].live
          THEN [@ EXCEPT !.status = "completed", !.stage = "none", !.memory = p.memory]
          ELSE @]
     /\ Respond(r)
     /\ UNCHANGED <<user, purge, memories, made, learned, edges, index, bounds>>

-----------------------------------------------------------------------------

Init ==
  /\ user = "absent" /\ purge = "none"
  /\ memories = [m \in MemoryIds |-> NoMemory]
  /\ made = 0
  /\ learned = [v \in Views |-> {}]
  /\ outcomes = [k \in Keys |-> NoOutcome]
  /\ edges = [k \in Keys |-> [e \in EdgeNames |-> 0]]
  /\ points = {} /\ inflight = {} /\ unindexed = {}
  /\ fence = None
  /\ proc = [r \in Requests |-> Idle]
  /\ ingests = 0 /\ deletes = 0 /\ faults = 0

Submit(r) ==
  \/ SubmitIngest(r) \/ SubmitDelete(r) \/ SubmitPurge(r)
  \/ \E k \in Keys, h \in Hashes : SubmitOutcome(r, k, h)

IngestStep(r) ==
  \/ StartIngest(r) \/ CreateMemory(r) \/ GetProcessingState(r)
  \/ UpsertPoint(r) \/ UpdateQdrantPointID(r)
  \/ ObserveMemory(r) \/ SaveObservation(r)
  \/ CompleteStage(r) \/ RecordStageFailure(r)
  \/ RespondToIngest(r) \/ StoreExtractedEntities(r)

OutcomeStep(r) ==
  \/ LookUpOutcome(r) \/ Analyze(r) \/ ReserveOutcome(r) \/ RespondConflict(r)
  \/ RecordMemoryFailure(r) \/ LinkMemory(r)
  \/ CreateGraphEdge(r) \/ CompleteOutcome(r)

EraseStep(r) ==
  \/ StartDelete(r) \/ DeletePoint(r) \/ DropMemory(r)
  \/ FencePurge(r) \/ DeleteSubject(r) \/ DeleteUser(r)

\* What a handler does once it is past the fence.
Proceed(r) == Refuse(r) \/ IngestStep(r) \/ OutcomeStep(r) \/ EraseStep(r)

Failure(r) ==
  \/ Abandon(r) \/ UpsertFails(r) \/ StageFails(r)
  \/ IngestFails(r) \/ GraphEdgeFails(r)

Next ==
  \/ \E r \in Requests : Submit(r) \/ Admit(r) \/ Proceed(r) \/ Failure(r)
  \/ \E m \in MemoryIds : Land(m)

Spec == Init /\ [][Next]_vars

\* Waiters for the advisory lock are served in turn, handlers go on, and
\* callers repeat a report, or a purge, that has not been confirmed.
RetryOutcome(k) ==
  /\ Reserved(k) /\ outcomes[k].status # "completed"
  /\ \E r \in Requests : SubmitOutcome(r, k, outcomes[k].hash)

RetryPurge == purge = "pending" /\ \E r \in Requests : SubmitPurge(r)

Fairness ==
  /\ \A r \in Requests : SF_vars(Admit(r)) /\ WF_vars(Proceed(r))
  /\ \A k \in Keys : SF_vars(RetryOutcome(k))
  /\ SF_vars(RetryPurge)

FairSpec == Spec /\ Fairness

-----------------------------------------------------------------------------
(* Properties                                                              *)

\* A purge that answered 200 has erased everything: no row of the subject and
\* no point of any of its memories, orphaned ones included, is left or comes
\* back, whatever failed before and whoever was waiting at the fence.
PurgeErases ==
  purge = "completed" =>
    /\ user = "absent"
    /\ \A m \in MemoryIds : ~memories[m].live
    /\ \A k \in Keys : ~Reserved(k) /\ \A e \in EdgeNames : edges[k][e] = 0
    /\ \A v \in Views : learned[v] = {}
    /\ points = {}

\* From the moment the purge is marked, failed attempts included, nothing is
\* added to the subject's rows or points.
PendingPurgeFences ==
  [][purge # "none" =>
       /\ \A m \in MemoryIds : memories'[m].live => memories[m].live
       /\ \A k \in Keys : outcomes'[k].hash # None => Reserved(k)
       /\ \A v \in Views : learned'[v] \subseteq learned[v]
       /\ points' \subseteq points]_vars

\* An outcome that is completed and still has its memory went through every
\* stage: the memory is indexed and observed, and the edges of the stored
\* analysis cite it, however many attempts it took and wherever they failed.
CompletedIsDurable ==
  \A k \in Keys :
    LET o == outcomes[k]
    IN o.status = "completed" /\ o.memory # 0 =>
         /\ memories[o.memory].live
         /\ \A s \in Stages : memories[o.memory].status[s] = "completed"
         /\ \A e \in EdgesOf[o.analysis] : edges[k][e] = o.memory

\* A report that is repeated after a failure half way does not mix two answers
\* of the model: every edge of an outcome comes from its stored analysis.
EdgesFollowAnalysis ==
  \A k \in Keys, e \in EdgeNames :
    edges[k][e] # 0 => Reserved(k) /\ e \in EdgesOf[outcomes[k].analysis]

\* A memory whose index stage is completed has its point, unless a deletion
\* of that memory, or a purge, has removed it.
IndexedIsFindable ==
  purge = "none" => \A m \in MemoryIds :
    memories[m].live /\ memories[m].status["qdrant"] = "completed" =>
      m \in points \cup unindexed

\* Person models and beliefs are read, merged and written back in separate
\* statements; no request of the subject undoes what another one learned.
EvidenceIsKept ==
  [][purge # "completed" /\ purge' # "completed" =>
       \A v \in Views : learned[v] \subseteq learned'[v]]_vars

\* Even unfenced, of two payloads that race for a new key only the one whose
\* row was inserted goes on to create memories and edges.
OnlyTheOwnerProceeds ==
  \A r \in Requests :
    At(r, {"outcome"}, proc[r].pc)
      /\ proc[r].pc \notin {"fence", "start", "analyze", "reserve", "conflict"}
      => proc[r].hash = outcomes[proc[r].key].hash

\* Even unfenced, an outcome names the memory made for its own key, and one
\* that exists, through deletions and repeated reports.
LinkedMemoryIsOwn ==
  \A k \in Keys : outcomes[k].memory # 0 =>
    memories[outcomes[k].memory].live /\ memories[outcomes[k].memory].key = k

\* A reserved outcome is completed once its caller keeps repeating the report
\* and nothing fails any more, or else the subject is being purged.
Recovers ==
  \A k \in Keys :
    Reserved(k) ~> (Reserved(k) /\ outcomes[k].status = "completed") \/ purge # "none"

\* A marked purge completes once its caller keeps repeating it.
PurgeCompletes == (purge = "pending") ~> (purge = "completed")

\* "Outcome retries repair their associated memory points"
\* (docs/operations.md): a report is answered with a memory that has its
\* point.  The code skips the upsert for a stage that was once completed.
RetriesRepairPoints ==
  [][\A r \in Requests :
       At(r, {"outcome"}, "edges") /\ proc[r].edges = {} /\ faults' = faults
         /\ proc'[r] = Idle /\ memories[proc[r].memory].live
       => proc[r].memory \in points]_vars
=============================================================================
