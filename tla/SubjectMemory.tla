---------------------------- MODULE SubjectMemory ----------------------------
(***************************************************************************)
(* The memories of one subject of the Go gateway: the rows in Postgres,    *)
(* the points in Qdrant, the evidence its person models and beliefs were   *)
(* built from, and the requests that write them (ingest, extract, delete   *)
(* and subject purge).  Outcome reports, which ingest a memory of their    *)
(* own, are added by OutcomeProcessing.                                    *)
(*                                                                         *)
(* Nothing spans these writes: every statement and every remote call is a  *)
(* step, and a request may be cut off between any two of them.  What keeps *)
(* requests apart is the subject fence, an advisory lock held for a whole  *)
(* HTTP operation, and only if callers are authenticated.                  *)
(***************************************************************************)
EXTENDS Naturals, FiniteSets

CONSTANTS
  Requests,        (* concurrent HTTP handlers serving the subject         *)
  Keys,            (* idempotency keys of outcome reports                  *)
  Hashes,          (* request hashes: what distinguishes two payloads      *)
  Analyses,        (* what the model can answer about an outcome           *)
  EdgeNames,       (* identities of graph edges                            *)
  EdgesOf,         (* the graph edges each analysis proposes               *)
  Authenticated,   (* is the subject fence in force?                       *)
  LateDelivery,    (* may an upsert land after its request gave up?        *)
  MaxIngests,      (* bound: memories posted without a key                 *)
  MaxDeletes,      (* bound: DELETE /memory requests                       *)
  MaxFaults,       (* bound: failed statements and calls, dead handlers    *)
  None

\* A keyed memory is created once, and again only after it was deleted.
MemoryIds == 1..(Cardinality(Keys) + MaxIngests + MaxDeletes)

ASSUME SubjectAssumption ==
  /\ IsFiniteSet(Keys)
  /\ EdgesOf \in [Analyses -> SUBSET EdgeNames]
  /\ Authenticated \in BOOLEAN /\ LateDelivery \in BOOLEAN
  /\ MaxIngests \in Nat /\ MaxDeletes \in Nat /\ MaxFaults \in Nat
  /\ None \notin Requests \cup Keys \cup Hashes \cup Analyses

Statuses == {"pending", "completed", "failed"}
Views == {"person_model", "belief"}
Stages == {"qdrant"} \cup Views

NoMemory == [live |-> FALSE, key |-> None, point |-> FALSE,
             status |-> [s \in Stages |-> "pending"]]
NewMemory(k) == [NoMemory EXCEPT !.live = TRUE, !.key = k]

NoOutcome == [hash |-> None, analysis |-> None, status |-> "pending",
              stage |-> "none", memory |-> 0]

Idle == [op |-> "none", pc |-> "idle", key |-> None, hash |-> None,
         analysis |-> None, memory |-> 0, left |-> {}, read |-> {}, edges |-> {}]

VARIABLES
  user,        (* "absent" or "present": the subject's row in users        *)
  purge,       (* the subject's row in subject_purges                      *)
  memories,    (* per id: the row in memory_items                          *)
  made,        (* memory rows ever inserted                                *)
  learned,     (* per view: the memories its newest row cites as evidence  *)
  outcomes,    (* per key: the row in interaction_outcomes                 *)
  edges,       (* per key and edge: the memory its row cites, 0 if no row  *)
  points,      (* memories with a point in the Qdrant collection           *)
  inflight,    (* upserts given up by their request that may still land    *)
  fence,       (* the request that holds the subject's advisory lock       *)
  proc,        (* what each handler is doing                               *)
  ingests, deletes, faults,   (* bounded events so far                     *)
  unindexed    (* memories whose point a deletion removed (history only)   *)

derived == <<learned, outcomes, edges>>
rows == <<user, purge, memories, made, derived>>
index == <<points, inflight, unindexed>>
bounds == <<ingests, deletes, faults>>
vars == <<rows, index, fence, proc, bounds>>

-----------------------------------------------------------------------------
(* Requests and the fence                                                  *)

Fault == faults < MaxFaults /\ faults' = faults + 1

Goto(r, pc) == proc' = [proc EXCEPT ![r].pc = pc]

\* The handler returns; its dedicated connection is closed with the lock.
Respond(r) ==
  /\ proc' = [proc EXCEPT ![r] = Idle]
  /\ fence' = IF fence = r THEN None ELSE fence

At(r, ops, pc) == proc[r].op \in ops /\ proc[r].pc = pc

Arrive(r, request) ==
  /\ proc[r] = Idle
  /\ proc' = [proc EXCEPT ![r] = request]

SubmitIngest(r) ==
  /\ ingests < MaxIngests
  /\ \E op \in {"ingest", "extract"} :
       Arrive(r, [Idle EXCEPT !.op = op, !.pc = "fence"])
  /\ ingests' = ingests + 1
  /\ UNCHANGED <<rows, index, fence, deletes, faults>>

SubmitDelete(r) ==
  /\ deletes < MaxDeletes
  /\ \E m \in MemoryIds :
       /\ memories[m].live
       /\ Arrive(r, [Idle EXCEPT !.op = "delete", !.pc = "fence", !.memory = m])
  /\ deletes' = deletes + 1
  /\ UNCHANGED <<rows, index, fence, ingests, faults>>

\* Without an authenticated subject a purge is answered 401.
SubmitPurge(r) ==
  /\ Authenticated
  /\ Arrive(r, [Idle EXCEPT !.op = "purge", !.pc = "fence"])
  /\ UNCHANGED <<rows, index, fence, bounds>>

(* Refuted variant: a purge is refused too, once the subject is fenced.    *)
BlockedForGood(r) == Authenticated /\ purge # "none"

\* Everything but another purge is refused once the subject is fenced.
Blocked(r) == Authenticated /\ purge # "none" /\ proc[r].op # "purge"

(* Refuted variant: the purge is looked up, but no lock is taken.          *)
AdmitUnfenced(r) ==
  /\ proc[r].pc = "fence"
  /\ ~Blocked(r)
  /\ Goto(r, "start")
  /\ UNCHANGED <<rows, index, fence, bounds>>

Admit(r) ==
  /\ proc[r].pc = "fence"
  /\ Authenticated => fence = None
  /\ ~Blocked(r)
  /\ Goto(r, "start")
  /\ fence' = IF Authenticated THEN r ELSE fence
  /\ UNCHANGED <<rows, index, bounds>>

Refuse(r) ==
  /\ proc[r].pc = "fence"
  /\ fence = None
  /\ Blocked(r)
  /\ Respond(r)
  /\ UNCHANGED <<rows, index, bounds>>

\* A handler that dies, or whose context expires: whatever it did stays,
\* and the failure updates it would make fail with the same context.
Abandon(r) ==
  /\ proc[r] # Idle
  /\ Fault
  /\ Respond(r)
  /\ UNCHANGED <<rows, index, ingests, deletes>>

-----------------------------------------------------------------------------
(* Ingest                                                                  *)

\* Ingest runs the stages it found incomplete, in this order.
StageOf(p) == IF "qdrant" \in p.left THEN "qdrant"
              ELSE IF "person_model" \in p.left THEN "person_model" ELSE "belief"

\* Where a request goes with these stages left to run.
Continue(p, left) ==
  [p EXCEPT !.left = left,
            !.pc = CASE left = {} -> "ingested"
                     [] "qdrant" \in left -> "upsert"
                     [] OTHER -> "observe"]

\* Every request starts by inserting or updating the subject's row, which
\* the statement itself refuses for a fenced subject.
EnsureUser(r, request) ==
  IF purge = "none"
  THEN /\ user' = "present"
       /\ proc' = [proc EXCEPT ![r] = request]
       /\ UNCHANGED fence
  ELSE Respond(r) /\ UNCHANGED user

StartIngest(r) ==
  /\ At(r, {"ingest", "extract"}, "start")
  /\ EnsureUser(r, [proc[r] EXCEPT !.pc = "create"])
  /\ UNCHANGED <<purge, memories, made, derived, index, bounds>>

\* INSERT ... ON CONFLICT (user_id, idempotency_key) returns the old row; a new
\* one takes the next id (bound: MemoryIds, which no legal run uses up).
CreateMemory(r) ==
  LET k == proc[r].key
      same == {m \in MemoryIds : memories[m].live /\ k # None /\ memories[m].key = k}
  IN /\ proc[r].pc = "create"
     /\ \E m \in IF same # {} THEN same ELSE MemoryIds \cap {made + 1} :
          /\ proc' = [proc EXCEPT ![r].memory = m, ![r].pc = "state"]
          /\ IF same # {} THEN UNCHANGED <<memories, made>>
             ELSE /\ memories' = [memories EXCEPT ![m] = NewMemory(k)]
                  /\ made' = m
     /\ UNCHANGED <<user, purge, derived, index, fence, bounds>>

(* Refuted variant: only pending stages are run again, not failed ones.    *)
GetPendingStages(r) ==
  LET m == memories[proc[r].memory]
  IN /\ proc[r].pc = "state"
     /\ IF m.live
        THEN proc' = [proc EXCEPT ![r] =
               Continue(@, {s \in Stages : m.status[s] = "pending"})]
        ELSE Goto(r, "ingestFailed")
     /\ UNCHANGED <<rows, index, fence, bounds>>

\* The processing state is read once: what others do later is not seen.
GetProcessingState(r) ==
  LET m == memories[proc[r].memory]
  IN /\ proc[r].pc = "state"
     /\ IF m.live
        THEN proc' = [proc EXCEPT ![r] =
               Continue(@, {s \in Stages : m.status[s] # "completed"})]
        ELSE Goto(r, "ingestFailed")
     /\ UNCHANGED <<rows, index, fence, bounds>>

UpsertPoint(r) ==
  /\ proc[r].pc = "upsert"
  /\ points' = points \cup {proc[r].memory}
  /\ Goto(r, "point")
  /\ UNCHANGED <<rows, inflight, unindexed, fence, bounds>>

(* Refuted variant: the error of the upsert is not looked at.              *)
UpsertIgnored(r) ==
  /\ proc[r].pc = "upsert"
  /\ Fault
  /\ Goto(r, "point")
  /\ UNCHANGED <<rows, index, fence, ingests, deletes>>

\* The call failed or timed out: refused, applied, or still on its way.
UpsertFails(r) ==
  /\ proc[r].pc = "upsert"
  /\ Fault
  /\ \/ UNCHANGED <<points, inflight>>
     \/ points' = points \cup {proc[r].memory} /\ UNCHANGED inflight
     \/ LateDelivery /\ inflight' = inflight \cup {proc[r].memory} /\ UNCHANGED points
  /\ Goto(r, "stageFailed")
  /\ UNCHANGED <<rows, unindexed, fence, ingests, deletes>>

Land(m) ==
  /\ m \in inflight
  /\ points' = points \cup {m}
  /\ inflight' = inflight \ {m}
  /\ UNCHANGED <<rows, unindexed, fence, proc, bounds>>

\* An update that finds no row fails with ErrNoRows.
UpdateQdrantPointID(r) ==
  LET m == proc[r].memory
  IN /\ proc[r].pc = "point"
     /\ IF memories[m].live
        THEN memories' = [memories EXCEPT ![m].point = TRUE] /\ Goto(r, "complete")
        ELSE UNCHANGED memories /\ Goto(r, "stageFailed")
     /\ UNCHANGED <<user, purge, made, derived, index, fence, bounds>>

\* The model may see nothing to observe; otherwise the view's row is read,
\* and written in another statement with this memory merged in.
ObserveMemory(r) ==
  /\ proc[r].pc = "observe"
  /\ \/ Goto(r, "complete")
     \/ proc' = [proc EXCEPT ![r].read = learned[StageOf(proc[r])], ![r].pc = "save"]
  /\ UNCHANGED <<rows, index, fence, bounds>>

SaveObservation(r) ==
  LET p == proc[r]
  IN /\ p.pc = "save"
     /\ learned' = [learned EXCEPT ![StageOf(p)] = p.read \cup {p.memory}]
     /\ Goto(r, "complete")
     /\ UNCHANGED <<user, purge, memories, made, outcomes, edges, index, fence, bounds>>

StageFails(r) ==
  /\ proc[r].pc \in {"point", "observe", "save"}
  /\ Fault
  /\ Goto(r, "stageFailed")
  /\ UNCHANGED <<rows, index, fence, ingests, deletes>>

CompleteStage(r) ==
  LET p == proc[r]
  IN /\ p.pc = "complete"
     /\ IF memories[p.memory].live
        THEN /\ memories' = [memories EXCEPT ![p.memory].status[StageOf(p)] = "completed"]
             /\ proc' = [proc EXCEPT ![r] = Continue(p, p.left \ {StageOf(p)})]
        ELSE UNCHANGED memories /\ Goto(r, "ingestFailed")
     /\ UNCHANGED <<user, purge, made, derived, index, fence, bounds>>

\* The result of this update is ignored: the row may be gone, or it fails.
RecordStageFailure(r) ==
  LET p == proc[r]
  IN /\ p.pc = "stageFailed"
     /\ \/ /\ memories' = [memories EXCEPT ![p.memory].status[StageOf(p)] =
                             IF memories[p.memory].live THEN "failed" ELSE @]
           /\ UNCHANGED faults
        \/ Fault /\ UNCHANGED memories
     /\ Goto(r, "ingestFailed")
     /\ UNCHANGED <<user, purge, made, derived, index, fence, ingests, deletes>>

\* Embedding, collection, taxonomy, insert, read and completion errors are
\* returned without a mark on the memory.
IngestFails(r) ==
  /\ proc[r].pc \in {"create", "state", "complete"}
  /\ Fault
  /\ Goto(r, "ingestFailed")
  /\ UNCHANGED <<rows, index, fence, ingests, deletes>>

RespondToIngest(r) ==
  /\ \/ At(r, {"ingest", "extract"}, "ingestFailed")
     \/ At(r, {"ingest"}, "ingested")
  /\ Respond(r)
  /\ UNCHANGED <<rows, index, bounds>>

\* Extracted entities hang on the memory: without it they cannot be stored.
\* A failure is compensated by deleting the memory.
StoreExtractedEntities(r) ==
  /\ At(r, {"extract"}, "ingested")
  /\ \/ /\ memories[proc[r].memory].live
        /\ Respond(r)
        /\ UNCHANGED faults
     \/ /\ Fault \/ (~memories[proc[r].memory].live /\ UNCHANGED faults)
        /\ Goto(r, "delete")
        /\ UNCHANGED fence
  /\ UNCHANGED <<rows, index, ingests, deletes>>

-----------------------------------------------------------------------------
(* Deletion of one memory                                                  *)

\* A row that does not name its point yet is dropped without touching Qdrant.
StartDelete(r) ==
  LET m == memories[proc[r].memory]
  IN /\ At(r, {"delete"}, "start") \/ At(r, {"extract"}, "delete")
     /\ IF m.live
        THEN Goto(r, IF m.point THEN "unindex" ELSE "drop") /\ UNCHANGED fence
        ELSE Respond(r)
     /\ UNCHANGED <<rows, index, bounds>>

DeletePoint(r) ==
  LET m == proc[r].memory
  IN /\ proc[r].pc = "unindex"
     /\ points' = points \ {m}
     /\ unindexed' = unindexed \cup {m}
     /\ \/ Goto(r, "drop") /\ UNCHANGED <<fence, faults>>
        \/ Fault /\ Respond(r)      \* applied, but the answer was lost
     /\ UNCHANGED <<rows, inflight, ingests, deletes>>

(* Refuted variant: outcomes keep the id of the memory that is deleted.    *)
DropMemoryOnly(r) ==
  /\ proc[r].pc = "drop"
  /\ memories' = [memories EXCEPT ![proc[r].memory] = NoMemory]
  /\ Respond(r)
  /\ UNCHANGED <<user, purge, made, derived, index, bounds>>

\* outcomes.memory_id is ON DELETE SET NULL; edges and views keep citing it.
DropMemory(r) ==
  LET m == proc[r].memory
  IN /\ proc[r].pc = "drop"
     /\ memories' = [memories EXCEPT ![m] = NoMemory]
     /\ outcomes' = [k \in Keys |-> IF outcomes[k].memory = m
                                    THEN [outcomes[k] EXCEPT !.memory = 0]
                                    ELSE outcomes[k]]
     /\ Respond(r)
     /\ UNCHANGED <<user, purge, made, learned, edges, index, bounds>>

-----------------------------------------------------------------------------
(* Purge of the subject                                                    *)

(* Refuted variant: the rows are deleted before the points.                *)
FencePurgeRowsFirst(r) ==
  /\ At(r, {"purge"}, "start")
  /\ purge' = IF purge = "none" THEN "pending" ELSE purge
  /\ Goto(r, "dropAll")
  /\ UNCHANGED <<user, memories, made, derived, index, fence, bounds>>

\* The fence is durable before anything is erased.  Without a user there is
\* no id to filter points by, and Qdrant is not called.
FencePurge(r) ==
  /\ At(r, {"purge"}, "start")
  /\ purge' = IF purge = "none" THEN "pending" ELSE purge
  /\ Goto(r, IF user = "present" THEN "unindexAll" ELSE "dropAll")
  /\ UNCHANGED <<user, memories, made, derived, index, fence, bounds>>

DeleteSubject(r) ==
  /\ proc[r].pc = "unindexAll"
  /\ points' = {}
  /\ \/ Goto(r, "dropAll") /\ UNCHANGED <<fence, faults>>
     \/ Fault /\ Respond(r)         \* applied, but the answer was lost
  /\ UNCHANGED <<rows, inflight, unindexed, ingests, deletes>>

\* One transaction: every canonical row goes with the user.
DeleteUser(r) ==
  /\ proc[r].pc = "dropAll"
  /\ user' = "absent"
  /\ purge' = "completed"
  /\ memories' = [m \in MemoryIds |-> NoMemory]
  /\ learned' = [v \in Views |-> {}]
  /\ outcomes' = [k \in Keys |-> NoOutcome]
  /\ edges' = [k \in Keys |-> [e \in EdgeNames |-> 0]]
  /\ Respond(r)
  /\ UNCHANGED <<made, index, bounds>>
=============================================================================
