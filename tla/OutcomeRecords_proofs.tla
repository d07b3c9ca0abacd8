----------------------- MODULE OutcomeRecords_proofs -----------------------
(***************************************************************************)
(* Proofs about what is stored for an outcome and its memory, for every    *)
(* set of requests, keys, payloads and analyses and for every bound.       *)
(*                                                                         *)
(* A request works with an id it has read or made, long after it read it.  *)
(* So the invariants say of each step between the first read and the last  *)
(* write what the request holds and what that is still worth: whose memory *)
(* it is, that its point is written before its row says so, which analysis *)
(* its edges come from, and which stages are done when it completes.       *)
(***************************************************************************)
EXTENDS SubjectFence_proofs

-----------------------------------------------------------------------------
(* What a request holds                                                    *)

(* The steps of a request that runs a stage, and those of one that holds   *)
(* the id of a memory row it has read or made.                             *)
Running == {"upsert", "point", "observe", "save", "complete", "stageFailed"}

Holding == Running \cup {"state", "ingested", "edges", "delete", "unindex", "drop"}

(* The steps only a report of an outcome takes. *)
Reporting == {"analyze", "reserve", "conflict", "edges"}

Holds(r) == proc[r].op = "delete" \/ proc[r].pc \in Holding

MemoryRows ==
  [live : BOOLEAN, key : Keys \cup {None}, point : BOOLEAN, status : [Stages -> Statuses]]

(* Ids are given out once, and a request only holds one that was given.    *)
IdInv ==
  /\ memories \in [MemoryIds -> MemoryRows]
  /\ made \in Nat
  /\ \A m \in MemoryIds : memories[m].live => m <= made
  /\ \A r \in Requests :
       /\ proc[r].left \subseteq Stages
       /\ proc[r].key \in Keys \cup {None}
       /\ proc[r].pc \in Running => proc[r].left # {}
       /\ proc[r].pc \in Reporting => proc[r].op = "outcome"
       /\ Holds(r) => proc[r].memory \in MemoryIds /\ proc[r].memory <= made

RecordInv == OwnerInv /\ IdInv

LEMMA IdInit == Init => IdInv
<1>1. NoMemory \in MemoryRows
  BY DEF NoMemory, MemoryRows, Statuses
<1> QED
  BY <1>1 DEF Init, IdInv, Idle, NoMemory, Holds, Holding, Running, Reporting

(* A step that leaves a request's records alone, and where it may lead.    *)
Same(r) ==
  /\ proc'[r].op = proc[r].op /\ proc'[r].key = proc[r].key
  /\ proc'[r].hash = proc[r].hash /\ proc'[r].analysis = proc[r].analysis
  /\ proc'[r].memory = proc[r].memory /\ proc'[r].left = proc[r].left
  /\ proc'[r].edges = proc[r].edges

Passes(r) ==
  /\ Same(r)
  /\ proc'[r].pc \in Holding => Holds(r)
  /\ proc'[r].pc \in Running => proc[r].pc \in Running
  /\ proc'[r].pc \in Reporting => proc[r].pc \in Reporting

Turns(r) ==
  \/ CreateMemory(r) \/ GetProcessingState(r) \/ CompleteStage(r)
  \/ LookUpOutcome(r) \/ Analyze(r) \/ LinkMemory(r) \/ CreateGraphEdge(r)

LEMMA GotoSame ==
  ASSUME Shape, NEW r \in Requests, NEW pc, Goto(r, pc)
  PROVE  Same(r) /\ proc'[r].pc = pc
BY DEF Goto, Shape, Idle, Same

LEMMA WorkMoves ==
  ASSUME Shape, NEW r \in Requests, Works(r)
  PROVE  Respond(r) \/ Passes(r) \/ Turns(r)
<1>1. ASSUME NEW pc, Goto(r, pc), pc \in Running => proc[r].pc \in Running,
             pc \in Holding => Holds(r), pc \in Reporting => proc[r].pc \in Reporting
      PROVE  Passes(r)
  BY <1>1, GotoSame DEF Passes
<1>2. CASE StartIngest(r)
  <2>1. Respond(r) \/ Goto(r, "create")
    BY <1>2 DEF StartIngest, EnsureUser, Goto, Shape
  <2> QED
    BY <1>1, <2>1 DEF Holding, Running, Reporting
<1>3. CASE ObserveMemory(r)
  <2>1. CASE Goto(r, "complete")
    BY <1>1, <1>3, <2>1 DEF ObserveMemory, Holds, Holding, Running, Reporting
  <2>2. CASE proc' = [proc EXCEPT ![r].read = learned[StageOf(proc[r])], ![r].pc = "save"]
    BY <1>3, <2>2 DEF ObserveMemory, Passes, Same, Shape, Idle, Holds, Holding, Running, Reporting
  <2> QED
    BY <1>3, <2>1, <2>2 DEF ObserveMemory
<1>4. CASE UpsertPoint(r) \/ UpdateQdrantPointID(r) \/ SaveObservation(r) \/ RecordStageFailure(r)
           \/ RespondToIngest(r) \/ StoreExtractedEntities(r)
  BY <1>1, <1>4 DEF UpsertPoint, UpdateQdrantPointID, SaveObservation, RecordStageFailure,
     RespondToIngest, StoreExtractedEntities, At, Holds, Holding, Running, Reporting
<1>5. CASE ReserveOutcome(r) \/ RespondConflict(r) \/ RecordMemoryFailure(r) \/ CompleteOutcome(r)
  BY <1>1, <1>5 DEF ReserveOutcome, RespondConflict, RecordMemoryFailure, CompleteOutcome,
     Holding, Running, Reporting
<1>6. CASE DeleteStep(r)
  BY <1>1, <1>6 DEF DeleteStep, StartDelete, DeletePoint, DropMemory, At, Holds, Holding, Running, Reporting
<1>7. CASE MemoryFailure(r)
  BY <1>1, <1>7 DEF MemoryFailure, UpsertFails, StageFails, IngestFails, GraphEdgeFails,
     Holds, Holding, Running, Reporting
<1> QED
  BY <1>2, <1>3, <1>4, <1>5, <1>6, <1>7 DEF Works, IngestStep, OutcomeStep, Turns

LEMMA ContinueIs ==
  ASSUME NEW p, NEW left, DOMAIN p = DOMAIN Idle
  PROVE  /\ Continue(p, left).left = left
         /\ Continue(p, left).key = p.key /\ Continue(p, left).memory = p.memory
         /\ Continue(p, left).hash = p.hash /\ Continue(p, left).analysis = p.analysis
         /\ Continue(p, left).op = p.op
         /\ Continue(p, left).pc = CASE left = {} -> "ingested"
                                     [] "qdrant" \in left -> "upsert"
                                     [] OTHER -> "observe"
BY DEF Continue, Idle

(* A request works on the memory it made, or on the one it had.            *)
Carries(r) ==
  /\ proc'[r].op = proc[r].op
  /\ proc'[r].key = proc[r].key
  /\ proc'[r].memory = proc[r].memory

LEMMA WorkHolds ==
  ASSUME RecordInv, NEW r \in Requests, Works(r)
  PROVE  /\ proc'[r].left \subseteq Stages
         /\ proc'[r].key \in Keys \cup {None}
         /\ proc'[r].pc \in Running => proc'[r].left # {}
         /\ proc'[r].pc \in Reporting => proc'[r].op = "outcome"
         /\ proc'[r].op = "delete" \/ proc'[r].pc \in Holding =>
              CreateMemory(r) \/ (Holds(r) /\ Carries(r))
<1> USE DEF RecordInv, OwnerInv, FenceInv
<1>1. CASE Respond(r)
  BY <1>1, RespondReturns DEF Returns, Idle, Holding, Running, Reporting
<1>2. CASE Passes(r)
  BY <1>2 DEF Passes, Same, IdInv, Carries, Holds
<1>3. ASSUME NEW left, left \subseteq Stages, proc' = [proc EXCEPT ![r] = Continue(proc[r], left)],
             proc[r].pc \in {"state", "complete"}
      PROVE  /\ proc'[r].left \subseteq Stages
             /\ proc'[r].key \in Keys \cup {None}
             /\ proc'[r].pc \in Running => proc'[r].left # {}
             /\ proc'[r].pc \notin Reporting
             /\ Holds(r) /\ Carries(r)
  <2>1. proc'[r] = Continue(proc[r], left)
    BY <1>3 DEF Shape
  <2> QED
    BY <1>3, <2>1, ContinueIs DEF Shape, IdInv, Holds, Carries, Holding, Running, Reporting
<1>4. CASE CreateMemory(r)
  <2>1. PICK m : proc' = [proc EXCEPT ![r].memory = m, ![r].pc = "state"]
    BY <1>4 DEF CreateMemory
  <2> QED
    BY <1>4, <2>1 DEF Shape, Idle, IdInv, Running, Reporting
<1>5. CASE GetProcessingState(r)
  <2>1. CASE Goto(r, "ingestFailed")
    BY <1>5, <2>1, GotoSame DEF GetProcessingState, IdInv, Same, Carries, Holds, Holding, Running, Reporting
  <2>2. ~Goto(r, "ingestFailed") =>
          \E left \in SUBSET Stages : proc' = [proc EXCEPT ![r] = Continue(proc[r], left)]
    BY <1>5 DEF GetProcessingState
  <2> QED
    BY <1>3, <1>5, <2>1, <2>2 DEF GetProcessingState
<1>6. CASE CompleteStage(r)
  <2>1. CASE Goto(r, "ingestFailed")
    BY <1>6, <2>1, GotoSame DEF CompleteStage, IdInv, Same, Carries, Holds, Holding, Running, Reporting
  <2>2. ~Goto(r, "ingestFailed") =>
          \E left \in SUBSET Stages : proc' = [proc EXCEPT ![r] = Continue(proc[r], left)]
    BY <1>6 DEF CompleteStage, IdInv
  <2> QED
    BY <1>3, <1>6, <2>1, <2>2 DEF CompleteStage
<1>7. CASE LookUpOutcome(r)
  <2>1. PICK request : /\ EnsureUser(r, request)
                       /\ DOMAIN request = DOMAIN Idle
                       /\ request.op = proc[r].op
                       /\ request.pc \in {"analyze", "create", "conflict"}
                       /\ request.left = proc[r].left /\ request.key = proc[r].key
    <3> DEFINE request == CASE ~Reserved(proc[r].key) -> [proc[r] EXCEPT !.pc = "analyze"]
                        [] outcomes[proc[r].key].hash = proc[r].hash ->
                             [proc[r] EXCEPT !.analysis = outcomes[proc[r].key].analysis,
                                             !.pc = "create"]
                        [] OTHER -> [proc[r] EXCEPT !.pc = "conflict"]
    <3>1. /\ DOMAIN request = DOMAIN Idle
          /\ request.op = proc[r].op
          /\ request.pc \in {"analyze", "create", "conflict"}
          /\ request.left = proc[r].left /\ request.key = proc[r].key
      BY DEF Shape, Idle
    <3>2. EnsureUser(r, request)
      BY <1>7 DEF LookUpOutcome
    <3> HIDE DEF request
    <3> QED
      BY <3>1, <3>2
  <2>2. proc[r].op = "outcome"
    BY <1>7 DEF LookUpOutcome, At
  <2> QED
    BY <1>1, <2>1, <2>2 DEF EnsureUser, Shape, IdInv, Holding, Running, Reporting
<1>8. CASE Analyze(r)
  BY <1>8 DEF Analyze, Shape, Idle, IdInv, Holds, Carries, Holding, Running, Reporting
<1>9. CASE LinkMemory(r)
  <2>1. CASE Respond(r)
    BY <1>1, <2>1
  <2>2. CASE proc' = [proc EXCEPT ![r].edges = EdgesOf[proc[r].analysis], ![r].pc = "edges"]
    BY <1>9, <2>2 DEF LinkMemory, At, Shape, Idle, IdInv, Holds, Carries, Holding, Running, Reporting
  <2> QED
    BY <1>9, <2>1, <2>2 DEF LinkMemory
<1>10. CASE CreateGraphEdge(r)
  BY <1>10 DEF CreateGraphEdge, Shape, Idle, IdInv, Holds, Carries, Holding, Running, Reporting
<1> QED
  BY <1>1, <1>2, <1>4, <1>5, <1>6, <1>7, <1>8, <1>9, <1>10, WorkMoves DEF Turns


(* What work on the subject may do to memory rows: a row keeps its key for *)
(* as long as it lives, a new one takes an id no request has held, and one *)
(* that is deleted is the one the request names.                           *)
Survives(m) ==
  memories'[m].live = memories[m].live /\ memories'[m].key = memories[m].key

MemoryMoves(r) ==
  /\ memories' \in [MemoryIds -> MemoryRows]
  /\ made' \in Nat /\ made <= made'
  /\ \A m \in MemoryIds :
       \/ Survives(m)
       \/ /\ CreateMemory(r) /\ made < m /\ m <= made' /\ m = proc'[r].memory
          /\ memories'[m] = NewMemory(proc[r].key)
       \/ /\ DropMemory(r) /\ m = proc[r].memory
          /\ memories'[m] = NoMemory

LEMMA MemoriesUntouched ==
  ASSUME IdInv, memories' = memories, made' = made, NEW r
  PROVE  MemoryMoves(r)
BY DEF IdInv, MemoryMoves, Survives

LEMMA Creation ==
  ASSUME RecordInv, NEW r \in Requests, CreateMemory(r)
  PROVE  /\ MemoryMoves(r)
         /\ proc'[r].op = proc[r].op /\ proc'[r].key = proc[r].key
         /\ proc'[r].memory \in MemoryIds /\ proc'[r].memory <= made'
         /\ memories'[proc'[r].memory].live
         /\ proc[r].key # None => memories'[proc'[r].memory].key = proc[r].key
         /\ proc'[r].pc = "state"
<1> USE DEF RecordInv, OwnerInv, FenceInv
<1> DEFINE k == proc[r].key
           same == {m \in MemoryIds : memories[m].live /\ k # None /\ memories[m].key = k}
<1>1. PICK m \in IF same # {} THEN same ELSE MemoryIds \cap {made + 1} :
        /\ proc' = [proc EXCEPT ![r].memory = m, ![r].pc = "state"]
        /\ IF same # {} THEN UNCHANGED <<memories, made>>
           ELSE /\ memories' = [memories EXCEPT ![m] = NewMemory(k)]
                /\ made' = m
  BY DEF CreateMemory
<1>2. m \in MemoryIds /\ made \in Nat
  BY DEF IdInv
<1>3. /\ proc'[r].op = proc[r].op /\ proc'[r].key = k
      /\ proc'[r].memory = m /\ proc'[r].pc = "state"
  BY <1>1 DEF Shape, Idle
<1>4. CASE same # {}
  <2>1. memories' = memories /\ made' = made /\ m \in same
    BY <1>1, <1>4
  <2>2. memories[m].live /\ k # None /\ memories[m].key = k
    BY <2>1
  <2> QED
    BY <1>2, <1>3, <2>1, <2>2, MemoriesUntouched DEF IdInv
<1>5. CASE same = {}
  <2>1. memories' = [memories EXCEPT ![m] = NewMemory(k)] /\ made' = m /\ m = made + 1
    BY <1>1, <1>5
  <2>2. NewMemory(k) \in MemoryRows /\ NewMemory(k).live /\ NewMemory(k).key = k
    BY DEF IdInv, NewMemory, NoMemory, MemoryRows, Statuses
  <2> QED
    BY <1>2, <1>3, <2>1, <2>2 DEF IdInv, MemoryMoves, Survives
<1> QED
  BY <1>4, <1>5

LEMMA WorkMovesMemories ==
  ASSUME RecordInv, NEW r \in Requests, Works(r)
  PROVE  MemoryMoves(r)
<1> USE DEF RecordInv
<1>1. CASE memories' = memories /\ made' = made
  BY <1>1, MemoriesUntouched
<1> DEFINE m == proc[r].memory
<1>2. ASSUME made' = made, NEW row \in MemoryRows,
             row.live = memories[m].live, row.key = memories[m].key,
             memories' = [memories EXCEPT ![m] = row]
      PROVE  MemoryMoves(r)
  <2>1. memories' \in [MemoryIds -> MemoryRows] /\ \A i \in MemoryIds : Survives(i)
    BY <1>2 DEF IdInv, Survives
  <2>2. made' \in Nat /\ made <= made'
    BY <1>2 DEF IdInv
  <2> QED
    BY <2>1, <2>2 DEF MemoryMoves
<1>3. ASSUME NEW s, NEW to \in Statuses, m \in MemoryIds, made' = made,
             memories' = [memories EXCEPT ![m].status[s] = to]
      PROVE  MemoryMoves(r)
  <2> DEFINE row == [memories[m] EXCEPT !.status[s] = to]
  <2> HIDE DEF RecordInv
  <2>0. memories[m] \in MemoryRows
    BY <1>3 DEF RecordInv, IdInv
  <2>1. row \in MemoryRows /\ row.live = memories[m].live /\ row.key = memories[m].key
    BY <2>0, <1>3 DEF MemoryRows
  <2>2. memories' = [memories EXCEPT ![m] = row]
    BY <1>3
  <2> HIDE DEF row
  <2> QED
    BY <1>2, <1>3, <2>1, <2>2
<1>4. CASE UpdateQdrantPointID(r)
  <2> DEFINE row == [memories[m] EXCEPT !.point = TRUE]
  <2>1. m \in MemoryIds /\ made' = made
    BY <1>4 DEF UpdateQdrantPointID, IdInv, Holds, Holding, Running
  <2> HIDE DEF RecordInv
  <2>0. memories[m] \in MemoryRows
    BY <2>1 DEF RecordInv, IdInv
  <2>2. row \in MemoryRows /\ row.live = memories[m].live /\ row.key = memories[m].key
    BY <2>0 DEF MemoryRows
  <2>3. memories' = memories \/ memories' = [memories EXCEPT ![m] = row]
    BY <1>4 DEF UpdateQdrantPointID
  <2> HIDE DEF row
  <2> QED
    BY <1>1, <1>2, <2>1, <2>2, <2>3
<1>5. CASE CompleteStage(r)
  <2>1. m \in MemoryIds /\ made' = made
    BY <1>5 DEF CompleteStage, IdInv, Holds, Holding, Running
  <2>2. \/ memories' = memories
        \/ memories' = [memories EXCEPT ![m].status[StageOf(proc[r])] = "completed"]
    BY <1>5 DEF CompleteStage
  <2> QED
    BY <1>1, <1>3, <2>1, <2>2 DEF Statuses
<1>6. CASE RecordStageFailure(r)
  <2>1. m \in MemoryIds /\ made' = made
    BY <1>6 DEF RecordStageFailure, IdInv, Holds, Holding, Running
  <2>2. StageOf(proc[r]) \in Stages
    BY DEF StageOf, Stages, Views
  <2>3. memories[m].status[StageOf(proc[r])] \in Statuses
    BY <2>1, <2>2 DEF IdInv, MemoryRows
  <2>4. \/ memories' = memories
        \/ \E to \in Statuses : memories' = [memories EXCEPT ![m].status[StageOf(proc[r])] = to]
    <3>1. CASE memories[m].live
      BY <1>6, <3>1 DEF RecordStageFailure, Statuses
    <3>2. CASE ~memories[m].live
      BY <1>6, <2>3, <3>2 DEF RecordStageFailure
    <3> QED
      BY <3>1, <3>2
  <2> QED
    BY <1>1, <1>3, <2>1, <2>4
<1>7. CASE DropMemory(r)
  <2>1. memories' = [memories EXCEPT ![m] = NoMemory] /\ made' = made
    BY <1>7 DEF DropMemory
  <2>2. NoMemory \in MemoryRows
    BY DEF NoMemory, MemoryRows, Statuses
  <2>3. /\ memories' \in [MemoryIds -> MemoryRows]
        /\ \A i \in MemoryIds : Survives(i) \/ (i = m /\ memories'[i] = NoMemory)
    BY <2>1, <2>2 DEF IdInv, Survives
  <2>4. made' \in Nat /\ made <= made'
    BY <2>1 DEF IdInv
  <2> QED
    BY <1>7, <2>3, <2>4 DEF MemoryMoves
<1>8. CASE IngestStep(r)
  BY <1>1, <1>4, <1>5, <1>6, <1>8, Creation DEF IngestStep, StartIngest, GetProcessingState,
     UpsertPoint, ObserveMemory, SaveObservation, RespondToIngest, StoreExtractedEntities, rows
<1>9. CASE OutcomeStep(r)
  BY <1>1, <1>9 DEF OutcomeStep, LookUpOutcome, Analyze, ReserveOutcome, RespondConflict,
     RecordMemoryFailure, LinkMemory, CreateGraphEdge, CompleteOutcome, rows
<1>10. CASE DeleteStep(r)
  BY <1>1, <1>7, <1>10 DEF DeleteStep, StartDelete, DeletePoint, rows
<1>11. CASE MemoryFailure(r)
  BY <1>1, <1>11 DEF MemoryFailure, UpsertFails, StageFails, IngestFails, GraphEdgeFails, rows
<1> QED
  BY <1>8, <1>9, <1>10, <1>11 DEF Works


(* A row that lives after a step was alive before it, or was just made.    *)
LEMMA MovedMade ==
  ASSUME IdInv, NEW r, MemoryMoves(r), NEW m \in MemoryIds, memories'[m].live
  PROVE  m <= made'
<1>1. CASE Survives(m)
  BY <1>1 DEF Survives, MemoryMoves, IdInv, MemoryIds
<1>2. CASE ~Survives(m)
  BY <1>2 DEF MemoryMoves, NoMemory
<1> QED
  BY <1>1, <1>2

LEMMA WorkKeepsIds ==
  ASSUME RecordInv, NEW r \in Requests, Works(r)
  PROVE  IdInv'
<1> USE DEF RecordInv
<1>1. MemoryMoves(r)
  BY WorkMovesMemories
<1>2. \A q \in Requests \ {r} : proc'[q] = proc[q]
  BY WorkAdvances DEF Advances, OwnerInv
<1>3. memories' \in [MemoryIds -> MemoryRows] /\ made' \in Nat
  BY <1>1 DEF MemoryMoves
<1>4. \A m \in MemoryIds : memories'[m].live => m <= made'
  BY <1>1, MovedMade
<1>5. ASSUME NEW q \in Requests
      PROVE  /\ proc'[q].left \subseteq Stages
             /\ proc'[q].key \in Keys \cup {None}
             /\ proc'[q].pc \in Running => proc'[q].left # {}
             /\ proc'[q].pc \in Reporting => proc'[q].op = "outcome"
  BY <1>2, <1>5, WorkHolds DEF IdInv
<1>6. ASSUME NEW q \in Requests, Holds(q)'
      PROVE  proc'[q].memory \in MemoryIds /\ proc'[q].memory <= made'
  <2>1. CASE CreateMemory(r) /\ q = r
    BY <2>1, Creation
  <2>2. CASE Holds(q) /\ proc'[q].memory = proc[q].memory
    <3>1. proc[q].memory \in MemoryIds /\ proc[q].memory <= made
      BY <2>2 DEF IdInv
    <3>2. made <= made' /\ made \in Nat /\ made' \in Nat /\ proc[q].memory \in Nat
      BY <1>1, <3>1 DEF MemoryMoves, IdInv, MemoryIds
    <3>3. proc[q].memory <= made'
      BY <3>1, <3>2
    <3> QED
      BY <2>2, <3>1, <3>3
  <2>3. q = r => CreateMemory(r) \/ (Holds(q) /\ proc'[q].memory = proc[q].memory)
    BY <1>6, WorkHolds DEF Holds, Carries
  <2>4. q # r => Holds(q) /\ proc'[q].memory = proc[q].memory
    BY <1>2, <1>6 DEF Holds
  <2> QED
    BY <2>1, <2>2, <2>3, <2>4
<1> QED
  BY <1>3, <1>4, <1>5, <1>6 DEF IdInv

LEMMA EntranceKeepsIds ==
  ASSUME RecordInv, NEW r \in Requests, Entrance(r)
  PROVE  IdInv'
<1> USE DEF RecordInv, OwnerInv, FenceInv
<1>1. memories' = memories /\ made' = made
  BY EntranceLeaves DEF rows
<1>2. \A q \in Requests \ {r} : proc'[q] = proc[q]
  BY EntranceNeverSaves
<1>3. /\ proc'[r].left \subseteq Stages
      /\ proc'[r].key \in Keys \cup {None}
      /\ proc'[r].pc \notin Holding \cup Reporting
      /\ proc'[r].op = "delete" =>
           proc'[r].memory \in MemoryIds /\ proc'[r].memory <= made
  <2>1. CASE SubmitIngest(r)
    BY <2>1 DEF SubmitIngest, Arrive, Shape, Idle, Holding, Running, Reporting
  <2>2. CASE SubmitPurge(r)
    BY <2>2 DEF SubmitPurge, Arrive, Shape, Idle, Holding, Running, Reporting
  <2>3. CASE \E k \in Keys, h \in Hashes : SubmitOutcome(r, k, h)
    BY <2>3 DEF SubmitOutcome, Arrive, Shape, Idle, Holding, Running, Reporting
  <2>4. CASE SubmitDelete(r)
    <3>1. PICK m \in MemoryIds :
            /\ memories[m].live
            /\ Arrive(r, [Idle EXCEPT !.op = "delete", !.pc = "fence", !.memory = m])
      BY <2>4 DEF SubmitDelete
    <3>2. m <= made
      BY <3>1 DEF IdInv
    <3> QED
      BY <3>1, <3>2 DEF Arrive, Shape, Idle, Holding, Running, Reporting
  <2>5. CASE Admit(r)
    <3>1. Goto(r, "start")
      BY <2>5 DEF Admit
    <3> QED
      BY <3>1, GotoSame DEF Same, IdInv, Holds, Holding, Running, Reporting
  <2>6. CASE Refuse(r) \/ Abandon(r)
    BY <2>6, RespondReturns DEF Refuse, Abandon, Returns, Idle, Holding, Running, Reporting
  <2> QED
    BY <2>1, <2>2, <2>3, <2>4, <2>5, <2>6 DEF Entrance, Submit
<1>4. memories' \in [MemoryIds -> MemoryRows] /\ made' \in Nat
      /\ \A m \in MemoryIds : memories'[m].live => m <= made'
  BY <1>1 DEF IdInv
<1> QED
  BY <1>1, <1>2, <1>3, <1>4 DEF IdInv, Holds, Holding

LEMMA PurgeKeepsIds ==
  ASSUME RecordInv, NEW r \in Requests, PurgeStep(r)
  PROVE  IdInv'
<1> USE DEF RecordInv, OwnerInv, FenceInv
<1>1. /\ memories' \in [MemoryIds -> MemoryRows]
      /\ \A m \in MemoryIds : memories'[m].live => memories[m].live
  <2>1. NoMemory \in MemoryRows /\ ~NoMemory.live
    BY DEF NoMemory, MemoryRows, Statuses
  <2>2. memories' = memories \/ memories' = [m \in MemoryIds |-> NoMemory]
    BY DEF PurgeStep, FencePurge, DeleteSubject, DeleteUser, rows
  <2> QED
    BY <2>1, <2>2 DEF IdInv
<1>2. made' = made
  BY DEF PurgeStep, FencePurge, DeleteSubject, DeleteUser, rows
<1>3. \A q \in Requests \ {r} : proc'[q] = proc[q]
  BY PurgeNeverSaves
<1>4. Respond(r) \/ \E pc \in Erasing : Goto(r, pc)
  BY DEF PurgeStep, FencePurge, DeleteSubject, DeleteUser, Erasing
<1>5. /\ proc'[r].left \subseteq Stages
      /\ proc'[r].key \in Keys \cup {None}
      /\ proc'[r].pc \notin Holding \cup Reporting /\ proc'[r].op # "delete"
  <2>1. CASE Respond(r)
    BY <2>1, RespondReturns DEF Returns, Idle, Holding, Running, Reporting
  <2>2. ASSUME NEW pc \in Erasing, Goto(r, pc)
        PROVE  /\ proc'[r].left = proc[r].left /\ proc'[r].key = proc[r].key
               /\ proc'[r].pc = pc /\ proc'[r].op = "purge"
    BY <2>2, GotoSame, PurgeNeverSaves DEF Same
  <2> QED
    BY <1>4, <2>1, <2>2 DEF IdInv, Erasing, Holding, Running, Reporting
<1> QED
  BY <1>1, <1>2, <1>3, <1>5 DEF IdInv, Holds, Holding

LEMMA RecordInit == Init => RecordInv
BY OwnerInit, IdInit DEF RecordInv

LEMMA RecordStep == RecordInv /\ [Next]_vars => RecordInv'
<1> SUFFICES ASSUME RecordInv, [Next]_vars PROVE IdInv'
  BY OwnerStep DEF RecordInv
<1>1. ASSUME NEW m \in MemoryIds, Land(m) PROVE IdInv'
  BY <1>1 DEF Land, rows, RecordInv, IdInv, Holds
<1>2. CASE UNCHANGED vars
  BY <1>2 DEF vars, rows, RecordInv, IdInv, Holds
<1> QED
  BY <1>1, <1>2, NextSteps, WorkKeepsIds, EntranceKeepsIds, PurgeKeepsIds


-----------------------------------------------------------------------------
(* The memory of an outcome                                                *)

(* The memory a report holds was made for its key, unless it is gone, and  *)
(* so was the one its outcome names, which exists.                         *)
HeldIsOwn(r) ==
  proc[r].op = "outcome" /\ proc[r].pc \in Holding /\ memories[proc[r].memory].live =>
    memories[proc[r].memory].key = proc[r].key

NamedIsOwn(k) ==
  outcomes[k].memory # 0 =>
    /\ outcomes[k].memory \in MemoryIds
    /\ memories[outcomes[k].memory].live
    /\ memories[outcomes[k].memory].key = k

OwnInv ==
  /\ RecordInv
  /\ \A r \in Requests : HeldIsOwn(r)
  /\ \A k \in Keys : NamedIsOwn(k)

LEMMA OwnInit == Init => OwnInv
BY RecordInit DEF Init, OwnInv, HeldIsOwn, NamedIsOwn, Idle, NoOutcome

LEMMA WorkKeepsHeld ==
  ASSUME OwnInv, NEW r \in Requests, Works(r), NEW q \in Requests
  PROVE  HeldIsOwn(q)'
<1> USE DEF OwnInv, RecordInv
<1>1. MemoryMoves(r) /\ \A p \in Requests \ {r} : proc'[p] = proc[p]
  BY WorkMovesMemories, WorkAdvances DEF Advances, OwnerInv
<1>2. SUFFICES ASSUME proc'[q].op = "outcome", proc'[q].pc \in Holding,
                      memories'[proc'[q].memory].live
               PROVE  memories'[proc'[q].memory].key = proc'[q].key
  BY DEF HeldIsOwn
<1>3. CASE CreateMemory(r) /\ q = r
  <2>1. proc'[r].op = proc[r].op /\ proc'[r].key = proc[r].key
    BY <1>3, Creation DEF Carries
  <2>2. proc[r].key # None
    BY <1>2, <1>3, <2>1, SubjectAssumption DEF OwnerInv
  <2> QED
    BY <1>3, <2>1, <2>2, Creation
<1>4. CASE ~(CreateMemory(r) /\ q = r)
  <2>1. /\ proc[q].op = "outcome" /\ proc[q].pc \in Holding
        /\ proc'[q].memory = proc[q].memory /\ proc'[q].key = proc[q].key
    <3>1. CASE q = r
      BY <1>2, <1>4, <3>1, WorkHolds DEF Carries, Holds
    <3>2. CASE q # r
      BY <1>1, <1>2, <3>2
    <3> QED
      BY <3>1, <3>2
  <2> DEFINE m == proc[q].memory
  <2>2. m \in MemoryIds /\ m <= made /\ made \in Nat
    BY <2>1 DEF IdInv, Holds
  <2>3. Survives(m)
    BY <1>1, <1>2, <2>1, <2>2 DEF MemoryMoves, MemoryIds, NoMemory
  <2> QED
    BY <1>2, <2>1, <2>3 DEF Survives, HeldIsOwn
<1> QED
  BY <1>3, <1>4

(* The outcome rows work on the subject may change: the one of a report    *)
(* takes its memory, if that exists, and a deletion takes a memory away.   *)
LEMMA OutcomeMoves ==
  ASSUME RecordInv, NEW r \in Requests, Works(r), NEW k \in Keys
  PROVE  \/ outcomes'[k].memory = outcomes[k].memory /\ ~DropMemory(r)
         \/ /\ LinkMemory(r) \/ GraphEdgeFails(r) \/ CompleteOutcome(r)
            /\ k = proc[r].key /\ outcomes'[k].memory = proc[r].memory
            /\ memories[proc[r].memory].live
            /\ proc[r].op = "outcome" /\ proc[r].pc \in {"ingested", "edges"}
            /\ memories' = memories
         \/ ReserveOutcome(r) /\ outcomes'[k].memory = 0
         \/ /\ DropMemory(r)
            /\ outcomes'[k].memory = (IF outcomes[k].memory = proc[r].memory
                                       THEN 0 ELSE outcomes[k].memory)
<1> USE DEF RecordInv, OwnerInv
<1> DEFINE Goal ==
         \/ outcomes'[k].memory = outcomes[k].memory /\ ~DropMemory(r)
         \/ /\ LinkMemory(r) \/ GraphEdgeFails(r) \/ CompleteOutcome(r)
            /\ k = proc[r].key /\ outcomes'[k].memory = proc[r].memory
            /\ memories[proc[r].memory].live
            /\ proc[r].op = "outcome" /\ proc[r].pc \in {"ingested", "edges"}
            /\ memories' = memories
         \/ ReserveOutcome(r) /\ outcomes'[k].memory = 0
         \/ /\ DropMemory(r)
            /\ outcomes'[k].memory = (IF outcomes[k].memory = proc[r].memory
                                       THEN 0 ELSE outcomes[k].memory)
<1>1. CASE outcomes' = outcomes /\ proc[r].pc # "drop"
  BY <1>1 DEF DropMemory
<1>r. DOMAIN outcomes = Keys /\ DOMAIN outcomes[k] = DOMAIN NoOutcome
  BY DEF OutcomeRows
<1>2. CASE DropMemory(r)
  <2>1. outcomes'[k] = IF outcomes[k].memory = proc[r].memory
                        THEN [outcomes[k] EXCEPT !.memory = 0] ELSE outcomes[k]
    BY <1>2 DEF DropMemory
  <2> QED
    BY <1>2, <1>r, <2>1 DEF NoOutcome
<1>3. CASE ReserveOutcome(r)
  <2> DEFINE row == [NoOutcome EXCEPT !.hash = proc[r].hash, !.analysis = proc[r].analysis]
  <2>1. outcomes' = [outcomes EXCEPT ![proc[r].key] =
          IF Reserved(proc[r].key) THEN outcomes[proc[r].key] ELSE row]
    BY <1>3 DEF ReserveOutcome
  <2>2. row.memory = 0
    BY DEF NoOutcome
  <2>3. proc[r].pc = "reserve" /\ proc[r].op = "outcome"
    BY <1>3 DEF ReserveOutcome, IdInv, Reporting
  <2> HIDE DEF row
  <2>4. outcomes'[k].memory = outcomes[k].memory \/ outcomes'[k].memory = 0
    BY <1>r, <2>1, <2>2
  <2> QED
    BY <1>3, <2>3, <2>4 DEF DropMemory
<1>4. CASE RecordMemoryFailure(r)
  <2> DEFINE row == [outcomes[proc[r].key] EXCEPT !.status = "failed", !.stage = "memory"]
  <2>1. outcomes' = [outcomes EXCEPT ![proc[r].key] = row]
    BY <1>4 DEF RecordMemoryFailure
  <2>2. k = proc[r].key => row.memory = outcomes[k].memory
    BY <1>r DEF NoOutcome
  <2> HIDE DEF row
  <2>3. outcomes'[k].memory = outcomes[k].memory
    BY <1>r, <2>1, <2>2
  <2> QED
    BY <1>4, <2>3 DEF RecordMemoryFailure, At, DropMemory
<1>l. ASSUME NEW status, NEW stage,
             outcomes' = [outcomes EXCEPT ![proc[r].key] =
               [outcomes[proc[r].key] EXCEPT !.status = status, !.stage = stage,
                                              !.memory = proc[r].memory]]
      PROVE  outcomes'[k].memory = IF k = proc[r].key THEN proc[r].memory ELSE outcomes[k].memory
  <2> DEFINE row == [outcomes[proc[r].key] EXCEPT !.status = status, !.stage = stage,
                                                   !.memory = proc[r].memory]
  <2>1. outcomes' = [outcomes EXCEPT ![proc[r].key] = row]
    BY <1>l
  <2>2. k = proc[r].key => row.memory = proc[r].memory
    BY <1>r DEF NoOutcome
  <2> HIDE DEF row
  <2> QED
    BY <1>r, <2>1, <2>2
<1>5. CASE LinkMemory(r)
  <2>1. proc[r].op = "outcome" /\ proc[r].pc = "ingested" /\ memories' = memories /\ ~DropMemory(r)
    BY <1>5 DEF LinkMemory, At, DropMemory
  <2>2. CASE memories[proc[r].memory].live
    <3>1. outcomes'[k].memory = IF k = proc[r].key THEN proc[r].memory ELSE outcomes[k].memory
      BY <1>5, <1>l, <2>2 DEF LinkMemory
    <3> QED
      BY <1>5, <2>1, <2>2, <3>1
  <2>3. CASE ~memories[proc[r].memory].live
    BY <1>5, <2>1, <2>3 DEF LinkMemory
  <2> QED
    BY <2>2, <2>3
<1>e. proc[r].pc = "edges" => proc[r].op = "outcome"
  BY DEF IdInv, Reporting
<1>6. CASE CompleteOutcome(r)
  <2>1. proc[r].op = "outcome" /\ proc[r].pc = "edges" /\ memories' = memories /\ ~DropMemory(r)
    BY <1>6, <1>e DEF CompleteOutcome, DropMemory
  <2>2. CASE memories[proc[r].memory].live
    <3>1. outcomes'[k].memory = IF k = proc[r].key THEN proc[r].memory ELSE outcomes[k].memory
      BY <1>6, <1>l, <2>2 DEF CompleteOutcome
    <3> QED
      BY <1>6, <2>1, <2>2, <3>1
  <2>3. CASE ~memories[proc[r].memory].live
    <3>1. outcomes' = [outcomes EXCEPT ![proc[r].key] = outcomes[proc[r].key]]
      BY <1>6, <2>3 DEF CompleteOutcome
    <3> QED
      BY <1>r, <2>1, <3>1
  <2> QED
    BY <2>2, <2>3
<1>7. CASE GraphEdgeFails(r)
  <2>1. proc[r].op = "outcome" /\ proc[r].pc = "edges" /\ memories' = memories /\ ~DropMemory(r)
    BY <1>7, <1>e DEF GraphEdgeFails, DropMemory, rows
  <2>2. CASE memories[proc[r].memory].live
    <3>1. outcomes'[k].memory = IF k = proc[r].key THEN proc[r].memory ELSE outcomes[k].memory
      BY <1>7, <1>l, <2>2 DEF GraphEdgeFails
    <3> QED
      BY <1>7, <2>1, <2>2, <3>1
  <2>3. CASE ~memories[proc[r].memory].live
    <3>1. outcomes' = [outcomes EXCEPT ![proc[r].key] = outcomes[proc[r].key]]
      BY <1>7, <2>3 DEF GraphEdgeFails
    <3> QED
      BY <1>r, <2>1, <3>1
  <2> QED
    BY <2>2, <2>3
<1>8. CASE IngestStep(r)
  BY <1>1, <1>8 DEF IngestStep, StartIngest, CreateMemory, GetProcessingState, UpsertPoint,
     UpdateQdrantPointID, ObserveMemory, SaveObservation, CompleteStage, RecordStageFailure,
     RespondToIngest, StoreExtractedEntities, rows, derived, At
<1>9. CASE OutcomeStep(r)
  BY <1>1, <1>3, <1>4, <1>5, <1>6, <1>9 DEF OutcomeStep, LookUpOutcome, Analyze, RespondConflict,
     CreateGraphEdge, rows, derived, At
<1>10. CASE DeleteStep(r)
  BY <1>1, <1>2, <1>10 DEF DeleteStep, StartDelete, DeletePoint, rows, derived, At
<1>11. CASE MemoryFailure(r)
  BY <1>1, <1>7, <1>11 DEF MemoryFailure, UpsertFails, StageFails, IngestFails, rows, derived
<1> QED
  BY <1>8, <1>9, <1>10, <1>11 DEF Works

LEMMA WorkKeepsNamed ==
  ASSUME OwnInv, NEW r \in Requests, Works(r), NEW k \in Keys
  PROVE  NamedIsOwn(k)'
<1> USE DEF OwnInv
<1>1. MemoryMoves(r)
  BY WorkMovesMemories
<1>2. SUFFICES ASSUME outcomes'[k].memory # 0
               PROVE  /\ outcomes'[k].memory \in MemoryIds
                      /\ memories'[outcomes'[k].memory].live
                      /\ memories'[outcomes'[k].memory].key = k
  BY DEF NamedIsOwn
<1> DEFINE m == outcomes'[k].memory
<1>3. CASE m = outcomes[k].memory /\ ~(DropMemory(r) /\ m = proc[r].memory)
  <2>1. m \in MemoryIds /\ memories[m].live /\ memories[m].key = k
    BY <1>2, <1>3 DEF NamedIsOwn
  <2>2. m <= made /\ made \in Nat
    BY <2>1 DEF RecordInv, IdInv
  <2>3. Survives(m)
    BY <1>1, <1>3, <2>1, <2>2 DEF MemoryMoves, MemoryIds
  <2> QED
    BY <2>1, <2>3 DEF Survives
<1>4. CASE /\ k = proc[r].key /\ m = proc[r].memory /\ memories[proc[r].memory].live
           /\ proc[r].op = "outcome" /\ proc[r].pc \in {"ingested", "edges"}
           /\ memories' = memories
  BY <1>4 DEF HeldIsOwn, RecordInv, IdInv, Holds, Holding
<1> QED
  BY <1>2, <1>3, <1>4, OutcomeMoves DEF OwnInv

LEMMA OwnStep == OwnInv /\ [Next]_vars => OwnInv'
<1> SUFFICES ASSUME OwnInv, [Next]_vars
             PROVE  /\ \A q \in Requests : HeldIsOwn(q)'
                    /\ \A k \in Keys : NamedIsOwn(k)'
  BY RecordStep DEF OwnInv
<1> USE DEF OwnInv, RecordInv, OwnerInv, FenceInv
<1>1. ASSUME NEW r \in Requests, Entrance(r)
      PROVE  /\ \A q \in Requests : HeldIsOwn(q)'
             /\ \A k \in Keys : NamedIsOwn(k)'
  <2>1. memories' = memories /\ outcomes' = outcomes
    BY <1>1, EntranceLeaves DEF rows, derived
  <2>2. (\A q \in Requests \ {r} : proc'[q] = proc[q]) /\ proc'[r].pc \notin Holding
    <3>1. Submit(r) => proc'[r].pc = "fence"
      BY SubmitMoves
    <3>2. Admit(r) => proc'[r].pc = "start"
      BY GotoMoves DEF Admit
    <3>3. Refuse(r) \/ Abandon(r) => proc'[r].pc = "idle"
      BY RespondReturns DEF Refuse, Abandon, Returns, Idle
    <3> QED
      BY <1>1, <3>1, <3>2, <3>3, EntranceNeverSaves DEF Entrance, Holding, Running
  <2> QED
    BY <2>1, <2>2 DEF HeldIsOwn, NamedIsOwn
<1>2. ASSUME NEW r \in Requests, PurgeStep(r)
      PROVE  /\ \A q \in Requests : HeldIsOwn(q)'
             /\ \A k \in Keys : NamedIsOwn(k)'
  <2>1. /\ \A q \in Requests \ {r} : proc'[q] = proc[q] /\ ~Past(q)
        /\ proc'[r].pc \notin Holding
    BY <1>2, PurgeNeverSaves DEF Erasing, Holding, Running
  <2>2. \A q \in Requests : proc'[q].pc \notin Holding
    BY <2>1 DEF Past, Holding, Running
  <2>3. \/ memories' = memories /\ outcomes' = outcomes
        \/ outcomes' = [k \in Keys |-> NoOutcome]
    BY <1>2 DEF PurgeStep, FencePurge, DeleteSubject, DeleteUser, rows, derived
  <2> QED
    BY <2>2, <2>3 DEF HeldIsOwn, NamedIsOwn, NoOutcome
<1>3. ASSUME NEW m \in MemoryIds, Land(m)
      PROVE  /\ \A q \in Requests : HeldIsOwn(q)'
             /\ \A k \in Keys : NamedIsOwn(k)'
  BY <1>3 DEF Land, rows, derived, HeldIsOwn, NamedIsOwn
<1>4. CASE UNCHANGED vars
  BY <1>4 DEF vars, rows, derived, HeldIsOwn, NamedIsOwn
<1> QED
  BY <1>1, <1>2, <1>3, <1>4, NextSteps, WorkKeepsHeld, WorkKeepsNamed

(* With or without the fence, an outcome never names a memory that is gone *)
(* or that was made for something else, through any number of repeated     *)
(* reports, deletions and dead handlers.                                   *)
THEOREM LinkedMemoryIsOwnAlways == Spec => []LinkedMemoryIsOwn
<1>1. OwnInv => LinkedMemoryIsOwn
  BY DEF OwnInv, NamedIsOwn, LinkedMemoryIsOwn
<1> QED
  BY <1>1, OwnInit, OwnStep, PTL DEF Spec


-----------------------------------------------------------------------------
(* The point of an indexed memory                                          *)

Present(m) == m \in points \cup unindexed

(* A request is past its upsert only if the point was written; whoever     *)
(* completes another stage is not running the index stage.                 *)
PointWritten(r) ==
  /\ proc[r].pc \in Erasing => purge # "none"
  /\ proc[r].pc \in {"observe", "save"} => "qdrant" \notin proc[r].left
  /\ purge = "none" /\ proc[r].pc \in {"point", "complete"} /\ "qdrant" \in proc[r].left =>
       Present(proc[r].memory)

FindInv == RecordInv /\ IndexedIsFindable /\ \A r \in Requests : PointWritten(r)

LEMMA FindInit == Init => FindInv
BY RecordInit
   DEF Init, FindInv, IndexedIsFindable, PointWritten, Idle, NoMemory, Erasing

Plain(r) == \E pc : Goto(r, pc) /\ pc \notin {"point", "complete", "observe", "save"}

LEMMA PlainWork ==
  ASSUME Shape, NEW r \in Requests, Works(r)
  PROVE  \/ Respond(r) \/ Turns(r) \/ Plain(r)
         \/ UpsertPoint(r) \/ UpdateQdrantPointID(r) \/ ObserveMemory(r) \/ SaveObservation(r)
<1>1. CASE IngestStep(r)
  <2>1. StartIngest(r) => Respond(r) \/ Goto(r, "create")
    BY DEF StartIngest, EnsureUser, Goto, Shape
  <2> QED
    BY <1>1, <2>1 DEF IngestStep, Turns, Plain, RecordStageFailure, RespondToIngest,
       StoreExtractedEntities
<1>2. CASE OutcomeStep(r)
  BY <1>2 DEF OutcomeStep, Turns, Plain, ReserveOutcome, RespondConflict, RecordMemoryFailure,
     CompleteOutcome
<1>3. CASE DeleteStep(r)
  BY <1>3 DEF DeleteStep, StartDelete, DeletePoint, DropMemory, Plain
<1>4. CASE MemoryFailure(r)
  BY <1>4 DEF MemoryFailure, UpsertFails, StageFails, IngestFails, GraphEdgeFails, Plain
<1> QED
  BY <1>1, <1>2, <1>3, <1>4 DEF Works

LEMMA TurnsContinue ==
  ASSUME RecordInv, NEW r \in Requests, Turns(r)
  PROVE  /\ proc'[r].pc \notin {"point", "complete", "save"}
         /\ proc'[r].pc = "observe" => "qdrant" \notin proc'[r].left
<1> USE DEF RecordInv, OwnerInv, FenceInv
<1>1. ASSUME NEW left, proc' = [proc EXCEPT ![r] = Continue(proc[r], left)]
      PROVE  /\ proc'[r].pc \notin {"point", "complete", "save"}
             /\ proc'[r].pc = "observe" => "qdrant" \notin proc'[r].left
  <2>1. proc'[r] = Continue(proc[r], left)
    BY <1>1 DEF Shape
  <2> QED
    BY <2>1, ContinueIs DEF Shape
<1>2. CASE GetProcessingState(r) \/ CompleteStage(r)
  <2>1. Goto(r, "ingestFailed") \/ \E left : proc' = [proc EXCEPT ![r] = Continue(proc[r], left)]
    BY <1>2 DEF GetProcessingState, CompleteStage
  <2> QED
    BY <1>1, <2>1, GotoSame
<1>3. CASE CreateMemory(r)
  BY <1>3, Creation
<1>4. CASE LookUpOutcome(r)
  BY <1>4, LookUpMoves, EnsureUserMoves DEF Returns, Idle
<1>5. CASE Analyze(r) \/ CreateGraphEdge(r)
  BY <1>5 DEF Analyze, CreateGraphEdge, Shape, Idle
<1>6. CASE LinkMemory(r)
  <2>1. Respond(r) \/ proc' = [proc EXCEPT ![r].edges = EdgesOf[proc[r].analysis], ![r].pc = "edges"]
    BY <1>6 DEF LinkMemory
  <2> QED
    BY <2>1, RespondReturns DEF Returns, Shape, Idle
<1> QED
  BY <1>2, <1>3, <1>4, <1>5, <1>6 DEF Turns

LEMMA IndexGrows ==
  ASSUME NEW r \in Requests, Works(r), NEW m, Present(m)
  PROVE  Present(m)'
<1>1. CASE IngestStep(r)
  BY <1>1 DEF IngestStep, StartIngest, CreateMemory, GetProcessingState, UpsertPoint,
     UpdateQdrantPointID, ObserveMemory, SaveObservation, CompleteStage, RecordStageFailure,
     RespondToIngest, StoreExtractedEntities, index, Present
<1>2. CASE OutcomeStep(r)
  BY <1>2 DEF OutcomeStep, LookUpOutcome, Analyze, ReserveOutcome, RespondConflict,
     RecordMemoryFailure, LinkMemory, CreateGraphEdge, CompleteOutcome, index, Present
<1>3. CASE DeleteStep(r)
  BY <1>3 DEF DeleteStep, StartDelete, DeletePoint, DropMemory, index, Present
<1>4. CASE MemoryFailure(r)
  BY <1>4 DEF MemoryFailure, UpsertFails, StageFails, IngestFails, GraphEdgeFails, index, Present
<1> QED
  BY <1>1, <1>2, <1>3, <1>4 DEF Works

LEMMA WorkWritesPoint ==
  ASSUME FindInv, NEW r \in Requests, Works(r)
  PROVE  PointWritten(r)'
<1> USE DEF FindInv, RecordInv, OwnerInv, FenceInv
<1>1. purge' = purge /\ proc'[r].pc \notin Erasing
  BY WorkAdvances DEF Advances, GoesOn, Returns, Idle, Erasing
<1>2. CASE UpsertPoint(r)
  <2>1. Goto(r, "point") /\ points' = points \cup {proc[r].memory} /\ unindexed' = unindexed
    BY <1>2 DEF UpsertPoint
  <2> QED
    BY <1>1, <2>1, GotoSame DEF Same, PointWritten, Present
<1>3. CASE UpdateQdrantPointID(r)
  <2>1. /\ Goto(r, "complete") \/ Goto(r, "stageFailed")
        /\ proc[r].pc = "point" /\ index' = index
    BY <1>3 DEF UpdateQdrantPointID, index
  <2> QED
    BY <1>1, <2>1, GotoSame DEF Same, PointWritten, Present, index
<1>4. CASE SaveObservation(r)
  <2>1. Goto(r, "complete") /\ proc[r].pc = "save"
    BY <1>4 DEF SaveObservation
  <2> QED
    BY <1>1, <2>1, GotoSame DEF Same, PointWritten
<1>5. CASE ObserveMemory(r)
  <2>1. "qdrant" \notin proc[r].left
    BY <1>5 DEF ObserveMemory, PointWritten
  <2>2. Goto(r, "complete")
          \/ proc' = [proc EXCEPT ![r].read = learned[StageOf(proc[r])], ![r].pc = "save"]
    BY <1>5 DEF ObserveMemory
  <2>3. proc'[r].left = proc[r].left
    BY <2>2, GotoSame DEF Same, Shape, Idle
  <2> QED
    BY <1>1, <2>1, <2>3 DEF PointWritten
<1>6. CASE Respond(r)
  BY <1>1, <1>6, RespondReturns DEF Returns, Idle, PointWritten
<1>7. CASE Turns(r)
  BY <1>1, <1>7, TurnsContinue DEF PointWritten
<1>8. CASE Plain(r)
  BY <1>1, <1>8, GotoMoves DEF Plain, PointWritten
<1> QED
  BY <1>2, <1>3, <1>4, <1>5, <1>6, <1>7, <1>8, PlainWork

(* A stage becomes completed only for the request that ran it.             *)
LEMMA StatusMoves ==
  ASSUME RecordInv, NEW r \in Requests, Works(r), NEW m \in MemoryIds, NEW s \in Stages,
         memories'[m].live, memories'[m].status[s] # memories[m].status[s] \/ ~memories[m].live
  PROVE  \/ CreateMemory(r) /\ memories'[m] = NewMemory(proc[r].key) /\ made < m
         \/ CompleteStage(r) /\ m = proc[r].memory /\ s = StageOf(proc[r])
              /\ memories[m].live /\ memories'[m].status[s] = "completed"
         \/ RecordStageFailure(r) /\ m = proc[r].memory /\ s = StageOf(proc[r])
              /\ memories[m].live /\ memories'[m].status[s] = "failed"
<1> USE DEF RecordInv
<1>1. memories' # memories
  OBVIOUS
<1>2. MemoryMoves(r)
  BY WorkMovesMemories
<1>3. memories \in [MemoryIds -> MemoryRows]
  BY DEF IdInv
<1>4. CASE CreateMemory(r)
  <2>1. CASE Survives(m)
    <3>1. PICK i \in MemoryIds : /\ memories' = [memories EXCEPT ![i] = NewMemory(proc[r].key)]
                                 /\ i = made + 1
      BY <1>1, <1>4 DEF CreateMemory
    <3>2. ~memories[i].live /\ memories'[i].live
      BY <1>3, <3>1 DEF IdInv, NewMemory, NoMemory
    <3>3. i # m
      BY <2>1, <3>2 DEF Survives
    <3> QED
      BY <1>3, <2>1, <3>1, <3>3 DEF Survives
  <2>2. CASE ~Survives(m)
    BY <1>2, <1>4, <2>2 DEF MemoryMoves, NoMemory
  <2> QED
    BY <2>1, <2>2
<1>5. CASE UpdateQdrantPointID(r)
  <2>1. memories' = [memories EXCEPT ![proc[r].memory].point = TRUE]
    BY <1>1, <1>5 DEF UpdateQdrantPointID
  <2> QED
    BY <1>3, <2>1 DEF MemoryRows
<1>6. CASE CompleteStage(r)
  <2>1. /\ memories' = [memories EXCEPT ![proc[r].memory].status[StageOf(proc[r])] = "completed"]
        /\ memories[proc[r].memory].live
    BY <1>1, <1>6 DEF CompleteStage
  <2> QED
    BY <1>3, <1>6, <2>1 DEF MemoryRows
<1>7. CASE RecordStageFailure(r)
  <2>1. memories' = [memories EXCEPT ![proc[r].memory].status[StageOf(proc[r])] =
                       IF memories[proc[r].memory].live THEN "failed" ELSE @]
    BY <1>1, <1>7 DEF RecordStageFailure
  <2> QED
    BY <1>3, <1>7, <2>1 DEF MemoryRows
<1>8. CASE DropMemory(r)
  <2>1. memories' = [memories EXCEPT ![proc[r].memory] = NoMemory]
    BY <1>8 DEF DropMemory
  <2> QED
    BY <1>3, <2>1 DEF NoMemory
<1>9. CASE IngestStep(r)
  BY <1>1, <1>4, <1>5, <1>6, <1>7, <1>9 DEF IngestStep, StartIngest, GetProcessingState,
     UpsertPoint, ObserveMemory, SaveObservation, RespondToIngest, StoreExtractedEntities, rows
<1>10. CASE OutcomeStep(r)
  BY <1>1, <1>10 DEF OutcomeStep, LookUpOutcome, Analyze, ReserveOutcome, RespondConflict,
     RecordMemoryFailure, LinkMemory, CreateGraphEdge, CompleteOutcome, rows
<1>11. CASE DeleteStep(r)
  BY <1>1, <1>8, <1>11 DEF DeleteStep, StartDelete, DeletePoint, rows
<1>12. CASE MemoryFailure(r)
  BY <1>1, <1>12 DEF MemoryFailure, UpsertFails, StageFails, IngestFails, GraphEdgeFails, rows
<1> QED
  BY <1>9, <1>10, <1>11, <1>12 DEF Works

LEMMA WorkKeepsFindable ==
  ASSUME FindInv, NEW r \in Requests, Works(r)
  PROVE  IndexedIsFindable'
<1> USE DEF FindInv
<1>1. purge' = purge
  BY WorkAdvances DEF Advances, RecordInv, OwnerInv
<1>2. SUFFICES ASSUME purge = "none", NEW m \in MemoryIds, memories'[m].live,
                      memories'[m].status["qdrant"] = "completed"
               PROVE  Present(m)'
  BY <1>1 DEF IndexedIsFindable, Present
<1>3. "qdrant" \in Stages
  BY DEF Stages
<1>4. CASE memories[m].live /\ memories[m].status["qdrant"] = "completed"
  BY <1>2, <1>4, IndexGrows DEF IndexedIsFindable, Present
<1>5. CASE ~(memories[m].live /\ memories[m].status["qdrant"] = "completed")
  <2>1. NewMemory(proc[r].key).status["qdrant"] = "pending"
    BY DEF NewMemory, NoMemory, Stages
  <2>2. CompleteStage(r) /\ m = proc[r].memory /\ "qdrant" = StageOf(proc[r])
    BY <1>2, <1>3, <1>5, <2>1, StatusMoves
  <2>3. proc[r].pc = "complete" /\ "qdrant" \in proc[r].left
    BY <2>2 DEF CompleteStage, StageOf
  <2> QED
    BY <1>2, <2>2, <2>3, IndexGrows DEF PointWritten
<1> QED
  BY <1>4, <1>5

LEMMA FindStep == FindInv /\ [Next]_vars => FindInv'
<1> SUFFICES ASSUME FindInv, [Next]_vars
             PROVE  IndexedIsFindable' /\ \A q \in Requests : PointWritten(q)'
  BY RecordStep DEF FindInv
<1> USE DEF FindInv, RecordInv, OwnerInv, FenceInv
<1>1. ASSUME NEW r \in Requests, Works(r)
      PROVE  IndexedIsFindable' /\ \A q \in Requests : PointWritten(q)'
  <2>1. purge' = purge /\ \A q \in Requests \ {r} : proc'[q] = proc[q]
    BY <1>1, WorkAdvances DEF Advances
  <2>2. ASSUME NEW q \in Requests \ {r} PROVE PointWritten(q)'
    BY <1>1, <2>1, IndexGrows DEF PointWritten
  <2> QED
    BY <1>1, <2>2, WorkKeepsFindable, WorkWritesPoint
<1>2. ASSUME NEW r \in Requests, Entrance(r)
      PROVE  IndexedIsFindable' /\ \A q \in Requests : PointWritten(q)'
  <2>1. memories' = memories /\ purge' = purge /\ index' = index
    BY <1>2, EntranceLeaves DEF rows, index
  <2>2. (\A q \in Requests \ {r} : proc'[q] = proc[q]) /\ proc'[r].pc \in {"idle", "fence", "start"}
    <3>1. Submit(r) => proc'[r].pc = "fence"
      BY SubmitMoves
    <3>2. Admit(r) => proc'[r].pc = "start"
      BY GotoMoves DEF Admit
    <3>3. Refuse(r) \/ Abandon(r) => proc'[r].pc = "idle"
      BY RespondReturns DEF Refuse, Abandon, Returns, Idle
    <3> QED
      BY <1>2, <3>1, <3>2, <3>3, EntranceNeverSaves DEF Entrance
  <2> QED
    BY <2>1, <2>2 DEF IndexedIsFindable, PointWritten, Present, index, Erasing
<1>3. ASSUME NEW r \in Requests, PurgeStep(r)
      PROVE  IndexedIsFindable' /\ \A q \in Requests : PointWritten(q)'
  <2>1. purge' # "none"
    BY <1>3 DEF PurgeStep, FencePurge, DeleteSubject, DeleteUser, PointWritten, rows, Erasing
  <2>2. /\ \A q \in Requests \ {r} : proc'[q] = proc[q]
        /\ proc'[r].pc \in {"idle"} \cup Erasing
    BY <1>3, PurgeNeverSaves
  <2> QED
    BY <2>1, <2>2 DEF IndexedIsFindable, PointWritten, Erasing
<1>4. ASSUME NEW m \in MemoryIds, Land(m)
      PROVE  IndexedIsFindable' /\ \A q \in Requests : PointWritten(q)'
  BY <1>4 DEF Land, rows, IndexedIsFindable, PointWritten, Present
<1>5. CASE UNCHANGED vars
  BY <1>5 DEF vars, rows, index, IndexedIsFindable, PointWritten, Present
<1> QED
  BY <1>1, <1>2, <1>3, <1>4, <1>5, NextSteps

(* A memory that is marked indexed has its point, until a deletion of that *)
(* memory or a purge removes it: no interleaving of failed, repeated and   *)
(* concurrent requests marks a point that was never written, fenced or     *)
(* not, with late upserts or without.                                      *)
THEOREM IndexedIsFindableAlways == Spec => []IndexedIsFindable
<1>1. FindInv => IndexedIsFindable
  BY DEF FindInv
<1> QED
  BY <1>1, FindInit, FindStep, PTL DEF Spec


-----------------------------------------------------------------------------
(* The stored analysis                                                     *)

(* A report that asks the model found no outcome under its key; one that   *)
(* is past the reservation works with the analysis the row stores.         *)
FollowsStored(r) ==
  LET p == proc[r]
  IN p.op = "outcome" =>
       /\ p.pc \in {"analyze", "reserve"} => ~Reserved(p.key)
       /\ p.pc = "reserve" => p.analysis \in Analyses
       /\ p.pc \notin Early => Reserved(p.key) /\ p.analysis = outcomes[p.key].analysis
       /\ p.pc = "edges" => p.edges \subseteq EdgesOf[p.analysis]

EdgeRows == DOMAIN edges = Keys /\ \A k \in Keys : DOMAIN edges[k] = EdgeNames

AnalysisInv ==
  /\ RecordInv
  /\ EdgeRows
  /\ EdgesFollowAnalysis
  /\ \A k \in Keys : Reserved(k) => outcomes[k].analysis \in Analyses
  /\ \A r \in Requests : FollowsStored(r)

LEMMA AnalysisInit == Init => AnalysisInv
BY RecordInit
   DEF Init, AnalysisInv, EdgeRows, EdgesFollowAnalysis, FollowsStored, Reserved, NoOutcome, Idle

(* What work on the subject does to the row of an outcome.                 *)
RowMoves(r, k) ==
  /\ \/ outcomes'[k].analysis = outcomes[k].analysis
     \/ ~Reserved(k) /\ outcomes'[k].status # "completed"
  /\ outcomes'[k].hash # None /\ ~Reserved(k) => ReserveOutcome(r) /\ k = proc[r].key
  /\ \/ outcomes'[k].status = outcomes[k].status
     \/ outcomes'[k].status # "completed"
     \/ CompleteOutcome(r) /\ k = proc[r].key /\ memories[proc[r].memory].live
          /\ outcomes'[k].memory = proc[r].memory

LEMMA WorkMovesRows ==
  ASSUME RecordInv, NEW r \in Requests, Works(r), NEW k \in Keys
  PROVE  RowMoves(r, k)
<1>r. DOMAIN outcomes = Keys /\ DOMAIN outcomes[k] = DOMAIN NoOutcome
  BY DEF RecordInv, OwnerInv, OutcomeRows
<1>1. CASE outcomes' = outcomes
  BY <1>1 DEF RowMoves, Reserved
<1>2. CASE DropMemory(r)
  <2>1. outcomes'[k] = IF outcomes[k].memory = proc[r].memory
                        THEN [outcomes[k] EXCEPT !.memory = 0] ELSE outcomes[k]
    BY <1>2 DEF DropMemory
  <2> QED
    BY <1>r, <2>1 DEF NoOutcome, RowMoves, Reserved
<1>3. CASE ReserveOutcome(r)
  <2> DEFINE row == [NoOutcome EXCEPT !.hash = proc[r].hash, !.analysis = proc[r].analysis]
  <2>1. outcomes' = [outcomes EXCEPT ![proc[r].key] =
          IF Reserved(proc[r].key) THEN outcomes[proc[r].key] ELSE row]
    BY <1>3 DEF ReserveOutcome
  <2>2. row.status = "pending"
    BY DEF NoOutcome
  <2> HIDE DEF row
  <2>3. outcomes'[k] = IF k = proc[r].key /\ ~Reserved(k) THEN row ELSE outcomes[k]
    BY <1>r, <2>1
  <2> QED
    BY <1>3, <2>2, <2>3 DEF RowMoves, Reserved
<1>4. ASSUME NEW row, outcomes' = [outcomes EXCEPT ![proc[r].key] = row],
             k = proc[r].key =>
               /\ row.hash = outcomes[k].hash /\ row.analysis = outcomes[k].analysis
               /\ \/ row.status # "completed" \/ row = outcomes[k]
                  \/ CompleteOutcome(r) /\ memories[proc[r].memory].live
                       /\ row.memory = proc[r].memory
      PROVE  RowMoves(r, k)
  <2>1. outcomes'[k] = IF k = proc[r].key THEN row ELSE outcomes[k]
    BY <1>r, <1>4
  <2> QED
    BY <1>4, <2>1 DEF RowMoves, Reserved
<1>5. CASE RecordMemoryFailure(r)
  <2> DEFINE row == [outcomes[proc[r].key] EXCEPT !.status = "failed", !.stage = "memory"]
  <2>1. outcomes' = [outcomes EXCEPT ![proc[r].key] = row]
    BY <1>5 DEF RecordMemoryFailure
  <2>2. k = proc[r].key => /\ row.hash = outcomes[k].hash /\ row.analysis = outcomes[k].analysis
                           /\ row.status # "completed"
    BY <1>r DEF NoOutcome
  <2> HIDE DEF row
  <2> QED
    BY <1>4, <2>1, <2>2
<1>6. ASSUME NEW status, NEW stage,
             outcomes' = [outcomes EXCEPT ![proc[r].key] =
               [outcomes[proc[r].key] EXCEPT !.status = status, !.stage = stage,
                                              !.memory = proc[r].memory]],
             status # "completed" \/ (CompleteOutcome(r) /\ memories[proc[r].memory].live)
      PROVE  RowMoves(r, k)
  <2> DEFINE row == [outcomes[proc[r].key] EXCEPT !.status = status, !.stage = stage,
                                                   !.memory = proc[r].memory]
  <2>1. outcomes' = [outcomes EXCEPT ![proc[r].key] = row]
    BY <1>6
  <2>2. k = proc[r].key => /\ row.hash = outcomes[k].hash /\ row.analysis = outcomes[k].analysis
                           /\ row.status = status /\ row.memory = proc[r].memory
    BY <1>r DEF NoOutcome
  <2> HIDE DEF row
  <2> QED
    BY <1>4, <1>6, <2>1, <2>2
<1>7. CASE outcomes' = [outcomes EXCEPT ![proc[r].key] = outcomes[proc[r].key]]
  BY <1>4, <1>7
<1>8. CASE LinkMemory(r) \/ CompleteOutcome(r) \/ GraphEdgeFails(r)
  <2>1. CASE memories[proc[r].memory].live
    BY <1>6, <1>8, <2>1 DEF LinkMemory, CompleteOutcome, GraphEdgeFails
  <2>2. CASE ~memories[proc[r].memory].live
    BY <1>1, <1>7, <1>8, <2>2 DEF LinkMemory, CompleteOutcome, GraphEdgeFails
  <2> QED
    BY <2>1, <2>2
<1>9. CASE IngestStep(r)
  BY <1>1, <1>9 DEF IngestStep, StartIngest, CreateMemory, GetProcessingState, UpsertPoint,
     UpdateQdrantPointID, ObserveMemory, SaveObservation, CompleteStage, RecordStageFailure,
     RespondToIngest, StoreExtractedEntities, rows, derived
<1>10. CASE OutcomeStep(r)
  BY <1>1, <1>3, <1>5, <1>8, <1>10 DEF OutcomeStep, LookUpOutcome, Analyze, RespondConflict,
     CreateGraphEdge, rows, derived
<1>11. CASE DeleteStep(r)
  BY <1>1, <1>2, <1>11 DEF DeleteStep, StartDelete, DeletePoint, rows, derived
<1>12. CASE MemoryFailure(r)
  BY <1>1, <1>8, <1>12 DEF MemoryFailure, UpsertFails, StageFails, IngestFails, rows, derived
<1> QED
  BY <1>9, <1>10, <1>11, <1>12 DEF Works

LEMMA WorkMovesEdges ==
  ASSUME NEW r \in Requests, Works(r)
  PROVE  edges' = edges \/ CreateGraphEdge(r)
<1>1. CASE IngestStep(r)
  BY <1>1 DEF IngestStep, StartIngest, CreateMemory, GetProcessingState, UpsertPoint,
     UpdateQdrantPointID, ObserveMemory, SaveObservation, CompleteStage, RecordStageFailure,
     RespondToIngest, StoreExtractedEntities, rows, derived
<1>2. CASE OutcomeStep(r)
  BY <1>2 DEF OutcomeStep, LookUpOutcome, Analyze, ReserveOutcome, RespondConflict,
     RecordMemoryFailure, LinkMemory, CompleteOutcome, rows, derived
<1>3. CASE DeleteStep(r)
  BY <1>3 DEF DeleteStep, StartDelete, DeletePoint, DropMemory, rows, derived
<1>4. CASE MemoryFailure(r)
  BY <1>4 DEF MemoryFailure, UpsertFails, StageFails, IngestFails, GraphEdgeFails, rows, derived
<1> QED
  BY <1>1, <1>2, <1>3, <1>4 DEF Works

(* How a report goes on once it has its outcome. *)
LateMove(r) ==
  /\ proc'[r].pc \notin Early
  /\ proc'[r].key = proc[r].key /\ proc'[r].analysis = proc[r].analysis
  /\ proc'[r].pc = "edges" => LinkMemory(r) \/ CreateGraphEdge(r)

LEMMA ReportMoves ==
  ASSUME RecordInv, NEW r \in Requests, Works(r), proc[r].op = "outcome"
  PROVE  \/ Respond(r)
         \/ LookUpOutcome(r) \/ Analyze(r) \/ ReserveOutcome(r)
         \/ proc[r].pc \notin Early /\ LateMove(r)
<1> USE DEF RecordInv, OwnerInv, FenceInv
<1>1. ASSUME NEW pc, Goto(r, pc), pc \notin Early, pc # "edges" PROVE LateMove(r)
  BY <1>1, GotoSame DEF Same, LateMove
<1>2. ASSUME NEW left, proc' = [proc EXCEPT ![r] = Continue(proc[r], left)]
      PROVE  LateMove(r)
  <2>1. proc'[r] = Continue(proc[r], left)
    BY <1>2 DEF Shape
  <2>2. Continue(proc[r], left).pc \in {"ingested", "upsert", "observe"}
    BY ContinueMoves DEF Shape
  <2> QED
    BY <2>1, <2>2, ContinueIs DEF Shape, LateMove, Early
<1>3. CASE CreateMemory(r)
  <2>1. PICK m : proc' = [proc EXCEPT ![r].memory = m, ![r].pc = "state"]
    BY <1>3 DEF CreateMemory
  <2> QED
    BY <1>3, <2>1 DEF CreateMemory, LateMove, Shape, Idle, Early
<1>4. CASE GetProcessingState(r) \/ CompleteStage(r)
  <2>1. proc[r].pc \notin Early
    BY <1>4 DEF GetProcessingState, CompleteStage, Early
  <2>2. Goto(r, "ingestFailed") \/ \E left : proc' = [proc EXCEPT ![r] = Continue(proc[r], left)]
    BY <1>4 DEF GetProcessingState, CompleteStage
  <2> QED
    BY <1>1, <1>2, <2>1, <2>2 DEF Early
<1>5. CASE ObserveMemory(r)
  <2>1. CASE Goto(r, "complete")
    BY <1>1, <1>5, <2>1 DEF ObserveMemory, Early
  <2>2. CASE proc' = [proc EXCEPT ![r].read = learned[StageOf(proc[r])], ![r].pc = "save"]
    BY <1>5, <2>2 DEF ObserveMemory, LateMove, Shape, Idle, Early
  <2> QED
    BY <1>5, <2>1, <2>2 DEF ObserveMemory
<1>6. CASE UpsertPoint(r) \/ UpdateQdrantPointID(r) \/ SaveObservation(r) \/ RecordStageFailure(r)
           \/ RespondToIngest(r) \/ StoreExtractedEntities(r) \/ StartIngest(r)
  BY <1>1, <1>6 DEF UpsertPoint, UpdateQdrantPointID, SaveObservation, RecordStageFailure,
     RespondToIngest, StoreExtractedEntities, StartIngest, At, Early
<1>7. CASE RespondConflict(r) \/ RecordMemoryFailure(r) \/ CompleteOutcome(r)
  BY <1>7 DEF RespondConflict, RecordMemoryFailure, CompleteOutcome
<1>8. CASE LinkMemory(r)
  <2>1. CASE Respond(r)
    BY <2>1
  <2>2. CASE proc' = [proc EXCEPT ![r].edges = EdgesOf[proc[r].analysis], ![r].pc = "edges"]
    BY <1>8, <2>2 DEF LinkMemory, At, LateMove, Shape, Idle, Early
  <2> QED
    BY <1>8, <2>1, <2>2 DEF LinkMemory
<1>9. CASE CreateGraphEdge(r)
  BY <1>9 DEF CreateGraphEdge, LateMove, Shape, Idle, Early
<1>10. CASE DeleteStep(r)
  BY <1>1, <1>10 DEF DeleteStep, StartDelete, DeletePoint, DropMemory, At, Early
<1>11. CASE MemoryFailure(r)
  <2>1. GraphEdgeFails(r) => Respond(r)
    BY DEF GraphEdgeFails
  <2>2. IngestFails(r) /\ proc[r].pc = "create" => LateMove(r)
    BY <1>1 DEF IngestFails, Early
  <2> QED
    BY <1>1, <1>11, <2>1, <2>2 DEF MemoryFailure, UpsertFails, StageFails, IngestFails, Early
<1> QED
  BY <1>3, <1>4, <1>5, <1>6, <1>7, <1>8, <1>9, <1>10, <1>11 DEF Works, IngestStep, OutcomeStep

LEMMA WorkFollowsStored ==
  ASSUME AnalysisInv, NEW r \in Requests, Works(r)
  PROVE  FollowsStored(r)'
<1> USE DEF AnalysisInv, RecordInv, OwnerInv, FenceInv
<1>1. SUFFICES ASSUME proc'[r].op = "outcome"
               PROVE  FollowsStored(r)'
  BY DEF FollowsStored
<1>2. ~Respond(r) /\ proc[r].op = "outcome"
  BY <1>1, WorkAdvances, RespondReturns DEF Advances, GoesOn, Returns, Idle
<1> DEFINE k == proc[r].key
<1>3. k \in Keys /\ proc[r].hash \in Hashes
  BY <1>2
<1>4. RowMoves(r, k)
  BY <1>3, WorkMovesRows
<1>5. CASE LookUpOutcome(r)
  <2>1. outcomes' = outcomes
    BY <1>5 DEF LookUpOutcome, derived
  <2>2. CASE ~Reserved(k)
    <3>1. EnsureUser(r, [proc[r] EXCEPT !.pc = "analyze"])
      BY <1>3, <1>5, <2>2, SubjectAssumption DEF LookUpOutcome, Reserved
    <3>2. proc' = [proc EXCEPT ![r] = [proc[r] EXCEPT !.pc = "analyze"]]
      BY <1>2, <3>1 DEF EnsureUser
    <3>3. proc'[r].pc = "analyze" /\ proc'[r].key = k
      BY <3>2 DEF Shape, Idle
    <3> QED
      BY <2>1, <2>2, <3>3 DEF FollowsStored, Early, Reserved
  <2>3. CASE Reserved(k) /\ outcomes[k].hash = proc[r].hash
    <3>1. EnsureUser(r, [proc[r] EXCEPT !.analysis = outcomes[k].analysis, !.pc = "create"])
      BY <1>5, <2>3 DEF LookUpOutcome
    <3>2. /\ proc'[r].pc = "create" /\ proc'[r].key = k
          /\ proc'[r].analysis = outcomes[k].analysis
      BY <1>2, <3>1 DEF EnsureUser, Shape, Idle
    <3> QED
      BY <2>1, <2>3, <3>2 DEF FollowsStored, Early, Reserved
  <2>4. CASE Reserved(k) /\ outcomes[k].hash # proc[r].hash
    <3>1. EnsureUser(r, [proc[r] EXCEPT !.pc = "conflict"])
      BY <1>5, <2>4 DEF LookUpOutcome
    <3> QED
      BY <1>2, <3>1 DEF EnsureUser, FollowsStored, Early, Shape, Idle
  <2> QED
    BY <2>2, <2>3, <2>4
<1>6. CASE Analyze(r)
  <2>1. PICK a \in Analyses : proc' = [proc EXCEPT ![r].analysis = a, ![r].pc = "reserve"]
    BY <1>6 DEF Analyze
  <2>2. outcomes' = outcomes /\ ~Reserved(k)
    BY <1>2, <1>6 DEF Analyze, rows, derived, FollowsStored
  <2>3. /\ proc'[r].pc = "reserve" /\ proc'[r].analysis \in Analyses /\ proc'[r].key = k
    BY <2>1 DEF Shape, Idle
  <2> QED
    BY <2>2, <2>3 DEF FollowsStored, Early, Reserved
<1>7. CASE ReserveOutcome(r)
  <2>1. ~Reserved(k) /\ proc[r].analysis \in Analyses
    BY <1>2, <1>7 DEF ReserveOutcome, FollowsStored
  <2>2. outcomes' = [outcomes EXCEPT ![k] = [NoOutcome EXCEPT !.hash = proc[r].hash,
                                                              !.analysis = proc[r].analysis]]
    BY <1>7, <2>1 DEF ReserveOutcome
  <2>3. outcomes'[k].hash = proc[r].hash /\ outcomes'[k].analysis = proc[r].analysis
    BY <1>3, <2>2 DEF OutcomeRows, NoOutcome
  <2>4. proc'[r].pc \in {"create", "conflict"} /\ Same(r)
    BY <1>7, GotoSame DEF ReserveOutcome
  <2>5. proc[r].hash # None
    BY <1>3, SubjectAssumption
  <2>6. proc'[r].pc \in {"create", "conflict"} /\ proc'[r].key = k /\ proc'[r].analysis = proc[r].analysis
    BY <2>4 DEF Same
  <2>7. outcomes'[k].hash # None
    BY <2>3, <2>5
  <2> HIDE DEF k
  <2> QED
    BY <2>3, <2>6, <2>7 DEF FollowsStored, Early, Reserved
<1>8. CASE proc[r].pc \notin Early /\ LateMove(r)
  <2>1. Reserved(k) /\ proc[r].analysis = outcomes[k].analysis
    BY <1>2, <1>8 DEF FollowsStored
  <2>2. outcomes'[k].hash # None
    BY <1>3, <2>1, SubjectAssumption, WorkKeepsHashes DEF HashesStay, Reserved, OutcomeRows
  <2>3. outcomes'[k].analysis = outcomes[k].analysis
    BY <1>4, <2>1 DEF RowMoves
  <2>4. proc'[r].pc = "edges" => proc'[r].edges \subseteq EdgesOf[proc[r].analysis]
    <3>1. CASE LinkMemory(r)
      BY <1>2, <3>1 DEF LinkMemory, Shape, Idle
    <3>2. CASE CreateGraphEdge(r)
      <4>1. PICK e : proc' = [proc EXCEPT ![r].edges = @ \ {e}]
        BY <3>2 DEF CreateGraphEdge
      <4>2. proc'[r].edges = proc[r].edges \ {e}
        BY <4>1 DEF Shape, Idle
      <4>3. proc[r].edges \subseteq EdgesOf[proc[r].analysis]
        BY <1>2, <3>2 DEF CreateGraphEdge, FollowsStored
      <4> QED
        BY <4>2, <4>3
    <3> QED
      BY <1>8, <3>1, <3>2 DEF LateMove
  <2> QED
    BY <1>8, <2>1, <2>2, <2>3, <2>4 DEF LateMove, FollowsStored, Early, Reserved
<1> QED
  BY <1>2, <1>5, <1>6, <1>7, <1>8, ReportMoves


(* An edge that is written belongs to the stored analysis of its outcome.  *)
LEMMA EdgeWritten ==
  ASSUME AnalysisInv, NEW r \in Requests, CreateGraphEdge(r)
  PROVE  \E e \in EdgesOf[proc[r].analysis] \cap proc[r].edges :
           /\ e \in EdgeNames
           /\ proc[r].key \in Keys /\ Reserved(proc[r].key)
           /\ proc[r].analysis = outcomes[proc[r].key].analysis
           /\ edges' = [edges EXCEPT ![proc[r].key][e] = proc[r].memory]
           /\ proc'[r].edges = proc[r].edges \ {e}
<1> USE DEF AnalysisInv, RecordInv, OwnerInv, FenceInv
<1>1. proc[r].op = "outcome" /\ proc[r].pc = "edges"
  BY DEF CreateGraphEdge, IdInv, Reporting
<1>2. /\ proc[r].key \in Keys /\ Reserved(proc[r].key)
      /\ proc[r].analysis = outcomes[proc[r].key].analysis
      /\ proc[r].edges \subseteq EdgesOf[proc[r].analysis]
  BY <1>1 DEF FollowsStored, Early
<1>3. EdgesOf[proc[r].analysis] \subseteq EdgeNames
  BY <1>2, SubjectAssumption
<1>4. PICK e \in proc[r].edges :
        /\ edges' = [edges EXCEPT ![proc[r].key][e] = proc[r].memory]
        /\ proc' = [proc EXCEPT ![r].edges = @ \ {e}]
  BY DEF CreateGraphEdge
<1>5. proc'[r].edges = proc[r].edges \ {e}
  BY <1>4 DEF Shape, Idle
<1> QED
  BY <1>2, <1>3, <1>4, <1>5

LEMMA WorkKeepsAnalysis ==
  ASSUME Authenticated = TRUE, AnalysisInv, NEW r \in Requests, Works(r)
  PROVE  /\ EdgeRows' /\ EdgesFollowAnalysis'
         /\ \A k \in Keys : Reserved(k)' => outcomes'[k].analysis \in Analyses
         /\ \A q \in Requests : FollowsStored(q)'
<1> USE DEF AnalysisInv
<1>1. \A q \in Requests \ {r} : proc'[q] = proc[q] /\ ~Past(q)
  BY WorkAdvances DEF Advances, RecordInv, OwnerInv, FenceInv, Fenced
<1>2. ASSUME NEW q \in Requests PROVE FollowsStored(q)'
  <2>1. q # r => FollowsStored(q)'
    <3>1. proc[q].op = "outcome" => proc[q].pc # "idle"
      BY DEF RecordInv, OwnerInv
    <3> HIDE DEF AnalysisInv
    <3> QED
      BY <1>1, <3>1 DEF FollowsStored, Past, Early
  <2> QED
    BY <2>1, WorkFollowsStored
<1>3. ASSUME NEW k \in Keys
      PROVE  /\ Reserved(k) => outcomes'[k].hash # None /\ outcomes'[k].analysis = outcomes[k].analysis
             /\ outcomes'[k].hash # None => outcomes'[k].analysis \in Analyses
  <2>1. RowMoves(r, k)
    BY WorkMovesRows
  <2>2. Reserved(k) => outcomes'[k].hash # None
    <3>1. OutcomeRows
      BY DEF RecordInv, OwnerInv
    <3> QED
      BY <3>1, WorkKeepsHashes DEF HashesStay, Reserved
  <2>3. CASE ReserveOutcome(r) /\ k = proc[r].key /\ ~Reserved(k)
    <3>1. proc[r].op = "outcome" /\ proc[r].pc = "reserve"
      BY <2>3 DEF ReserveOutcome, RecordInv, IdInv, Reporting
    <3>2. proc[r].analysis \in Analyses
      BY <3>1 DEF FollowsStored
    <3>3. outcomes' = [outcomes EXCEPT ![k] = [NoOutcome EXCEPT !.hash = proc[r].hash,
                                                                !.analysis = proc[r].analysis]]
      BY <2>3 DEF ReserveOutcome
    <3>4. outcomes'[k].analysis = proc[r].analysis
      BY <3>3 DEF RecordInv, OwnerInv, OutcomeRows, NoOutcome
    <3> QED
      BY <2>3, <3>2, <3>4
  <2> QED
    BY <2>1, <2>2, <2>3 DEF RowMoves
<1>4. EdgeRows' /\ EdgesFollowAnalysis'
  <2>1. CASE edges' = edges
    BY <1>3, <2>1 DEF EdgeRows, EdgesFollowAnalysis, Reserved
  <2>2. CASE CreateGraphEdge(r)
    <3>1. PICK f \in EdgesOf[proc[r].analysis] :
            /\ f \in EdgeNames
            /\ proc[r].key \in Keys /\ Reserved(proc[r].key)
            /\ proc[r].analysis = outcomes[proc[r].key].analysis
            /\ edges' = [edges EXCEPT ![proc[r].key][f] = proc[r].memory]
      BY <2>2, EdgeWritten
    <3>2. EdgeRows'
      BY <3>1 DEF EdgeRows
    <3>3. ASSUME NEW k \in Keys, NEW e \in EdgeNames, edges'[k][e] # 0
          PROVE  Reserved(k) /\ e \in EdgesOf[outcomes[k].analysis]
      <4>1. edges[k][e] # 0 \/ (k = proc[r].key /\ e = f)
        BY <3>1, <3>3 DEF EdgeRows
      <4> QED
        BY <3>1, <4>1 DEF EdgesFollowAnalysis
    <3> QED
      BY <1>3, <3>2, <3>3 DEF EdgesFollowAnalysis, Reserved
  <2> QED
    BY <2>1, <2>2, WorkMovesEdges
<1> QED
  BY <1>2, <1>3, <1>4 DEF Reserved

(* What every other step leaves of the rows of outcomes and edges.         *)
Unrelated ==
  \/ outcomes' = outcomes /\ edges' = edges
  \/ outcomes' = [k \in Keys |-> NoOutcome] /\ edges' = [k \in Keys |-> [e \in EdgeNames |-> 0]]

LEMMA OthersLeave ==
  ASSUME AnalysisInv, NEW r \in Requests, Entrance(r) \/ PurgeStep(r)
  PROVE  /\ Unrelated
         /\ proc'[r].op = "outcome" => proc'[r].pc \in {"fence", "start"}
         /\ proc'[r].pc \in {"idle", "fence", "start"} \cup Erasing
         /\ \A q \in Requests \ {r} : proc'[q] = proc[q]
         /\ outcomes' # outcomes \/ edges' # edges => \A q \in Requests \ {r} : ~Past(q)
<1> USE DEF AnalysisInv, RecordInv, OwnerInv, FenceInv
<1>1. CASE Entrance(r)
  <2>1. outcomes' = outcomes /\ edges' = edges
    BY <1>1, EntranceLeaves DEF rows, derived
  <2>2. Submit(r) => proc'[r].pc = "fence"
    BY SubmitMoves
  <2>3. Admit(r) => proc'[r].pc = "start"
    BY GotoMoves DEF Admit
  <2>4. Refuse(r) \/ Abandon(r) => proc'[r].pc = "idle"
    BY RespondReturns DEF Refuse, Abandon, Returns, Idle
  <2>5. proc'[r].pc = "idle" => proc'[r].op # "outcome"
    BY <1>1, <2>2, <2>3, RespondReturns DEF Entrance, Refuse, Abandon, Returns, Idle
  <2> QED
    BY <1>1, <2>1, <2>2, <2>3, <2>4, <2>5, EntranceNeverSaves DEF Entrance, Unrelated
<1>2. CASE PurgeStep(r)
  <2>1. Unrelated
    BY <1>2 DEF PurgeStep, FencePurge, DeleteSubject, DeleteUser, rows, derived, Unrelated
  <2>2. proc'[r].op # "outcome"
    BY <1>2, PurgeNeverSaves, GotoMoves, RespondReturns
       DEF PurgeStep, FencePurge, DeleteSubject, DeleteUser, Returns, Idle
  <2> QED
    BY <1>2, <2>1, <2>2, PurgeNeverSaves
<1> QED
  BY <1>1, <1>2

LEMMA AnalysisStep ==
  ASSUME Authenticated = TRUE
  PROVE  AnalysisInv /\ [Next]_vars => AnalysisInv'
<1> SUFFICES ASSUME AnalysisInv, [Next]_vars
             PROVE  /\ EdgeRows' /\ EdgesFollowAnalysis'
                    /\ \A k \in Keys : Reserved(k)' => outcomes'[k].analysis \in Analyses
                    /\ \A q \in Requests : FollowsStored(q)'
  BY RecordStep DEF AnalysisInv
<1> USE DEF AnalysisInv
<1>1. ASSUME Unrelated
      PROVE  /\ EdgeRows' /\ EdgesFollowAnalysis'
             /\ \A k \in Keys : Reserved(k)' => outcomes'[k].analysis \in Analyses
  BY <1>1 DEF Unrelated, EdgeRows, EdgesFollowAnalysis, Reserved, NoOutcome
<1>2. ASSUME NEW r \in Requests, Entrance(r) \/ PurgeStep(r), NEW q \in Requests
      PROVE  FollowsStored(q)'
  <2>1. FollowsStored(q)
    OBVIOUS
  <2> HIDE DEF AnalysisInv
  <2>4. proc[q].op = "outcome" => proc[q].pc # "idle"
    BY DEF AnalysisInv, RecordInv, OwnerInv
  <2>2. CASE proc'[q].op = "outcome" => proc'[q].pc \in {"fence", "start"}
    BY <2>2 DEF FollowsStored, Early
  <2>3. CASE proc'[q] = proc[q] /\ outcomes' = outcomes
    BY <2>1, <2>3 DEF FollowsStored, Reserved
  <2> QED
    BY <1>2, <2>2, <2>3, <2>4, OthersLeave DEF Past
<1>3. ASSUME NEW m \in MemoryIds, Land(m)
      PROVE  Unrelated /\ \A q \in Requests : FollowsStored(q)'
  BY <1>3 DEF Land, rows, derived, Unrelated, FollowsStored, Reserved
<1>4. ASSUME UNCHANGED vars
      PROVE  Unrelated /\ \A q \in Requests : FollowsStored(q)'
  BY <1>4 DEF vars, rows, derived, Unrelated, FollowsStored, Reserved
<1> QED
  BY <1>1, <1>2, <1>3, <1>4, NextSteps, WorkKeepsAnalysis, OthersLeave

(* Behind the fence, however often a report fails and is repeated, the     *)
(* edges of an outcome come from the one analysis its row stores: two      *)
(* answers of the model are never mixed.                                   *)
THEOREM EdgesFollowAnalysisAlways ==
  ASSUME Authenticated = TRUE
  PROVE  Spec => []EdgesFollowAnalysis
<1>1. AnalysisInv => EdgesFollowAnalysis
  BY DEF AnalysisInv
<1> QED
  BY <1>1, AnalysisInit, AnalysisStep, PTL DEF Spec


-----------------------------------------------------------------------------
(* What a completed outcome has behind it                                  *)

AllCompleted(m) == \A s \in Stages : memories[m].status[s] = "completed"

(* A request that runs a memory's stages knows exactly which are missing;  *)
(* a report past them found all completed, and the edges it is done with   *)
(* cite its memory.                                                        *)
StagesKnown(r) ==
  LET p == proc[r]
  IN /\ p.pc \in Running /\ memories[p.memory].live =>
          \A s \in Stages : memories[p.memory].status[s] = "completed" <=> s \notin p.left
     /\ p.op = "outcome" /\ p.pc \in {"ingested", "edges"} /\ memories[p.memory].live =>
          AllCompleted(p.memory)
     /\ p.op = "outcome" /\ p.pc = "edges" =>
          /\ outcomes[p.key].status # "completed"
          /\ \A e \in EdgesOf[p.analysis] \ p.edges : edges[p.key][e] = p.memory

DurableInv ==
  /\ OwnInv /\ AnalysisInv
  /\ CompletedIsDurable
  /\ \A r \in Requests : StagesKnown(r)

LEMMA DurableInit == Init => DurableInv
BY OwnInit, AnalysisInit
   DEF Init, DurableInv, CompletedIsDurable, StagesKnown, Idle, NoOutcome, Running

(* A stage of a live row changes only while a request runs it.             *)
LEMMA StatusStays ==
  ASSUME RecordInv, NEW r \in Requests, Works(r), NEW m \in MemoryIds, m <= made,
         memories'[m].live, NEW s \in Stages
  PROVE  /\ memories[m].live
         /\ \/ memories'[m].status[s] = memories[m].status[s]
            \/ CompleteStage(r) /\ m = proc[r].memory /\ s = StageOf(proc[r])
                 /\ memories'[m].status[s] = "completed"
            \/ RecordStageFailure(r) /\ m = proc[r].memory /\ s = StageOf(proc[r])
                 /\ memories'[m].status[s] = "failed"
<1>1. ~(made < m)
  BY DEF RecordInv, IdInv, MemoryIds
<1> QED
  BY <1>1, StatusMoves

(* How a running request got where it is. *)
RunMove(r) ==
  \/ proc[r].pc \in Running /\ Same(r) /\ ~CompleteStage(r) /\ ~RecordStageFailure(r)
  \/ GetProcessingState(r) /\ memories[proc[r].memory].live /\ proc'[r].memory = proc[r].memory
       /\ proc'[r].left = {s \in Stages : memories[proc[r].memory].status[s] # "completed"}
  \/ CompleteStage(r) /\ memories[proc[r].memory].live /\ proc'[r].memory = proc[r].memory
       /\ proc'[r].left = proc[r].left \ {StageOf(proc[r])}

LEMMA WorkRuns ==
  ASSUME RecordInv, NEW r \in Requests, Works(r)
  PROVE  /\ proc'[r].pc \in Running => RunMove(r)
         /\ proc'[r].pc = "ingested" =>
              RunMove(r) /\ proc'[r].left = {} /\ ~(proc[r].pc \in Running /\ Same(r))
<1> USE DEF RecordInv, OwnerInv, FenceInv
<1> DEFINE Goal ==
         /\ proc'[r].pc \in Running => RunMove(r)
         /\ proc'[r].pc = "ingested" =>
              RunMove(r) /\ proc'[r].left = {} /\ ~(proc[r].pc \in Running /\ Same(r))
<1>1. ASSUME NEW pc, Goto(r, pc), pc # "ingested",
             pc \in Running => proc[r].pc \in Running /\ ~CompleteStage(r) /\ ~RecordStageFailure(r)
      PROVE  Goal
  BY <1>1, GotoSame DEF RunMove
<1>2. CASE Respond(r)
  BY <1>2, RespondReturns DEF Returns, Idle, Running
<1>3. CASE GetProcessingState(r)
  <2>1. CASE ~memories[proc[r].memory].live
    BY <1>1, <1>3, <2>1 DEF GetProcessingState, Running
  <2>2. CASE memories[proc[r].memory].live
    <3> DEFINE left == {s \in Stages : memories[proc[r].memory].status[s] # "completed"}
    <3>1. proc' = [proc EXCEPT ![r] = Continue(proc[r], left)] /\ proc[r].pc = "state"
      BY <1>3, <2>2 DEF GetProcessingState
    <3>2. proc'[r] = Continue(proc[r], left) /\ DOMAIN proc[r] = DOMAIN Idle
      BY <3>1 DEF Shape
    <3> HIDE DEF left
    <3>3. /\ proc'[r].left = left /\ proc'[r].memory = proc[r].memory
          /\ proc'[r].pc = "ingested" => left = {}
      BY <3>2, ContinueIs
    <3> QED
      BY <1>3, <2>2, <3>1, <3>3 DEF RunMove, left, Running
  <2> QED
    BY <2>1, <2>2
<1>4. CASE CompleteStage(r)
  <2>1. CASE ~memories[proc[r].memory].live
    BY <1>1, <1>4, <2>1 DEF CompleteStage, Running
  <2>2. CASE memories[proc[r].memory].live
    <3> DEFINE left == proc[r].left \ {StageOf(proc[r])}
    <3>1. proc' = [proc EXCEPT ![r] = Continue(proc[r], left)]
      BY <1>4, <2>2 DEF CompleteStage
    <3>2. proc'[r] = Continue(proc[r], left) /\ DOMAIN proc[r] = DOMAIN Idle
      BY <3>1 DEF Shape
    <3>3. StageOf(proc[r]) \in proc[r].left
      BY <1>4 DEF CompleteStage, IdInv, Running, StageOf, Stages, Views
    <3>4. left # proc[r].left
      BY <3>3
    <3> HIDE DEF left
    <3>5. /\ proc'[r].left = left /\ proc'[r].memory = proc[r].memory
          /\ proc'[r].pc = "ingested" => left = {}
      BY <3>2, ContinueIs
    <3> QED
      BY <1>4, <2>2, <3>4, <3>5 DEF RunMove, left, Same
  <2> QED
    BY <2>1, <2>2
<1>5. CASE CreateMemory(r)
  BY <1>5, Creation DEF Running
<1>6. CASE LookUpOutcome(r)
  BY <1>6, LookUpMoves, EnsureUserMoves DEF Returns, Idle, Running
<1>7. CASE Analyze(r) \/ CreateGraphEdge(r)
  <2>2. CreateGraphEdge(r) => proc'[r].pc = "edges"
    BY DEF CreateGraphEdge, Shape, Idle
  <2>3. Analyze(r) => proc'[r].pc = "reserve"
    BY DEF Analyze, Shape, Idle
  <2> QED
    BY <1>7, <2>2, <2>3 DEF Running
<1>8. CASE LinkMemory(r)
  <2>1. Respond(r) \/ proc' = [proc EXCEPT ![r].edges = EdgesOf[proc[r].analysis], ![r].pc = "edges"]
    BY <1>8 DEF LinkMemory
  <2> QED
    BY <1>2, <2>1 DEF Shape, Idle, Running
<1>9. CASE ObserveMemory(r)
  <2>1. CASE Goto(r, "complete")
    BY <1>1, <1>9, <2>1 DEF ObserveMemory, CompleteStage, RecordStageFailure, Running
  <2>2. CASE proc' = [proc EXCEPT ![r].read = learned[StageOf(proc[r])], ![r].pc = "save"]
    <3>1. Same(r) /\ proc'[r].pc = "save"
      BY <2>2 DEF Same, Shape, Idle
    <3> QED
      BY <1>9, <3>1 DEF ObserveMemory, CompleteStage, RecordStageFailure, Running, RunMove
  <2> QED
    BY <1>9, <2>1, <2>2 DEF ObserveMemory
<1>10. CASE IngestStep(r)
  <2>1. CASE RecordStageFailure(r)
    BY <1>1, <2>1 DEF RecordStageFailure, Running
  <2>2. CASE UpsertPoint(r) \/ UpdateQdrantPointID(r) \/ SaveObservation(r)
    BY <1>1, <2>2 DEF UpsertPoint, UpdateQdrantPointID, SaveObservation, CompleteStage,
       RecordStageFailure, Running
  <2>3. StartIngest(r) => Respond(r) \/ Goto(r, "create")
    BY DEF StartIngest, EnsureUser, Goto, Shape
  <2>4. CASE StartIngest(r) \/ RespondToIngest(r) \/ StoreExtractedEntities(r)
    BY <1>1, <1>2, <2>3, <2>4 DEF RespondToIngest, StoreExtractedEntities, Running
  <2> QED
    BY <1>3, <1>4, <1>5, <1>9, <1>10, <2>1, <2>2, <2>4 DEF IngestStep
<1>11. CASE OutcomeStep(r)
  <2>1. CASE ReserveOutcome(r) \/ RespondConflict(r) \/ RecordMemoryFailure(r) \/ CompleteOutcome(r)
    BY <1>1, <1>2, <2>1 DEF ReserveOutcome, RespondConflict, RecordMemoryFailure, CompleteOutcome,
       Running
  <2> QED
    BY <1>6, <1>7, <1>8, <1>11, <2>1 DEF OutcomeStep
<1>12. CASE DeleteStep(r)
  BY <1>1, <1>2, <1>12 DEF DeleteStep, StartDelete, DeletePoint, DropMemory, Running
<1>13. CASE MemoryFailure(r)
  <2>1. UpsertFails(r) \/ StageFails(r) =>
          Goto(r, "stageFailed") /\ proc[r].pc \in {"upsert", "point", "observe", "save"}
    BY DEF UpsertFails, StageFails
  <2>2. IngestFails(r) => Goto(r, "ingestFailed")
    BY DEF IngestFails
  <2>3. GraphEdgeFails(r) => Respond(r)
    BY DEF GraphEdgeFails
  <2> QED
    BY <1>1, <1>2, <1>13, <2>1, <2>2, <2>3
       DEF MemoryFailure, CompleteStage, RecordStageFailure, Running
<1> QED
  BY <1>10, <1>11, <1>12, <1>13 DEF Works


LEMMA WorkKnowsStages ==
  ASSUME DurableInv, NEW r \in Requests, Works(r)
  PROVE  StagesKnown(r)'
<1> USE DEF DurableInv, OwnInv, RecordInv
<1> DEFINE m == proc[r].memory
<1>1. /\ proc'[r].pc \in Running \cup {"ingested"} =>
           m \in MemoryIds /\ m <= made /\ proc'[r].memory = m /\ RunMove(r)
           /\ proc[r].pc \in Running \cup {"state"}
  <2>1. proc'[r].pc \in Running \cup {"ingested"} => RunMove(r)
    BY WorkRuns
  <2>2. RunMove(r) => proc[r].pc \in Running \cup {"state"} /\ proc'[r].memory = m
    BY DEF RunMove, GetProcessingState, CompleteStage, Same, Running
  <2>3. proc[r].pc \in Running \cup {"state"} => m \in MemoryIds /\ m <= made
    BY DEF IdInv, Holds, Holding
  <2> QED
    BY <2>1, <2>2, <2>3
<1>2. ASSUME proc'[r].pc \in Running \cup {"ingested"}, memories'[m].live, NEW s \in Stages
      PROVE  memories'[m].status[s] = "completed" <=> s \notin proc'[r].left
  <2>1. memories[m].live
    BY <1>1, <1>2, StatusStays
  <2>2. CASE proc[r].pc \in Running /\ Same(r) /\ ~CompleteStage(r) /\ ~RecordStageFailure(r)
    <3>1. memories'[m].status[s] = memories[m].status[s]
      BY <1>1, <1>2, <2>2, StatusStays
    <3>2. memories[m].status[s] = "completed" <=> s \notin proc[r].left
      BY <2>1, <2>2 DEF StagesKnown
    <3> QED
      BY <2>2, <3>1, <3>2 DEF Same
  <2>3. CASE /\ GetProcessingState(r)
             /\ proc'[r].left = {t \in Stages : memories[m].status[t] # "completed"}
    <3>1. memories' = memories
      BY <2>3 DEF GetProcessingState, rows
    <3> QED
      BY <2>3, <3>1
  <2>4. CASE CompleteStage(r) /\ proc'[r].left = proc[r].left \ {StageOf(proc[r])}
    <3>1. memories' = [memories EXCEPT ![m].status[StageOf(proc[r])] = "completed"]
      BY <2>1, <2>4 DEF CompleteStage
    <3>2. memories[m].status[s] = "completed" <=> s \notin proc[r].left
      BY <2>1, <2>4 DEF StagesKnown, CompleteStage, Running
    <3>3. memories'[m].status[s] =
            IF s = StageOf(proc[r]) THEN "completed" ELSE memories[m].status[s]
      BY <1>1, <1>2, <3>1 DEF IdInv, MemoryRows
    <3> QED
      BY <2>4, <3>2, <3>3
  <2> QED
    BY <1>1, <1>2, <2>2, <2>3, <2>4 DEF RunMove
<1>3. ASSUME proc'[r].pc = "ingested", memories'[m].live
      PROVE  \A s \in Stages : memories'[m].status[s] = "completed"
  <2>1. proc'[r].left = {}
    BY <1>3, WorkRuns
  <2> QED
    BY <1>2, <1>3, <2>1
<1>4. ASSUME proc'[r].op = "outcome", proc'[r].pc = "edges"
      PROVE  /\ memories'[proc'[r].memory].live => AllCompleted(proc[r].memory)'
             /\ proc'[r].memory = m
             /\ outcomes'[proc'[r].key].status # "completed"
             /\ \A e \in EdgesOf[proc'[r].analysis] \ proc'[r].edges :
                  edges'[proc'[r].key][e] = proc'[r].memory
  <2>1. proc[r].op = "outcome" /\ ~Respond(r)
    BY <1>4, WorkAdvances, RespondReturns
       DEF Advances, GoesOn, Returns, Idle, OwnerInv, FenceInv
  <2>2. LinkMemory(r) \/ CreateGraphEdge(r)
    <3>1. LookUpOutcome(r) => proc'[r].pc # "edges"
      BY LookUpMoves, EnsureUserMoves DEF Returns, Idle, OwnerInv, FenceInv
    <3>2. Analyze(r) => proc'[r].pc # "edges"
      BY DEF Analyze, OwnerInv, FenceInv, Shape, Idle
    <3>3. ReserveOutcome(r) => proc'[r].pc # "edges"
      BY GotoSame DEF ReserveOutcome, OwnerInv, FenceInv
    <3> QED
      BY <1>4, <2>1, <3>1, <3>2, <3>3, ReportMoves DEF LateMove
  <2>3. CASE LinkMemory(r)
    <3>1. /\ memories[m].live /\ proc[r].pc = "ingested"
          /\ memories' = memories
          /\ proc' = [proc EXCEPT ![r].edges = EdgesOf[proc[r].analysis], ![r].pc = "edges"]
          /\ outcomes' = [outcomes EXCEPT ![proc[r].key] =
               [outcomes[proc[r].key] EXCEPT !.status = "pending", !.stage = "none",
                                              !.memory = proc[r].memory]]
      BY <2>1, <2>3 DEF LinkMemory, At
    <3>2. /\ proc'[r].edges = EdgesOf[proc[r].analysis] /\ proc'[r].analysis = proc[r].analysis
          /\ proc'[r].memory = m /\ proc'[r].key = proc[r].key
      BY <3>1 DEF OwnerInv, FenceInv, Shape, Idle
    <3>3. outcomes'[proc[r].key].status = "pending"
      BY <2>1, <3>1 DEF OwnerInv, OutcomeRows, NoOutcome
    <3>4. AllCompleted(m)
      BY <2>1, <3>1 DEF StagesKnown
    <3>5. memories'[m].live => AllCompleted(proc[r].memory)'
      BY <3>1, <3>2, <3>4 DEF AllCompleted
    <3> QED
      BY <3>2, <3>3, <3>5
  <2>4. CASE CreateGraphEdge(r)
    <3>1. memories' = memories /\ outcomes' = outcomes /\ proc[r].pc = "edges"
      BY <2>4 DEF CreateGraphEdge
    <3>2. /\ proc'[r].analysis = proc[r].analysis
          /\ proc'[r].memory = m /\ proc'[r].key = proc[r].key
      BY <2>4 DEF CreateGraphEdge, OwnerInv, FenceInv, Shape, Idle
    <3>3. PICK f \in EdgesOf[proc[r].analysis] :
            /\ f \in EdgeNames
            /\ edges' = [edges EXCEPT ![proc[r].key][f] = m]
            /\ proc'[r].edges = proc[r].edges \ {f}
      BY <2>4, EdgeWritten
    <3>4. \A e \in EdgesOf[proc[r].analysis] \ proc[r].edges : edges[proc[r].key][e] = m
      BY <2>1, <3>1 DEF StagesKnown
    <3>5. DOMAIN edges = Keys /\ proc[r].key \in Keys /\ DOMAIN edges[proc[r].key] = EdgeNames
      BY <2>1 DEF AnalysisInv, EdgeRows, OwnerInv
    <3>6. ASSUME NEW e \in EdgesOf[proc[r].analysis] \ (proc[r].edges \ {f})
          PROVE  edges'[proc[r].key][e] = m
      BY <3>3, <3>4, <3>5
    <3>7. outcomes[proc[r].key].status # "completed" /\ (memories[m].live => AllCompleted(m))
      BY <2>1, <3>1 DEF StagesKnown
    <3>8. memories'[m].live => AllCompleted(proc[r].memory)'
      BY <3>1, <3>2, <3>7 DEF AllCompleted
    <3> QED
      BY <3>1, <3>2, <3>3, <3>6, <3>7, <3>8
  <2> QED
    BY <2>2, <2>3, <2>4
<1> QED
  BY <1>1, <1>2, <1>3, <1>4 DEF StagesKnown, AllCompleted


LEMMA WorkKeepsDurable ==
  ASSUME DurableInv, NEW r \in Requests, Works(r)
  PROVE  CompletedIsDurable'
<1> USE DEF DurableInv, OwnInv, RecordInv
<1> SUFFICES ASSUME NEW k \in Keys, outcomes'[k].status = "completed", outcomes'[k].memory # 0
             PROVE  /\ memories'[outcomes'[k].memory].live
                    /\ \A s \in Stages : memories'[outcomes'[k].memory].status[s] = "completed"
                    /\ \A e \in EdgesOf[outcomes'[k].analysis] : edges'[k][e] = outcomes'[k].memory
  BY DEF CompletedIsDurable
<1>1. RowMoves(r, k)
  BY WorkMovesRows
<1>2. NamedIsOwn(k)'
  BY WorkKeepsNamed
<1> DEFINE m == outcomes'[k].memory
<1>3. m \in MemoryIds /\ memories'[m].live
  BY <1>2 DEF NamedIsOwn
<1>4. CASE CompleteOutcome(r) /\ k = proc[r].key /\ memories[proc[r].memory].live
             /\ m = proc[r].memory
  <2>1. proc[r].op = "outcome" /\ proc[r].pc = "edges" /\ proc[r].edges = {}
    BY <1>4 DEF CompleteOutcome, IdInv, Reporting
  <2>2. memories' = memories /\ edges' = edges
    BY <1>4 DEF CompleteOutcome
  <2>3. Reserved(k) /\ proc[r].analysis = outcomes[k].analysis
    BY <1>4, <2>1 DEF AnalysisInv, FollowsStored, Early
  <2>4. outcomes'[k].analysis = outcomes[k].analysis
    BY <1>1, <2>3 DEF RowMoves
  <2>5. /\ \A s \in Stages : memories[m].status[s] = "completed"
        /\ \A e \in EdgesOf[proc[r].analysis] : edges[k][e] = m
    BY <1>4, <2>1 DEF StagesKnown, AllCompleted
  <2> QED
    BY <1>3, <2>2, <2>3, <2>4, <2>5
<1>5. CASE outcomes[k].status = "completed" /\ outcomes[k].memory = m
             /\ ~(DropMemory(r) /\ m = proc[r].memory)
  <2>1. /\ memories[m].live
        /\ \A s \in Stages : memories[m].status[s] = "completed"
        /\ \A e \in EdgesOf[outcomes[k].analysis] : edges[k][e] = m
    BY <1>5 DEF CompletedIsDurable
  <2>2. m <= made
    BY <1>3, <2>1 DEF IdInv
  <2>3. outcomes'[k].analysis = outcomes[k].analysis
    BY <1>1 DEF RowMoves
  <2>4. ASSUME NEW s \in Stages PROVE memories'[m].status[s] = "completed"
    <3>1. ASSUME RecordStageFailure(r), m = proc[r].memory, s = StageOf(proc[r]) PROVE FALSE
      <4>1. proc[r].pc \in Running
        BY <3>1 DEF RecordStageFailure, Running
      <4>2. s \in proc[r].left
        BY <3>1, <4>1 DEF IdInv, StageOf, Stages, Views
      <4> QED
        BY <2>1, <3>1, <4>1, <4>2 DEF StagesKnown
    <3> QED
      BY <1>3, <2>1, <2>2, <3>1, StatusStays
  <2>5. ASSUME NEW e \in EdgesOf[outcomes[k].analysis] PROVE edges'[k][e] = m
    <3>1. CASE edges' = edges
      BY <2>1, <3>1
    <3>2. CASE CreateGraphEdge(r)
      <4>1. proc[r].op = "outcome" /\ proc[r].pc = "edges"
        BY <3>2 DEF CreateGraphEdge, IdInv, Reporting
      <4>2. proc[r].key # k
        BY <1>5, <4>1 DEF StagesKnown
      <4>3. edges'[k] = edges[k]
        BY <3>2, <4>2, EdgeWritten DEF AnalysisInv, EdgeRows
      <4> QED
        BY <2>1, <4>3
    <3> QED
      BY <3>1, <3>2, WorkMovesEdges
  <2> QED
    BY <1>3, <2>3, <2>4, <2>5
<1>6. ASSUME LinkMemory(r) \/ GraphEdgeFails(r), k = proc[r].key, memories[proc[r].memory].live
      PROVE  FALSE
  <2>1. DOMAIN outcomes = Keys /\ DOMAIN outcomes[k] = DOMAIN NoOutcome
    BY DEF OwnerInv, OutcomeRows
  <2>2. CASE LinkMemory(r)
    <3>1. outcomes' = [outcomes EXCEPT ![k] =
            [outcomes[k] EXCEPT !.status = "pending", !.stage = "none", !.memory = proc[r].memory]]
      BY <1>6, <2>2 DEF LinkMemory
    <3> QED
      BY <2>1, <3>1 DEF NoOutcome
  <2>3. CASE GraphEdgeFails(r)
    <3>1. outcomes' = [outcomes EXCEPT ![k] =
            [outcomes[k] EXCEPT !.status = "failed", !.stage = "graph_edges",
                                 !.memory = proc[r].memory]]
      BY <1>6, <2>3 DEF GraphEdgeFails
    <3> QED
      BY <2>1, <3>1 DEF NoOutcome
  <2> QED
    BY <1>6, <2>2, <2>3
<1>7. CASE CompleteOutcome(r) /\ k = proc[r].key /\ m = proc[r].memory
             /\ memories[proc[r].memory].live
  BY <1>4, <1>7
<1>8. \/ m = outcomes[k].memory /\ ~(DropMemory(r) /\ m = proc[r].memory)
      \/ CompleteOutcome(r) /\ k = proc[r].key /\ m = proc[r].memory
           /\ memories[proc[r].memory].live
  BY <1>6, OutcomeMoves
<1>9. outcomes[k].status = "completed" \/ (CompleteOutcome(r) /\ k = proc[r].key
         /\ m = proc[r].memory /\ memories[proc[r].memory].live)
  BY <1>1 DEF RowMoves
<1> QED
  BY <1>5, <1>7, <1>8, <1>9

LEMMA DurableStep ==
  ASSUME Authenticated = TRUE
  PROVE  DurableInv /\ [Next]_vars => DurableInv'
<1> SUFFICES ASSUME DurableInv, [Next]_vars
             PROVE  CompletedIsDurable' /\ \A q \in Requests : StagesKnown(q)'
  BY OwnStep, AnalysisStep DEF DurableInv
<1> USE DEF DurableInv, OwnInv, RecordInv
<1>1. ASSUME NEW r \in Requests, Works(r)
      PROVE  CompletedIsDurable' /\ \A q \in Requests : StagesKnown(q)'
  <2>1. \A q \in Requests \ {r} : proc'[q] = proc[q] /\ ~Past(q)
    BY <1>1, WorkAdvances DEF Advances, OwnerInv, FenceInv, Fenced
  <2>2. ASSUME NEW q \in Requests \ {r} PROVE StagesKnown(q)'
    <3>1. proc'[q].pc \in {"idle", "fence"}
      BY <2>1 DEF Past
    <3> HIDE DEF DurableInv
    <3> QED
      BY <3>1 DEF StagesKnown, Running
  <2> QED
    BY <1>1, <2>2, WorkKnowsStages, WorkKeepsDurable
<1>2. ASSUME NEW r \in Requests, Entrance(r)
      PROVE  CompletedIsDurable' /\ \A q \in Requests : StagesKnown(q)'
  <2>1. memories' = memories /\ outcomes' = outcomes /\ edges' = edges
    BY <1>2, EntranceLeaves DEF rows, derived
  <2>2. /\ proc'[r].op = "outcome" => proc'[r].pc \in {"fence", "start"}
        /\ proc'[r].pc \in {"idle", "fence", "start"} \cup Erasing
        /\ \A q \in Requests \ {r} : proc'[q] = proc[q]
    BY <1>2, OthersLeave
  <2>3. StagesKnown(r)'
    BY <2>2 DEF StagesKnown, Running, Erasing
  <2>4. ASSUME NEW q \in Requests \ {r} PROVE StagesKnown(q)'
    <3>1. StagesKnown(q)
      OBVIOUS
    <3> HIDE DEF DurableInv
    <3> QED
      BY <2>1, <2>2, <3>1 DEF StagesKnown, AllCompleted
  <2>5. CompletedIsDurable'
    BY <2>1 DEF CompletedIsDurable
  <2> QED
    BY <2>3, <2>4, <2>5
<1>3. ASSUME NEW r \in Requests, PurgeStep(r)
      PROVE  CompletedIsDurable' /\ \A q \in Requests : StagesKnown(q)'
  <2>1. /\ \A q \in Requests \ {r} : proc'[q] = proc[q] /\ ~Past(q)
        /\ proc'[r].pc \in {"idle"} \cup Erasing
    BY <1>3, PurgeNeverSaves DEF OwnerInv
  <2>2. ASSUME NEW q \in Requests PROVE proc'[q].pc \in {"idle", "fence"} \cup Erasing
    BY <2>1 DEF Past
  <2>3. CompletedIsDurable'
    <3>1. \/ memories' = memories /\ outcomes' = outcomes /\ edges' = edges
          \/ outcomes' = [k \in Keys |-> NoOutcome]
      BY <1>3 DEF PurgeStep, FencePurge, DeleteSubject, DeleteUser, rows, derived
    <3> QED
      BY <3>1 DEF CompletedIsDurable, NoOutcome
  <2>4. ASSUME NEW q \in Requests PROVE StagesKnown(q)'
    BY <2>2 DEF StagesKnown, Running, Erasing
  <2> QED
    BY <2>3, <2>4
<1>4. ASSUME NEW m \in MemoryIds, Land(m)
      PROVE  CompletedIsDurable' /\ \A q \in Requests : StagesKnown(q)'
  BY <1>4 DEF Land, rows, derived, CompletedIsDurable, StagesKnown, AllCompleted
<1>5. CASE UNCHANGED vars
  BY <1>5 DEF vars, rows, derived, CompletedIsDurable, StagesKnown, AllCompleted
<1> QED
  BY <1>1, <1>2, <1>3, <1>4, <1>5, NextSteps

(* Behind the fence, an outcome that is answered as completed and still    *)
(* has its memory went through every stage: whatever attempt did which,    *)
(* its memory is indexed and observed, and every edge of the analysis it   *)
(* stores is written and cites that memory.                                *)
THEOREM CompletedIsDurableAlways ==
  ASSUME Authenticated = TRUE
  PROVE  Spec => []CompletedIsDurable
<1>1. DurableInv => CompletedIsDurable
  BY DEF DurableInv
<1> QED
  BY <1>1, DurableInit, DurableStep, PTL DEF Spec
=============================================================================
