------------------------- MODULE SubjectFence_proofs -------------------------
(***************************************************************************)
(* Proofs about the fence of a subject, for every set of requests, keys,   *)
(* payloads and analyses and for every bound.                              *)
(*                                                                         *)
(* Only a request that holds the fence touches the subject; so from the    *)
(* moment a purge is marked nobody but a purge does, and what it finds     *)
(* erased stays erased.  With the fence no request undoes what another one *)
(* learned, and even without it only the report that reserved an outcome   *)
(* goes on to write for it.                                                *)
(***************************************************************************)
EXTENDS OutcomeProcessing, TLAPS

(* A request past the fence: it works on the subject. *)
Past(r) == proc[r].pc \notin {"idle", "fence"}

Erasing == {"unindexAll", "dropAll"}

Shape ==
  /\ DOMAIN proc = Requests
  /\ \A r \in Requests : DOMAIN proc[r] = DOMAIN Idle

(* Only the holder of the fence is past it, the pcs of a purge are its own, *)
(* and once the subject is fenced only purges are past the fence.           *)
Fenced == Authenticated => \A r \in Requests : Past(r) => fence = r

PurgeSteps ==
  \A r \in Requests :
    /\ proc[r].op = "purge" =>
         Authenticated /\ proc[r].pc \in {"fence", "start"} \cup Erasing
    /\ proc[r].pc \in Erasing => proc[r].op = "purge"

Closed ==
  purge # "none" =>
    Authenticated /\ \A r \in Requests : Past(r) => proc[r].op = "purge"

FenceInv == Shape /\ Fenced /\ PurgeSteps /\ Closed

(* What a step of a request past the fence, not a purge, does to requests  *)
(* and to the fence: it goes on, or returns and gives the fence back.      *)
GoesOn(r) ==
  /\ proc'[r].op = proc[r].op
  /\ proc'[r].pc \notin {"idle", "fence"} \cup Erasing
  /\ fence' = fence

Returns(r) ==
  /\ proc'[r] = Idle
  /\ fence' = IF fence = r THEN None ELSE fence

Advances(r) ==
  /\ Past(r) /\ proc[r].op # "purge"
  /\ DOMAIN proc' = Requests
  /\ \A q \in Requests \ {r} : proc'[q] = proc[q]
  /\ DOMAIN proc'[r] = DOMAIN Idle
  /\ GoesOn(r) \/ Returns(r)
  /\ purge' = purge

LEMMA GotoMoves ==
  ASSUME Shape, NEW r \in Requests, NEW pc, Goto(r, pc)
  PROVE  /\ DOMAIN proc' = Requests
         /\ \A q \in Requests \ {r} : proc'[q] = proc[q]
         /\ DOMAIN proc'[r] = DOMAIN Idle
         /\ proc'[r].op = proc[r].op
         /\ proc'[r].pc = pc
BY DEF Goto, Shape, Idle

LEMMA RespondReturns ==
  ASSUME Shape, NEW r \in Requests, Respond(r)
  PROVE  /\ DOMAIN proc' = Requests
         /\ \A q \in Requests \ {r} : proc'[q] = proc[q]
         /\ DOMAIN proc'[r] = DOMAIN Idle
         /\ Returns(r)
BY DEF Respond, Shape, Returns

LEMMA EnsureUserMoves ==
  ASSUME Shape, NEW r \in Requests, NEW request, EnsureUser(r, request),
         DOMAIN request = DOMAIN Idle
  PROVE  /\ DOMAIN proc' = Requests
         /\ \A q \in Requests \ {r} : proc'[q] = proc[q]
         /\ DOMAIN proc'[r] = DOMAIN Idle
         /\ Returns(r) \/ (proc'[r] = request /\ fence' = fence)
BY RespondReturns DEF EnsureUser, Shape

LEMMA ContinueMoves ==
  ASSUME NEW p, NEW left, DOMAIN p = DOMAIN Idle
  PROVE  /\ DOMAIN Continue(p, left) = DOMAIN Idle
         /\ Continue(p, left).op = p.op
         /\ Continue(p, left).pc \in {"ingested", "upsert", "observe"}
BY DEF Continue, Idle

LEMMA IngestAdvances ==
  ASSUME FenceInv, NEW r \in Requests, IngestStep(r)
  PROVE  Advances(r)
<1> USE DEF FenceInv
<1>1. CASE StartIngest(r)
  <2> DEFINE request == [proc[r] EXCEPT !.pc = "create"]
  <2>1. DOMAIN request = DOMAIN Idle /\ request.op = proc[r].op /\ request.pc = "create"
    BY DEF Shape, Idle
  <2>2. EnsureUser(r, request) /\ purge' = purge
    BY <1>1 DEF StartIngest
  <2>3. Past(r) /\ proc[r].op # "purge"
    BY <1>1 DEF StartIngest, At, Past
  <2> HIDE DEF request
  <2> QED
    BY <2>1, <2>2, <2>3, EnsureUserMoves DEF Advances, GoesOn, Erasing
<1>2. CASE CreateMemory(r)
  BY <1>2 DEF CreateMemory, Advances, GoesOn, Past, Erasing, Shape, PurgeSteps, Idle
<1>3. CASE GetProcessingState(r)
  <2>1. Past(r) /\ proc[r].op # "purge" /\ purge' = purge /\ fence' = fence
    BY <1>3 DEF GetProcessingState, Past, PurgeSteps, Erasing, rows
  <2>2. CASE Goto(r, "ingestFailed")
    BY <2>1, <2>2, GotoMoves DEF Advances, GoesOn, Erasing
  <2>3. CASE \E left : proc' = [proc EXCEPT ![r] = Continue(@, left)]
    BY <2>1, <2>3, ContinueMoves DEF Advances, GoesOn, Erasing, Shape
  <2> QED
    BY <1>3, <2>2, <2>3 DEF GetProcessingState
<1>4. CASE UpsertPoint(r) \/ UpdateQdrantPointID(r) \/ RecordStageFailure(r)
  <2>1. \E pc \in {"point", "complete", "stageFailed", "ingestFailed"} : Goto(r, pc)
    BY <1>4 DEF UpsertPoint, UpdateQdrantPointID, RecordStageFailure
  <2>2. Past(r) /\ proc[r].op # "purge" /\ purge' = purge /\ fence' = fence
    BY <1>4 DEF UpsertPoint, UpdateQdrantPointID, RecordStageFailure, Past, PurgeSteps, Erasing, rows
  <2> QED
    BY <2>1, <2>2, GotoMoves DEF Advances, GoesOn, Erasing
<1>5. CASE ObserveMemory(r) \/ SaveObservation(r)
  BY <1>5 DEF ObserveMemory, SaveObservation, Goto, Advances, GoesOn, Past, Erasing, Shape,
     PurgeSteps, Idle, rows
<1>6. CASE CompleteStage(r)
  <2>1. Past(r) /\ proc[r].op # "purge" /\ purge' = purge /\ fence' = fence
    BY <1>6 DEF CompleteStage, Past, PurgeSteps, Erasing
  <2>2. CASE Goto(r, "ingestFailed")
    BY <2>1, <2>2, GotoMoves DEF Advances, GoesOn, Erasing
  <2>3. CASE \E left : proc' = [proc EXCEPT ![r] = Continue(proc[r], left)]
    BY <2>1, <2>3, ContinueMoves DEF Advances, GoesOn, Erasing, Shape
  <2> QED
    BY <1>6, <2>2, <2>3 DEF CompleteStage
<1>7. CASE RespondToIngest(r)
  BY <1>7, RespondReturns DEF RespondToIngest, At, Advances, Past, PurgeSteps, Erasing, rows
<1>8. CASE StoreExtractedEntities(r)
  <2>1. Past(r) /\ proc[r].op # "purge" /\ purge' = purge
    BY <1>8 DEF StoreExtractedEntities, At, Past, rows
  <2>2. Respond(r) \/ (Goto(r, "delete") /\ fence' = fence)
    BY <1>8 DEF StoreExtractedEntities
  <2> QED
    BY <2>1, <2>2, GotoMoves, RespondReturns DEF Advances, GoesOn, Erasing
<1> QED
  BY <1>1, <1>2, <1>3, <1>4, <1>5, <1>6, <1>7, <1>8 DEF IngestStep

DeleteStep(r) == StartDelete(r) \/ DeletePoint(r) \/ DropMemory(r)

LEMMA DeleteAdvances ==
  ASSUME FenceInv, NEW r \in Requests, DeleteStep(r)
  PROVE  Advances(r)
<1> USE DEF FenceInv
<1>1. Past(r) /\ proc[r].op # "purge" /\ purge' = purge
  BY DEF DeleteStep, StartDelete, DeletePoint, DropMemory, At, Past, PurgeSteps, Erasing, rows
<1>2. Respond(r) \/ \E pc \in {"unindex", "drop"} : Goto(r, pc) /\ fence' = fence
  BY DEF DeleteStep, StartDelete, DeletePoint, DropMemory
<1> QED
  BY <1>1, <1>2, GotoMoves, RespondReturns DEF Advances, GoesOn, Erasing

LEMMA LookUpMoves ==
  ASSUME Shape, NEW r \in Requests, LookUpOutcome(r)
  PROVE  \E request : /\ EnsureUser(r, request)
                      /\ DOMAIN request = DOMAIN Idle
                      /\ request.op = proc[r].op
                      /\ request.pc \in {"analyze", "create", "conflict"}
<1> DEFINE request == CASE ~Reserved(proc[r].key) -> [proc[r] EXCEPT !.pc = "analyze"]
                        [] outcomes[proc[r].key].hash = proc[r].hash ->
                             [proc[r] EXCEPT !.analysis = outcomes[proc[r].key].analysis,
                                             !.pc = "create"]
                        [] OTHER -> [proc[r] EXCEPT !.pc = "conflict"]
<1>1. /\ DOMAIN request = DOMAIN Idle
      /\ request.op = proc[r].op
      /\ request.pc \in {"analyze", "create", "conflict"}
  BY DEF Shape, Idle
<1>2. EnsureUser(r, request)
  BY DEF LookUpOutcome
<1> HIDE DEF request
<1> QED
  BY <1>1, <1>2

LEMMA OutcomeAdvances ==
  ASSUME FenceInv, NEW r \in Requests, OutcomeStep(r)
  PROVE  Advances(r)
<1> USE DEF FenceInv
<1>1. Past(r) /\ proc[r].op # "purge" /\ purge' = purge
  BY DEF OutcomeStep, LookUpOutcome, Analyze, ReserveOutcome, RespondConflict, RecordMemoryFailure,
     LinkMemory, CreateGraphEdge, CompleteOutcome, At, Past, PurgeSteps, Erasing, rows
<1>2. CASE LookUpOutcome(r)
  BY <1>1, <1>2, LookUpMoves, EnsureUserMoves DEF Advances, GoesOn, Erasing
<1>3. CASE RespondConflict(r) \/ RecordMemoryFailure(r) \/ CompleteOutcome(r)
  <2>1. Respond(r)
    BY <1>3 DEF RespondConflict, RecordMemoryFailure, CompleteOutcome
  <2> QED
    BY <1>1, <2>1, RespondReturns DEF Advances
<1>4. CASE ReserveOutcome(r)
  BY <1>1, <1>4, GotoMoves DEF ReserveOutcome, Advances, GoesOn, Erasing
<1>5. CASE Analyze(r)
  BY <1>1, <1>5 DEF Analyze, Advances, GoesOn, Erasing, Shape, Idle
<1>6. CASE CreateGraphEdge(r)
  BY <1>1, <1>6 DEF CreateGraphEdge, Advances, GoesOn, Erasing, Shape, Idle
<1>7. CASE LinkMemory(r)
  <2>1. CASE Respond(r)
    BY <1>1, <2>1, RespondReturns DEF Advances
  <2>2. CASE proc' = [proc EXCEPT ![r].edges = EdgesOf[proc[r].analysis], ![r].pc = "edges"]
             /\ fence' = fence
    BY <1>1, <2>2 DEF Advances, GoesOn, Erasing, Shape, Idle
  <2> QED
    BY <1>7, <2>1, <2>2 DEF LinkMemory
<1> QED
  BY <1>2, <1>3, <1>4, <1>5, <1>6, <1>7 DEF OutcomeStep

MemoryFailure(r) == UpsertFails(r) \/ StageFails(r) \/ IngestFails(r) \/ GraphEdgeFails(r)

LEMMA FailureAdvances ==
  ASSUME FenceInv, NEW r \in Requests, MemoryFailure(r)
  PROVE  Advances(r)
<1> USE DEF FenceInv
<1>1. Past(r) /\ proc[r].op # "purge" /\ purge' = purge
  BY DEF MemoryFailure, UpsertFails, StageFails, IngestFails, GraphEdgeFails, Past, PurgeSteps,
     Erasing, rows
<1>2. Respond(r) \/ \E pc \in {"stageFailed", "ingestFailed"} : Goto(r, pc) /\ fence' = fence
  BY DEF MemoryFailure, UpsertFails, StageFails, IngestFails, GraphEdgeFails
<1> QED
  BY <1>1, <1>2, GotoMoves, RespondReturns DEF Advances, GoesOn, Erasing

-----------------------------------------------------------------------------
(* The fence                                                               *)

(* Steps that leave the subject alone: requests come, wait at the fence    *)
(* and leave, or die wherever they are.                                    *)
Entrance(r) == Submit(r) \/ Admit(r) \/ Refuse(r) \/ Abandon(r)

PurgeStep(r) == FencePurge(r) \/ DeleteSubject(r) \/ DeleteUser(r)

Works(r) == IngestStep(r) \/ OutcomeStep(r) \/ DeleteStep(r) \/ MemoryFailure(r)

LEMMA NextSteps ==
  ASSUME Next
  PROVE  \/ \E r \in Requests : Entrance(r) \/ PurgeStep(r) \/ Works(r)
         \/ \E m \in MemoryIds : Land(m)
BY DEF Next, Proceed, EraseStep, Failure, Entrance, PurgeStep, Works, DeleteStep, MemoryFailure

LEMMA WorkAdvances ==
  ASSUME FenceInv, NEW r \in Requests, Works(r)
  PROVE  Advances(r)
BY IngestAdvances, OutcomeAdvances, DeleteAdvances, FailureAdvances DEF Works

LEMMA EntranceLeaves ==
  ASSUME NEW r \in Requests, Entrance(r)
  PROVE  UNCHANGED <<rows, index>>
BY DEF Entrance, Submit, SubmitIngest, SubmitDelete, SubmitPurge, SubmitOutcome,
   Admit, Refuse, Abandon

LEMMA FenceInit == Init => FenceInv
BY DEF Init, FenceInv, Shape, Fenced, PurgeSteps, Closed, Past, Idle, Erasing

LEMMA ReturnKeepsFence ==
  ASSUME FenceInv, NEW r \in Requests, Respond(r), Past(r) \/ fence = r \/ purge' = purge,
         purge' # "none" => purge # "none"
  PROVE  FenceInv'
<1>1. Shape'
  BY RespondReturns DEF FenceInv, Shape
<1>2. proc'[r] = Idle /\ \A q \in Requests \ {r} : proc'[q] = proc[q]
  BY RespondReturns DEF FenceInv, Returns
<1>3. fence' = IF fence = r THEN None ELSE fence
  BY DEF Respond
<1>4. Fenced'
  BY <1>2, <1>3 DEF FenceInv, Fenced, Past, Idle
<1>5. PurgeSteps' /\ Closed'
  BY <1>2 DEF FenceInv, PurgeSteps, Closed, Past, Idle, Erasing
<1> QED
  BY <1>1, <1>4, <1>5 DEF FenceInv

LEMMA AdvanceKeepsFence ==
  ASSUME FenceInv, NEW r \in Requests, Advances(r)
  PROVE  FenceInv'
<1>1. Shape'
  BY DEF Advances, FenceInv, Shape
<1>2. \A q \in Requests \ {r} : proc'[q] = proc[q]
  BY DEF Advances
<1>3. Fenced'
  BY <1>2 DEF Advances, GoesOn, Returns, FenceInv, Fenced, Past, Idle
<1>4. PurgeSteps'
  BY <1>2 DEF Advances, GoesOn, Returns, FenceInv, PurgeSteps, Past, Idle, Erasing
<1>5. Closed'
  BY <1>2 DEF Advances, GoesOn, Returns, FenceInv, Closed, Past, Idle
<1> QED
  BY <1>1, <1>3, <1>4, <1>5 DEF FenceInv

LEMMA SubmitMoves ==
  ASSUME Shape, NEW r \in Requests, Submit(r)
  PROVE  /\ DOMAIN proc' = Requests
         /\ \A q \in Requests \ {r} : proc'[q] = proc[q]
         /\ DOMAIN proc'[r] = DOMAIN Idle
         /\ proc'[r].pc = "fence"
         /\ proc'[r].op = "purge" => Authenticated
         /\ fence' = fence
<1>1. CASE SubmitIngest(r)
  BY <1>1 DEF SubmitIngest, Arrive, Shape, Idle
<1>2. CASE SubmitDelete(r)
  BY <1>2 DEF SubmitDelete, Arrive, Shape, Idle
<1>3. CASE SubmitPurge(r)
  BY <1>3 DEF SubmitPurge, Arrive, Shape, Idle
<1>4. CASE \E k \in Keys, h \in Hashes : SubmitOutcome(r, k, h)
  BY <1>4 DEF SubmitOutcome, Arrive, Shape, Idle
<1> QED
  BY <1>1, <1>2, <1>3, <1>4 DEF Submit

LEMMA EntranceKeepsFence ==
  ASSUME FenceInv, NEW r \in Requests, Entrance(r)
  PROVE  FenceInv'
<1>1. purge' = purge
  BY EntranceLeaves DEF rows
<1>2. CASE Submit(r)
  BY <1>1, <1>2, SubmitMoves DEF FenceInv, Shape, Fenced, PurgeSteps, Closed, Past, Erasing
<1>3. CASE Admit(r)
  <2>1. /\ DOMAIN proc' = Requests
        /\ \A q \in Requests \ {r} : proc'[q] = proc[q]
        /\ DOMAIN proc'[r] = DOMAIN Idle
        /\ proc'[r].op = proc[r].op
        /\ proc'[r].pc = "start"
    BY <1>3, GotoMoves DEF Admit, FenceInv
  <2>2. Shape'
    BY <2>1 DEF FenceInv, Shape
  <2>3. Fenced'
    BY <1>3, <2>1, SubjectAssumption DEF Admit, FenceInv, Fenced, Past
  <2>4. PurgeSteps'
    BY <2>1 DEF FenceInv, PurgeSteps, Erasing
  <2>5. Closed'
    BY <1>1, <1>3, <2>1 DEF Admit, Blocked, FenceInv, Closed, Past
  <2> QED
    BY <2>2, <2>3, <2>4, <2>5 DEF FenceInv
<1>4. CASE Refuse(r) \/ Abandon(r)
  BY <1>1, <1>4, ReturnKeepsFence DEF Refuse, Abandon
<1> QED
  BY <1>2, <1>3, <1>4 DEF Entrance

LEMMA PurgeKeepsFence ==
  ASSUME FenceInv, NEW r \in Requests, PurgeStep(r)
  PROVE  FenceInv'
<1>1. Past(r) /\ proc[r].op = "purge" /\ Authenticated /\ fence = r
  BY DEF PurgeStep, FencePurge, DeleteSubject, DeleteUser, At, FenceInv, PurgeSteps, Fenced, Past,
     Erasing
<1>2. CASE \E pc \in Erasing : Goto(r, pc) /\ fence' = fence
  <2>1. /\ DOMAIN proc' = Requests
        /\ \A q \in Requests \ {r} : proc'[q] = proc[q]
        /\ DOMAIN proc'[r] = DOMAIN Idle
        /\ proc'[r].op = "purge"
        /\ proc'[r].pc \in Erasing
    BY <1>1, <1>2, GotoMoves DEF FenceInv
  <2>2. \A q \in Requests \ {r} : ~Past(q)
    BY <1>1 DEF FenceInv, Fenced
  <2> QED
    BY <1>1, <1>2, <2>1, <2>2 DEF FenceInv, Shape, Fenced, PurgeSteps, Closed, Past, Erasing
<1>3. CASE Respond(r)
  <2>1. \A q \in Requests \ {r} : ~Past(q)
    BY <1>1 DEF FenceInv, Fenced
  <2>2. /\ DOMAIN proc' = Requests
        /\ \A q \in Requests \ {r} : proc'[q] = proc[q]
        /\ proc'[r] = Idle
    BY <1>3, RespondReturns DEF FenceInv, Returns
  <2> QED
    BY <1>1, <2>1, <2>2 DEF FenceInv, Shape, Fenced, PurgeSteps, Closed, Past, Erasing, Idle
<1>4. Respond(r) \/ \E pc \in Erasing : Goto(r, pc) /\ fence' = fence
  BY DEF PurgeStep, FencePurge, DeleteSubject, DeleteUser, Erasing
<1> QED
  BY <1>2, <1>3, <1>4

LEMMA FenceStep == FenceInv /\ [Next]_vars => FenceInv'
<1>1. ASSUME FenceInv, Next PROVE FenceInv'
  <2>1. ASSUME NEW r \in Requests, Entrance(r) \/ PurgeStep(r) \/ Works(r)
        PROVE  FenceInv'
    BY <1>1, <2>1, EntranceKeepsFence, PurgeKeepsFence, WorkAdvances, AdvanceKeepsFence
  <2>2. ASSUME NEW m \in MemoryIds, Land(m)
        PROVE  FenceInv'
    BY <1>1, <2>2 DEF Land, rows, FenceInv, Shape, Fenced, PurgeSteps, Closed, Past
  <2> QED
    BY <1>1, <2>1, <2>2, NextSteps
<1>2. ASSUME FenceInv, UNCHANGED vars PROVE FenceInv'
  BY <1>2 DEF vars, rows, FenceInv, Shape, Fenced, PurgeSteps, Closed, Past
<1> QED
  BY <1>1, <1>2

-----------------------------------------------------------------------------
(* The purge                                                               *)

Erased ==
  /\ \A m \in MemoryIds : ~memories[m].live
  /\ \A k \in Keys : ~Reserved(k) /\ \A e \in EdgeNames : edges[k][e] = 0
  /\ \A v \in Views : learned[v] = {}
  /\ points = {}

(* A subject without a row has nothing else, and nobody is past the point  *)
(* where the row is made: it was never there, or a purge has removed it.   *)
Absent ==
  user = "absent" =>
    /\ Erased
    /\ \A r \in Requests : Past(r) => proc[r].pc \in {"start"} \cup Erasing
    /\ purge = "none" => \A r \in Requests : proc[r].op # "delete"

EraseInv ==
  /\ user \in {"absent", "present"}
  /\ inflight = {}
  /\ purge = "completed" => user = "absent"
  /\ \A r \in Requests : proc[r].pc = "dropAll" => points = {}
  /\ Absent

LEMMA EraseInit == Init => EraseInv
BY DEF Init, EraseInv, Absent, Erased, Reserved, NoMemory, NoOutcome, Past, Idle

(* Whoever works on the subject, a purge apart, does it before a purge is  *)
(* marked, alone if callers are authenticated, and not without its row.    *)
LEMMA WorkIsUnmarked ==
  ASSUME FenceInv, NEW r \in Requests, Advances(r)
  PROVE  purge = "none" /\ \A q \in Requests : proc[q].pc \notin Erasing
<1>1. purge = "none"
  BY DEF Advances, FenceInv, Closed
<1>2. ASSUME NEW q \in Requests, proc[q].pc \in Erasing PROVE FALSE
  BY <1>2 DEF Advances, FenceInv, PurgeSteps, Fenced, Past, Erasing
<1> QED
  BY <1>1, <1>2

LEMMA WorkNeedsUser ==
  ASSUME FenceInv, EraseInv, NEW r \in Requests, Works(r)
  PROVE  user' = "present"
<1>1. purge = "none" /\ Past(r) /\ \A q \in Requests : proc[q].pc \notin Erasing
  BY WorkAdvances, WorkIsUnmarked DEF Advances
<1>2. CASE StartIngest(r)
  BY <1>1, <1>2 DEF StartIngest, EnsureUser
<1>3. CASE LookUpOutcome(r)
  BY <1>1, <1>3 DEF LookUpOutcome, EnsureUser
<1>4. CASE At(r, {"delete"}, "start") /\ user' = user
  BY <1>1, <1>4 DEF At, EraseInv, Absent
<1>5. CASE proc[r].pc # "start" /\ user' = user
  BY <1>1, <1>5 DEF EraseInv, Absent
<1>6. CASE IngestStep(r)
  BY <1>2, <1>5, <1>6 DEF IngestStep, CreateMemory, GetProcessingState, UpsertPoint,
     UpdateQdrantPointID, ObserveMemory, SaveObservation, CompleteStage, RecordStageFailure,
     RespondToIngest, StoreExtractedEntities, At, rows
<1>7. CASE OutcomeStep(r)
  BY <1>3, <1>5, <1>7 DEF OutcomeStep, Analyze, ReserveOutcome, RespondConflict,
     RecordMemoryFailure, LinkMemory, CreateGraphEdge, CompleteOutcome, At, rows
<1>8. CASE DeleteStep(r)
  BY <1>4, <1>5, <1>8 DEF DeleteStep, StartDelete, DeletePoint, DropMemory, At, rows
<1>9. CASE MemoryFailure(r)
  BY <1>5, <1>9 DEF MemoryFailure, UpsertFails, StageFails, IngestFails, GraphEdgeFails, rows
<1> QED
  BY <1>6, <1>7, <1>8, <1>9 DEF Works

LEMMA WorkSendsNothingLate ==
  ASSUME LateDelivery = FALSE, NEW r \in Requests, Works(r)
  PROVE  inflight' = inflight
<1>1. CASE IngestStep(r)
  BY <1>1 DEF IngestStep, StartIngest, CreateMemory, GetProcessingState, UpsertPoint,
     UpdateQdrantPointID, ObserveMemory, SaveObservation, CompleteStage, RecordStageFailure,
     RespondToIngest, StoreExtractedEntities, index
<1>2. CASE OutcomeStep(r)
  BY <1>2 DEF OutcomeStep, LookUpOutcome, Analyze, ReserveOutcome, RespondConflict,
     RecordMemoryFailure, LinkMemory, CreateGraphEdge, CompleteOutcome, index
<1>3. CASE DeleteStep(r)
  BY <1>3 DEF DeleteStep, StartDelete, DeletePoint, DropMemory, index
<1>4. CASE MemoryFailure(r)
  BY <1>4 DEF MemoryFailure, UpsertFails, StageFails, IngestFails, GraphEdgeFails, index
<1> QED
  BY <1>1, <1>2, <1>3, <1>4 DEF Works

LEMMA WorkKeepsErase ==
  ASSUME LateDelivery = FALSE, FenceInv, EraseInv, NEW r \in Requests, Works(r)
  PROVE  EraseInv'
<1>1. Advances(r) /\ purge = "none" /\ \A q \in Requests : proc[q].pc \notin Erasing
  BY WorkAdvances, WorkIsUnmarked
<1>2. user' = "present" /\ inflight' = {} /\ purge' = "none"
  BY <1>1, WorkNeedsUser, WorkSendsNothingLate DEF EraseInv, Advances
<1>3. \A q \in Requests : proc'[q].pc # "dropAll"
  BY <1>1 DEF Advances, GoesOn, Returns, Idle, Erasing
<1> QED
  BY <1>2, <1>3 DEF EraseInv, Absent

LEMMA EntranceMoves ==
  ASSUME FenceInv, EraseInv, NEW r \in Requests, Entrance(r)
  PROVE  /\ \A q \in Requests \ {r} : proc'[q] = proc[q]
         /\ proc'[r].pc \in {"idle", "fence", "start"}
         /\ proc'[r].op = "delete" => user # "absent" \/ proc[r].op = "delete"
<1>1. CASE SubmitIngest(r)
  BY <1>1 DEF SubmitIngest, Arrive, FenceInv, Shape, Idle
<1>2. CASE SubmitDelete(r)
  BY <1>2 DEF SubmitDelete, Arrive, FenceInv, Shape, Idle, EraseInv, Absent, Erased
<1>3. CASE SubmitPurge(r)
  BY <1>3 DEF SubmitPurge, Arrive, FenceInv, Shape, Idle
<1>4. CASE \E k \in Keys, h \in Hashes : SubmitOutcome(r, k, h)
  BY <1>4 DEF SubmitOutcome, Arrive, FenceInv, Shape, Idle
<1>5. CASE Admit(r)
  BY <1>5, GotoMoves DEF Admit, FenceInv
<1>6. CASE Refuse(r) \/ Abandon(r)
  BY <1>6, RespondReturns DEF Refuse, Abandon, FenceInv, Returns, Idle
<1> QED
  BY <1>1, <1>2, <1>3, <1>4, <1>5, <1>6 DEF Entrance, Submit

LEMMA EntranceKeepsErase ==
  ASSUME FenceInv, EraseInv, NEW r \in Requests, Entrance(r)
  PROVE  EraseInv'
<1>1. UNCHANGED <<user, purge, inflight, points>> /\ (Erased => Erased')
  BY EntranceLeaves DEF rows, derived, index, Erased, Reserved
<1>2. \A q \in Requests : proc'[q].pc = "dropAll" => points' = {}
  BY <1>1, EntranceMoves DEF EraseInv
<1>3. Absent'
  BY <1>1, EntranceMoves DEF EraseInv, Absent, Past
<1> QED
  BY <1>1, <1>2, <1>3 DEF EraseInv

LEMMA PurgeKeepsErase ==
  ASSUME FenceInv, EraseInv, NEW r \in Requests, PurgeStep(r)
  PROVE  EraseInv'
<1>1. Past(r) /\ fence = r /\ \A q \in Requests \ {r} : ~Past(q)
  BY DEF PurgeStep, FencePurge, DeleteSubject, DeleteUser, At, FenceInv, PurgeSteps, Fenced, Past,
     Erasing
<1>2. CASE FencePurge(r)
  <2>1. UNCHANGED <<user, inflight, points>> /\ (Erased => Erased') /\ purge' # "none"
    BY <1>2 DEF FencePurge, derived, index, Erased, Reserved
  <2>2. /\ \A q \in Requests \ {r} : proc'[q] = proc[q]
        /\ proc'[r].pc = IF user = "present" THEN "unindexAll" ELSE "dropAll"
    BY <1>2, GotoMoves DEF FencePurge, FenceInv
  <2>3. purge' = "completed" => purge = "completed"
    BY <1>2 DEF FencePurge
  <2>4. \A q \in Requests : proc'[q].pc = "dropAll" => points' = {}
    BY <1>1, <2>1, <2>2 DEF EraseInv, Absent, Erased, Past
  <2>5. Absent'
    BY <1>1, <2>1, <2>2 DEF EraseInv, Absent, Past, Erasing
  <2> QED
    BY <2>1, <2>3, <2>4, <2>5 DEF EraseInv
<1>3. CASE DeleteSubject(r)
  <2>1. UNCHANGED <<user, purge, inflight>> /\ points' = {} /\ (Erased => Erased')
    BY <1>3 DEF DeleteSubject, rows, derived, Erased, Reserved
  <2>2. /\ \A q \in Requests \ {r} : proc'[q] = proc[q]
        /\ proc'[r].pc \in {"idle", "dropAll"}
    BY <1>3, GotoMoves, RespondReturns DEF DeleteSubject, FenceInv, Returns, Idle
  <2>3. purge = "none" => proc'[r].op # "delete"
    BY <1>1, <1>3, GotoMoves, RespondReturns
       DEF DeleteSubject, FenceInv, PurgeSteps, Returns, Idle, Erasing
  <2>4. Absent'
    BY <1>1, <2>1, <2>2, <2>3 DEF EraseInv, Absent, Past, Erasing
  <2> QED
    BY <2>1, <2>4 DEF EraseInv
<1>4. CASE DeleteUser(r)
  <2>1. user' = "absent" /\ purge' = "completed" /\ UNCHANGED <<points, inflight>>
    BY <1>4 DEF DeleteUser, index
  <2>2. points' = {}
    BY <1>4, <2>1 DEF DeleteUser, EraseInv
  <2>3. Erased'
    BY <1>4, <2>2 DEF DeleteUser, Erased, Reserved, NoMemory, NoOutcome
  <2>4. \A q \in Requests : ~Past(q)'
    BY <1>1, <1>4, RespondReturns DEF DeleteUser, FenceInv, Returns, Past, Idle
  <2> QED
    BY <2>1, <2>2, <2>3, <2>4 DEF EraseInv, Absent
<1> QED
  BY <1>2, <1>3, <1>4 DEF PurgeStep

PurgeInv == FenceInv /\ EraseInv

LEMMA PurgeInvInit == Init => PurgeInv
BY FenceInit, EraseInit DEF PurgeInv

LEMMA PurgeInvStep ==
  ASSUME LateDelivery = FALSE
  PROVE  PurgeInv /\ [Next]_vars => PurgeInv'
<1>1. ASSUME PurgeInv, Next PROVE EraseInv'
  <2>1. ASSUME NEW r \in Requests, Entrance(r) \/ PurgeStep(r) \/ Works(r)
        PROVE  EraseInv'
    BY <1>1, <2>1, EntranceKeepsErase, PurgeKeepsErase, WorkKeepsErase DEF PurgeInv
  <2>2. ASSUME NEW m \in MemoryIds, Land(m) PROVE FALSE
    BY <1>1, <2>2 DEF Land, PurgeInv, EraseInv
  <2> QED
    BY <1>1, <2>1, <2>2, NextSteps
<1>2. ASSUME PurgeInv, UNCHANGED vars PROVE EraseInv'
  BY <1>2 DEF vars, rows, index, derived, PurgeInv, EraseInv, Absent, Erased, Reserved, Past
<1> QED
  BY <1>1, <1>2, FenceStep DEF PurgeInv

(* A purge that completed has erased every row and every point of the      *)
(* subject, and nothing comes back, as long as no upsert lands after the   *)
(* request that sent it gave up.                                           *)
THEOREM PurgeErasesAlways ==
  ASSUME LateDelivery = FALSE
  PROVE  Spec => []PurgeErases
<1>1. PurgeInv => PurgeErases
  BY DEF PurgeInv, EraseInv, Absent, Erased, PurgeErases
<1> QED
  BY <1>1, PurgeInvInit, PurgeInvStep, PTL DEF Spec

LEMMA MarkedStepsErase ==
  ASSUME PurgeInv, Next, purge # "none"
  PROVE  /\ \A m \in MemoryIds : memories'[m].live => memories[m].live
         /\ \A k \in Keys : outcomes'[k].hash # None => Reserved(k)
         /\ \A v \in Views : learned'[v] \subseteq learned[v]
         /\ points' \subseteq points
<1>1. ASSUME NEW r \in Requests, Works(r) PROVE FALSE
  BY <1>1, WorkAdvances, WorkIsUnmarked DEF PurgeInv
<1>2. ASSUME NEW m \in MemoryIds, Land(m) PROVE FALSE
  BY <1>2 DEF Land, PurgeInv, EraseInv
<1>3. CASE \E r \in Requests : Entrance(r)
  BY <1>3, EntranceLeaves DEF rows, derived, index, Reserved
<1>4. CASE \E r \in Requests : FencePurge(r) \/ DeleteSubject(r)
  BY <1>4 DEF FencePurge, DeleteSubject, rows, derived, index, Reserved
<1>5. CASE \E r \in Requests : DeleteUser(r)
  BY <1>5 DEF DeleteUser, index, NoMemory, NoOutcome
<1> QED
  BY <1>1, <1>2, <1>3, <1>4, <1>5, NextSteps DEF PurgeStep

(* From the moment a purge is marked, whether or not it ever completes,    *)
(* nothing is added to what the subject's rows and points hold.            *)
THEOREM PendingPurgeFencesAlways ==
  ASSUME LateDelivery = FALSE
  PROVE  Spec => PendingPurgeFences
<1>1. PurgeInv /\ [Next]_vars =>
        [purge # "none" =>
           /\ \A m \in MemoryIds : memories'[m].live => memories[m].live
           /\ \A k \in Keys : outcomes'[k].hash # None => Reserved(k)
           /\ \A v \in Views : learned'[v] \subseteq learned[v]
           /\ points' \subseteq points]_vars
  BY MarkedStepsErase
<1> QED
  BY <1>1, PurgeInvInit, PurgeInvStep, PTL DEF Spec, PendingPurgeFences

-----------------------------------------------------------------------------
(* Read, merge and write back                                              *)

(* Whoever is about to write a view back has read all that is in it.       *)
ReadInv ==
  /\ FenceInv
  /\ DOMAIN learned = Views
  /\ \A r \in Requests, v \in Views :
       proc[r].pc = "save" /\ StageOf(proc[r]) = v => learned[v] \subseteq proc[r].read

LEMMA ReadInit == Init => ReadInv
BY FenceInit DEF Init, ReadInv, Idle

LEMMA OnlySavingLearns ==
  ASSUME NEW r \in Requests, Works(r)
  PROVE  learned' = learned \/ SaveObservation(r)
<1>1. CASE IngestStep(r)
  BY <1>1 DEF IngestStep, StartIngest, CreateMemory, GetProcessingState, UpsertPoint,
     UpdateQdrantPointID, ObserveMemory, CompleteStage, RecordStageFailure,
     RespondToIngest, StoreExtractedEntities, rows, derived
<1>2. CASE OutcomeStep(r)
  BY <1>2 DEF OutcomeStep, LookUpOutcome, Analyze, ReserveOutcome, RespondConflict,
     RecordMemoryFailure, LinkMemory, CreateGraphEdge, CompleteOutcome, rows, derived
<1>3. CASE DeleteStep(r)
  BY <1>3 DEF DeleteStep, StartDelete, DeletePoint, DropMemory, rows, derived
<1>4. CASE MemoryFailure(r)
  BY <1>4 DEF MemoryFailure, UpsertFails, StageFails, IngestFails, GraphEdgeFails, rows, derived
<1> QED
  BY <1>1, <1>2, <1>3, <1>4 DEF Works

LEMMA OnlyObservingSaves ==
  ASSUME FenceInv, NEW r \in Requests, Works(r), proc'[r].pc = "save"
  PROVE  ObserveMemory(r)
<1> USE DEF FenceInv
<1>1. ASSUME NEW pc, Goto(r, pc) PROVE pc = "save"
  BY <1>1, GotoMoves
<1>2. ~Respond(r)
  BY RespondReturns DEF Returns, Idle
<1>3. ASSUME NEW request, EnsureUser(r, request), DOMAIN request = DOMAIN Idle
      PROVE  request.pc = "save"
  BY <1>3, EnsureUserMoves DEF Returns, Idle
<1>4. CASE IngestStep(r)
  <2>1. ~StartIngest(r)
    BY <1>3 DEF StartIngest, Shape, Idle
  <2>2. ASSUME CreateMemory(r) PROVE FALSE
    <3>1. PICK m : proc' = [proc EXCEPT ![r].memory = m, ![r].pc = "state"]
      BY <2>2 DEF CreateMemory
    <3> QED
      BY <3>1 DEF Shape, Idle
  <2>3. ASSUME NEW p, NEW left, DOMAIN p = DOMAIN Idle,
               proc' = [proc EXCEPT ![r] = Continue(p, left)]
        PROVE  FALSE
    BY <2>3, ContinueMoves DEF Shape
  <2>4. ~GetProcessingState(r) /\ ~CompleteStage(r)
    BY <1>1, <2>3 DEF GetProcessingState, CompleteStage, Shape
  <2>5. ~(UpsertPoint(r) \/ UpdateQdrantPointID(r) \/ SaveObservation(r)
          \/ RecordStageFailure(r) \/ RespondToIngest(r) \/ StoreExtractedEntities(r))
    BY <1>1, <1>2 DEF UpsertPoint, UpdateQdrantPointID, SaveObservation, RecordStageFailure,
       RespondToIngest, StoreExtractedEntities
  <2> QED
    BY <1>4, <2>1, <2>2, <2>4, <2>5 DEF IngestStep
<1>5. ASSUME OutcomeStep(r) PROVE FALSE
  <2>1. ASSUME LookUpOutcome(r) PROVE FALSE
    <3>1. PICK request : /\ EnsureUser(r, request)
                         /\ DOMAIN request = DOMAIN Idle
                         /\ request.pc \in {"analyze", "create", "conflict"}
      BY <2>1, LookUpMoves DEF Shape
    <3> QED
      BY <1>3, <3>1
  <2>2. ~(ReserveOutcome(r) \/ RespondConflict(r) \/ RecordMemoryFailure(r) \/ CompleteOutcome(r))
    BY <1>1, <1>2 DEF ReserveOutcome, RespondConflict, RecordMemoryFailure, CompleteOutcome
  <2>3. ~Analyze(r)
    BY DEF Analyze, Shape, Idle
  <2>4. ASSUME CreateGraphEdge(r) PROVE FALSE
    BY <2>4 DEF CreateGraphEdge, Shape, Idle
  <2>5. ASSUME LinkMemory(r) PROVE FALSE
    BY <1>2, <2>5 DEF LinkMemory, Shape, Idle
  <2> QED
    BY <1>5, <2>1, <2>2, <2>3, <2>4, <2>5 DEF OutcomeStep
<1>6. ASSUME DeleteStep(r) \/ MemoryFailure(r) PROVE FALSE
  BY <1>1, <1>2, <1>6 DEF DeleteStep, StartDelete, DeletePoint, DropMemory, MemoryFailure,
     UpsertFails, StageFails, IngestFails, GraphEdgeFails
<1> QED
  BY <1>4, <1>5, <1>6 DEF Works

LEMMA EntranceNeverSaves ==
  ASSUME FenceInv, NEW r \in Requests, Entrance(r)
  PROVE  /\ \A q \in Requests \ {r} : proc'[q] = proc[q]
         /\ proc'[r].pc # "save"
<1>1. CASE Submit(r)
  BY <1>1, SubmitMoves DEF FenceInv
<1>2. CASE Admit(r) \/ Refuse(r) \/ Abandon(r)
  BY <1>2, GotoMoves, RespondReturns DEF Admit, Refuse, Abandon, FenceInv, Returns, Idle
<1> QED
  BY <1>1, <1>2 DEF Entrance

LEMMA PurgeNeverSaves ==
  ASSUME FenceInv, NEW r \in Requests, PurgeStep(r)
  PROVE  /\ \A q \in Requests \ {r} : proc'[q] = proc[q] /\ ~Past(q)
         /\ proc'[r].pc \in {"idle"} \cup Erasing
         /\ proc[r].op = "purge"
         /\ learned' = learned \/ (learned' = [v \in Views |-> {}] /\ purge' = "completed")
<1>1. proc[r].op = "purge" /\ \A q \in Requests \ {r} : ~Past(q)
  BY DEF PurgeStep, FencePurge, DeleteSubject, DeleteUser, At, FenceInv, PurgeSteps, Fenced, Past,
     Erasing
<1>2. Respond(r) \/ \E pc \in Erasing : Goto(r, pc)
  BY DEF PurgeStep, FencePurge, DeleteSubject, DeleteUser, Erasing
<1>3. learned' = learned \/ (learned' = [v \in Views |-> {}] /\ purge' = "completed")
  BY DEF PurgeStep, FencePurge, DeleteSubject, DeleteUser, rows, derived
<1> QED
  BY <1>1, <1>2, <1>3, GotoMoves, RespondReturns DEF FenceInv, Returns, Idle

LEMMA ReadStep ==
  ASSUME Authenticated = TRUE
  PROVE  ReadInv /\ [Next]_vars => ReadInv'
<1> SUFFICES ASSUME ReadInv, [Next]_vars PROVE ReadInv'
  OBVIOUS
<1> USE DEF ReadInv
<1>1. FenceInv'
  BY FenceStep
<1>2. ASSUME NEW r \in Requests, Works(r) PROVE ReadInv'
  <2>1. /\ \A q \in Requests \ {r} : proc'[q] = proc[q] /\ ~Past(q)
        /\ DOMAIN proc'[r] = DOMAIN Idle
    BY <1>2, WorkAdvances DEF Advances, FenceInv, Fenced
  <2>2. CASE ObserveMemory(r)
    <3>1. learned' = learned
      BY <2>2 DEF ObserveMemory, rows, derived
    <3>2. proc'[r].pc = "save" =>
            StageOf(proc'[r]) = StageOf(proc[r]) /\ proc'[r].read = learned[StageOf(proc[r])]
      BY <2>2, GotoMoves DEF ObserveMemory, StageOf, FenceInv, Shape, Idle
    <3> QED
      BY <1>1, <2>1, <3>1, <3>2 DEF Past
  <2>3. CASE ~ObserveMemory(r)
    <3>1. proc'[r].pc # "save"
      BY <1>2, <2>3, OnlyObservingSaves
    <3>2. DOMAIN learned' = Views
      BY <1>2, OnlySavingLearns DEF SaveObservation
    <3> QED
      BY <1>1, <2>1, <3>1, <3>2 DEF Past
  <2> QED
    BY <2>2, <2>3
<1>3. ASSUME NEW r \in Requests, Entrance(r) PROVE ReadInv'
  BY <1>1, <1>3, EntranceLeaves, EntranceNeverSaves DEF rows, derived
<1>4. ASSUME NEW r \in Requests, PurgeStep(r) PROVE ReadInv'
  BY <1>1, <1>4, PurgeNeverSaves DEF Past, Erasing
<1>5. ASSUME NEW m \in MemoryIds, Land(m) PROVE ReadInv'
  BY <1>1, <1>5 DEF Land, rows, derived
<1>6. CASE UNCHANGED vars
  BY <1>1, <1>6 DEF vars, rows, derived
<1> QED
  BY <1>2, <1>3, <1>4, <1>5, <1>6, NextSteps

LEMMA LearnsMore ==
  ASSUME Authenticated = TRUE, ReadInv, [Next]_vars, purge' # "completed",
         NEW v \in Views
  PROVE  learned[v] \subseteq learned'[v]
<1>1. ASSUME NEW r \in Requests, SaveObservation(r) PROVE learned[v] \subseteq learned'[v]
  BY <1>1 DEF SaveObservation, ReadInv
<1>2. CASE UNCHANGED vars
  BY <1>2 DEF vars, rows, derived
<1>3. ASSUME NEW r \in Requests, Entrance(r) \/ PurgeStep(r) \/ Works(r)
      PROVE  learned[v] \subseteq learned'[v]
  BY <1>1, <1>3, EntranceLeaves, PurgeNeverSaves, OnlySavingLearns DEF rows, derived, ReadInv
<1>4. ASSUME NEW m \in MemoryIds, Land(m) PROVE learned[v] \subseteq learned'[v]
  BY <1>4 DEF Land, rows, derived
<1> QED
  BY <1>2, <1>3, <1>4, NextSteps

(* Behind the fence a person model or a belief never loses evidence that   *)
(* was merged into it, whichever requests, failures and retries there are, *)
(* until a purge removes the subject.                                      *)
THEOREM EvidenceIsKeptAlways ==
  ASSUME Authenticated = TRUE
  PROVE  Spec => EvidenceIsKept
<1>1. ReadInv /\ [Next]_vars =>
        [purge # "completed" /\ purge' # "completed" =>
           \A v \in Views : learned[v] \subseteq learned'[v]]_vars
  BY LearnsMore
<1> QED
  BY <1>1, ReadInit, ReadStep, PTL DEF Spec, EvidenceIsKept

-----------------------------------------------------------------------------
(* Two payloads under one key                                              *)

(* The steps of a report that is not known yet to own its outcome.         *)
Early == {"fence", "start", "analyze", "reserve", "conflict"}

OutcomeRows ==
  DOMAIN outcomes = Keys /\ \A k \in Keys : DOMAIN outcomes[k] = DOMAIN NoOutcome

OwnerInv ==
  /\ FenceInv
  /\ OutcomeRows
  /\ \A r \in Requests : proc[r].op = "outcome" =>
       /\ proc[r].pc # "idle" /\ proc[r].key \in Keys /\ proc[r].hash \in Hashes
       /\ proc[r].pc \notin Early => proc[r].hash = outcomes[proc[r].key].hash

LEMMA OwnerInit == Init => OwnerInv
BY FenceInit DEF Init, OwnerInv, OutcomeRows, Idle

(* No work on the subject gives a reserved outcome to another payload.     *)
HashesStay == \A k \in Keys : Reserved(k) => outcomes'[k].hash = outcomes[k].hash

LEMMA RowChange ==
  ASSUME OutcomeRows, NEW k, NEW row, outcomes' = [outcomes EXCEPT ![k] = row],
         k \in Keys => DOMAIN row = DOMAIN NoOutcome
                         /\ (Reserved(k) => row.hash = outcomes[k].hash)
  PROVE  OutcomeRows' /\ HashesStay
BY DEF OutcomeRows, HashesStay

LEMMA WorkKeepsHashes ==
  ASSUME OutcomeRows, NEW r \in Requests, Works(r)
  PROVE  OutcomeRows' /\ HashesStay
<1>1. CASE outcomes' = outcomes
  BY <1>1 DEF OutcomeRows, HashesStay
<1>2. CASE IngestStep(r)
  BY <1>1, <1>2 DEF IngestStep, StartIngest, CreateMemory, GetProcessingState, UpsertPoint,
     UpdateQdrantPointID, ObserveMemory, SaveObservation, CompleteStage, RecordStageFailure,
     RespondToIngest, StoreExtractedEntities, rows, derived
<1>3. CASE ReserveOutcome(r)
  BY <1>3 DEF ReserveOutcome, OutcomeRows, HashesStay, Reserved, NoOutcome
<1> DEFINE k == proc[r].key
           Marked(status, stage) == [outcomes[k] EXCEPT !.status = status, !.stage = stage]
           Linked(status, stage) ==
             [outcomes[k] EXCEPT !.status = status, !.stage = stage, !.memory = proc[r].memory]
<1>a. ASSUME NEW status, NEW stage, k \in Keys
      PROVE  /\ DOMAIN Marked(status, stage) = DOMAIN NoOutcome
             /\ DOMAIN Linked(status, stage) = DOMAIN NoOutcome
             /\ Marked(status, stage).hash = outcomes[k].hash
             /\ Linked(status, stage).hash = outcomes[k].hash
  BY <1>a DEF OutcomeRows, NoOutcome
<1>4. CASE RecordMemoryFailure(r)
  <2>1. outcomes' = [outcomes EXCEPT ![k] = Marked("failed", "memory")]
    BY <1>4 DEF RecordMemoryFailure
  <2> QED
    BY <1>a, <2>1, RowChange
<1>5. CASE GraphEdgeFails(r) \/ LinkMemory(r) \/ CompleteOutcome(r)
  <2>1. \/ outcomes' = outcomes \/ outcomes' = [outcomes EXCEPT ![k] = outcomes[k]]
        \/ \E status, stage : outcomes' = [outcomes EXCEPT ![k] = Linked(status, stage)]
    BY <1>5 DEF GraphEdgeFails, LinkMemory, CompleteOutcome
  <2> QED
    <3>1. CASE outcomes' = [outcomes EXCEPT ![k] = outcomes[k]]
      BY <3>1, RowChange DEF OutcomeRows
    <3>2. CASE \E status, stage : outcomes' = [outcomes EXCEPT ![k] = Linked(status, stage)]
      <4>1. PICK status, stage : outcomes' = [outcomes EXCEPT ![k] = Linked(status, stage)]
        BY <3>2
      <4> DEFINE row == Linked(status, stage)
      <4>2. k \in Keys => DOMAIN row = DOMAIN NoOutcome /\ row.hash = outcomes[k].hash
        BY <1>a
      <4>3. outcomes' = [outcomes EXCEPT ![k] = row]
        BY <4>1
      <4> HIDE DEF row
      <4> QED
        BY <4>2, <4>3, RowChange
    <3> QED
      BY <1>1, <2>1, <3>1, <3>2
<1>6. CASE OutcomeStep(r)
  BY <1>1, <1>3, <1>4, <1>5, <1>6 DEF OutcomeStep, LookUpOutcome, Analyze, RespondConflict,
     CreateGraphEdge, rows, derived
<1>7. CASE DropMemory(r)
  BY <1>7 DEF DropMemory, OutcomeRows, HashesStay, NoOutcome
<1>8. CASE DeleteStep(r)
  BY <1>1, <1>7, <1>8 DEF DeleteStep, StartDelete, DeletePoint, rows, derived
<1>9. CASE MemoryFailure(r)
  BY <1>1, <1>5, <1>9 DEF MemoryFailure, UpsertFails, StageFails, IngestFails, rows, derived
<1> QED
  BY <1>2, <1>6, <1>8, <1>9 DEF Works

KeepsReport(r) == proc'[r].key = proc[r].key /\ proc'[r].hash = proc[r].hash

LEMMA GotoKeepsReport ==
  ASSUME Shape, NEW r \in Requests, NEW pc, Goto(r, pc)
  PROVE  KeepsReport(r) /\ proc'[r].pc = pc
BY DEF Goto, Shape, Idle, KeepsReport

(* A step of a report that does not end it keeps its key and its payload,  *)
(* and it passes the early steps only as the owner of the outcome.         *)
LEMMA ReportGoesOn ==
  ASSUME OwnerInv, NEW r \in Requests, Works(r), proc[r].op = "outcome", proc'[r].op = "outcome"
  PROVE  /\ KeepsReport(r)
         /\ proc[r].pc \in Early /\ proc'[r].pc \notin Early =>
              outcomes'[proc[r].key].hash = proc[r].hash
<1> USE DEF OwnerInv, FenceInv
<1>1. ~Respond(r)
  BY RespondReturns DEF Returns, Idle
<1> DEFINE Goal == /\ KeepsReport(r)
                   /\ proc[r].pc \in Early /\ proc'[r].pc \notin Early =>
                        outcomes'[proc[r].key].hash = proc[r].hash
<1>2. ASSUME NEW pc, Goto(r, pc), proc[r].pc \notin Early PROVE Goal
  BY <1>2, GotoKeepsReport
<1>3. CASE IngestStep(r)
  <2>1. proc[r].pc \notin Early
    BY <1>3 DEF IngestStep, StartIngest, CreateMemory, GetProcessingState, UpsertPoint,
       UpdateQdrantPointID, ObserveMemory, SaveObservation, CompleteStage, RecordStageFailure,
       RespondToIngest, StoreExtractedEntities, At, Early
  <2>2. ASSUME NEW left, proc' = [proc EXCEPT ![r] = Continue(proc[r], left)]
        PROVE  KeepsReport(r)
    BY <2>2 DEF Continue, KeepsReport, Shape, Idle
  <2>3. CASE CreateMemory(r)
    <3>1. PICK m : proc' = [proc EXCEPT ![r].memory = m, ![r].pc = "state"]
      BY <2>3 DEF CreateMemory
    <3> QED
      BY <2>1, <3>1 DEF KeepsReport, Shape, Idle
  <2>4. CASE ObserveMemory(r) /\ proc'[r].pc = "save"
    BY <2>1, <2>4, GotoKeepsReport DEF ObserveMemory, KeepsReport, Shape, Idle
  <2>5. CASE ObserveMemory(r) /\ Goto(r, "complete")
    BY <1>2, <2>1, <2>5
  <2>6. CASE GetProcessingState(r) \/ CompleteStage(r)
    BY <1>2, <2>1, <2>2, <2>6 DEF GetProcessingState, CompleteStage
  <2>7. CASE UpsertPoint(r) \/ UpdateQdrantPointID(r) \/ SaveObservation(r)
             \/ RecordStageFailure(r) \/ StoreExtractedEntities(r)
    BY <1>1, <1>2, <2>1, <2>7 DEF UpsertPoint, UpdateQdrantPointID, SaveObservation,
       RecordStageFailure, StoreExtractedEntities
  <2>8. ObserveMemory(r) => proc'[r].pc = "save" \/ Goto(r, "complete")
    BY DEF ObserveMemory, Shape, Idle
  <2>9. ~StartIngest(r) /\ ~RespondToIngest(r)
    BY <1>1 DEF StartIngest, RespondToIngest, At
  <2> QED
    BY <1>3, <2>3, <2>4, <2>5, <2>6, <2>7, <2>8, <2>9 DEF IngestStep
<1>4. CASE LookUpOutcome(r)
  <2>1. proc[r].key \in Keys /\ outcomes' = outcomes
    BY <1>4 DEF LookUpOutcome, derived
  <2>2. CASE ~Reserved(proc[r].key)
    <3>1. EnsureUser(r, [proc[r] EXCEPT !.pc = "analyze"])
      BY <1>4, <2>2, SubjectAssumption DEF LookUpOutcome, Reserved
    <3> QED
      BY <1>1, <3>1 DEF EnsureUser, KeepsReport, Early, Shape, Idle
  <2>3. CASE Reserved(proc[r].key) /\ outcomes[proc[r].key].hash = proc[r].hash
    <3>1. EnsureUser(r, [proc[r] EXCEPT !.analysis = outcomes[proc[r].key].analysis,
                                         !.pc = "create"])
      BY <1>4, <2>3 DEF LookUpOutcome
    <3> QED
      BY <1>1, <2>1, <2>3, <3>1 DEF EnsureUser, KeepsReport, Shape, Idle
  <2>4. CASE Reserved(proc[r].key) /\ outcomes[proc[r].key].hash # proc[r].hash
    <3>1. EnsureUser(r, [proc[r] EXCEPT !.pc = "conflict"])
      BY <1>4, <2>4 DEF LookUpOutcome
    <3> QED
      BY <1>1, <3>1 DEF EnsureUser, KeepsReport, Early, Shape, Idle
  <2> QED
    BY <2>2, <2>3, <2>4
<1>5. CASE ReserveOutcome(r)
  BY <1>5, GotoKeepsReport DEF ReserveOutcome, Early
<1>6. CASE Analyze(r)
  BY <1>6 DEF Analyze, KeepsReport, Early, Shape, Idle
<1>7. CASE LinkMemory(r) \/ CreateGraphEdge(r)
  <2>1. proc[r].pc \notin Early
    BY <1>7 DEF LinkMemory, CreateGraphEdge, At, Early
  <2>2. CASE LinkMemory(r)
    BY <1>1, <2>1, <2>2 DEF LinkMemory, KeepsReport, Shape, Idle
  <2>3. CASE CreateGraphEdge(r)
    BY <2>1, <2>3 DEF CreateGraphEdge, KeepsReport, Shape, Idle
  <2> QED
    BY <1>7, <2>2, <2>3
<1>8. ~(RespondConflict(r) \/ RecordMemoryFailure(r) \/ CompleteOutcome(r) \/ GraphEdgeFails(r))
  BY <1>1 DEF RespondConflict, RecordMemoryFailure, CompleteOutcome, GraphEdgeFails
<1>9. CASE UpsertFails(r) \/ StageFails(r) \/ IngestFails(r)
  BY <1>2, <1>9 DEF UpsertFails, StageFails, IngestFails, Early
<1>10. CASE DeleteStep(r)
  <2>1. proc[r].pc \notin Early
    BY <1>10 DEF DeleteStep, StartDelete, DeletePoint, DropMemory, At, Early
  <2> QED
    BY <1>1, <1>2, <1>10, <2>1 DEF DeleteStep, StartDelete, DeletePoint, DropMemory
<1> QED
  BY <1>3, <1>4, <1>5, <1>6, <1>7, <1>8, <1>9, <1>10 DEF Works, OutcomeStep, MemoryFailure

LEMMA WorkKeepsOwner ==
  ASSUME OwnerInv, NEW r \in Requests, Works(r)
  PROVE  OwnerInv'
<1> USE DEF OwnerInv
<1>1. Advances(r) /\ FenceInv' /\ OutcomeRows' /\ HashesStay
  BY WorkAdvances, AdvanceKeepsFence, WorkKeepsHashes
<1>2. ASSUME NEW q \in Requests, proc'[q].op = "outcome"
      PROVE  /\ proc[q].op = "outcome"
             /\ proc'[q].pc # "idle"
             /\ proc'[q].key = proc[q].key /\ proc'[q].hash = proc[q].hash
             /\ proc[q].pc \in Early /\ proc'[q].pc \notin Early =>
                  outcomes'[proc[q].key].hash = proc[q].hash
             /\ proc[q].pc \notin Early \/ proc'[q].pc \in Early \/ q = r
  <2>1. CASE q = r
    <3>1. proc[r].op = "outcome" /\ proc'[r].pc # "idle"
      BY <1>1, <1>2, <2>1 DEF Advances, GoesOn, Returns, Idle
    <3> QED
      BY <1>2, <2>1, <3>1, ReportGoesOn DEF KeepsReport
  <2>2. CASE q # r
    BY <1>1, <1>2, <2>2 DEF Advances
  <2> QED
    BY <2>1, <2>2
<1>3. ASSUME NEW q \in Requests, proc[q].op = "outcome", proc[q].pc \notin Early
      PROVE  outcomes'[proc[q].key].hash = proc[q].hash
  BY <1>1, <1>3, SubjectAssumption DEF HashesStay, Reserved
<1> QED
  BY <1>1, <1>2, <1>3

LEMMA EntranceKeepsOwner ==
  ASSUME OwnerInv, NEW r \in Requests, Entrance(r)
  PROVE  OwnerInv'
<1> USE DEF OwnerInv
<1>1. FenceInv' /\ outcomes' = outcomes
  BY EntranceKeepsFence, EntranceLeaves DEF rows, derived
<1>2. \A q \in Requests \ {r} : proc'[q] = proc[q]
  BY EntranceNeverSaves
<1>3. proc'[r].op = "outcome" =>
        proc'[r].pc # "idle" /\ proc'[r].key \in Keys /\ proc'[r].hash \in Hashes
          /\ proc'[r].pc \in Early
  <2>1. CASE SubmitIngest(r) \/ SubmitDelete(r) \/ SubmitPurge(r)
    <3>1. CASE SubmitIngest(r)
      BY <3>1 DEF SubmitIngest, Arrive, FenceInv, Shape, Idle
    <3>2. CASE SubmitDelete(r)
      BY <3>2 DEF SubmitDelete, Arrive, FenceInv, Shape, Idle
    <3>3. CASE SubmitPurge(r)
      BY <3>3 DEF SubmitPurge, Arrive, FenceInv, Shape, Idle
    <3> QED
      BY <2>1, <3>1, <3>2, <3>3
  <2>2. CASE \E k \in Keys, h \in Hashes : SubmitOutcome(r, k, h)
    BY <2>2 DEF SubmitOutcome, Arrive, FenceInv, Shape, Idle, Early
  <2>3. CASE Admit(r)
    BY <2>3, GotoMoves, GotoKeepsReport DEF Admit, FenceInv, KeepsReport, Early
  <2>4. CASE Refuse(r) \/ Abandon(r)
    BY <2>4, RespondReturns DEF Refuse, Abandon, FenceInv, Returns, Idle
  <2> QED
    BY <2>1, <2>2, <2>3, <2>4 DEF Entrance, Submit
<1> QED
  BY <1>1, <1>2, <1>3 DEF OutcomeRows

LEMMA PurgeKeepsOwner ==
  ASSUME OwnerInv, NEW r \in Requests, PurgeStep(r)
  PROVE  OwnerInv'
<1> USE DEF OwnerInv
<1>1. FenceInv'
  BY PurgeKeepsFence
<1>2. proc'[r].op # "outcome"
  BY PurgeNeverSaves, GotoMoves, RespondReturns
     DEF PurgeStep, FencePurge, DeleteSubject, DeleteUser, FenceInv, Returns, Idle
<1>3. \A q \in Requests \ {r} : proc'[q] = proc[q] /\ ~Past(q)
  BY PurgeNeverSaves
<1>4. OutcomeRows'
  BY DEF PurgeStep, FencePurge, DeleteSubject, DeleteUser, rows, derived, OutcomeRows, NoOutcome
<1> QED
  BY <1>1, <1>2, <1>3, <1>4 DEF Past, Early

LEMMA OwnerStep == OwnerInv /\ [Next]_vars => OwnerInv'
<1> SUFFICES ASSUME OwnerInv, [Next]_vars PROVE OwnerInv'
  OBVIOUS
<1>1. ASSUME NEW m \in MemoryIds, Land(m) PROVE OwnerInv'
  BY <1>1, FenceStep DEF Land, rows, derived, OwnerInv, OutcomeRows
<1>2. CASE UNCHANGED vars
  BY <1>2, FenceStep DEF vars, rows, derived, OwnerInv, OutcomeRows
<1> QED
  BY <1>1, <1>2, NextSteps, WorkKeepsOwner, EntranceKeepsOwner, PurgeKeepsOwner

(* With or without authenticated callers, with or without late upserts: of *)
(* all the payloads that race for one key, only the one in the outcome's   *)
(* row ever gets to create a memory, to link it or to write an edge.       *)
THEOREM OnlyTheOwnerProceedsAlways == Spec => []OnlyTheOwnerProceeds
<1>1. OwnerInv => OnlyTheOwnerProceeds
  BY DEF OwnerInv, OnlyTheOwnerProceeds, At, Early
<1> QED
  BY <1>1, OwnerInit, OwnerStep, PTL DEF Spec
=============================================================================
