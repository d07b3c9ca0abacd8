------------------------ MODULE KnowledgeIndex_proofs ------------------------
(***************************************************************************)
(* Proofs about the index, which no transaction of the database protects,  *)
(* for every set of sources, owners and processes and for every bound.     *)
(*                                                                         *)
(* The argument: whoever writes to the points of a source holds the        *)
(* advisory lock of its owner, so that what a transaction left in the      *)
(* index between two of its remote writes is still there at the next one;  *)
(* and the chunks of a source cannot change while an attempt is at         *)
(* "indexing", so that points an earlier, crashed projection of the        *)
(* attempt left behind are points the next one would write.                *)
(***************************************************************************)
EXTENDS KnowledgeSearch, DocumentaryCandidates_proofs

-----------------------------------------------------------------------------
(* Who takes a step                                                        *)

Acts(p) ==
  PollIndex(p) \/ Continue(p) \/ Administer(p) \/ ProjectionError(p) \/ RollBack(p)

LEMMA ActsFine ==
  ASSUME IInv, NEW p \in Procs, Acts(p)
  PROVE  Fine(p)
BY ProcessFine DEF Acts, IInv

(* The transaction of a process that does not take the step is left alone. *)
LEMMA BystanderUndisturbed ==
  ASSUME IInv, [Next]_vars, NEW q \in Procs, ~Acts(q)
  PROVE  Undisturbed(q)
<1>1. CASE Request \/ PollCanonical
  BY <1>1, RequestFine, CanonicalFine DEF IInv
<1>2. ASSUME NEW p \in Procs, Acts(p)
      PROVE  Undisturbed(q)
  BY <1>2, ActsFine DEF Fine
<1>3. CASE LandLate \/ UNCHANGED vars
  <2>1. UNCHANGED <<canonical, control>>
    BY <1>3 DEF LandLate, UpsertLands, DeleteLands, vars
  <2> QED
    BY <2>1, CanonicalStays, StaysUndisturbed DEF control, IInv
<1> QED
  BY <1>1, <1>2, <1>3 DEF Next, Quiet, Acts

-----------------------------------------------------------------------------
(* Who touches the index                                                   *)

(* An upsert of p writes part of what p has not projected yet.             *)
Writes(p, batch) ==
  /\ proc[p].pc = "project" /\ batch \subseteq proc[p].todo
  /\ points' = Upserted(points, Stamp(batch, proc[p].job))

(* A delete of p removes some of the points its filter matches.            *)
Aim(p) ==
  CASE proc[p].pc = "project"  -> Stale(proc[p].source, proc[p].job)
    [] proc[p].pc = "delClean" -> OfSource(proc[p].source)
    [] OTHER                   -> Orphans(proc[p].owner, proc[p].ids)

Deletes(p) == proc[p].pc \in {"project", "delClean", "orphans"}

Doomed(p) == IF Deletes(p) THEN Matching(Aim(p)) ELSE {}

Removes(p, removed) ==
  /\ removed \subseteq Doomed(p)
  /\ points' = points \ removed
  /\ proc[p].pc = "delClean" /\ removed # {} => proc[p].source \in disturbed'

Touches(p) == (\E batch : Writes(p, batch)) \/ (\E removed : Removes(p, removed))

Lands ==
  \/ \E q \in inflight : points' = Upserted(points, {q})
  \/ \E f \in Applied : points' = points \ Matching(f)

LEMMA AimOf ==
  ASSUME NEW p \in Procs
  PROVE  /\ proc[p].pc = "project" => Aim(p) = Stale(proc[p].source, proc[p].job) /\ Deletes(p)
         /\ proc[p].pc = "delClean" => Aim(p) = OfSource(proc[p].source) /\ Deletes(p)
         /\ proc[p].pc = "orphans" => Aim(p) = Orphans(proc[p].owner, proc[p].ids) /\ Deletes(p)
BY DEF Aim, Deletes

LEMMA LostRequestTouches ==
  ASSUME NEW p \in Procs, LostRequest(p)
  PROVE  Touches(p)
<1>1. CASE LostUpsert(p)
  <2>1. PICK batch \in Batches(proc[p].todo) :
          \E landed \in SUBSET batch : points' = Upserted(points, Stamp(landed, proc[p].job))
    BY <1>1 DEF LostUpsert
  <2>2. PICK landed \in SUBSET batch : points' = Upserted(points, Stamp(landed, proc[p].job))
    BY <2>1
  <2>3. Writes(p, landed)
    BY <1>1, <2>2 DEF LostUpsert, Writes, Batches
  <2> QED
    BY <2>3 DEF Touches
<1>2. ASSUME Deletes(p), LostDelete(p, Aim(p))
      PROVE  Touches(p)
  <2>1. PICK removed \in SUBSET Doomed(p) :
          /\ points' = points \ removed
          /\ disturbed' = IF proc[p].pc = "delClean" /\ removed # {}
                          THEN disturbed \cup {proc[p].source} ELSE disturbed
    BY <1>2 DEF LostDelete, Doomed
  <2>2. Removes(p, removed)
    BY <2>1 DEF Removes
  <2> QED
    BY <2>2 DEF Touches
<1> QED
  BY <1>1, <1>2, AimOf DEF LostRequest

(* What may be applied later was sent by a request that was lost.          *)
LEMMA LateWriters ==
  ASSUME [Next]_vars
  PROVE  \/ inflight' \subseteq inflight /\ erasures' \subseteq erasures
         \/ \E p \in Procs : LostRequest(p)
<1>1. CASE Request \/ PollCanonical
  BY <1>1 DEF Request, CreateSource, RefreshSource, ReindexSource, OperatorTransition,
              PollCanonical, PollDocuments, ParseFails, ParseUnchanged, ParseText, CrawlWebsite,
              StoreDocuments, SplitFails, Split, remote
<1>2. ASSUME NEW p \in Procs, Acts(p)
      PROVE  UNCHANGED <<inflight, erasures>> \/ LostRequest(p)
  <2>1. CASE PollIndex(p) \/ Administer(p)
    BY <2>1 DEF PollIndex, BeginProjection, Begin, Administer, DeleteLockOwner, RebuildStart, remote
  <2>2. CASE \/ RejectProjection(p) \/ UpsertBatch(p) \/ DeleteStale(p) \/ CommitReady(p)
             \/ DeleteLockSource(p) \/ DeletePoints(p) \/ DeleteCommit(p)
    BY <2>2 DEF RejectProjection, UpsertBatch, DeleteStale, CommitReady, DeleteLockSource,
                DeletePoints, DeleteCommit, remote
  <2>3. CASE \/ \E s \in Sources : RebuildReuses(p, s) \/ RebuildReindexes(p, s) \/ RebuildStops(p, s)
             \/ \E j \in JobIds : RebuildProjects(p, j)
             \/ RebuildSkips(p) \/ RebuildLocksOwner(p) \/ RebuildDeletesOrphans(p)
    BY <2>3 DEF RebuildReuses, RebuildReindexes, RebuildStops, RebuildProjects, Begin, RebuildSkips,
                RebuildLocksOwner, RebuildDeletesOrphans, remote
  <2>4. CASE ProjectionError(p) \/ RollBack(p)
    BY <2>4 DEF ProjectionError, RollBack, remote
  <2> QED
    BY <1>2, <2>1, <2>2, <2>3, <2>4 DEF Acts, Continue
<1>3. CASE LandLate \/ UNCHANGED vars
  BY <1>3 DEF LandLate, UpsertLands, DeleteLands, vars, remote
<1> QED
  BY <1>1, <1>2, <1>3 DEF Next, Quiet, Acts

(* Points change only through a process that is in the middle of a         *)
(* projection, a deletion or a sweep, or by an upsert that lands late.     *)
LEMMA IndexWriters ==
  ASSUME [Next]_vars
  PROVE  \/ points' = points
         \/ \E p \in Procs : Acts(p) /\ Touches(p)
         \/ Lands
<1>1. CASE Request
  BY <1>1 DEF Request, CreateSource, RefreshSource, ReindexSource, OperatorTransition, remote
<1>2. CASE PollCanonical
  BY <1>2 DEF PollCanonical, PollDocuments, ParseFails, ParseUnchanged, ParseText, CrawlWebsite, StoreDocuments,
              SplitFails, Split, remote
<1>3. ASSUME NEW p \in Procs, Acts(p)
      PROVE  points' = points \/ Touches(p)
  <2>1. CASE PollIndex(p) \/ Administer(p)
    BY <2>1 DEF PollIndex, BeginProjection, Begin, Administer, DeleteLockOwner, RebuildStart, remote
  <2>2. CASE RejectProjection(p) \/ CommitReady(p) \/ DeleteLockSource(p) \/ DeleteCommit(p)
    BY <2>2 DEF RejectProjection, CommitReady, DeleteLockSource, DeleteCommit, remote
  <2>3. CASE \/ \E s \in Sources : RebuildReuses(p, s) \/ RebuildReindexes(p, s) \/ RebuildStops(p, s)
             \/ \E j \in JobIds : RebuildProjects(p, j)
             \/ RebuildSkips(p) \/ RebuildLocksOwner(p)
    BY <2>3 DEF RebuildReuses, RebuildReindexes, RebuildStops, RebuildProjects, Begin, RebuildSkips,
                RebuildLocksOwner, remote
  <2>4. CASE UpsertBatch(p)
    <3>1. PICK batch \in Batches(proc[p].todo) : points' = Upserted(points, Stamp(batch, proc[p].job))
      BY <2>4 DEF UpsertBatch
    <3>2. Writes(p, batch)
      BY <2>4, <3>1 DEF UpsertBatch, Writes, Batches
    <3> QED
      BY <3>2 DEF Touches
  <2>5. CASE DeleteStale(p)
    <3>1. Removes(p, Matching(Stale(proc[p].source, proc[p].job)))
      BY <2>5, AimOf DEF DeleteStale, Removes, Doomed
    <3> QED
      BY <3>1 DEF Touches
  <2>6. CASE DeletePoints(p)
    <3>1. Removes(p, Matching(OfSource(proc[p].source)))
      BY <2>6, AimOf DEF DeletePoints, Removes, Doomed
    <3> QED
      BY <3>1 DEF Touches
  <2>7. CASE RebuildDeletesOrphans(p)
    <3>1. Removes(p, Matching(Orphans(proc[p].owner, proc[p].ids)))
      BY <2>7, AimOf DEF RebuildDeletesOrphans, Removes, Doomed
    <3> QED
      BY <3>1 DEF Touches
  <2>8. CASE ProjectionError(p) \/ RollBack(p)
    BY <2>8, LostRequestTouches DEF ProjectionError, RollBack, remote
  <2> QED
    BY <1>3, <2>1, <2>2, <2>3, <2>4, <2>5, <2>6, <2>7, <2>8 DEF Acts, Continue
<1>4. CASE LandLate
  BY <1>4 DEF LandLate, UpsertLands, DeleteLands, Lands, Applied
<1>5. CASE UNCHANGED vars
  BY <1>5 DEF vars, remote
<1> QED
  BY <1>1, <1>2, <1>3, <1>4, <1>5 DEF Next, Quiet, Acts

(* The filter of a delete names sources of one owner, and its process      *)
(* holds the lock of that owner.                                           *)
LEMMA AimUnderLock ==
  ASSUME IInv, NEW p \in Procs, Deletes(p), NEW s \in Aim(p).sources
  PROVE  s \in Sources /\ ownerLock[OwnerOf[s]] = p
<1>0. Holds(p) /\ TypeInv
  BY DEF IInv, LockInv
<1>1. CASE proc[p].pc = "project"
  <2>1. s = proc[p].source
    BY <1>1, AimOf DEF Stale
  <2> QED
    BY <1>0, <1>1, <2>1 DEF Holds, TypeInv, Named
<1>2. CASE proc[p].pc = "delClean"
  <2>1. s = proc[p].source
    BY <1>2, AimOf DEF OfSource
  <2> QED
    BY <1>0, <1>2, <2>1 DEF Holds, TypeInv, Named
<1>3. CASE proc[p].pc = "orphans"
  <2>1. s \in Sources /\ OwnerOf[s] = proc[p].owner
    BY <1>3, AimOf DEF Orphans
  <2>2. proc[p].owner \in Owners
    BY <2>1, ProjectionAssumption
  <2> QED
    BY <1>0, <1>3, <2>1, <2>2 DEF Holds
<1> QED
  BY <1>1, <1>2, <1>3 DEF Deletes

LEMMA DoomedUnderLock ==
  ASSUME IInv, NEW p \in Procs, NEW q \in Doomed(p)
  PROVE  q \in points /\ ownerLock[OwnerOf[q.chunk.source]] = p
<1>1. Deletes(p) /\ q \in points /\ q.chunk.source \in Aim(p).sources
  BY DEF Doomed, Matching
<1> QED
  BY <1>1, AimUnderLock

(* An upsert replaces points but loses no chunk. *)
LEMMA UpsertedKeepsChunks ==
  ASSUME NEW ps, NEW stamped, NEW q \in ps
  PROVE  \E n \in Upserted(ps, stamped) : n.chunk = q.chunk
BY DEF Upserted

(***************************************************************************)
(* Deletes are sent only under the lock of the owner of every source they  *)
(* match, for any number of owners, processes and lost requests, and a     *)
(* chunk leaves the index only under the lock of its owner, or because     *)
(* such a delete was given up and applied later: no projection, deletion   *)
(* or sweep takes a point of another owner, not even late.                 *)
(***************************************************************************)
THEOREM PointsVanishUnderLockAlways == Spec => PointsVanishUnderLock
<1>1. None \notin Procs
  BY ProjectionAssumption
<1>2. ASSUME IInv, [Next]_vars, NEW f \in erasures' \ erasures, NEW s \in f.sources
      PROVE  ownerLock[OwnerOf[s]] # None
  <2>1. PICK p \in Procs : LostRequest(p)
    BY <1>2, LateWriters
  <2>2. Deletes(p) /\ f = Aim(p)
    BY <1>2, <2>1, AimOf DEF LostRequest, LostUpsert, LostDelete
  <2> QED
    BY <1>1, <1>2, <2>2, AimUnderLock
<1>3. ASSUME IInv, [Next]_vars, NEW q \in points, ownerLock[OwnerOf[q.chunk.source]] = None,
             \A f \in Applied : q \notin Matching(f)
      PROVE  \E n \in points' : n.chunk = q.chunk
  <2>1. ASSUME NEW p \in Procs, NEW removed, Removes(p, removed)
        PROVE  \E n \in points' : n.chunk = q.chunk
    <3>1. q \notin removed
      BY <1>1, <1>3, <2>1, DoomedUnderLock DEF Removes
    <3> QED
      BY <2>1, <3>1 DEF Removes
  <2>2. ASSUME NEW p \in Procs, NEW batch, Writes(p, batch)
        PROVE  \E n \in points' : n.chunk = q.chunk
    BY <2>2, UpsertedKeepsChunks DEF Writes
  <2>3. CASE Lands
    <3>1. CASE \E n \in inflight : points' = Upserted(points, {n})
      BY <3>1, UpsertedKeepsChunks
    <3>2. CASE \E f \in Applied : points' = points \ Matching(f)
      BY <1>3, <3>2
    <3> QED
      BY <2>3, <3>1, <3>2 DEF Lands
  <2> QED
    BY <1>3, <2>1, <2>2, <2>3, IndexWriters DEF Touches
<1>4. IInv /\ [Next]_vars =>
        [/\ \A f \in erasures' \ erasures : \A s \in f.sources : ownerLock[OwnerOf[s]] # None
         /\ \A q \in points :
              \/ \E r \in points' : r.chunk = q.chunk
              \/ ownerLock[OwnerOf[q.chunk.source]] # None
              \/ \E f \in Applied : q \in Matching(f)]_vars
  BY <1>2, <1>3
<1> QED
  BY <1>4, IInvAlways, PTL DEF Spec, PointsVanishUnderLock

-----------------------------------------------------------------------------
(* Where a step of a transaction leads                                     *)

LEMMA Arrives ==
  ASSUME TypeInv, NEW p \in Procs, Acts(p)
  PROVE  /\ proc'[p].pc = "project" =>
              \/ UpsertBatch(p)
              \/ \E j \in JobIds : job[j].status = "indexing" /\ Begin(p, j)
         /\ proc'[p].pc = "commit" => DeleteStale(p)
         /\ proc'[p].pc = "delCommit" => DeletePoints(p)
         /\ proc'[p].pc = "orphans" => RebuildLocksOwner(p)
<1>1. ASSUME NEW r, proc' = [proc EXCEPT ![p] = r]
      PROVE  proc'[p] = r
  BY <1>1 DEF TypeInv, TypeOK
<1>2. CASE Resume(p)
  <2>1. proc'[p].pc \in {"idle", "loop"}
    BY <1>1, <1>2 DEF Resume, Idle, Rebuilding
  <2> QED
    BY <2>1
<1>3. CASE RejectProjection(p) \/ ProjectionError(p) \/ CommitReady(p) \/ RebuildSkips(p)
  BY <1>2, <1>3 DEF RejectProjection, ProjectionError, CommitReady, RebuildSkips
<1>4. CASE proc' = [proc EXCEPT ![p] = Idle]
  <2>1. proc'[p].pc = "idle"
    BY <1>1, <1>4 DEF Idle
  <2> QED
    BY <2>1
<1>5. CASE \/ RollBack(p) \/ DeleteCommit(p) \/ RebuildDeletesOrphans(p)
           \/ \E s \in Sources : RebuildStops(p, s)
  BY <1>4, <1>5 DEF RollBack, DeleteCommit, RebuildDeletesOrphans, RebuildStops
<1>6. CASE Administer(p)
  <2>1. ASSUME NEW s \in Sources, DeleteLockOwner(p, s)
        PROVE  proc'[p].pc = "delOwner"
    BY <2>1 DEF DeleteLockOwner, Idle, TypeInv, TypeOK
  <2>2. ASSUME NEW o \in Owners, RebuildStart(p, o)
        PROVE  proc'[p].pc = "loop"
    BY <2>2 DEF RebuildStart, Rebuilding, TypeInv, TypeOK
  <2> QED
    BY <1>6, <2>1, <2>2 DEF Administer
<1>7. CASE \E s \in Sources : RebuildReuses(p, s) \/ RebuildReindexes(p, s)
  <2>1. proc'[p].pc = "try"
    BY <1>1, <1>7 DEF RebuildReuses, RebuildReindexes, RebuildTakes, Rebuilding
  <2> QED
    BY <2>1
<1>8. CASE PollIndex(p) \/ \E j \in JobIds : RebuildProjects(p, j)
  <2>1. PICK j \in JobIds : job[j].status = "indexing" /\ Begin(p, j)
    BY <1>8 DEF PollIndex, BeginProjection, RebuildProjects
  <2>2. proc'[p].pc = "project"
    BY <2>1 DEF Begin, TypeInv, TypeOK, ProcStates
  <2> QED
    BY <2>1, <2>2
<1>9. CASE UpsertBatch(p) \/ DeleteStale(p) \/ DeleteLockSource(p) \/ DeletePoints(p)
  <2>1. /\ UpsertBatch(p) => proc'[p].pc = "project"
        /\ DeleteStale(p) => proc'[p].pc = "commit"
        /\ DeleteLockSource(p) => proc'[p].pc = "delClean"
        /\ DeletePoints(p) => proc'[p].pc = "delCommit"
    BY DEF UpsertBatch, DeleteStale, DeleteLockSource, DeletePoints, TypeInv, TypeOK, ProcStates
  <2> QED
    BY <1>9, <2>1
<1>10. CASE RebuildLocksOwner(p)
  <2>1. proc'[p].pc = "orphans"
    BY <1>1, <1>10 DEF RebuildLocksOwner, Rebuilding
  <2> QED
    BY <1>10, <2>1
<1> QED
  BY <1>3, <1>5, <1>6, <1>7, <1>8, <1>9, <1>10 DEF Acts, Continue

-----------------------------------------------------------------------------
(* Sweeps                                                                  *)

(* The sources whose points a sweep keeps are still there when it comes.   *)
Keeps(q) == proc[q].pc = "orphans" => proc[q].ids \subseteq LiveOf(proc[q].owner)

KeepsInv == \A q \in Procs : Keeps(q)

LEMMA KeepsInvInit == Init => KeepsInv
BY DEF Init, KeepsInv, Keeps, Idle

LEMMA KeepsInvStep == IInv /\ KeepsInv /\ [Next]_vars => KeepsInv'
<1> SUFFICES ASSUME IInv, KeepsInv, [Next]_vars, NEW q \in Procs, proc'[q].pc = "orphans",
                    NEW s \in proc'[q].ids
             PROVE  /\ s \in Sources /\ OwnerOf[s] = proc'[q].owner
                    /\ source'[s].life = "live"
  BY DEF KeepsInv, Keeps, LiveOf, Live
<1>1. CASE Acts(q)
  <2>1. RebuildLocksOwner(q)
    BY <1>1, Arrives DEF IInv
  <2>2. /\ UNCHANGED canonical
        /\ proc'[q] = Rebuilding("orphans", proc[q].owner, None, LiveOf(proc[q].owner))
    BY <2>1 DEF RebuildLocksOwner, IInv, TypeInv, TypeOK
  <2> QED
    BY <2>2 DEF Rebuilding, LiveOf, Live, canonical
<1>2. CASE ~Acts(q)
  <2>1. Undisturbed(q)
    BY <1>2, BystanderUndisturbed
  <2>2. proc'[q] = proc[q] /\ proc[q].pc = "orphans"
    BY <2>1 DEF Undisturbed
  <2>3. s \in Sources /\ OwnerOf[s] = proc[q].owner /\ Live(s)
    BY <2>2 DEF KeepsInv, Keeps, LiveOf
  <2>4. ownerLock[OwnerOf[s]] = q
    BY <2>2, <2>3, ProjectionAssumption DEF IInv, LockInv, Holds
  <2> QED
    BY <2>1, <2>2, <2>3, <2>4 DEF Undisturbed
<1> QED
  BY <1>1, <1>2

(***************************************************************************)
(* A rebuild that sweeps leaves no point of its owner whose source is      *)
(* gone, for any number of owners, deletions and late requests: the list   *)
(* of sources to keep is read under the owner's lock and cannot age.       *)
(***************************************************************************)
THEOREM RebuildSweepsOrphansAlways == Spec => RebuildSweepsOrphans
<1>1. ASSUME IInv, KeepsInv, [Next]_vars, NEW p \in Admins,
             proc[p].pc = "orphans", proc'[p].pc = "idle", faults' = faults,
             NEW q \in points', OwnerOf[q.chunk.source] = proc[p].owner
      PROVE  source'[q.chunk.source].life = "live"
  <2>1. p \in Procs /\ TypeInv
    BY <1>1 DEF Procs, IInv
  <2>2. Acts(p)
    BY <1>1, <2>1, BystanderUndisturbed DEF Undisturbed
  <2>3. ~Fault
    BY <1>1, <2>1 DEF Fault, TypeInv, TypeOK
  <2>4. RebuildDeletesOrphans(p)
    <3>1. ~(PollIndex(p) \/ Administer(p) \/ ProjectionError(p) \/ RollBack(p))
      BY <1>1, <2>3 DEF PollIndex, BeginProjection, Administer, DeleteLockOwner, RebuildStart,
                        ProjectionError, RollBack
    <3>2. ~(RejectProjection(p) \/ UpsertBatch(p) \/ DeleteStale(p) \/ CommitReady(p)
            \/ DeleteLockSource(p) \/ DeletePoints(p) \/ DeleteCommit(p))
      BY <1>1 DEF RejectProjection, UpsertBatch, DeleteStale, CommitReady, DeleteLockSource,
                  DeletePoints, DeleteCommit
    <3>3. ~(\/ \E s \in Sources : RebuildReuses(p, s) \/ RebuildReindexes(p, s) \/ RebuildStops(p, s)
            \/ \E j \in JobIds : RebuildProjects(p, j)
            \/ RebuildSkips(p) \/ RebuildLocksOwner(p))
      BY <1>1 DEF RebuildReuses, RebuildReindexes, RebuildStops, RebuildProjects, RebuildSkips,
                  RebuildLocksOwner
    <3> QED
      BY <2>2, <3>1, <3>2, <3>3 DEF Acts, Continue
  <2>5. q \in points \ Matching(Orphans(proc[p].owner, proc[p].ids)) /\ UNCHANGED canonical
    BY <1>1, <2>4 DEF RebuildDeletesOrphans
  <2>6. q.chunk.source \in proc[p].ids
    <3>1. q \in Points
      BY <2>1, <2>5 DEF TypeInv, TypeOK
    <3>2. q.chunk.source \in Sources /\ q.generation # 0
      BY <3>1, MaxJobsType DEF Points, ChunkIds, JobIds
    <3> QED
      BY <1>1, <2>5, <3>2 DEF Matching, Orphans
  <2>7. Live(q.chunk.source)
    BY <1>1, <2>1, <2>6 DEF KeepsInv, Keeps, LiveOf
  <2> QED
    BY <2>5, <2>7 DEF Live, canonical
<1>2. Init => IInv /\ KeepsInv
  BY IInvInit, KeepsInvInit
<1>3. IInv /\ KeepsInv /\ [Next]_vars => (IInv /\ KeepsInv)'
  BY IInvStep, KeepsInvStep
<1>4. IInv /\ KeepsInv /\ [Next]_vars =>
        \A p \in Admins :
          proc[p].pc = "orphans" /\ proc'[p].pc = "idle" /\ faults' = faults =>
            \A q \in points' : OwnerOf[q.chunk.source] = proc[p].owner
                                 => source'[q.chunk.source].life = "live"
  BY <1>1
<1> QED
  BY <1>2, <1>3, <1>4, PTL DEF Spec, RebuildSweepsOrphans

-----------------------------------------------------------------------------
(* What the index holds, if requests do not land late                      *)

(* A point was written by an attempt of its source that got as far as      *)
(* "indexing", and while that attempt is there the point's chunk is a row. *)
Stamped(q) ==
  /\ job[q.generation].source = q.chunk.source
  /\ job[q.generation].status \in {"indexing", "ready", "failed"}
  /\ job[q.generation].status = "indexing" => q.chunk \in chunks

(* What a transaction has done to the points of its source so far.         *)
Projected(q) ==
  LET s == proc[q].source
      j == proc[q].job
  IN /\ proc[q].pc = "project" =>
          /\ proc[q].todo \subseteq ChunksOf(s)
          /\ Stamp(ChunksOf(s) \ proc[q].todo, j) \subseteq PointsOf(s)
     /\ proc[q].pc = "commit" => PointsOf(s) = Stamp(ChunksOf(s), j)
     /\ proc[q].pc = "delCommit" => PointsOf(s) = {}

IndexInv ==
  /\ inflight = {} /\ erasures = {}
  /\ \A q \in points : Stamped(q)
  /\ \A q \in Procs : Projected(q)

LEMMA IndexInvInit == Init => IndexInv
BY DEF Init, IndexInv, Projected, Idle

LEMMA NothingSentLate ==
  ASSUME LateDelivery = FALSE, inflight = {}, erasures = {}, [Next]_vars
  PROVE  inflight' = {} /\ erasures' = {}
<1>1. ASSUME NEW p \in Procs, LostRequest(p)
      PROVE  UNCHANGED <<inflight, erasures>>
  BY <1>1 DEF LostRequest, LostUpsert, LostDelete
<1> QED
  BY <1>1, LateWriters

(* The chunks of a source that shows "indexing" or "ready" stay: only an   *)
(* attempt at an earlier stage writes rows, and the source would show it.  *)
LEMMA ChunksStay ==
  ASSUME IInv, [Next]_vars, NEW s \in Sources, source'[s].life = "live",
         source[s].status \in {"indexing", "ready"}
  PROVE  ChunksOf(s)' = ChunksOf(s)
<1>1. \A j \in JobIds : job[j].status \in {"pending", "fetching", "parsing", "chunking"}
                          => job[j].source # s
  BY DEF IInv, AttemptInv, Shown, Active, Stages, Terminal
<1>2. ASSUME NEW j \in JobIds, Claim(j, ToParse),
             NEW page, NEW gone, StoreDocuments(job[j].source, j, page, gone)
      PROVE  ChunksOf(s)' = ChunksOf(s)
  <2>1. job[j].source # s
    BY <1>1, <1>2 DEF Claim, MayPick, ToParse, ClaimStages
  <2> QED
    BY <1>2, <2>1 DEF StoreDocuments, ChunksOf
<1>3. ASSUME NEW j \in JobIds, Split(j)
      PROVE  ChunksOf(s)' = ChunksOf(s)
  <2>1. job[j].source # s
    BY <1>1, <1>3 DEF Split, Claim, MayPick, ToSplit
  <2>2. \A u : \A c \in SplitOf(job[j].source, u) : c.source # s
    BY <2>1 DEF SplitOf
  <2>3. chunks' = Replanned(job[j].source)
    BY <1>3 DEF Split
  <2> QED
    BY <2>1, <2>2, <2>3 DEF Replanned, ChunksOf
<1>4. ASSUME NEW p \in Procs, DeleteCommit(p)
      PROVE  ChunksOf(s)' = ChunksOf(s)
  <2>1. proc[p].source # s
    BY <1>4 DEF DeleteCommit, IInv, TypeInv, TypeOK, SourceRows
  <2> QED
    BY <1>4, <2>1 DEF DeleteCommit, ChunksOf
<1> QED
  BY <1>2, <1>3, <1>4, RowWriters DEF OnlyAttempts, CommitReady, ChunksOf

(* A source goes only with a deletion that is about to commit. *)
LEMMA LifeEnds ==
  ASSUME IInv, [Next]_vars, NEW s \in Sources, Live(s), source'[s].life # "live"
  PROVE  \E p \in Procs : DeleteCommit(p) /\ proc[p].source = s
<1>1. source \in [Sources -> SourceRows] /\ TypeInv
  BY DEF IInv, TypeInv, TypeOK
<1>2. ASSUME OnlyAttempts \/ \E p \in Procs : CommitReady(p)
      PROVE  FALSE
  <2>1. CanonicalStaysPut
    BY <1>1, <1>2, RowsStay DEF OnlyAttempts, CommitReady
  <2> QED
    BY <2>1 DEF CanonicalStaysPut
<1>3. ASSUME NEW j \in JobIds, NEW page, NEW gone, StoreDocuments(job[j].source, j, page, gone)
      PROVE  FALSE
  BY <1>1, <1>3 DEF StoreDocuments, SourceRows, Live
<1>4. ASSUME NEW j \in JobIds, Split(j)
      PROVE  FALSE
  BY <1>1, <1>4 DEF Split, SourceRows, Live
<1>5. ASSUME NEW p \in Procs, DeleteCommit(p)
      PROVE  proc[p].source = s
  BY <1>1, <1>5 DEF DeleteCommit, SourceRows, Live
<1> QED
  BY <1>2, <1>3, <1>4, <1>5, RowWriters

(* The points of a source change only through a process that holds the     *)
(* lock of its owner and means this source.                                *)
Means(p, s) ==
  /\ ownerLock[OwnerOf[s]] = p
  /\ \/ proc[p].pc = "project" /\ proc[p].source = s
     \/ proc[p].pc = "delClean" /\ proc[p].source = s /\ s \in disturbed'
     \/ proc[p].pc = "orphans" /\ proc[p].owner = OwnerOf[s] /\ s \notin proc[p].ids

LEMMA PointsMoved ==
  ASSUME IInv, IndexInv, [Next]_vars, NEW s \in Sources, PointsOf(s)' # PointsOf(s)
  PROVE  \E p \in Procs : Acts(p) /\ Means(p, s)
<1>1. PICK p \in Procs : Acts(p) /\ Touches(p)
  <2>1. points' # points
    BY DEF PointsOf
  <2>2. ~Lands
    BY DEF Lands, IndexInv, Applied
  <2> QED
    BY <2>1, <2>2, IndexWriters
<1>2. ASSUME NEW batch, Writes(p, batch)
      PROVE  Means(p, s)
  <2>1. \A c \in batch : c.source = proc[p].source
    BY <1>2 DEF Writes, IndexInv, Projected, ChunksOf
  <2>2. proc[p].source = s
    <3>1. SUFFICES ASSUME proc[p].source # s PROVE PointsOf(s)' = PointsOf(s)
      OBVIOUS
    <3>2. \A q \in Stamp(batch, proc[p].job) : q.chunk.source # s
      BY <2>1, <3>1 DEF Stamp
    <3> QED
      BY <1>2, <3>2 DEF Writes, Upserted, PointsOf
  <2> QED
    BY <1>2, <2>2 DEF Writes, Means, IInv, LockInv, Holds
<1>3. ASSUME NEW removed, Removes(p, removed)
      PROVE  Means(p, s)
  <2>1. PICK q \in removed : q.chunk.source = s
    BY <1>3 DEF Removes, PointsOf
  <2>2. q \in Doomed(p) /\ removed # {} /\ q \in points
    BY <1>3, <2>1, DoomedUnderLock DEF Removes
  <2>3. ownerLock[OwnerOf[s]] = p
    BY <2>1, <2>2, DoomedUnderLock
  <2>4. Deletes(p) /\ s \in Aim(p).sources
    BY <2>1, <2>2 DEF Doomed, Matching
  <2>5. CASE proc[p].pc = "project"
    BY <2>3, <2>4, <2>5, AimOf DEF Stale, Means
  <2>6. CASE proc[p].pc = "delClean"
    BY <1>3, <2>2, <2>3, <2>4, <2>6, AimOf DEF OfSource, Means, Removes
  <2>7. CASE proc[p].pc = "orphans"
    BY <2>3, <2>4, <2>7, AimOf DEF Orphans, Means
  <2> QED
    BY <2>4, <2>5, <2>6, <2>7 DEF Deletes
<1> QED
  BY <1>1, <1>2, <1>3 DEF Touches

(* What a step writes is stamped with an attempt that is at "indexing".    *)
LEMMA WrittenIsStamped ==
  ASSUME IInv, IndexInv, [Next]_vars, NEW q \in points'
  PROVE  Stamped(q) /\ (q \in points \/ job[q.generation].status = "indexing")
<1>1. CASE q \in points
  BY <1>1 DEF IndexInv
<1>2. CASE q \notin points
  <2>1. PICK p \in Procs : \E batch : Writes(p, batch)
    BY <1>2, IndexWriters DEF Touches, Removes, Lands, IndexInv, Applied
  <2>2. PICK batch : Writes(p, batch)
    BY <2>1
  <2>3. q \in Stamp(batch, proc[p].job)
    BY <1>2, <2>2 DEF Writes, Upserted
  <2>4. PICK c \in batch : q = [chunk |-> c, generation |-> proc[p].job]
    BY <2>3 DEF Stamp
  <2>5. c \in ChunksOf(proc[p].source)
    BY <2>2, <2>4 DEF Writes, IndexInv, Projected
  <2>6. job[proc[p].job].source = proc[p].source /\ job[proc[p].job].status = "indexing"
    BY <2>2 DEF Writes, IInv, LockInv, Holds
  <2> QED
    BY <2>4, <2>5, <2>6 DEF Stamped, ChunksOf
<1> QED
  BY <1>1, <1>2

(* An attempt that got as far as "indexing" never goes back, and leaves    *)
(* only with its source, whose points are removed before.                  *)
LEMMA StampedStays ==
  ASSUME IInv, IndexInv, [Next]_vars, NEW q \in points', Stamped(q)
  PROVE  Stamped(q)'
<1> DEFINE g == q.generation
           s == q.chunk.source
<1>1. q \in Points /\ g \in JobIds /\ s \in Sources /\ TypeInv'
  <2>1. TypeInv /\ TypeInv'
    BY TypeInvStep DEF IInv
  <2> QED
    BY <2>1 DEF TypeInv, TypeOK, Points, ChunkIds
<1>2. AttemptStep /\ AttemptInv'
  BY AttemptInvStep DEF IInv
<1>3. /\ job'[g].source = s
      /\ job'[g].status \in {"indexing", "ready", "failed"}
      /\ job'[g].status = "indexing" => job[g].status = "indexing"
  <2>1. ASSUME NEW r \in Sources, NEW first \in {"pending", "indexing"}, Opens(r, first)
        PROVE  job'[g] = job[g]
    <3>1. opened + 1 \in JobIds /\ opened + 1 > opened
      BY <2>1, ProjectionAssumption DEF Opens, OpenJob, IInv, TypeInv, TypeOK, JobIds
    <3>2. job[opened + 1].status = "absent"
      BY <3>1 DEF IInv, AttemptInv, Slots
    <3>3. g # opened + 1
      BY <3>2 DEF Stamped
    <3> QED
      BY <1>1, <2>1, <3>3 DEF Opens, OpenJob, IInv, TypeInv, TypeOK
  <2>2. ASSUME NEW j \in JobIds, NEW to \in Stages, Moves(j, to)
        PROVE  /\ job'[g].source = job[g].source
               /\ job'[g].status = job[g].status \/ job'[g].status \in {"ready", "failed"}
    <3>1. CASE g = j
      <4>1. job[g].status = "indexing"
        BY <2>2, <3>1 DEF Moves, Stamped, Active, Terminal
      <4> QED
        BY <1>1, <2>2, <3>1, <4>1 DEF Moves, Downstream, IInv, TypeInv, TypeOK, JobRows
    <3>2. CASE g # j
      BY <1>1, <2>2, <3>2 DEF Moves, IInv, TypeInv, TypeOK
    <3> QED
      BY <3>1, <3>2
  <2>3. ASSUME NEW r \in Sources, Drops(r)
        PROVE  job'[g] = job[g]
    <3>1. PICK p \in Procs : DeleteCommit(p) /\ proc[p].source = r
      BY <2>3, LifeEnds DEF Drops
    <3>2. PointsOf(r) = {} /\ points' = points
      BY <3>1 DEF DeleteCommit, IndexInv, Projected, remote
    <3>3. s # r
      BY <3>2 DEF PointsOf
    <3> QED
      BY <1>1, <2>3, <3>3 DEF Drops, Stamped
  <2> QED
    BY <1>2, <2>1, <2>2, <2>3 DEF AttemptStep, Stays, Stamped
<1>4. ASSUME job'[g].status = "indexing"
      PROVE  q.chunk \in chunks'
  <2>1. job[g].status = "indexing" /\ q.chunk \in chunks
    BY <1>3, <1>4 DEF Stamped
  <2>2. source[s].status = "indexing"
    BY <1>1, <2>1 DEF Stamped, IInv, AttemptInv, Shown, Active, Stages, Terminal
  <2>3. source'[s].life = "live"
    BY <1>1, <1>2, <1>3, <1>4 DEF AttemptInv, Born, TypeInv, TypeOK, SourceRows
  <2>4. ChunksOf(s)' = ChunksOf(s)
    BY <1>1, <2>2, <2>3, ChunksStay
  <2> QED
    BY <2>1, <2>4 DEF ChunksOf
<1> QED
  BY <1>3, <1>4 DEF Stamped

(* Nobody else changes the chunks or the points of a source between two    *)
(* steps of a projection or of a deletion.                                 *)
LEMMA BystanderProjected ==
  ASSUME IInv, IndexInv, [Next]_vars, NEW q \in Procs, ~Acts(q)
  PROVE  Projected(q)'
<1>1. PICK s : s = proc[q].source
  OBVIOUS
<1>2. Undisturbed(q) /\ Holds(q) /\ Holds(q)' /\ proc'[q] = proc[q]
  BY BystanderUndisturbed, IInvStep DEF IInv, LockInv, Undisturbed
<1>3. SUFFICES ASSUME proc[q].pc \in {"project", "commit", "delCommit"}
               PROVE  Projected(q)'
  BY <1>2 DEF Projected
<1>4. s \in Sources /\ ownerLock[OwnerOf[s]] = q
  BY <1>1, <1>2, <1>3 DEF Holds, IInv, TypeInv, Named
<1>5. PointsOf(s)' = PointsOf(s)
  BY <1>4, PointsMoved DEF Means
<1>6. CASE proc[q].pc = "delCommit"
  BY <1>1, <1>2, <1>5, <1>6 DEF IndexInv, Projected
<1>7. CASE proc[q].pc \in {"project", "commit"}
  <2>1. /\ proc[q].job \in JobIds
        /\ job[proc[q].job].source = s /\ job[proc[q].job].status = "indexing"
        /\ job'[proc[q].job].source = s /\ job'[proc[q].job].status = "indexing"
    BY <1>1, <1>2, <1>7 DEF Holds, IInv, TypeInv, Named
  <2>2. source[s].status = "indexing"
    BY <1>4, <2>1 DEF IInv, AttemptInv, Shown, Active, Stages, Terminal
  <2>3. source'[s].life = "live"
    <3>1. IInv'
      BY IInvStep
    <3> QED
      BY <1>4, <2>1, <3>1 DEF IInv, AttemptInv, Born, TypeInv, TypeOK, SourceRows
  <2>4. ChunksOf(s)' = ChunksOf(s)
    BY <1>4, <2>2, <2>3, ChunksStay
  <2> QED
    BY <1>1, <1>2, <1>5, <1>7, <2>4 DEF IndexInv, Projected
<1> QED
  BY <1>3, <1>6, <1>7

(* What is left after the points of other attempts are gone is exactly one *)
(* point per chunk, since every chunk was written and every other point of *)
(* the attempt would be one of a chunk too.                                *)
LEMMA ActorProjected ==
  ASSUME IInv, IndexInv, [Next]_vars, NEW p \in Procs, Acts(p)
  PROVE  Projected(p)'
<1>1. TypeInv /\ Holds(p) /\ Projected(p)
  BY DEF IInv, LockInv, IndexInv
<1>2. ASSUME NEW j \in JobIds, Begin(p, j)
      PROVE  Projected(p)'
  <2>1. PICK s : s = job[j].source
    OBVIOUS
  <2>2. /\ proc'[p].pc = "project" /\ proc'[p].source = s
        /\ proc'[p].todo = ChunksOf(s) /\ UNCHANGED canonical
    BY <1>1, <1>2, <2>1 DEF Begin, TypeInv, TypeOK, ProcStates
  <2>3. ChunksOf(s)' = ChunksOf(s)
    BY <2>2 DEF ChunksOf, canonical
  <2>4. Stamp({}, proc'[p].job) = {}
    BY DEF Stamp
  <2> QED
    BY <2>2, <2>3, <2>4 DEF Projected
<1>3. CASE UpsertBatch(p)
  <2> DEFINE s == proc[p].source
             j == proc[p].job
  <2>1. PICK batch \in Batches(proc[p].todo) :
          /\ points' = Upserted(points, Stamp(batch, j))
          /\ proc' = [proc EXCEPT ![p].todo = @ \ batch]
    BY <1>3 DEF UpsertBatch
  <2>2. /\ proc[p].pc = "project" /\ proc'[p].pc = "project" /\ UNCHANGED canonical
        /\ proc'[p].source = s /\ proc'[p].job = j /\ proc'[p].todo = proc[p].todo \ batch
    BY <1>1, <1>3, <2>1 DEF UpsertBatch, TypeInv, TypeOK, ProcStates
  <2>3. /\ batch \subseteq proc[p].todo /\ proc[p].todo \subseteq ChunksOf(s)
        /\ Stamp(ChunksOf(s) \ proc[p].todo, j) \subseteq PointsOf(s)
    BY <1>1, <2>1, <2>2 DEF Projected, Batches
  <2>4. ChunksOf(s)' = ChunksOf(s)
    BY <2>2 DEF ChunksOf, canonical
  <2>5. ASSUME NEW c \in ChunksOf(s), c \notin proc[p].todo \/ c \in batch
        PROVE  [chunk |-> c, generation |-> j] \in points'
    <3>1. CASE c \in batch
      BY <2>1, <3>1 DEF Upserted, Stamp
    <3>2. CASE c \notin proc[p].todo
      <4>1. [chunk |-> c, generation |-> j] \in points
        BY <2>3, <3>2 DEF Stamp, PointsOf
      <4>2. \A q \in Stamp(batch, j) : q.chunk # c
        BY <2>3, <3>2 DEF Stamp
      <4> QED
        BY <2>1, <4>1, <4>2 DEF Upserted
    <3> QED
      BY <2>5, <3>1, <3>2
  <2>6. Stamp(ChunksOf(s) \ proc'[p].todo, j) \subseteq PointsOf(s)'
    BY <2>2, <2>5 DEF Stamp, PointsOf, ChunksOf
  <2> QED
    BY <2>2, <2>3, <2>4, <2>6 DEF Projected
<1>4. CASE DeleteStale(p)
  <2> DEFINE s == proc[p].source
             j == proc[p].job
  <2>1. /\ proc[p].pc = "project" /\ proc[p].todo = {}
        /\ points' = points \ Matching(Stale(s, j)) /\ UNCHANGED canonical
        /\ proc'[p].pc = "commit" /\ proc'[p].source = s /\ proc'[p].job = j
    BY <1>1, <1>4 DEF DeleteStale, TypeInv, TypeOK, ProcStates
  <2>2. Stamp(ChunksOf(s), j) \subseteq PointsOf(s)
    BY <1>1, <2>1 DEF Projected
  <2>3. job[j].source = s /\ job[j].status = "indexing"
    BY <1>1, <2>1 DEF Holds
  <2>4. PointsOf(s)' = {q \in PointsOf(s) : q.generation = j}
    BY <2>1 DEF PointsOf, Matching, Stale
  <2>5. ASSUME NEW q \in PointsOf(s), q.generation = j
        PROVE  q \in Stamp(ChunksOf(s), j)
    <3>1. q \in points /\ q.chunk.source = s /\ q.chunk \in chunks
      BY <2>3, <2>5 DEF PointsOf, IndexInv, Stamped
    <3>2. q = [chunk |-> q.chunk, generation |-> j]
      BY <1>1, <2>5, <3>1 DEF TypeInv, TypeOK, Points
    <3> QED
      BY <3>1, <3>2 DEF Stamp, ChunksOf
  <2>6. \A q \in Stamp(ChunksOf(s), j) : q.generation = j
    BY DEF Stamp
  <2>7. PointsOf(s)' = Stamp(ChunksOf(s), j)
    BY <2>2, <2>4, <2>5, <2>6
  <2>8. ChunksOf(s)' = ChunksOf(s)
    BY <2>1 DEF ChunksOf, canonical
  <2> QED
    BY <2>1, <2>7, <2>8 DEF Projected
<1>5. CASE DeletePoints(p)
  <2>1. /\ points' = points \ Matching(OfSource(proc[p].source))
        /\ proc'[p].pc = "delCommit" /\ proc'[p].source = proc[p].source
    BY <1>1, <1>5 DEF DeletePoints, TypeInv, TypeOK, ProcStates
  <2>2. PointsOf(proc[p].source)' = {}
    <3>1. \A q \in points : q.generation # 0
      BY <1>1, MaxJobsType DEF TypeInv, TypeOK, Points, JobIds
    <3> QED
      BY <2>1, <3>1 DEF PointsOf, Matching, OfSource
  <2> QED
    BY <2>1, <2>2 DEF Projected
<1>6. CASE proc'[p].pc \notin {"project", "commit", "delCommit"}
  BY <1>6 DEF Projected
<1> QED
  BY <1>1, <1>2, <1>3, <1>4, <1>5, <1>6, Arrives

LEMMA IndexInvStep ==
  ASSUME LateDelivery = FALSE
  PROVE  IInv /\ IndexInv /\ [Next]_vars => IndexInv'
<1> SUFFICES ASSUME IInv, IndexInv, [Next]_vars
             PROVE  IndexInv'
  OBVIOUS
<1>1. inflight' = {} /\ erasures' = {}
  BY NothingSentLate DEF IndexInv
<1>2. \A q \in points' : Stamped(q)'
  BY WrittenIsStamped, StampedStays
<1>3. \A q \in Procs : Projected(q)'
  BY ActorProjected, BystanderProjected
<1> QED
  BY <1>1, <1>2, <1>3 DEF IndexInv

(***************************************************************************)
(* Unless a write lands late, no point outlives its source, for every    *)
(* number of sources, workers, deletions and rebuilds and through every    *)
(* crash: no projection writes a point after the clean-up of a deletion.   *)
(***************************************************************************)
THEOREM NoOrphanPointsAlways ==
  ASSUME LateDelivery = FALSE
  PROVE  Spec => []NoOrphanPoints
<1>1. ASSUME IInv, IndexInv, NEW q \in points
      PROVE  Live(q.chunk.source)
  <2>1. q.chunk.source \in Sources /\ q.generation \in JobIds /\ source \in [Sources -> SourceRows]
    BY <1>1 DEF IInv, TypeInv, TypeOK, Points, ChunkIds
  <2>2. Stamped(q) /\ AttemptInv
    BY <1>1 DEF IndexInv, IInv
  <2> QED
    BY <2>1, <2>2 DEF Stamped, AttemptInv, Born, SourceRows, Live
<1>2. IInv /\ IndexInv => NoOrphanPoints
  BY <1>1 DEF NoOrphanPoints
<1>3. Init => IInv /\ IndexInv
  BY IInvInit, IndexInvInit
<1>4. IInv /\ IndexInv /\ [Next]_vars => (IInv /\ IndexInv)'
  BY IInvStep, IndexInvStep
<1> QED
  BY <1>2, <1>3, <1>4, PTL DEF Spec

-----------------------------------------------------------------------------
(* Ready sources                                                           *)

(* What a sweep does not keep is not ready: it was created since, and      *)
(* cannot have been projected while the sweep holds the owner's lock.      *)
Swept(q) ==
  proc[q].pc = "orphans" =>
    \A s \in LiveOf(proc[q].owner) \ proc[q].ids : source[s].status # "ready"

ReadyInv ==
  /\ \A q \in Procs : Swept(q)
  /\ ReadyIsProjected

LEMMA ReadyInvInit == Init => ReadyInv
BY DEF Init, ReadyInv, Swept, ReadyIsProjected, Idle, Live

Commits(s) == \E p \in Procs : CommitReady(p) /\ proc[p].source = s

(* A source is ready because a projection of it committed just now, or has *)
(* been ready before.                                                      *)
LEMMA BecomesReady ==
  ASSUME IInv, [Next]_vars, "ready" \notin OperatorTargets, NEW s \in Sources,
         source'[s].life = "live", source'[s].status = "ready", ~Commits(s)
  PROVE  Live(s) /\ source[s].status = "ready" /\ source'[s].generation = source[s].generation
<1>1. source \in [Sources -> SourceRows]
  BY DEF IInv, TypeInv, TypeOK
<1>2. ASSUME NEW r, NEW first \in {"pending", "indexing"}, OpenJob(r, first)
      PROVE  source'[s] = source[s]
  BY <1>1, <1>2 DEF OpenJob, SourceRows
<1>3. ASSUME NEW r, NEW j, NEW to, Transition(r, j, to), to # "ready"
      PROVE  source'[s] = source[s]
  BY <1>1, <1>3 DEF Transition, SourceRows
<1>4. ASSUME NEW j \in JobIds, NEW page, NEW gone, StoreDocuments(job[j].source, j, page, gone)
      PROVE  source'[s] = source[s]
  BY <1>1, <1>4 DEF StoreDocuments, SourceRows
<1>5. ASSUME NEW j \in JobIds, Split(j)
      PROVE  source'[s] = source[s]
  BY <1>1, <1>5 DEF Split, SourceRows
<1>6. ASSUME NEW p \in Procs, CommitReady(p)
      PROVE  source'[s] = source[s]
  <2>1. proc[p].source # s
    BY <1>6 DEF Commits
  <2> QED
    BY <1>1, <1>6, <2>1 DEF CommitReady
<1>7. ASSUME NEW p \in Procs, DeleteCommit(p)
      PROVE  source'[s] = source[s]
  BY <1>1, <1>7 DEF DeleteCommit, SourceRows
<1>8. source'[s] = source[s]
  BY <1>2, <1>3, <1>4, <1>5, <1>6, <1>7, RowWriters DEF OnlyAttempts
<1> QED
  BY <1>8 DEF Live

(* That points were taken away is forgotten only when a projection or a    *)
(* deletion of the source commits.                                         *)
LEMMA DisturbedStays ==
  ASSUME IInv, [Next]_vars, NEW s \in Sources, s \in disturbed, source'[s].life = "live", ~Commits(s)
  PROVE  s \in disturbed'
<1>1. CASE Request \/ PollCanonical
  BY <1>1 DEF Request, CreateSource, RefreshSource, ReindexSource, OperatorTransition,
              PollCanonical, PollDocuments, ParseFails, ParseUnchanged, ParseText, CrawlWebsite,
              StoreDocuments, SplitFails, Split
<1>2. ASSUME NEW p \in Procs, Acts(p)
      PROVE  s \in disturbed'
  <2>1. CASE PollIndex(p) \/ Administer(p)
    BY <2>1 DEF PollIndex, BeginProjection, Begin, Administer, DeleteLockOwner, RebuildStart
  <2>2. CASE \/ RejectProjection(p) \/ UpsertBatch(p) \/ DeleteStale(p)
             \/ DeleteLockSource(p) \/ DeletePoints(p)
    BY <2>2 DEF RejectProjection, UpsertBatch, DeleteStale, DeleteLockSource, DeletePoints
  <2>3. CASE CommitReady(p)
    BY <1>2, <2>3 DEF CommitReady, Commits
  <2>4. CASE DeleteCommit(p)
    BY <2>4 DEF DeleteCommit, IInv, TypeInv, TypeOK, SourceRows
  <2>5. CASE \/ \E r \in Sources : RebuildReuses(p, r) \/ RebuildReindexes(p, r) \/ RebuildStops(p, r)
             \/ \E j \in JobIds : RebuildProjects(p, j)
             \/ RebuildSkips(p) \/ RebuildLocksOwner(p) \/ RebuildDeletesOrphans(p)
    BY <2>5 DEF RebuildReuses, RebuildReindexes, RebuildStops, RebuildProjects, Begin, RebuildSkips,
                RebuildLocksOwner, RebuildDeletesOrphans
  <2>6. CASE ProjectionError(p) \/ RollBack(p)
    <3>1. LostRequest(p) => s \in disturbed'
      BY DEF LostRequest, LostUpsert, LostDelete
    <3> QED
      BY <2>6, <3>1 DEF ProjectionError, RollBack
  <2> QED
    BY <1>2, <2>1, <2>2, <2>3, <2>4, <2>5, <2>6 DEF Acts, Continue
<1>3. CASE LandLate \/ UNCHANGED vars
  BY <1>3 DEF LandLate, UpsertLands, DeleteLands, vars
<1> QED
  BY <1>1, <1>2, <1>3 DEF Next, Quiet, Acts

LEMMA SweptStep ==
  ASSUME IInv, ReadyInv, [Next]_vars, "ready" \notin OperatorTargets, NEW q \in Procs
  PROVE  Swept(q)'
<1> SUFFICES ASSUME proc'[q].pc = "orphans", NEW s \in Sources, source'[s].life = "live",
                    OwnerOf[s] = proc'[q].owner, s \notin proc'[q].ids, source'[s].status = "ready"
             PROVE  FALSE
  BY DEF Swept, LiveOf, Live
<1>1. CASE Acts(q)
  <2>1. RebuildLocksOwner(q)
    BY <1>1, Arrives DEF IInv
  <2>2. /\ UNCHANGED canonical
        /\ proc'[q] = Rebuilding("orphans", proc[q].owner, None, LiveOf(proc[q].owner))
    BY <2>1 DEF RebuildLocksOwner, IInv, TypeInv, TypeOK
  <2> QED
    BY <2>2 DEF Rebuilding, LiveOf, Live, canonical
<1>2. CASE ~Acts(q)
  <2>1. Undisturbed(q)
    BY <1>2, BystanderUndisturbed
  <2>2. proc'[q] = proc[q] /\ proc[q].pc = "orphans"
    BY <2>1 DEF Undisturbed
  <2>3. ownerLock[OwnerOf[s]] = q
    BY <2>2, ProjectionAssumption DEF IInv, LockInv, Holds
  <2>4. ~Commits(s)
    <3> SUFFICES ASSUME NEW p \in Procs, CommitReady(p), proc[p].source = s
                 PROVE  FALSE
      BY DEF Commits
    <3>1. proc[p].pc = "commit"
      BY DEF CommitReady
    <3>2. ownerLock[OwnerOf[s]] = p
      BY <3>1 DEF IInv, LockInv, Holds
    <3> QED
      BY <2>2, <2>3, <3>1, <3>2
  <2>5. Live(s) /\ source[s].status = "ready"
    BY <2>4, BecomesReady
  <2> QED
    BY <2>2, <2>5 DEF ReadyInv, Swept, LiveOf
<1> QED
  BY <1>1, <1>2

LEMMA ReadyStep ==
  ASSUME IInv, IndexInv, ReadyInv, [Next]_vars, "ready" \notin OperatorTargets, NEW s \in Sources,
         source'[s].life = "live", source'[s].status = "ready", s \notin disturbed'
  PROVE  PointsOf(s)' = Stamp(ChunksOf(s), source[s].generation)'
<1>1. ASSUME NEW p \in Procs, CommitReady(p), proc[p].source = s
      PROVE  PointsOf(s)' = Stamp(ChunksOf(s), source[s].generation)'
  <2>1. UNCHANGED <<chunks, points>> /\ source'[s].generation = proc[p].job
    BY <1>1 DEF CommitReady, remote, IInv, TypeInv, TypeOK, SourceRows
  <2>2. PointsOf(s) = Stamp(ChunksOf(s), proc[p].job)
    BY <1>1 DEF CommitReady, IndexInv, Projected
  <2> QED
    BY <2>1, <2>2 DEF PointsOf, ChunksOf, Stamp
<1>2. CASE ~Commits(s)
  <2>1. Live(s) /\ source[s].status = "ready" /\ source'[s].generation = source[s].generation
    BY <1>2, BecomesReady
  <2>2. s \notin disturbed
    BY <1>2, DisturbedStays
  <2>3. PointsOf(s) = Stamp(ChunksOf(s), source[s].generation)
    BY <2>1, <2>2 DEF ReadyInv, ReadyIsProjected
  <2>4. ChunksOf(s)' = ChunksOf(s)
    BY <2>1, ChunksStay
  <2>5. ASSUME NEW p \in Procs, Means(p, s)
        PROVE  FALSE
    <3>1. CASE proc[p].pc = "project" /\ proc[p].source = s
      <4>1. /\ proc[p].job \in JobIds
            /\ job[proc[p].job].source = s /\ job[proc[p].job].status = "indexing"
        BY <3>1 DEF IInv, LockInv, Holds, TypeInv, Named
      <4> QED
        BY <2>1, <4>1 DEF IInv, AttemptInv, Shown, Active, Stages, Terminal
    <3>2. CASE proc[p].pc = "orphans" /\ proc[p].owner = OwnerOf[s] /\ s \notin proc[p].ids
      BY <2>1, <3>2 DEF ReadyInv, Swept, LiveOf
    <3> QED
      BY <2>5, <3>1, <3>2 DEF Means
  <2>6. PointsOf(s)' = PointsOf(s)
    BY <2>5, PointsMoved
  <2> QED
    BY <2>1, <2>3, <2>4, <2>6 DEF Stamp
<1> QED
  BY <1>1, <1>2 DEF Commits

(***************************************************************************)
(* Unless a request lands late or an operator declares an attempt ready, a *)
(* ready source is exactly projected, for every number of sources,         *)
(* workers, deletions and rebuilds and through every crash and every lost  *)
(* request: its points are one per canonical chunk, of the generation the  *)
(* source names, unless a deletion took some away and did not commit.      *)
(***************************************************************************)
THEOREM ReadyIsProjectedAlways ==
  ASSUME LateDelivery = FALSE, "ready" \notin OperatorTargets
  PROVE  Spec => []ReadyIsProjected
<1>1. IInv /\ IndexInv /\ ReadyInv /\ [Next]_vars => ReadyInv'
  <2> SUFFICES ASSUME IInv, IndexInv, ReadyInv, [Next]_vars
               PROVE  ReadyInv'
    OBVIOUS
  <2>1. \A q \in Procs : Swept(q)'
    BY SweptStep
  <2>2. ReadyIsProjected'
    BY ReadyStep DEF ReadyIsProjected, Live
  <2> QED
    BY <2>1, <2>2 DEF ReadyInv
<1>2. Init => IInv /\ IndexInv /\ ReadyInv
  BY IInvInit, IndexInvInit, ReadyInvInit
<1>3. IInv /\ IndexInv /\ ReadyInv /\ [Next]_vars => (IInv /\ IndexInv /\ ReadyInv)'
  BY <1>1, IInvStep, IndexInvStep
<1>4. ReadyInv => ReadyIsProjected
  BY DEF ReadyInv
<1> QED
  BY <1>2, <1>3, <1>4, PTL DEF Spec

-----------------------------------------------------------------------------
(* Evidence                                                                *)

(* The generation a source names is an attempt of its own that became      *)
(* ready, and stays so as long as the source is there.                     *)
GenerationInv ==
  \A s \in Sources : source[s].life # "gone" /\ source[s].generation # 0 =>
    job[source[s].generation].source = s /\ job[source[s].generation].status = "ready"

LEMMA GenerationInvInit == Init => GenerationInv
BY DEF Init, GenerationInv

LEMMA GenerationStays ==
  ASSUME IInv, [Next]_vars, NEW s \in Sources, ~Commits(s)
  PROVE  source'[s].generation = source[s].generation
<1>1. source \in [Sources -> SourceRows]
  BY DEF IInv, TypeInv, TypeOK
<1>2. ASSUME OnlyAttempts
      PROVE  source'[s].generation = source[s].generation
  <2>1. ASSUME NEW r, NEW first, OpenJob(r, first)
        PROVE  source'[s].generation = source[s].generation
    BY <1>1, <2>1 DEF OpenJob, SourceRows
  <2>2. ASSUME NEW r, NEW j, NEW to, Transition(r, j, to)
        PROVE  source'[s].generation = source[s].generation
    BY <1>1, <2>2 DEF Transition, SourceRows
  <2> QED
    BY <1>2, <2>1, <2>2 DEF OnlyAttempts
<1>3. ASSUME NEW j \in JobIds, NEW page, NEW gone, StoreDocuments(job[j].source, j, page, gone)
      PROVE  source'[s].generation = source[s].generation
  BY <1>1, <1>3 DEF StoreDocuments, SourceRows
<1>4. ASSUME NEW j \in JobIds, Split(j)
      PROVE  source'[s].generation = source[s].generation
  BY <1>1, <1>4 DEF Split, SourceRows
<1>5. ASSUME NEW p \in Procs, CommitReady(p)
      PROVE  source'[s].generation = source[s].generation
  <2>1. proc[p].source # s
    BY <1>5 DEF Commits
  <2> QED
    BY <1>1, <1>5, <2>1 DEF CommitReady
<1>6. ASSUME NEW p \in Procs, DeleteCommit(p)
      PROVE  source'[s].generation = source[s].generation
  BY <1>1, <1>6 DEF DeleteCommit, SourceRows
<1> QED
  BY <1>2, <1>3, <1>4, <1>5, <1>6, RowWriters

LEMMA GenerationInvStep == IInv /\ GenerationInv /\ [Next]_vars => GenerationInv'
<1> SUFFICES ASSUME IInv, GenerationInv, [Next]_vars, NEW s \in Sources,
                    source'[s].life # "gone", source'[s].generation # 0
             PROVE  /\ job'[source'[s].generation].source = s
                    /\ job'[source'[s].generation].status = "ready"
  BY DEF GenerationInv
<1>1. ASSUME NEW p \in Procs, CommitReady(p), proc[p].source = s
      PROVE  /\ job'[source'[s].generation].source = s
             /\ job'[source'[s].generation].status = "ready"
  <2>1. proc[p].job \in JobIds /\ job[proc[p].job].source = s
    BY <1>1 DEF CommitReady, IInv, LockInv, Holds, TypeInv, Named
  <2>2. source'[s].generation = proc[p].job
    BY <1>1 DEF CommitReady, IInv, TypeInv, TypeOK, SourceRows
  <2>3. job'[proc[p].job].source = s /\ job'[proc[p].job].status = "ready"
    BY <1>1, <2>1 DEF CommitReady, IInv, TypeInv, TypeOK, JobRows
  <2> QED
    BY <2>2, <2>3
<1>2. CASE ~Commits(s)
  <2>1. PICK g \in JobIds : g = source[s].generation /\ g = source'[s].generation
    BY <1>2, GenerationStays, MaxJobsType DEF IInv, TypeInv, TypeOK, SourceRows, JobIds
  <2>2. AttemptStep
    BY AttemptInvStep DEF IInv
  <2>3. ASSUME NEW r \in Sources, NEW first \in {"pending", "indexing"}, Opens(r, first)
        PROVE  job'[g] = job[g] /\ source[s].life # "gone"
    <3>1. opened + 1 \in JobIds /\ opened + 1 > opened /\ source[s].life # "gone"
      BY <2>3, ProjectionAssumption DEF Opens, OpenJob, IInv, TypeInv, TypeOK, JobIds
    <3>2. job[opened + 1].status = "absent"
      BY <3>1 DEF IInv, AttemptInv, Slots
    <3>3. job[g].status = "ready"
      BY <2>1, <3>1 DEF GenerationInv
    <3>4. g # opened + 1
      BY <3>2, <3>3
    <3> QED
      BY <2>1, <2>3, <3>1, <3>4 DEF Opens, OpenJob, IInv, TypeInv, TypeOK
  <2>4. ASSUME NEW j \in JobIds, NEW to \in Stages, Moves(j, to)
        PROVE  job'[g] = job[g] /\ source[s].life # "gone"
    <3>1. source[s].life # "gone"
      BY <2>4 DEF Moves
    <3>2. job[g].status = "ready"
      BY <2>1, <3>1 DEF GenerationInv
    <3>3. g # j
      BY <2>4, <3>2 DEF Moves, Active, Terminal
    <3> QED
      BY <2>4, <3>1, <3>3 DEF Moves, IInv, TypeInv, TypeOK
  <2>5. ASSUME NEW r \in Sources, Drops(r)
        PROVE  job'[g] = job[g] /\ source[s].life # "gone"
    <3>1. r # s /\ source[s].life # "gone"
      BY <2>5 DEF Drops, Live
    <3>2. job[g].source = s
      BY <2>1, <3>1 DEF GenerationInv
    <3> QED
      BY <2>1, <2>5, <3>1, <3>2 DEF Drops
  <2>6. job'[g] = job[g] /\ source[s].life # "gone"
    BY <2>2, <2>3, <2>4, <2>5 DEF AttemptStep, Stays
  <2> QED
    BY <2>1, <2>6 DEF GenerationInv
<1> QED
  BY <1>1, <1>2 DEF Commits

SearchTypes ==
  search \in [Searchers -> [pc : {"idle", "query", "validate", "done"}, owner : Owners \cup {None},
                            hit : Points \cup {None}, answer : Points \cup {None}]]

SearchInv ==
  /\ IInv /\ CanonicalInv /\ GenerationInv
  /\ SearchTypes
  /\ \A q \in Searchers : search[q].pc = "validate" => search[q].hit \in Points

SearchStep == (Next /\ UNCHANGED search) \/ SearchNext

LEMMA SearchInvInit == SearchInit => SearchInv
BY IInvInit, CanonicalInit, GenerationInvInit DEF SearchInit, SearchInv, SearchTypes, NoRequest

LEMMA SearchInvStep == SearchInv /\ [SearchStep]_searchVars => SearchInv'
<1> SUFFICES ASSUME SearchInv, [SearchStep]_searchVars
             PROVE  SearchInv'
  OBVIOUS
<1>1. [Next]_vars
  BY DEF SearchStep, searchVars, SearchNext, SearchStart, SearchQuery, SearchAnswer, SearchEnd
<1>2. IInv' /\ CanonicalInv' /\ GenerationInv'
  BY <1>1, IInvStep, CanonicalStep, GenerationInvStep DEF SearchInv
<1>3. SearchTypes' /\ \A q \in Searchers : search'[q].pc = "validate" => search'[q].hit \in Points
  <2>1. CASE UNCHANGED search
    BY <2>1 DEF SearchInv, SearchTypes
  <2>2. ASSUME NEW q \in Searchers, NEW o \in Owners, SearchStart(q, o)
        PROVE  SearchTypes' /\ \A r \in Searchers : search'[r].pc = "validate" => search'[r].hit \in Points
    <3> DEFINE new == [NoRequest EXCEPT !.pc = "query", !.owner = o]
    <3>1. new \in [pc : {"query"}, owner : Owners, hit : {None}, answer : {None}]
      BY DEF NoRequest
    <3>2. search' = [search EXCEPT ![q] = new]
      BY <2>2 DEF SearchStart
    <3> QED
      BY <3>1, <3>2 DEF SearchInv, SearchTypes
  <2>3. ASSUME NEW q \in Searchers, SearchQuery(q)
        PROVE  SearchTypes' /\ \A r \in Searchers : search'[r].pc = "validate" => search'[r].hit \in Points
    <3>1. PICK hit \in points : search' = [search EXCEPT ![q].pc = "validate", ![q].hit = hit]
      BY <2>3 DEF SearchQuery
    <3>2. hit \in Points
      BY DEF SearchInv, IInv, TypeInv, TypeOK
    <3> QED
      BY <3>1, <3>2 DEF SearchInv, SearchTypes
  <2>4. ASSUME NEW q \in Searchers, SearchAnswer(q)
        PROVE  SearchTypes' /\ \A r \in Searchers : search'[r].pc = "validate" => search'[r].hit \in Points
    <3>1. PICK answer \in Points \cup {None} :
            search' = [search EXCEPT ![q].pc = "done", ![q].answer = answer]
      BY <2>4 DEF SearchAnswer, SearchInv
    <3> QED
      BY <3>1 DEF SearchInv, SearchTypes
  <2>5. ASSUME NEW q \in Searchers, SearchEnd(q)
        PROVE  SearchTypes' /\ \A r \in Searchers : search'[r].pc = "validate" => search'[r].hit \in Points
    BY <2>5 DEF SearchEnd, NoRequest, SearchInv, SearchTypes
  <2> QED
    BY <2>1, <2>2, <2>3, <2>4, <2>5 DEF SearchStep, SearchNext, searchVars
<1> QED
  BY <1>2, <1>3 DEF SearchInv

(* What is answered passed the validation of this very step. *)
LEMMA AnswerIsValid ==
  ASSUME SearchInv, [SearchStep]_searchVars, NEW q \in Searchers, Answers(q), search'[q].answer # None
  PROVE  /\ search'[q].answer \in Points
         /\ Valid(search'[q].answer, search[q].owner)
<1>1. \A r \in Searchers \ {q} :
        (\E o \in Owners : SearchStart(r, o)) \/ SearchQuery(r) \/ SearchAnswer(r) \/ SearchEnd(r)
          => search'[q] = search[q]
  BY DEF SearchStart, SearchQuery, SearchAnswer, SearchEnd, SearchInv, SearchTypes
<1>2. search'[q] # search[q]
  BY DEF Answers
<1>3. ~(\E o \in Owners : SearchStart(q, o)) /\ ~SearchQuery(q) /\ ~SearchEnd(q)
  BY DEF Answers, SearchStart, SearchQuery, SearchEnd, NoRequest, SearchInv, SearchTypes
<1>4. SearchAnswer(q)
  BY <1>1, <1>2, <1>3 DEF SearchStep, SearchNext, searchVars
<1>5. search'[q].answer = IF Valid(search[q].hit, search[q].owner) THEN search[q].hit ELSE None
  BY <1>4 DEF SearchAnswer, SearchInv, SearchTypes
<1> QED
  BY <1>4, <1>5 DEF SearchAnswer, SearchInv

(***************************************************************************)
(* Evidence that is returned is canonical when it is validated: a piece of *)
(* the present revision of a document of the caller, in a source that      *)
(* exists and is ready.  It holds for any number of callers and sources    *)
(* and any content of the index, late, lost and foreign points included.   *)
(***************************************************************************)
THEOREM EvidenceIsCurrentAlways == SearchSpec => EvidenceIsCurrent
<1>1. ASSUME SearchInv, [SearchStep]_searchVars, NEW q \in Searchers, Answers(q),
             search'[q].answer # None, NEW c, c = search'[q].answer.chunk
      PROVE  /\ Live(c.source) /\ OwnerOf[c.source] = search[q].owner
             /\ source[c.source].status = "ready"
             /\ documents[c.source][c.uri].row = c.row
             /\ c.piece \in Pieces[documents[c.source][c.uri].content]
  <2>1. /\ c \in chunks /\ Live(c.source) /\ OwnerOf[c.source] = search[q].owner
        /\ source[c.source].status = "ready" /\ source[c.source].current
    BY <1>1, AnswerIsValid DEF Valid
  <2>2. c.source \in Sources /\ documents[c.source][c.uri].row = c.row
    BY <1>1, <2>1, ChunkHasDocument DEF SearchInv, IInv
  <2>3. PICK u \in DocumentUris(c.source) : c \in SplitOf(c.source, u)
    BY <1>1, <2>1, <2>2 DEF SearchInv, CanonicalInv, ChunksMatchDocuments, ChunksOf
  <2>4. c.uri = u /\ c.piece \in Pieces[documents[c.source][u].content]
    BY <2>3 DEF SplitOf
  <2> QED
    BY <2>1, <2>2, <2>4
<1>2. SearchInv /\ [SearchStep]_searchVars =>
        \A q \in Searchers :
          Answers(q) /\ search'[q].answer # None =>
            LET c == search'[q].answer.chunk
                d == documents[c.source][c.uri]
            IN /\ Live(c.source) /\ OwnerOf[c.source] = search[q].owner
               /\ source[c.source].status = "ready"
               /\ d.row = c.row
               /\ c.piece \in Pieces[d.content]
  BY <1>1
<1> QED
  BY <1>2, SearchInvInit, SearchInvStep, PTL DEF SearchSpec, SearchStep, EvidenceIsCurrent

(***************************************************************************)
(* Evidence that is returned comes from a projection that committed, for   *)
(* any number of attempts and crashes and whatever operators declare: the  *)
(* generation of a source is only ever named by a commit.                  *)
(***************************************************************************)
THEOREM EvidenceIsCommittedAlways == SearchSpec => EvidenceIsCommitted
<1>1. ASSUME SearchInv, [SearchStep]_searchVars, NEW q \in Searchers, Answers(q),
             search'[q].answer # None
      PROVE  job[search'[q].answer.generation].status = "ready"
  <2>1. PICK n \in Points : n = search'[q].answer /\ Valid(n, search[q].owner)
    BY <1>1, AnswerIsValid
  <2>2. /\ n.chunk.source \in Sources /\ Live(n.chunk.source)
        /\ n.generation = source[n.chunk.source].generation /\ n.generation # 0
    BY <2>1, MaxJobsType DEF Valid, Points, ChunkIds, JobIds
  <2> QED
    BY <1>1, <2>1, <2>2 DEF SearchInv, GenerationInv, Live
<1>2. SearchInv /\ [SearchStep]_searchVars =>
        \A q \in Searchers :
          Answers(q) /\ search'[q].answer # None =>
            job[search'[q].answer.generation].status = "ready"
  BY <1>1
<1> QED
  BY <1>2, SearchInvInit, SearchInvStep, PTL DEF SearchSpec, SearchStep, EvidenceIsCommitted
=============================================================================
