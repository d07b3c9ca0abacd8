------------------------ MODULE IngestionJobs_proofs ------------------------
(***************************************************************************)
(* Proofs about ingestion attempts: the contract of JobLifecycle, for      *)
(* every set of sources and number of attempts, and then the rows that     *)
(* implement it, for every number of callers, keys and workers.            *)
(***************************************************************************)
EXTENDS IngestionJobs, TLAPS

-----------------------------------------------------------------------------
(* The contract on attempts: JobLifecycle itself                           *)

(* An unfinished attempt has been opened: slots not yet used are absent.   *)
Slots == \A j \in JobIds : j > opened => attemptStatus[j] = "absent"

Inv == TypeOK /\ Slots /\ OneUnfinished /\ RetiredIsEmpty

LEMMA DownstreamIsStage ==
  ASSUME NEW stage \in Stages
  PROVE  Downstream(stage) \subseteq Stages
BY DEF Downstream, Stages

LEMMA InvInit == Init => Inv
BY LifecycleAssumption
   DEF Init, Inv, TypeOK, Slots, OneUnfinished, RetiredIsEmpty, JobIds, Stages, Active, Terminal

LEMMA InvOpen ==
  ASSUME Inv, NEW s \in Sources, NEW first \in {"pending", "indexing"}, Open(s, first)
  PROVE  Inv'
<1> USE DEF Inv, JobIds
<1>1. opened + 1 \in JobIds /\ first \in Stages
  BY LifecycleAssumption DEF Open, TypeOK, Stages
<1>2. TypeOK'
  BY <1>1 DEF Open, TypeOK
<1>3. Slots'
  BY <1>1 DEF Open, TypeOK, Slots
<1>4. OneUnfinished'
  BY <1>1, SMTT(30) DEF Open, TypeOK, OneUnfinished, Unfinished
<1>5. RetiredIsEmpty'
  BY <1>1 DEF Open, TypeOK, RetiredIsEmpty
<1> QED
  BY <1>2, <1>3, <1>4, <1>5

LEMMA InvMove ==
  ASSUME Inv, NEW j \in JobIds, NEW to \in Stages, Move(j, to)
  PROVE  Inv'
<1> USE DEF Inv
<1>1. TypeOK'
  BY DEF Move, TypeOK
<1>2. Slots'
  BY DEF Move, TypeOK, Slots, Active, Stages
<1>3. OneUnfinished'
  BY DEF Move, TypeOK, OneUnfinished
<1>4. RetiredIsEmpty'
  BY DEF Move, TypeOK, RetiredIsEmpty, Active, Stages
<1> QED
  BY <1>1, <1>2, <1>3, <1>4

LEMMA InvRetire ==
  ASSUME Inv, NEW s \in Sources, Retire(s)
  PROVE  Inv'
<1> USE DEF Inv
<1>1. TypeOK'
  BY DEF Retire, TypeOK
<1>2. Slots'
  BY DEF Retire, TypeOK, Slots
<1>3. OneUnfinished'
  BY DEF Retire, TypeOK, OneUnfinished, Active, Stages
<1>4. RetiredIsEmpty'
  BY DEF Retire, TypeOK, RetiredIsEmpty
<1> QED
  BY <1>1, <1>2, <1>3, <1>4

LEMMA InvStep == Inv /\ [Next]_vars => Inv'
<1> SUFFICES ASSUME Inv, [Next]_vars PROVE Inv'
  OBVIOUS
<1>1. CASE Next
  BY <1>1, InvOpen, InvMove, InvRetire DEF Next
<1>2. CASE UNCHANGED vars
  BY <1>2 DEF vars, Inv, TypeOK, Slots, OneUnfinished, RetiredIsEmpty
<1> QED
  BY <1>1, <1>2

(* A source never has two unfinished attempts, however requests, workers   *)
(* and operators interleave: the contract behind uq_jobs_active_source.    *)
THEOREM OneUnfinishedAlways == Spec => []OneUnfinished
<1>1. Inv => OneUnfinished
  BY DEF Inv
<1> QED
  BY InvInit, InvStep, <1>1, PTL DEF Spec

(* The attempts of a deleted source are gone for good.                     *)
THEOREM RetiredIsEmptyAlways == Spec => []RetiredIsEmpty
<1>1. Inv => RetiredIsEmpty
  BY DEF Inv
<1> QED
  BY InvInit, InvStep, <1>1, PTL DEF Spec

-----------------------------------------------------------------------------
(* The rows of sources and attempts                                        *)

Counter == [found : Nat, processed : Nat, chunks : Nat]
Rows == [documents : Nat, chunks : Nat, current : BOOLEAN]

RowsTypeOK ==
  /\ progress \in [JobIds -> Counter]
  /\ canonical \in [Sources -> Rows]

CallsTypeOK ==
  /\ identity \in [Sources -> [key : Keys \cup {None}, payload : Payloads] \cup {None}]
  /\ callers \in [Callers -> [pc : {"idle", "look", "insert", "lost"},
                              key : Keys \cup {None}, payload : Payloads \cup {None}]]
  /\ answers \subseteq [key : Keys, payload : Payloads, source : Sources, attempt : JobIds]

(* An attempt that is not opened has no source and no progress.            *)
OpenedHaveSources ==
  \A j \in JobIds : IF j > opened THEN attemptOf[j] = None /\ progress[j] = NoProgress
                    ELSE attemptOf[j] \in Sources

-----------------------------------------------------------------------------
(* What workers leave behind                                               *)

(* What the stages of an attempt that no operator wrote say of it.         *)
Orderly(j) ==
  CASE attemptStatus[j] = "pending" -> progress[j] = NoProgress
    [] attemptStatus[j] = "chunking" ->
         progress[j].found = progress[j].processed /\ progress[j].chunks = 0
    [] attemptStatus[j] = "indexing" -> progress[j].found = progress[j].processed
    [] OTHER -> attemptStatus[j] \notin Active

UntouchedAreOrderly ==
  /\ refused \subseteq touched
  /\ touched \subseteq JobIds
  /\ \A j \in JobIds \ touched : Orderly(j)

(* A caller that inserts or lost a race has said what it wants to create.  *)
CallersHavePayloads ==
  \A c \in Callers : callers[c].pc # "idle" => callers[c].payload \in Payloads

-----------------------------------------------------------------------------
(* Keys and the attempts that answer them                                  *)

First(s, j) == j \in AttemptsOf(s) /\ \A k \in AttemptsOf(s) : j <= k

EverySourceHasFirst ==
  \A s \in Sources :
    IF identity[s] = None THEN AttemptsOf(s) = {} ELSE \E j \in JobIds : First(s, j)

KeysAreUnique ==
  \A s, t \in Sources : /\ Live(s) /\ Live(t)
                        /\ identity[s].key = identity[t].key /\ identity[s].key # None
                        => s = t

AnswersAreFirst ==
  \A a \in answers :
    /\ identity[a.source] = [key |-> a.key, payload |-> a.payload]
    /\ First(a.source, a.attempt)

RowsInv ==
  /\ Inv
  /\ RowsTypeOK
  /\ OpenedHaveSources
  /\ UntouchedAreOrderly

CallsInv ==
  /\ CallsTypeOK
  /\ CallersHavePayloads
  /\ EverySourceHasFirst
  /\ KeysAreUnique
  /\ AnswersAreFirst

IInv == RowsInv /\ CallsInv

-----------------------------------------------------------------------------

LEMMA JobsInitInv == JobsInit => IInv
<1> SUFFICES ASSUME JobsInit PROVE IInv
  OBVIOUS
<1> USE LifecycleAssumption, JobsAssumption DEF JobsInit
<1>1. Inv
  BY InvInit
<1>2. RowsTypeOK /\ CallsTypeOK
  BY DEF RowsTypeOK, CallsTypeOK, NoProgress, NoCall, Nothing, Counter, Rows
<1>3. OpenedHaveSources
  BY DEF OpenedHaveSources, Init, JobIds
<1>4. UntouchedAreOrderly
  BY DEF UntouchedAreOrderly, Orderly, Init, Active, Stages, Terminal
<1>5. CallersHavePayloads
  BY DEF CallersHavePayloads, NoCall
<1>6. EverySourceHasFirst
  BY DEF EverySourceHasFirst, AttemptsOf, Init
<1>7. KeysAreUnique /\ AnswersAreFirst
  BY DEF KeysAreUnique, Live, AnswersAreFirst
<1> QED
  BY <1>1, <1>2, <1>3, <1>4, <1>5, <1>6, <1>7 DEF IInv, RowsInv, CallsInv

(* The first attempt of a source is the one CHOOSE finds.                  *)
LEMMA FirstIsOriginal ==
  ASSUME NEW s, NEW j \in JobIds, First(s, j)
  PROVE  OriginalAttempt(s) = j
<1>1. \A k \in AttemptsOf(s) : k \in JobIds
  BY DEF AttemptsOf
<1>2. \A k \in AttemptsOf(s) : (\A m \in AttemptsOf(s) : k <= m) => k = j
  BY <1>1, LifecycleAssumption DEF First, JobIds
<1> QED
  BY <1>2 DEF OriginalAttempt, First

-----------------------------------------------------------------------------
(* The rows, one kind of step at a time                                    *)

(* A step of requests, workers or operators is one of the contract.        *)
LEMMA OpenKeepsRows ==
  ASSUME RowsInv, NEW s \in Sources, Open(s, "pending"),
         UNCHANGED <<canonical, progress, touched, refused>>
  PROVE  RowsInv'
<1> USE LifecycleAssumption DEF RowsInv
<1>1. Inv'
  BY InvOpen
<1>2. RowsTypeOK'
  BY DEF RowsTypeOK
<1>3. opened + 1 \in JobIds /\ opened \in Nat
  BY DEF Open, Inv, TypeOK, JobIds
<1>4. OpenedHaveSources'
  BY <1>3 DEF OpenedHaveSources, Open, Inv, TypeOK, JobIds
<1>5. UntouchedAreOrderly'
  BY <1>3 DEF UntouchedAreOrderly, Orderly, OpenedHaveSources, Open, Inv, TypeOK, JobIds
<1> QED
  BY <1>1, <1>2, <1>4, <1>5

LEMMA ReindexKeepsRows ==
  ASSUME RowsInv, NEW s \in Sources, Reindex(s)
  PROVE  RowsInv'
<1> USE LifecycleAssumption DEF RowsInv
<1>1. Open(s, "indexing")
  BY DEF Reindex
<1>2. Inv'
  BY <1>1, InvOpen
<1>3. opened + 1 \in JobIds /\ opened \in Nat
  BY <1>1 DEF Open, Inv, TypeOK, JobIds
<1>4. /\ Replayed(canonical[s]) \in Counter
      /\ Replayed(canonical[s]).found = Replayed(canonical[s]).processed
  BY DEF RowsTypeOK, Rows, Replayed, Counter
<1>5. progress' = [progress EXCEPT ![opened + 1] = Replayed(canonical[s])]
  BY DEF Reindex
<1>6. RowsTypeOK'
  BY <1>3, <1>4, <1>5 DEF RowsTypeOK, Reindex
<1>7. OpenedHaveSources'
  BY <1>1, <1>3, <1>5 DEF OpenedHaveSources, Open, Inv, TypeOK, JobIds
<1>8. UNCHANGED <<touched, refused>>
  BY DEF Reindex, history
<1>9. UntouchedAreOrderly'
  BY <1>1, <1>3, <1>4, <1>5, <1>8
     DEF UntouchedAreOrderly, Orderly, Open, Inv, TypeOK, JobIds, RowsTypeOK
<1> QED
  BY <1>2, <1>6, <1>7, <1>9

LEMMA DeleteKeepsRows ==
  ASSUME RowsInv, NEW s \in Sources, Delete(s)
  PROVE  RowsInv'
<1> USE DEF RowsInv
<1>1. Retire(s) /\ UNCHANGED <<progress, touched, refused>>
  BY DEF Delete, history
<1>2. Inv'
  BY <1>1, InvRetire
<1>3. RowsTypeOK'
  BY <1>1 DEF Delete, RowsTypeOK, Nothing, Rows
<1>4. OpenedHaveSources'
  BY <1>1 DEF Retire, OpenedHaveSources
<1>5. UntouchedAreOrderly'
  BY <1>1 DEF Retire, UntouchedAreOrderly, Orderly, Inv, TypeOK, Active, Stages
<1> QED
  BY <1>2, <1>3, <1>4, <1>5

LEMMA UnchangedKeepsRows ==
  ASSUME RowsInv, UNCHANGED <<vars, canonical, progress, touched, refused>>
  PROVE  RowsInv'
BY DEF RowsInv, vars, Inv, TypeOK, Slots, OneUnfinished, RetiredIsEmpty, RowsTypeOK,
       OpenedHaveSources, UntouchedAreOrderly, Orderly

(* An attempt is written by whoever moves it, or stays in its stage.       *)
LEMMA WriteRefines ==
  ASSUME RowsInv, NEW j \in JobIds, NEW next, attemptStatus[j] \in Active,
         NEW to \in Downstream(attemptStatus[j]) \cup {attemptStatus[j]}, Write(j, to, next)
  PROVE  [Next]_vars /\ attemptOf[j] \in Sources /\ j <= opened
<1> USE DEF RowsInv
<1>1. j <= opened /\ attemptOf[j] \in Sources
  BY LifecycleAssumption DEF Inv, Slots, OpenedHaveSources, Active, Stages, JobIds, TypeOK
<1>2. CASE to = attemptStatus[j]
  BY <1>1, <1>2 DEF Write, vars, Inv, TypeOK
<1>3. CASE to \in Downstream(attemptStatus[j])
  <2>1. to \in Stages
    BY <1>3, DownstreamIsStage DEF Active
  <2> QED
    BY <1>1, <1>3, <2>1 DEF Write, Move, Next
<1> QED
  BY <1>1, <1>2, <1>3

LEMMA WriteKeepsRows ==
  ASSUME RowsInv, NEW j \in JobIds, NEW next \in Counter, attemptStatus[j] \in Active,
         NEW to \in Downstream(attemptStatus[j]) \cup {attemptStatus[j]}, Write(j, to, next),
         RowsTypeOK', refused' \subseteq touched', touched' \in {touched, touched \cup {j}},
         j \notin touched' =>
           /\ to \in {"chunking", "indexing", "ready", "failed"}
           /\ to \in {"chunking", "indexing"} => next.found = next.processed
           /\ to = "chunking" => next.chunks = 0
  PROVE  RowsInv'
<1> USE DEF RowsInv
<1>1. [Next]_vars /\ attemptOf[j] \in Sources /\ j <= opened
  BY WriteRefines
<1>2. Inv'
  BY <1>1, InvStep
<1>3. OpenedHaveSources'
  BY <1>1 DEF Write, OpenedHaveSources, RowsTypeOK, Inv, TypeOK, JobIds
<1>4. ASSUME NEW k \in JobIds \ touched'
      PROVE  Orderly(k)'
  <2>1. CASE k = j
    BY <1>4, <2>1 DEF Write, Orderly, RowsTypeOK, Inv, TypeOK, Active, Terminal
  <2>2. CASE k # j
    BY <1>4, <2>2 DEF Write, Orderly, UntouchedAreOrderly, RowsTypeOK, Inv, TypeOK
  <2> QED
    BY <2>1, <2>2
<1>5. UntouchedAreOrderly'
  BY <1>4 DEF UntouchedAreOrderly
<1> QED
  BY <1>2, <1>3, <1>5

LEMMA MayMoveDownstream ==
  ASSUME NEW kind, NEW from, NEW to, MayMove(kind, from, to)
  PROVE  from \in Active /\ to \in Downstream(from) \cup {from}
BY DEF MayMove, NextStage, Downstream, Active, Stages, Terminal

LEMMA OperateKeepsRows ==
  ASSUME RowsInv, NEW j \in JobIds, NEW to \in Stages, NEW next \in Counters,
         Operate(j, to, next)
  PROVE  RowsInv' /\ [Next]_vars
<1> USE DEF RowsInv
<1>1. next \in Counter
  BY JobsAssumption DEF Counters, Counter
<1>2. attemptStatus[j] \in Active /\ to \in Downstream(attemptStatus[j]) \cup {attemptStatus[j]}
  BY MayMoveDownstream DEF Operate, Accepts
<1>3. Write(j, to, next) /\ touched' = touched \cup {j} /\ UNCHANGED <<canonical, refused>>
  BY DEF Operate
<1>4. RowsTypeOK'
  BY <1>1, <1>3 DEF RowsTypeOK, Write
<1>5. refused' \subseteq touched'
  BY <1>3 DEF UntouchedAreOrderly
<1>6. RowsInv'
  BY <1>1, <1>2, <1>3, <1>4, <1>5, WriteKeepsRows
<1> QED
  BY <1>2, <1>3, <1>6, WriteRefines

(* What is asked of the counters a worker writes.                          *)
Acceptable(j, to, next) ==
  /\ next \in Counter
  /\ j \notin touched =>
       /\ MayCount(progress[j], next)
       /\ to \in {"chunking", "indexing", "ready"} => next.processed = next.found
       /\ to = "chunking" => next.chunks = 0

LEMMA WorkKeepsRows ==
  ASSUME RowsInv, NEW j \in JobIds, attemptStatus[j] \in Active, NEW next, NEW rows \in Rows,
         NEW to \in Downstream(attemptStatus[j]),
         to \in {"chunking", "indexing", "ready", "failed"},
         Acceptable(j, to, next), Work(j, to, next, rows)
  PROVE  RowsInv' /\ [Next]_vars
<1> USE DEF RowsInv
<1>1. CASE Write(j, to, next)
           /\ canonical' = [canonical EXCEPT ![attemptOf[j]] = rows] /\ UNCHANGED refused
  <2>1. touched' = touched
    BY DEF Work
  <2>2. RowsTypeOK'
    BY <1>1 DEF RowsTypeOK, Write, Acceptable
  <2>3. refused' \subseteq touched'
    BY <1>1, <2>1 DEF UntouchedAreOrderly
  <2>4. RowsInv'
    BY <1>1, <2>1, <2>2, <2>3, WriteKeepsRows DEF Acceptable
  <2> QED
    BY <1>1, <2>4, WriteRefines
<1>2. CASE /\ j \in touched /\ refused' = refused \cup {j}
           /\ UNCHANGED <<vars, progress, canonical, touched>>
  <2>1. UntouchedAreOrderly'
    BY <1>2 DEF UntouchedAreOrderly, Orderly, vars
  <2>2. RowsTypeOK' /\ OpenedHaveSources'
    BY <1>2 DEF RowsTypeOK, OpenedHaveSources, vars
  <2> QED
    BY <1>2, <2>1, <2>2, InvStep
<1>3. CASE j \notin touched /\ ~(MayCount(progress[j], next)
                               /\ (to = "ready" => next.processed = next.found))
  BY <1>3 DEF Acceptable
<1> QED
  BY <1>1, <1>2, <1>3 DEF Work

(* The counters a parser writes when it starts from none.                  *)
LEMMA FirstCount ==
  ASSUME NEW next \in Counter, next.processed <= next.found
  PROVE  MayCount(NoProgress, next)
<1>1. DOMAIN NoProgress = {"found", "processed", "chunks"}
  BY DEF NoProgress
<1> QED
  BY <1>1 DEF MayCount, NoProgress, Counter

LEMMA ParseTextKeepsRows ==
  ASSUME RowsInv, NEW j \in JobIds, attemptOf[j] \in Sources,
         attemptStatus[j] \in {"pending", "parsing"}, ParseText(j)
  PROVE  RowsInv' /\ [Next]_vars
<1> USE DEF RowsInv
<1> DEFINE p == [progress[j] EXCEPT !.found = 1]
           done == [p EXCEPT !.processed = 1]
           rows == canonical[attemptOf[j]]
           new == [rows EXCEPT !.documents = 1, !.current = FALSE]
<1>1. attemptStatus[j] \in Active /\ {"failed", "chunking"} \subseteq Downstream(attemptStatus[j])
  BY DEF Active, Stages, Terminal, Downstream
<1>2. rows \in Rows /\ new \in Rows
  BY DEF RowsTypeOK, Rows
<1>3. j \notin touched => progress[j] = NoProgress
  BY DEF UntouchedAreOrderly, Orderly, Active, Stages, Terminal
<1>4. Acceptable(j, "failed", p) /\ Acceptable(j, "chunking", done)
  <2>1. p \in Counter /\ done \in Counter
    BY DEF RowsTypeOK, Counter
  <2>2. j \notin touched => progress[j].processed = 0 /\ progress[j].chunks = 0
    BY <1>3 DEF NoProgress
  <2>3. /\ j \notin touched => p.processed <= p.found /\ done.processed <= done.found
        /\ j \notin touched => done.processed = done.found /\ done.chunks = 0
    BY <2>2 DEF RowsTypeOK, Counter
  <2> HIDE DEF p, done
  <2>4. j \notin touched => MayCount(progress[j], p) /\ MayCount(progress[j], done)
    BY <1>3, <2>1, <2>3, FirstCount
  <2> QED
    BY <2>1, <2>3, <2>4 DEF Acceptable
<1>5. \/ Work(j, "failed", p, rows) \/ Work(j, "chunking", done, new)
      \/ Work(j, "chunking", done, rows)
  BY DEF ParseText
<1> HIDE DEF p, done, rows, new
<1>6. ASSUME NEW to \in {"failed", "chunking"}, NEW next, NEW r \in Rows,
             Acceptable(j, to, next), Work(j, to, next, r)
      PROVE  RowsInv' /\ [Next]_vars
  BY <1>1, <1>6, WorkKeepsRows
<1> QED
  BY <1>2, <1>4, <1>5, <1>6

LEMMA CrawlWebsiteKeepsRows ==
  ASSUME RowsInv, NEW j \in JobIds, attemptOf[j] \in Sources,
         attemptStatus[j] \in {"pending", "fetching"}, CrawlWebsite(j)
  PROVE  RowsInv' /\ [Next]_vars
<1> USE DEF RowsInv
<1> DEFINE rows == canonical[attemptOf[j]]
<1>1. attemptStatus[j] \in Active /\ {"failed", "chunking"} \subseteq Downstream(attemptStatus[j])
  BY DEF Active, Stages, Terminal, Downstream
<1>2. rows \in Rows /\ progress[j] \in Counter
  BY DEF RowsTypeOK
<1>3. j \notin touched => progress[j] = NoProgress
  BY DEF UntouchedAreOrderly, Orderly, Active, Stages, Terminal
<1>4. CASE Work(j, "failed", progress[j], rows)
  <2>1. Acceptable(j, "failed", progress[j])
    BY <1>2, <1>3 DEF Acceptable, MayCount, NoProgress
  <2> QED
    BY <1>1, <1>2, <1>4, <2>1, WorkKeepsRows
<1>5. ASSUME NEW n \in 1..MaxPages, NEW all \in n..MaxPages,
             Work(j, "chunking", [progress[j] EXCEPT !.found = n, !.processed = n],
                  [rows EXCEPT !.documents = all, !.current = FALSE])
      PROVE  RowsInv' /\ [Next]_vars
  <2> DEFINE next == [progress[j] EXCEPT !.found = n, !.processed = n]
  <2>1. Acceptable(j, "chunking", next)
    <3>1. n \in Nat
      BY JobsAssumption
    <3>2. next \in Counter
      BY <1>2, <3>1 DEF Counter
    <3>3. next.processed = n /\ next.found = n /\ next.chunks = progress[j].chunks
      BY <1>2 DEF Counter
    <3> HIDE DEF next
    <3>4. j \notin touched => MayCount(progress[j], next)
      BY <1>3, <3>1, <3>2, <3>3, FirstCount
    <3>5. j \notin touched => next.chunks = 0
      BY <1>3, <3>3 DEF NoProgress
    <3> QED
      BY <3>2, <3>3, <3>4, <3>5 DEF Acceptable
  <2>2. [rows EXCEPT !.documents = all, !.current = FALSE] \in Rows
    <3>1. all \in Nat
      BY JobsAssumption
    <3> QED
      BY <1>2, <3>1 DEF Rows
  <2> HIDE DEF next
  <2> QED
    BY <1>1, <1>5, <2>1, <2>2, WorkKeepsRows DEF next
<1> QED
  BY <1>4, <1>5 DEF CrawlWebsite

LEMMA ParseKeepsRows ==
  ASSUME RowsInv, NEW w \in Workers, Parse(w)
  PROVE  RowsInv' /\ [Next]_vars
<1> DEFINE s == claims[w]
           mine == {j \in AttemptsOf(s) : attemptStatus[j] \in ParseStates(Kind[s])}
<1>1. CASE mine = {}
  <2>1. UNCHANGED <<vars, canonical, progress, touched, refused>>
    BY <1>1 DEF Parse, history
  <2> QED
    BY <2>1, UnchangedKeepsRows
<1>2. CASE mine # {}
  <2>1. PICK j \in mine : IF Kind[s] = "url" THEN CrawlWebsite(j) ELSE ParseText(j)
    BY <1>2 DEF Parse
  <2>2. j \in JobIds /\ attemptOf[j] = s /\ attemptStatus[j] \in ParseStates(Kind[s])
    BY DEF AttemptsOf
  <2>3. s \in Sources
    <3>1. attemptOf[j] \in Sources \cup {None} /\ s # None
      BY <2>2 DEF Parse, RowsInv, Inv, TypeOK
    <3> QED
      BY <2>2, <3>1
  <2>4. CASE Kind[s] = "url"
    BY <2>1, <2>2, <2>3, <2>4, CrawlWebsiteKeepsRows DEF ParseStates
  <2>5. CASE Kind[s] # "url"
    BY <2>1, <2>2, <2>3, <2>5, ParseTextKeepsRows DEF ParseStates
  <2> QED
    BY <2>4, <2>5
<1> QED
  BY <1>1, <1>2

LEMMA ChunkKeepsRows ==
  ASSUME RowsInv, NEW j \in JobIds, Chunk(j)
  PROVE  RowsInv' /\ [Next]_vars
<1> USE DEF RowsInv
<1> DEFINE rows == canonical[attemptOf[j]]
<1>1. /\ attemptStatus[j] = "chunking" /\ attemptStatus[j] \in Active
      /\ {"failed", "indexing"} \subseteq Downstream(attemptStatus[j])
  BY DEF Chunk, Active, Stages, Terminal, Downstream
<1>2. attemptOf[j] \in Sources
  BY <1>1 DEF OpenedHaveSources, Inv, Slots
<1>3. rows \in Rows /\ progress[j] \in Counter
  BY <1>2 DEF RowsTypeOK
<1>4. j \notin touched => progress[j].found = progress[j].processed /\ progress[j].chunks = 0
  BY <1>1 DEF UntouchedAreOrderly, Orderly
<1>5. CASE Work(j, "failed", progress[j], rows)
  <2>1. Acceptable(j, "failed", progress[j])
    BY <1>3, <1>4 DEF Acceptable, MayCount, Counter
  <2> QED
    BY <1>1, <1>3, <1>5, <2>1, WorkKeepsRows
<1>6. ASSUME NEW total \in rows.documents..MaxChunks, rows.documents > 0,
             Work(j, "indexing", [progress[j] EXCEPT !.chunks = total],
                  [rows EXCEPT !.chunks = total, !.current = TRUE])
      PROVE  RowsInv' /\ [Next]_vars
  <2> DEFINE next == [progress[j] EXCEPT !.chunks = total]
  <2>1. total \in Nat
    BY <1>3, JobsAssumption DEF Rows
  <2>2. Acceptable(j, "indexing", next)
    BY <1>3, <1>4, <2>1 DEF Acceptable, MayCount, Counter
  <2>3. [rows EXCEPT !.chunks = total, !.current = TRUE] \in Rows
    BY <1>3, <2>1 DEF Rows
  <2> HIDE DEF next
  <2> QED
    BY <1>1, <1>6, <2>2, <2>3, WorkKeepsRows DEF next
<1> QED
  BY <1>5, <1>6 DEF Chunk

LEMMA IndexKeepsRows ==
  ASSUME RowsInv, NEW j \in JobIds, Index(j)
  PROVE  RowsInv' /\ [Next]_vars
<1> USE DEF RowsInv
<1> DEFINE rows == canonical[attemptOf[j]]
<1>1. /\ attemptStatus[j] = "indexing" /\ attemptStatus[j] \in Active
      /\ {"failed", "ready"} \subseteq Downstream(attemptStatus[j])
  BY DEF Index, Active, Stages, Terminal, Downstream
<1>2. attemptOf[j] \in Sources
  BY <1>1 DEF OpenedHaveSources, Inv, Slots
<1>3. rows \in Rows /\ progress[j] \in Counter
  BY <1>2 DEF RowsTypeOK
<1>4. j \notin touched => progress[j].found = progress[j].processed
  BY <1>1 DEF UntouchedAreOrderly, Orderly
<1>5. ASSUME NEW to \in {"failed", "ready"} PROVE Acceptable(j, to, progress[j])
  BY <1>3, <1>4, <1>5 DEF Acceptable, MayCount, Counter
<1>6. PICK to \in {"failed", "ready"} : Work(j, to, progress[j], rows)
  BY DEF Index
<1> QED
  BY <1>1, <1>3, <1>5, <1>6, WorkKeepsRows

-----------------------------------------------------------------------------
(* Callers and what they are answered                                      *)

(* Opening an attempt leaves the first one of every source the first.      *)
LEMMA OpenKeepsFirst ==
  ASSUME RowsInv, NEW s \in Sources, NEW first, Open(s, first),
         NEW t \in Sources, NEW j \in JobIds, First(t, j)
  PROVE  First(t, j)'
<1>1. opened \in Nat /\ opened + 1 \in JobIds
  BY LifecycleAssumption DEF Open, RowsInv, Inv, TypeOK, JobIds
<1>2. attemptOf[j] = t /\ \A k \in JobIds : attemptOf[k] = t => j <= k
  BY DEF First, AttemptsOf
<1>3. j <= opened
  BY <1>1, <1>2, LifecycleAssumption DEF RowsInv, OpenedHaveSources, JobIds
<1>4. attemptOf' = [attemptOf EXCEPT ![opened + 1] = s] /\ attemptOf \in [JobIds -> Sources \cup {None}]
  BY DEF Open, RowsInv, Inv, TypeOK
<1>5. attemptOf'[j] = t
  BY <1>1, <1>2, <1>3, <1>4 DEF JobIds
<1>6. ASSUME NEW k \in JobIds, attemptOf'[k] = t PROVE j <= k
  BY <1>1, <1>2, <1>3, <1>4, <1>6 DEF JobIds
<1> QED
  BY <1>5, <1>6 DEF First, AttemptsOf

LEMMA AnswersTyped ==
  ASSUME CallsTypeOK, NEW a \in answers
  PROVE  a.source \in Sources /\ a.attempt \in JobIds /\ a.key # None
BY JobsAssumption DEF CallsTypeOK

(* Answers stay true while identities stay and first attempts remain so.   *)
LEMMA AnswersStay ==
  ASSUME CallsTypeOK, AnswersAreFirst,
         \A t \in Sources : identity[t] # None => identity'[t] = identity[t],
         \A t \in Sources, j \in JobIds : First(t, j) => First(t, j)'
  PROVE  \A a \in answers : /\ identity'[a.source] = [key |-> a.key, payload |-> a.payload]
                            /\ First(a.source, a.attempt)'
<1> SUFFICES ASSUME NEW a \in answers
             PROVE  /\ identity'[a.source] = [key |-> a.key, payload |-> a.payload]
                    /\ First(a.source, a.attempt)'
  OBVIOUS
<1>1. identity[a.source] = [key |-> a.key, payload |-> a.payload] /\ First(a.source, a.attempt)
  BY DEF AnswersAreFirst
<1>2. a.source \in Sources /\ a.attempt \in JobIds
  BY AnswersTyped
<1>3. identity[a.source] # None
  <2>1. a.key \in Keys /\ a.payload \in Payloads
    BY DEF CallsTypeOK
  <2> QED
    BY <1>1, <2>1, JobsAssumption
<1> QED
  BY <1>1, <1>2, <1>3

(* Neither rows of sources nor attempts are added.                         *)
LEMMA RowsKeptKeepCalls ==
  ASSUME CallsInv, UNCHANGED <<attemptOf, identity, answers>>, retired \subseteq retired',
         CallsTypeOK', CallersHavePayloads'
  PROVE  CallsInv'
<1> USE DEF CallsInv
<1>1. \A s \in Sources : AttemptsOf(s)' = AttemptsOf(s)
  BY DEF AttemptsOf
<1>2. EverySourceHasFirst'
  BY <1>1 DEF EverySourceHasFirst, First
<1>3. KeysAreUnique'
  BY DEF KeysAreUnique, Live
<1>4. \A t \in Sources, j \in JobIds : First(t, j) => First(t, j)'
  BY <1>1 DEF First
<1>5. AnswersAreFirst'
  BY <1>4, AnswersStay DEF AnswersAreFirst
<1> QED
  BY <1>2, <1>3, <1>5

LEMMA OthersKeepCalls ==
  ASSUME CallsInv, UNCHANGED <<attemptOf, identity, callers, answers>>, retired \subseteq retired'
  PROVE  CallsInv'
<1>1. CallsTypeOK' /\ CallersHavePayloads'
  BY DEF CallsInv, CallsTypeOK, CallersHavePayloads
<1> QED
  BY <1>1, RowsKeptKeepCalls

LEMMA CallKeepsCalls ==
  ASSUME CallsInv, NEW c \in Callers, NEW key \in Keys \cup {None}, NEW payload \in Payloads,
         Call(c, key, payload)
  PROVE  CallsInv'
<1>1. CallsTypeOK' /\ CallersHavePayloads'
  BY DEF CallsInv, CallsTypeOK, CallersHavePayloads, Call, history, vars
<1> QED
  BY <1>1, RowsKeptKeepCalls DEF Call, history, vars

(* Another attempt of a source that has one.                               *)
LEMMA ReopenKeepsCalls ==
  ASSUME RowsInv, CallsInv, NEW s \in Sources, identity[s] # None, NEW first, Open(s, first),
         UNCHANGED <<identity, callers, answers>>
  PROVE  CallsInv'
<1> USE DEF CallsInv
<1>1. CallsTypeOK' /\ CallersHavePayloads'
  BY DEF CallsTypeOK, CallersHavePayloads
<1>2. \A t \in Sources, j \in JobIds : First(t, j) => First(t, j)'
  BY OpenKeepsFirst
<1>3. ASSUME NEW t \in Sources, identity[t] = None
      PROVE  AttemptsOf(t)' = {}
  BY <1>3 DEF Open, EverySourceHasFirst, AttemptsOf, RowsInv, Inv, TypeOK
<1>4. EverySourceHasFirst'
  BY <1>2, <1>3 DEF EverySourceHasFirst
<1>5. KeysAreUnique'
  BY DEF KeysAreUnique, Live, Open
<1>6. AnswersAreFirst'
  BY <1>2, AnswersStay DEF AnswersAreFirst
<1> QED
  BY <1>1, <1>4, <1>5, <1>6

(* A repeated request is answered with the attempt opened first.           *)
LEMMA ReplayKeepsCalls ==
  ASSUME CallsInv, NEW c \in Callers, Replay(c)
  PROVE  CallsInv'
<1> USE DEF CallsInv
<1> DEFINE call == callers[c]
<1>1. UNCHANGED <<attemptOf, identity, retired>>
  BY DEF Replay, vars
<1>2. call.pc \in {"look", "lost"} /\ call.payload \in Payloads
  BY DEF Replay, CallersHavePayloads
<1>3. CASE \E s \in Holding(call.key) : identity[s].payload = call.payload
  <2>1. PICK s \in Holding(call.key) :
               identity[s].payload = call.payload /\ Answered(c, s, OriginalAttempt(s))
    <3>1. PICK s \in Holding(call.key) : Answered(c, s, OriginalAttempt(s))
      BY <1>3, Zenon DEF Replay
    <3>2. \A t \in Holding(call.key) : t = s
      BY DEF Holding, KeysAreUnique
    <3> QED
      BY <1>3, <3>1, <3>2
  <2>2. s \in Sources /\ identity[s] # None /\ call.key # None /\ identity[s].key = call.key
    BY DEF Holding, Live
  <2>3. PICK j \in JobIds : First(s, j)
    BY <2>2 DEF EverySourceHasFirst
  <2>4. OriginalAttempt(s) = j
    BY <2>3, FirstIsOriginal
  <2>5. call.key \in Keys
    BY <2>2 DEF CallsTypeOK
  <2>12. PICK a : a = [key |-> call.key, payload |-> call.payload, source |-> s, attempt |-> j]
    OBVIOUS
  <2>6. callers' = [callers EXCEPT ![c] = NoCall] /\ answers' = answers \cup {a}
    BY <2>1, <2>2, <2>4, <2>12 DEF Answered
  <2>7. identity[s] = [key |-> a.key, payload |-> a.payload]
    BY <2>1, <2>2, <2>12 DEF CallsTypeOK
  <2>8. CallsTypeOK' /\ CallersHavePayloads'
    BY <1>1, <1>2, <2>2, <2>5, <2>6, <2>12 DEF CallsTypeOK, CallersHavePayloads, NoCall
  <2>9. \A t \in Sources : AttemptsOf(t)' = AttemptsOf(t)
    BY <1>1 DEF AttemptsOf
  <2>10. EverySourceHasFirst' /\ KeysAreUnique'
    BY <1>1, <2>9 DEF EverySourceHasFirst, First, KeysAreUnique, Live
  <2>11. AnswersAreFirst'
    <3>1. \A t \in Sources, k \in JobIds : First(t, k) => First(t, k)'
      BY <2>9 DEF First
    <3>2. \A b \in answers : /\ identity'[b.source] = [key |-> b.key, payload |-> b.payload]
                             /\ First(b.source, b.attempt)'
      BY <1>1, <3>1, AnswersStay
    <3>3. identity'[a.source] = [key |-> a.key, payload |-> a.payload] /\ First(a.source, a.attempt)'
      BY <1>1, <2>2, <2>3, <2>7, <2>12, <3>1
    <3> QED
      BY <2>6, <3>2, <3>3 DEF AnswersAreFirst
  <2> QED
    BY <2>8, <2>10, <2>11
<1>4. CASE ~\E s \in Holding(call.key) : identity[s].payload = call.payload
  <2>1. /\ answers' = answers
        /\ callers' = [callers EXCEPT ![c] =
               IF Holding(call.key) = {} /\ call.pc = "look"
               THEN [call EXCEPT !.pc = "insert"] ELSE NoCall]
    BY <1>4 DEF Replay
  <2>2. CallsTypeOK' /\ CallersHavePayloads'
    BY <1>1, <1>2, <2>1 DEF CallsTypeOK, CallersHavePayloads, NoCall
  <2> QED
    BY <1>1, <2>1, <2>2, RowsKeptKeepCalls
<1> QED
  BY <1>3, <1>4

(* A new source has one attempt, the one its creation is answered with.    *)
LEMMA InsertKeepsCalls ==
  ASSUME RowsInv, CallsInv, NEW c \in Callers, Insert(c)
  PROVE  CallsInv'
<1> USE DEF CallsInv
<1> DEFINE call == callers[c]
<1>1. call.pc = "insert" /\ call.payload \in Payloads
  BY DEF Insert, CallersHavePayloads
<1>2. CASE Holding(call.key) # {}
  <2>1. callers' = [callers EXCEPT ![c].pc = "lost"] /\ UNCHANGED <<vars, identity, answers>>
    BY <1>2 DEF Insert
  <2>2. CallsTypeOK' /\ CallersHavePayloads'
    BY <1>1, <2>1 DEF CallsTypeOK, CallersHavePayloads
  <2> QED
    BY <2>1, <2>2, RowsKeptKeepCalls DEF vars
<1>3. CASE Holding(call.key) = {}
  <2>1. PICK s \in Sources :
          /\ identity[s] = None
          /\ Open(s, "pending")
          /\ identity' = [identity EXCEPT ![s] = [key |-> call.key, payload |-> call.payload]]
          /\ Answered(c, s, opened + 1)
    BY <1>3 DEF Insert
  <2>2. opened \in Nat /\ opened + 1 \in JobIds
    BY <2>1, LifecycleAssumption DEF Open, RowsInv, Inv, TypeOK, JobIds
  <2>10. PICK n \in JobIds : n = opened + 1
    BY <2>2
  <2>3. First(s, n)'
    <3>1. \A k \in JobIds : attemptOf[k] # s
      BY <2>1 DEF EverySourceHasFirst, AttemptsOf
    <3>2. \A k \in JobIds : attemptOf'[k] = s <=> k = n
      BY <2>1, <2>2, <2>10, <3>1 DEF Open, RowsInv, Inv, TypeOK
    <3> QED
      BY <3>2 DEF First, AttemptsOf, JobIds
  <2>4. \A t \in Sources, j \in JobIds : First(t, j) => First(t, j)'
    BY <2>1, OpenKeepsFirst
  <2>11. PICK a : a = [key |-> call.key, payload |-> call.payload, source |-> s, attempt |-> n]
    OBVIOUS
  <2>5. /\ callers' = [callers EXCEPT ![c] = NoCall]
        /\ answers' = IF call.key = None THEN answers ELSE answers \cup {a}
    BY <2>1, <2>10, <2>11 DEF Answered
  <2>6. CallsTypeOK' /\ CallersHavePayloads'
    BY <1>1, <2>1, <2>5, <2>11 DEF CallsTypeOK, CallersHavePayloads, NoCall
  <2>7. EverySourceHasFirst'
    <3>1. ASSUME NEW t \in Sources, t # s, identity[t] = None
          PROVE  AttemptsOf(t)' = {}
      BY <2>1, <2>2, <3>1 DEF Open, EverySourceHasFirst, AttemptsOf, RowsInv, Inv, TypeOK
    <3>2. identity'[s] # None
      <4>1. identity'[s] = [key |-> call.key, payload |-> call.payload]
        BY <2>1 DEF CallsTypeOK
      <4>2. call.key \in Keys \cup {None}
        BY DEF CallsTypeOK
      <4> QED
        BY <1>1, <4>1, <4>2, JobsAssumption
    <3>3. \A t \in Sources \ {s} : identity'[t] = identity[t]
      BY <2>1 DEF CallsTypeOK
    <3>4. ASSUME NEW t \in Sources, t # s, identity[t] # None
          PROVE  \E j \in JobIds : First(t, j)'
      BY <2>4, <3>4 DEF EverySourceHasFirst
    <3> QED
      BY <2>3, <3>1, <3>2, <3>3, <3>4 DEF EverySourceHasFirst
  <2>8. KeysAreUnique'
    <3>1. \A t \in Sources : Live(t) /\ identity[t].key = call.key => call.key = None
      BY <1>3 DEF Holding
    <3>2. retired' = retired
      BY <2>1 DEF Open
    <3>3. identity'[s].key = call.key /\ \A t \in Sources \ {s} : identity'[t] = identity[t]
      BY <2>1 DEF CallsTypeOK
    <3> QED
      BY <3>1, <3>2, <3>3 DEF KeysAreUnique, Live
  <2>9. AnswersAreFirst'
    <3>1. \A t \in Sources : identity[t] # None => identity'[t] = identity[t]
      BY <2>1 DEF CallsTypeOK
    <3>2. \A b \in answers : /\ identity'[b.source] = [key |-> b.key, payload |-> b.payload]
                             /\ First(b.source, b.attempt)'
      BY <2>4, <3>1, AnswersStay
    <3>3. identity'[a.source] = [key |-> a.key, payload |-> a.payload] /\ First(a.source, a.attempt)'
      BY <2>1, <2>3, <2>11 DEF CallsTypeOK
    <3> QED
      BY <2>5, <3>2, <3>3 DEF AnswersAreFirst
  <2> QED
    BY <2>6, <2>7, <2>8, <2>9
<1> QED
  BY <1>2, <1>3

-----------------------------------------------------------------------------
(* Every step                                                              *)

(* What each step makes of the rows and of the contract, and of the calls. *)
LEMMA CreateKeeps ==
  ASSUME IInv, NEW c \in Callers, Create(c)
  PROVE  IInv' /\ [Next]_vars
<1> USE DEF IInv
<1>1. CASE \E key \in Keys \cup {None}, payload \in Payloads : Call(c, key, payload)
  BY <1>1, CallKeepsCalls, UnchangedKeepsRows DEF Call, history
<1>2. CASE Replay(c)
  <2>1. UNCHANGED <<vars, canonical, progress, touched, refused>>
    BY <1>2 DEF Replay
  <2> QED
    BY <1>2, <2>1, ReplayKeepsCalls, UnchangedKeepsRows
<1>3. CASE Insert(c)
  <2>1. CallsInv'
    BY <1>3, InsertKeepsCalls
  <2>2. UNCHANGED <<canonical, progress, touched, refused>>
    BY <1>3 DEF Insert
  <2>3. UNCHANGED vars \/ \E s \in Sources : Open(s, "pending")
    BY <1>3 DEF Insert
  <2>4. CASE UNCHANGED vars
    BY <2>1, <2>2, <2>4, UnchangedKeepsRows
  <2>5. ASSUME NEW s \in Sources, Open(s, "pending") PROVE RowsInv' /\ Next
    BY <2>2, <2>5, OpenKeepsRows DEF Next
  <2> QED
    BY <2>1, <2>3, <2>4, <2>5
<1> QED
  BY <1>1, <1>2, <1>3 DEF Create

LEMMA RequestKeeps ==
  ASSUME IInv, NEW s \in Sources, Request(s)
  PROVE  IInv' /\ [Next]_vars
<1> USE DEF IInv
<1>1. CASE Refresh(s)
  <2>1. /\ identity[s] # None /\ Open(s, "pending")
        /\ UNCHANGED <<identity, canonical, progress, callers, answers, touched, refused>>
    BY <1>1 DEF Refresh, Live, history
  <2> QED
    BY <2>1, OpenKeepsRows, ReopenKeepsCalls DEF Next
<1>2. CASE Reindex(s)
  <2>1. /\ identity[s] # None /\ Open(s, "indexing")
        /\ UNCHANGED <<identity, callers, answers>>
    BY <1>2 DEF Reindex, Live, history
  <2> QED
    BY <1>2, <2>1, ReindexKeepsRows, ReopenKeepsCalls DEF Next
<1>3. CASE Delete(s)
  <2>1. Retire(s) /\ UNCHANGED <<attemptOf, identity, callers, answers>>
    BY <1>3 DEF Delete, Retire, history
  <2>2. retired \subseteq retired'
    BY <2>1 DEF Retire
  <2> QED
    BY <1>3, <2>1, <2>2, DeleteKeepsRows, OthersKeepCalls DEF Next
<1> QED
  BY <1>1, <1>2, <1>3 DEF Request

(* Operators and workers write attempts, never identities or answers.      *)
LEMMA OperateKeeps ==
  ASSUME IInv, NEW j \in JobIds, NEW to \in Stages, NEW next \in Counters, Operate(j, to, next)
  PROVE  IInv' /\ [Next]_vars
<1>1. UNCHANGED <<attemptOf, retired, identity, callers, answers>>
  BY DEF Operate, Write
<1> QED
  BY <1>1, OperateKeepsRows, OthersKeepCalls DEF IInv

LEMMA WorkLeavesCalls ==
  ASSUME NEW j, NEW to, NEW next, NEW rows, Work(j, to, next, rows)
  PROVE  UNCHANGED <<attemptOf, retired, identity, callers, answers>>
BY DEF Work, Write, vars

LEMMA PollKeeps ==
  ASSUME IInv, Poll
  PROVE  IInv' /\ [Next]_vars
<1> USE DEF IInv
<1>1. ASSUME NEW w \in Workers, Look(w) \/ LoseWorker(w)
      PROVE  IInv' /\ [Next]_vars
  <2>1. UNCHANGED <<vars, canonical, progress, touched, refused, identity, callers, answers>>
    BY <1>1 DEF Look, LoseWorker, history
  <2> QED
    BY <2>1, UnchangedKeepsRows, OthersKeepCalls DEF vars
<1>2. ASSUME NEW w \in Workers, Parse(w)
      PROVE  IInv' /\ [Next]_vars
  <2>1. UNCHANGED <<attemptOf, retired, identity, callers, answers>>
    <3>1. CASE UNCHANGED <<vars, identity, canonical, progress, callers, history>>
      BY <3>1 DEF vars, history
    <3>2. ASSUME NEW j, CrawlWebsite(j) \/ ParseText(j)
          PROVE  UNCHANGED <<attemptOf, retired, identity, callers, answers>>
      BY <3>2, WorkLeavesCalls DEF CrawlWebsite, ParseText
    <3> QED
      BY <1>2, <3>1, <3>2 DEF Parse
  <2> QED
    BY <1>2, <2>1, ParseKeepsRows, OthersKeepCalls
<1>3. ASSUME NEW j \in JobIds, Chunk(j) \/ Index(j)
      PROVE  IInv' /\ [Next]_vars
  <2>1. UNCHANGED <<attemptOf, retired, identity, callers, answers>>
    BY <1>3, WorkLeavesCalls DEF Chunk, Index
  <2> QED
    BY <1>3, <2>1, ChunkKeepsRows, IndexKeepsRows, OthersKeepCalls
<1> QED
  BY <1>1, <1>2, <1>3 DEF Poll

LEMMA JobsStep == IInv /\ [JobsNext]_jobsVars => IInv' /\ [Next]_vars
<1> SUFFICES ASSUME IInv, [JobsNext]_jobsVars PROVE IInv' /\ [Next]_vars
  OBVIOUS
<1>1. CASE JobsNext
  BY <1>1, CreateKeeps, RequestKeeps, OperateKeeps, PollKeeps DEF JobsNext
<1>2. CASE UNCHANGED jobsVars
  <2>1. UNCHANGED <<vars, canonical, progress, touched, refused, identity, callers, answers>>
    BY <1>2 DEF jobsVars, history
  <2> QED
    BY <2>1, UnchangedKeepsRows, OthersKeepCalls DEF vars, IInv
<1> QED
  BY <1>1, <1>2

LEMMA JobsInvAlways == JobsSpec => []IInv
BY JobsInitInv, JobsStep, PTL DEF JobsSpec

-----------------------------------------------------------------------------

(* Creation, refresh, reindexing, deletion, workers and operators together *)
(* do nothing to attempts that the contract of JobLifecycle does not allow.*)
THEOREM JobsImplementLifecycle == JobsSpec => Spec
<1>1. JobsInit => Init
  BY DEF JobsInit
<1> QED
  BY <1>1, JobsInvAlways, JobsStep, PTL DEF JobsSpec, Spec

(* A source never has two unfinished attempts, with any number of callers, *)
(* workers and operators.                                                  *)
THEOREM OneUnfinishedAmongJobs == JobsSpec => []OneUnfinished
BY JobsImplementLifecycle, OneUnfinishedAlways, PTL

(* However often a key is used at once, and whatever was refreshed or      *)
(* finished since, it is answered with one source and its first attempt.   *)
THEOREM OneAnswerPerKeyAlways == JobsSpec => []OneAnswerPerKey
<1>1. IInv => OneAnswerPerKey
  <2> SUFFICES ASSUME IInv,
                      NEW a \in answers, Live(a.source), NEW b \in answers, Live(b.source)
               PROVE  /\ identity[a.source] = [key |-> a.key, payload |-> a.payload]
                      /\ a.attempt = OriginalAttempt(a.source)
                      /\ a.key = b.key => a = b
    BY DEF OneAnswerPerKey
  <2> USE DEF IInv, CallsInv
  <2>1. \A x \in answers : /\ identity[x.source] = [key |-> x.key, payload |-> x.payload]
                           /\ First(x.source, x.attempt)
                           /\ x.source \in Sources /\ x.attempt \in JobIds /\ x.key # None
    BY AnswersTyped DEF AnswersAreFirst
  <2>2. \A x \in answers : x.attempt = OriginalAttempt(x.source)
    BY <2>1, FirstIsOriginal
  <2>3. ASSUME a.key = b.key PROVE a = b
    <3>1. a.source = b.source
      <4>1. identity[a.source].key = a.key /\ identity[b.source].key = b.key
        <5>1. /\ identity[a.source] = [key |-> a.key, payload |-> a.payload]
              /\ identity[b.source] = [key |-> b.key, payload |-> b.payload]
          BY <2>1, Zenon
        <5> QED
          BY <5>1
      <4>2. a.source \in Sources /\ b.source \in Sources /\ a.key # None
        BY <2>1, Zenon
      <4> QED
        BY <2>3, <4>1, <4>2 DEF KeysAreUnique
    <3>2. a.attempt = b.attempt
      BY <2>2, <3>1, Zenon
    <3>3. [key |-> a.key, payload |-> a.payload] = [key |-> b.key, payload |-> b.payload]
      BY <2>1, <3>1, Zenon
    <3>4. a.payload = b.payload
      BY <3>3
    <3>5. /\ a = [key |-> a.key, payload |-> a.payload, source |-> a.source, attempt |-> a.attempt]
          /\ b = [key |-> b.key, payload |-> b.payload, source |-> b.source, attempt |-> b.attempt]
      BY DEF CallsTypeOK
    <3> QED
      BY <2>3, <3>1, <3>2, <3>4, <3>5, Zenon
  <2> QED
    BY <2>1, <2>2, <2>3
<1> QED
  BY <1>1, JobsInvAlways, PTL

(* No attempt that operators left alone is ever left behind: it waits for  *)
(* the claim of a worker, and no transition of a worker is refused.        *)
THEOREM UntouchedWorkIsAcceptedAlways == JobsSpec => []UntouchedWorkIsAccepted
<1>1. IInv => UntouchedWorkIsAccepted
  <2> SUFFICES ASSUME IInv, NEW j \in JobIds \ touched, attemptStatus[j] \in Active
               PROVE  Claimable(j) \/ attemptStatus[j] \in {"chunking", "indexing"}
    BY DEF UntouchedWorkIsAccepted, IInv, RowsInv, UntouchedAreOrderly
  <2> USE DEF IInv, RowsInv
  <2>1. Orderly(j)
    BY DEF UntouchedAreOrderly
  <2>2. CASE attemptStatus[j] = "pending"
    <3>1. attemptOf[j] \in Sources
      BY <2>2 DEF OpenedHaveSources, Inv, Slots
    <3>2. progress[j] = NoProgress
      BY <2>1, <2>2 DEF Orderly
    <3> QED
      BY <2>2, <3>1, <3>2, LifecycleAssumption DEF Claimable, ParseStates, NoProgress
  <2>3. attemptStatus[j] \in {"pending", "chunking", "indexing"}
    BY <2>1 DEF Orderly
  <2> QED
    BY <2>2, <2>3
<1> QED
  BY <1>1, JobsInvAlways, PTL
=============================================================================
