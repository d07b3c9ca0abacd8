-------------------------- MODULE ChunkTransaction --------------------------
(***************************************************************************)
(* process_chunk_next statement by statement.  One transaction locks a     *)
(* source, plans its documents one after the other, checks the limit and   *)
(* only then writes, document by document; its failure at any document is  *)
(* caught inside the transaction, so that whatever it wrote until then is  *)
(* committed together with the failed attempt.  Everything else, in this   *)
(* worker before and after and in every other process, is a step of        *)
(* KnowledgeProjection, where the whole transaction is one step.           *)
(***************************************************************************)
EXTENDS KnowledgeProjection

VARIABLE session   \* per worker: its open chunking transaction

chunkingVars == <<vars, session>>

(* left: documents not planned yet; planned: documents still to write, as  *)
(* they were read; counted: the chunks it will leave, whose number is the  *)
(* total; removed, added, written: what it has sent to the database and    *)
(* nobody else sees.                                                       *)
Closed == [pc |-> "closed", job |-> 0, left |-> {}, planned |-> {}, counted |-> {},
           removed |-> {}, added |-> {}, written |-> {}]

SourceOf(w) == job[session[w].job].source

ChunkingInit == Init /\ session = [w \in Workers |-> Closed]

-----------------------------------------------------------------------------

(* Refuted variant: the row is read without FOR UPDATE.                    *)
OpenUnlocked(w, j) ==
  /\ proc[w].pc = "idle" /\ session[w].pc = "closed"
  /\ MayPick(j, ToSplit)
  /\ session' = [session EXCEPT ![w] = [Closed EXCEPT !.pc = "plan", !.job = j,
                                          !.left = DocumentUris(job[j].source)]]
  /\ UNCHANGED vars

Open(w, j) ==
  /\ proc[w].pc = "idle" /\ session[w].pc = "closed"
  /\ MayPick(j, ToSplit)
  /\ sourceLock' = [sourceLock EXCEPT ![job[j].source] = w]
  /\ session' = [session EXCEPT ![w] = [Closed EXCEPT !.pc = "plan", !.job = j,
                                          !.left = DocumentUris(job[j].source)]]
  /\ UNCHANGED <<canonical, remote, ownerLock, proc, bounds, disturbed>>

(* The chunks of a document whose snapshot holds are counted and kept.     *)
Skip(w, u) ==
  /\ session[w].pc = "plan" /\ u \in session[w].left
  /\ SnapshotHolds(SourceOf(w), u)
  /\ session' = [session EXCEPT ![w].left = @ \ {u},
                                ![w].counted = @ \cup DocumentChunks(SourceOf(w), u)]
  /\ UNCHANGED vars

(* Refuted variant: the old chunks of a document go when it is planned.    *)
PlanRemoving(w, u) ==
  LET s == SourceOf(w) IN
  /\ session[w].pc = "plan" /\ u \in session[w].left
  /\ ~SnapshotHolds(s, u)
  /\ session' = [session EXCEPT ![w].left = @ \ {u},
                                ![w].planned = @ \cup {[uri |-> u, read |-> documents[s][u]]},
                                ![w].removed = @ \cup DocumentChunks(s, u),
                                ![w].counted = @ \cup SplitOf(s, u)]
  /\ UNCHANGED vars

Plan(w, u) ==
  LET s == SourceOf(w) IN
  /\ session[w].pc = "plan" /\ u \in session[w].left
  /\ ~SnapshotHolds(s, u)
  /\ session' = [session EXCEPT ![w].left = @ \ {u},
                                ![w].planned = @ \cup {[uri |-> u, read |-> documents[s][u]]},
                                ![w].counted = @ \cup SplitOf(s, u)]
  /\ UNCHANGED vars

(* There are documents, and they do not exceed the limit.                  *)
Fits(w) == Cardinality(session[w].counted) \in 1..MaxChunks

StartWriting(w) ==
  /\ session[w].pc = "plan" /\ session[w].left = {}
  /\ Fits(w)
  /\ session' = [session EXCEPT ![w].pc = "write"]
  /\ UNCHANGED vars

Write(w) ==
  LET s == SourceOf(w) IN
  /\ session[w].pc = "write"
  /\ \E d \in session[w].planned :
       session' = [session EXCEPT
         ![w].planned = @ \ {d},
         ![w].removed = @ \cup DocumentChunks(s, d.uri),
         ![w].added = @ \cup {[source |-> s, uri |-> d.uri, row |-> d.read.row, piece |-> x] :
                                x \in Pieces[d.read.content]},
         ![w].written = @ \cup {d}]
  /\ UNCHANGED vars

(* The end of the transaction.                                             *)
Unlock(w) ==
  /\ sourceLock' = [sourceLock EXCEPT ![SourceOf(w)] = None]
  /\ UNCHANGED ownerLock

(* What the session wrote becomes visible.                                 *)
Commit(w) ==
  LET s == SourceOf(w) IN
  /\ chunks' = (chunks \ session[w].removed) \cup session[w].added
  /\ documents' = [documents EXCEPT ![s] =
       [u \in Uris |->
          IF \E d \in session[w].written : d.uri = u
          THEN [documents[s][u] EXCEPT !.snapshot =
                  (CHOOSE d \in session[w].written : d.uri = u).read.content]
          ELSE documents[s][u]]]
  /\ Unlock(w)
  /\ session' = [session EXCEPT ![w] = Closed]
  /\ UNCHANGED <<opened, remote, proc, bounds, disturbed>>

(* ParseError: a document that cannot be read or split, or the limit.      *)
Fail(w) ==
  /\ session[w].pc = "plan"
  /\ session[w].left # {} \/ ~Fits(w)
  /\ Transition(SourceOf(w), session[w].job, "failed")
  /\ Commit(w)

Finish(w) ==
  /\ session[w].pc = "write" /\ session[w].planned = {}
  /\ job' = [job EXCEPT ![session[w].job].status = "indexing"]
  /\ source' = [source EXCEPT ![SourceOf(w)].status = "indexing", ![SourceOf(w)].current = TRUE]
  /\ Commit(w)

(* The process dies or a statement fails: the database forgets the rest.   *)
Lose(w) ==
  /\ session[w].pc # "closed"
  /\ Unlock(w)
  /\ session' = [session EXCEPT ![w] = Closed]
  /\ UNCHANGED <<canonical, remote, proc, bounds, disturbed>>

Chunking(w) ==
  \/ \E j \in JobIds : Open(w, j)
  \/ \E u \in Uris : Skip(w, u) \/ Plan(w, u)
  \/ StartWriting(w) \/ Write(w) \/ Fail(w) \/ Finish(w) \/ Lose(w)

(* A worker is in one transaction at a time.                               *)
Elsewhere ==
  \/ Request
  \/ /\ \E w \in Workers : proc[w].pc = "idle" /\ session[w].pc = "closed"
     /\ PollDocuments
  \/ \E p \in Procs :
       /\ p \in Workers => session[p].pc = "closed"
       /\ PollIndex(p) \/ Continue(p) \/ Administer(p) \/ ProjectionError(p) \/ RollBack(p)
  \/ LandLate
  \/ Quiet

ChunkingNext ==
  \/ \E w \in Workers : Chunking(w)
  \/ Elsewhere /\ UNCHANGED session

ChunkingSpec == ChunkingInit /\ [][ChunkingNext]_chunkingVars

-----------------------------------------------------------------------------

(***************************************************************************)
(* An attempt that fails leaves every canonical document and chunk as it   *)
(* was, whichever of its documents it fails at: the failure commits what   *)
(* the session wrote, so planning must not have written yet.  "Plan before *)
(* mutation so a chunking failure preserves the previous canonical         *)
(* snapshot" (pipeline.chunk_source).                                      *)
(***************************************************************************)
FailurePreservesCanonical ==
  [][(\E j \in JobIds : job[j].status # "failed" /\ job'[j].status = "failed")
       => UNCHANGED <<documents, chunks>>]_chunkingVars

(* While a session is open nobody else sees its lock, nor what it wrote.   *)
VisibleLock == [s \in Sources |->
  IF \E w \in Workers : session[w].pc # "closed" /\ SourceOf(w) = s
  THEN None ELSE sourceLock[s]]

Atomic == INSTANCE KnowledgeProjection WITH sourceLock <- VisibleLock

(***************************************************************************)
(* Chunking is one step, as KnowledgeProjection has it: whatever a session *)
(* does is seen as nothing at all, or as the one step that writes for all  *)
(* documents what splitting them as they now are gives, within the limit,  *)
(* or as the one that fails.  So nobody acts on half of it, and it         *)
(* overwrites nothing that others did to the documents meanwhile.          *)
(***************************************************************************)
ChunkingIsOneStep ==
  [][session' # session =>
       \/ UNCHANGED <<canonical, remote, ownerLock, VisibleLock, proc, bounds, disturbed>>
       \/ \E j \in JobIds : Atomic!Split(j) \/ Atomic!SplitFails(j)]_chunkingVars
=============================================================================
