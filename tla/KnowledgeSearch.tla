--------------------------- MODULE KnowledgeSearch ---------------------------
(***************************************************************************)
(* Search requests beside the ingestion pipeline: search.search releases   *)
(* its transaction while it queries Qdrant, so everything may have changed *)
(* when canonical_candidates validates what the backend returned.          *)
(*                                                                         *)
(* The branches a backend query returns are validated one candidate at a   *)
(* time, so a single arbitrary candidate stands for the whole list; the    *)
(* ranking and diversification of what passes are left out.                *)
(***************************************************************************)
EXTENDS KnowledgeProjection

CONSTANT Searchers

VARIABLE search   \* per request: where it is, its owner, its candidate, its answer

searchVars == <<vars, search>>

NoRequest == [pc |-> "idle", owner |-> None, hit |-> None, answer |-> None]

(* A source that can be searched at all: ready, not outdated, projected.   *)
Searchable(s) ==
  /\ Live(s)
  /\ source[s].status = "ready"
  /\ source[s].current
  /\ source[s].generation # 0

(* First transaction: nothing is asked of the backend without ready        *)
(* evidence.                                                               *)
SearchStart(q, o) ==
  /\ search[q].pc = "idle"
  /\ \E s \in Sources : OwnerOf[s] = o /\ Searchable(s)
  /\ search' = [search EXCEPT ![q] = [NoRequest EXCEPT !.pc = "query", !.owner = o]]
  /\ UNCHANGED vars

(* No transaction: the backend filters by owner and returns candidates.    *)
SearchQuery(q) ==
  /\ search[q].pc = "query"
  /\ \E hit \in points :
       /\ OwnerOf[hit.chunk.source] = search[q].owner
       /\ search' = [search EXCEPT ![q].pc = "validate", ![q].hit = hit]
  /\ UNCHANGED vars

(* Refuted variant: what the backend returned for a ready source is taken. *)
ValidIfReady(hit, o) ==
  LET s == hit.chunk.source IN
  /\ OwnerOf[s] = o
  /\ Live(s)
  /\ source[s].status = "ready"
  /\ source[s].current
  /\ hit.generation = source[s].generation

(* Refuted variant: the point of any attempt is taken.                     *)
ValidAnyGeneration(hit, o) ==
  LET s == hit.chunk.source IN
  /\ hit.chunk \in chunks
  /\ OwnerOf[s] = o
  /\ Live(s)
  /\ source[s].status = "ready"
  /\ source[s].current

(* canonical_candidates: the point must match a canonical row of now.      *)
Valid(hit, o) ==
  LET s == hit.chunk.source IN
  /\ hit.chunk \in chunks
  /\ OwnerOf[s] = o
  /\ Live(s)
  /\ source[s].status = "ready"
  /\ source[s].current
  /\ hit.generation = source[s].generation

(* Second transaction: one joined read.                                    *)
SearchAnswer(q) ==
  /\ search[q].pc = "validate"
  /\ search' = [search EXCEPT ![q].pc = "done",
                  ![q].answer = IF Valid(search[q].hit, search[q].owner)
                                THEN search[q].hit ELSE None]
  /\ UNCHANGED vars

(* The response is sent, an error ends the request, another one may come.  *)
SearchEnd(q) ==
  /\ search[q].pc # "idle"
  /\ search' = [search EXCEPT ![q] = NoRequest]
  /\ UNCHANGED vars

SearchNext ==
  \E q \in Searchers :
    \/ \E o \in Owners : SearchStart(q, o)
    \/ SearchQuery(q) \/ SearchAnswer(q) \/ SearchEnd(q)

SearchInit == Init /\ search = [q \in Searchers |-> NoRequest]

SearchSpec ==
  SearchInit /\ [][(Next /\ UNCHANGED search) \/ SearchNext]_searchVars

-----------------------------------------------------------------------------

Answers(q) == search[q].pc = "validate" /\ search'[q].pc = "done"

(***************************************************************************)
(* Evidence is returned only if, when it is validated, its source exists,  *)
(* is ready and belongs to the caller, and the passage is part of the      *)
(* present revision of its document: never text of a replaced revision, of *)
(* a deleted page, or of a source deleted since the request began.  Holds  *)
(* whatever late or lost requests left in the index and whatever an        *)
(* operator does to the attempts.                                          *)
(***************************************************************************)
EvidenceIsCurrent ==
  [][\A q \in Searchers :
       Answers(q) /\ search'[q].answer # None =>
         LET c == search'[q].answer.chunk
             d == documents[c.source][c.uri]
         IN /\ Live(c.source) /\ OwnerOf[c.source] = search[q].owner
            /\ source[c.source].status = "ready"
            /\ d.row = c.row
            /\ c.piece \in Pieces[d.content]]_searchVars

(***************************************************************************)
(* Evidence comes from a projection that finished: a point written by an   *)
(* attempt that crashed, failed or is still running is never returned.     *)
(***************************************************************************)
EvidenceIsCommitted ==
  [][\A q \in Searchers :
       Answers(q) /\ search'[q].answer # None =>
         job[search'[q].answer.generation].status = "ready"]_searchVars
=============================================================================
