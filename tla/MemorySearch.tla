---------------------------- MODULE MemorySearch ----------------------------
(***************************************************************************)
(* How the gateway finds the memories of a subject: three searches of the  *)
(* index, the rows of the points found, and the selection of the best that *)
(* do not repeat one another.  Rows and points come and go meanwhile.      *)
(* Scores are whole numbers up to Scale.                                   *)
(***************************************************************************)
EXTENDS Integers, FiniteSets, SequencesExt

CONSTANTS
  Items,              (* memories                                          *)
  Memory,             (* per memory: its subject, content and scores       *)
  Questions,          (* what is searched for                              *)
  Weights,            (* of retrieval, goal relevance and everything else  *)
  Scale,
  Threshold,          (* <<numerator, denominator>> of the similarity from *)
                      (* which a memory repeats another                    *)
  DefaultLimit, MaxLimit,
  CandidateFactor, MinCandidates, MaxCandidates,
  MaxLosses,          (* bound: rows and points that disappear             *)
  NoQuestion

ASSUME SearchAssumption ==
  /\ IsFiniteSet(Items)
  /\ {DefaultLimit, MaxLimit, CandidateFactor, MinCandidates, MaxCandidates} \subseteq Nat

VARIABLES
  rows,        (* memories with a row                                      *)
  points,      (* memories with a point, whose payload was their row       *)
  collection,  (* does the collection of the index exist yet?              *)
  search       (* the search: its question, how far it came, what it has   *)

searchVars == <<rows, points, collection, search>>

Idle == [pc |-> "idle", question |-> NoQuestion, hits |-> {}, results |-> <<>>]

SearchInit ==
  /\ rows = Items
  /\ collection \in BOOLEAN
  /\ points = IF collection THEN Items ELSE {}
  /\ search = Idle

-----------------------------------------------------------------------------
(* The filter and the limits                                               *)

(* People are no condition if topics narrow the search already and the     *)
(* question is about a project and those who decide on it.                 *)
RequiresPeople(q) == q.people # {} /\ (q.topics = {} \/ ~q.mixed)

Satisfies(q, m) ==
  /\ Memory[m].subject = q.subject
  /\ q.type # "any" => Memory[m].type = q.type
  /\ RequiresPeople(q) => ToSet(Memory[m].people) \cap q.people # {}
  /\ q.topics # {} => ToSet(Memory[m].topics) \cap q.topics # {}
  /\ Memory[m].confidence >= q.confidence

ResultLimit(q) == IF q.limit = 0 THEN DefaultLimit ELSE q.limit

CandidateLimit(limit) ==
  Max({MinCandidates, Min({MaxCandidates, limit * CandidateFactor})})

-----------------------------------------------------------------------------
(* Scores and the selection                                                *)

Retrieval(m, hits) ==
  LET best == Max({Memory[h].hybrid : h \in hits})
  IN IF best <= 0 THEN 0 ELSE (Max({0, Memory[m].hybrid}) * Scale) \div best

GoalRelevance(q, m) ==
  IF q.words = {} THEN 0
  ELSE (Cardinality(q.words \cap Memory[m].text) * Scale) \div Cardinality(q.words)

(* Recency, importance, utility, impact and confidence are one number.     *)
Final(q, m, hits) ==
  Weights.retrieval * Retrieval(m, hits) + Weights.goal * GoalRelevance(q, m)
    + Weights.rest * Memory[m].rest

Before(q, hits, m, n) ==
  LET fm == Final(q, m, hits)
      fn == Final(q, n, hits)
      rm == Retrieval(m, hits)
      rn == Retrieval(n, hits)
  IN \/ fm > fn
     \/ fm = fn /\ rm > rn
     \/ fm = fn /\ rm = rn /\ Memory[m].created > Memory[n].created

(* The words two summaries share, of all the words they have, reach the    *)
(* threshold.                                                              *)
Repeats(m, n) ==
  LET shared == Cardinality(Memory[m].words \cap Memory[n].words)
      all == Cardinality(Memory[m].words \cup Memory[n].words)
  IN shared > 0 /\ shared * Threshold[2] >= Threshold[1] * all

(* The orders of candidates: sort.Slice keeps none among equals.           *)
Orders(q, hits, candidates) ==
  {s \in SetToSeqs(candidates) : \A i, j \in DOMAIN s : i < j => ~Before(q, hits, s[j], s[i])}

(* Refuted variant: compares with the one selected last only.              *)
SelectComparingLast(sorted, limit) ==
  LET selected[n \in 0..Len(sorted)] ==
        IF n = 0 THEN <<>>
        ELSE LET chosen == selected[n - 1]
             IN IF Len(chosen) = limit \/ (chosen # <<>> /\ Repeats(sorted[n], Last(chosen)))
                THEN chosen ELSE Append(chosen, sorted[n])
  IN selected[Len(sorted)]

Select(sorted, limit) ==
  LET selected[n \in 0..Len(sorted)] ==
        IF n = 0 THEN <<>>
        ELSE LET chosen == selected[n - 1]
             IN IF Len(chosen) = limit \/ \E m \in ToSet(chosen) : Repeats(sorted[n], m)
                THEN chosen ELSE Append(chosen, sorted[n])
  IN selected[Len(sorted)]

(* Candidates are the hits whose row is there and satisfies the question.  *)
IsCandidate(q, m) ==
  /\ m \in rows
  /\ q.expired \/ ~Memory[m].expired
  /\ Memory[m].confidence >= q.confidence

Rankings(q, hits) ==
  {Select(sorted, ResultLimit(q)) :
     sorted \in Orders(q, hits, {m \in hits : IsCandidate(q, m)})}

-----------------------------------------------------------------------------
(* The search, step by step                                                *)

Valid(q) == q.limit \in 0..MaxLimit /\ q.asked

SearchFails ==
  /\ search.pc \notin {"idle", "found", "failed"}
  /\ search' = [search EXCEPT !.pc = "failed"]
  /\ UNCHANGED <<rows, points, collection>>

StartSearch(q) ==
  /\ search.pc = "idle"
  /\ search' = [Idle EXCEPT !.question = q, !.pc = IF Valid(q) THEN "user" ELSE "failed"]
  /\ UNCHANGED <<rows, points, collection>>

\* The user row is ensured, the question embedded.
EnsureUser ==
  /\ search.pc = "user"
  /\ search' = [search EXCEPT !.pc = "embed"]
  /\ UNCHANGED <<rows, points, collection>>

Embed ==
  /\ search.pc = "embed"
  /\ search' = [search EXCEPT !.pc = "dense"]
  /\ UNCHANGED <<rows, points, collection>>

(* The first search alone takes a missing collection for an empty one.     *)
SearchDense ==
  /\ search.pc = "dense"
  /\ search' = [search EXCEPT !.pc = IF collection THEN "sparse" ELSE "found"]
  /\ UNCHANGED <<rows, points, collection>>

SearchSparse ==
  /\ search.pc = "sparse"
  /\ search' = [search EXCEPT !.pc = "hybrid"]
  /\ UNCHANGED <<rows, points, collection>>

(* Only what the hybrid search finds is a candidate; it returns the best   *)
(* points of the filter.                                                   *)
SearchHybrid ==
  /\ search.pc = "hybrid"
  /\ LET q == search.question
         found == {m \in points : Satisfies(q, m)}
     IN \E hits \in kSubset(Min({Cardinality(found), CandidateLimit(ResultLimit(q))}), found) :
          /\ \A m \in hits, n \in found \ hits : Memory[m].hybrid >= Memory[n].hybrid
          /\ search' = [search EXCEPT !.hits = hits, !.pc = IF hits = {} THEN "found" ELSE "rows"]
  /\ UNCHANGED <<rows, points, collection>>

LoadAndRank ==
  /\ search.pc = "rows"
  /\ \E results \in Rankings(search.question, search.hits) :
       search' = [search EXCEPT !.pc = "found", !.results = results]
  /\ UNCHANGED <<rows, points, collection>>

SearchStep ==
  \/ EnsureUser \/ Embed \/ SearchDense \/ SearchSparse \/ SearchHybrid
  \/ LoadAndRank \/ SearchFails

(* Another request deletes a memory: its row and its point disappear one   *)
(* after the other, and a point may stay behind.                           *)
LoseRow(m) ==
  /\ m \in rows /\ Cardinality(Items \ rows) < MaxLosses
  /\ rows' = rows \ {m}
  /\ UNCHANGED <<points, collection, search>>

LosePoint(m) ==
  /\ m \in points /\ Cardinality(Items \ points) < MaxLosses
  /\ points' = points \ {m}
  /\ UNCHANGED <<rows, collection, search>>

-----------------------------------------------------------------------------

\* What a question asks for: of its subject, and what it says of expiry too.
Wanted(q) == {m \in rows : Satisfies(q, m) /\ (q.expired \/ ~Memory[m].expired)}

\* As many points as are fetched, wanted or not, are as near.
CrowdedOut(q, hits, m) ==
  /\ Cardinality(hits) = CandidateLimit(ResultLimit(q))
  /\ \A n \in hits : Memory[n].hybrid >= Memory[m].hybrid

(* What a search finds is the best of all that was wanted, however stale   *)
(* the index: memories that have a row when rows are read and satisfy the  *)
(* whole question, in order of score, no two of which repeat one another.  *)
(* One is left out for nothing but these: it repeats one it is not before; *)
(* the limit was reached by such; it has no point; or as many points as    *)
(* are fetched, of which some may have expired or lost their row, are as   *)
(* near as its own.                                                        *)
BestOfWanted ==
  [][search.pc # "found" /\ search'.pc = "found" =>
       LET q == search.question
           hits == search'.hits
           r == search'.results
           Above(m) == {n \in ToSet(r) : ~Before(q, hits, m, n)}
       IN /\ ToSet(r) \subseteq Wanted(q) /\ Len(r) <= ResultLimit(q)
          /\ \A i, j \in DOMAIN r : i < j =>
               ~Before(q, hits, r[j], r[i]) /\ ~Repeats(r[i], r[j])
          /\ \A m \in Wanted(q) \ ToSet(r) :
               \/ \E n \in Above(m) : Repeats(m, n)
               \/ Cardinality(Above(m)) = ResultLimit(q)
               \/ m \notin hits /\ (m \notin points \/ CrowdedOut(q, hits, m))]_searchVars
=============================================================================
