-------------------------- MODULE MCKnowledgeSearch --------------------------
(***************************************************************************)
(* Readers of canonical evidence beside the pipeline, for TLC: requests to *)
(* search and requests to extract.  Neither touches what the other reads,  *)
(* so requests of one kind wait for those of the other.                   *)
(***************************************************************************)
EXTENDS KnowledgeSearch, DocumentaryCandidates, TLC

CONSTANTS s1, o1, u1, a, b, x, y, z

MC_OwnerOf == [s \in {s1} |-> o1]
MC_Url == [s \in {s1} |-> "url"]
MC_Pieces == a :> {x, y} @@ b :> {y, z}

\* MC_Pieces is the same when the two revisions change places together with
\* the pieces only one has.
MC_Revisions ==
  {f \in Permutations({a, b, x, y, z}) :
     <<f[a], f[b], f[x], f[y], f[z]>> \in {<<a, b, x, y, z>>, <<b, a, z, y, x>>}}

NoSearch == \A q \in Searchers : search[q] = NoRequest
NoCandidates == extraction = NoExtraction /\ candidates = {}

ReadersInit == SearchInit /\ CandidatesInit

ReadersNext ==
  \/ /\ NoCandidates
     /\ SearchNext
     /\ UNCHANGED <<extraction, candidates>>
  \/ /\ CandidatesNext
     /\ NoSearch \/ NoCandidates'
     /\ UNCHANGED search

ReadersSpec == ReadersInit /\ [][ReadersNext]_<<searchVars, extraction, candidates>>
=============================================================================
