------------------------ MODULE MCOutcomeProcessing ------------------------
(***************************************************************************)
(* Instances of OutcomeProcessing for TLC.                                 *)
(***************************************************************************)
EXTENDS OutcomeProcessing, TLC

CONSTANTS a1, a2, e1, e2

\* Two answers of the model that propose different edges.
MC_EdgesOf == a1 :> {e1, e2} @@ a2 :> {e2}

\* One answer that proposes one edge.
MC_OneEdge == a1 :> {e1}

\* Handlers are alike, and so are payloads.
MC_Alike == Permutations(Requests) \cup Permutations(Hashes)
=============================================================================
