------------------------- MODULE MCChunkTransaction -------------------------
(***************************************************************************)
(* An instance of ChunkTransaction for TLC: one website of two pages, in   *)
(* two revisions of which the second lost a piece; two pages of the first  *)
(* have more chunks than the limit, one of each has as many.               *)
(***************************************************************************)
EXTENDS ChunkTransaction, TLC

CONSTANTS s1, o1, u1, u2, a, b, x, y

MC_OwnerOf == [s \in {s1} |-> o1]
MC_Url == [s \in {s1} |-> "url"]
MC_Pieces == a :> {x, y} @@ b :> {y}

\* Pages are interchangeable.
MC_Website == Permutations(Uris)
=============================================================================
