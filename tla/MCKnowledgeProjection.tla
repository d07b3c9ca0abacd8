------------------------ MODULE MCKnowledgeProjection ------------------------
(***************************************************************************)
(* Instances of KnowledgeProjection for TLC.                               *)
(***************************************************************************)
EXTENDS KnowledgeProjection, TLC

CONSTANTS s1, s2, o1, o2, u1, u2, a, b, x, y, z

\* Every source belongs to one owner, or the second has an owner of its own.
MC_OneOwner == [s \in Sources |-> o1]
MC_OwnOwner == [s \in Sources |-> IF s = s2 THEN o2 ELSE o1]

MC_Texts  == [s \in Sources |-> "text"]
MC_OneUrl == [s \in Sources |-> "url"]
MC_Mixed  == [s \in Sources |-> IF s = s2 THEN "text" ELSE "url"]

\* Two revisions that share a piece, one revision of two pieces or of one.
MC_Pieces    == a :> {x, y} @@ b :> {y, z}
MC_OnePieces == a :> {x, y}
MC_OnePiece  == a :> {x}
=============================================================================
