------------------------------ MODULE JobStages ------------------------------
(***************************************************************************)
(* The stages of an ingestion attempt of the Python knowledge service, and *)
(* the moves between them that service.apply_transition accepts.  The job  *)
(* row of an attempt and the source row it belongs to carry one of these   *)
(* values as their status.                                                 *)
(***************************************************************************)

(* models.Stage and models.TERMINAL *)
Stages == {"pending", "fetching", "parsing", "chunking", "indexing",
           "ready", "failed"}

Terminal == {"ready", "failed"}

Active == Stages \ Terminal

(* models.SourceKind.  A file is ingested exactly as a text is.            *)
Kinds == {"url", "text"}

(***************************************************************************)
(* The single stage that follows an active one: only a website is fetched. *)
(***************************************************************************)
NextStage(kind, stage) ==
  CASE stage = "pending"  -> IF kind = "url" THEN "fetching" ELSE "parsing"
    [] stage = "fetching" -> "parsing"
    [] stage = "parsing"  -> "chunking"
    [] stage = "chunking" -> "indexing"
    [] stage = "indexing" -> "ready"

(***************************************************************************)
(* apply_transition refuses every status but the current one, the next one *)
(* and "failed", and refuses to change a finished attempt at all.          *)
(***************************************************************************)
MayMove(kind, from, to) ==
  /\ from \in Active
  /\ to \in {from, NextStage(kind, from), "failed"}

(***************************************************************************)
(* Stages that one or more moves can reach from an active stage.  Workers  *)
(* make several moves in one transaction, so this is what a commit shows.  *)
(***************************************************************************)
Downstream(stage) ==
  CASE stage = "pending"  -> Stages \ {"pending"}
    [] stage = "fetching" -> Stages \ {"pending", "fetching"}
    [] stage = "parsing"  -> {"chunking", "indexing", "ready", "failed"}
    [] stage = "chunking" -> {"indexing", "ready", "failed"}
    [] stage = "indexing" -> {"ready", "failed"}
    [] OTHER              -> {}
=============================================================================
