---------------------------- MODULE JobLifecycle ----------------------------
(***************************************************************************)
(* What the knowledge service promises about ingestion attempts, whatever  *)
(* its workers, operators and callers do concurrently: an attempt belongs  *)
(* to one source, a source has at most one attempt that is not finished, a *)
(* finished attempt never changes, an attempt only moves forward, attempt  *)
(* identities are handed out once, and a deleted source never comes back.  *)
(*                                                                         *)
(* The detailed modules are shown to implement this one; it knows nothing  *)
(* of documents, chunks, the index, locks or worker processes.             *)
(***************************************************************************)
EXTENDS Naturals, JobStages

CONSTANTS
  Sources,    (* identities of sources, never reused                       *)
  MaxJobs,    (* bound on the attempts opened in one behaviour             *)
  None        (* "no source"                                               *)

ASSUME LifecycleAssumption == /\ MaxJobs \in Nat
                              /\ None \notin Sources

JobIds == 1..MaxJobs

VARIABLES
  attemptOf,      (* the source an attempt belongs to, None before it opens *)
  attemptStatus,  (* its stage, "absent" before it opens and once dropped  *)
  opened,         (* attempts opened so far: they are 1..opened            *)
  retired         (* sources that have been deleted                        *)

vars == <<attemptOf, attemptStatus, opened, retired>>

Unfinished(s) == {j \in JobIds : attemptOf[j] = s /\ attemptStatus[j] \in Active}

Init ==
  /\ attemptOf = [j \in JobIds |-> None]
  /\ attemptStatus = [j \in JobIds |-> "absent"]
  /\ opened = 0
  /\ retired = {}

(* A new attempt starts from the beginning or replays the projection only. *)
Open(s, first) ==
  /\ s \notin retired
  /\ Unfinished(s) = {}
  /\ opened < MaxJobs
  /\ opened' = opened + 1
  /\ attemptOf' = [attemptOf EXCEPT ![opened + 1] = s]
  /\ attemptStatus' = [attemptStatus EXCEPT ![opened + 1] = first]
  /\ UNCHANGED retired

Move(j, to) ==
  /\ attemptStatus[j] \in Active
  /\ to \in Downstream(attemptStatus[j])
  /\ attemptStatus' = [attemptStatus EXCEPT ![j] = to]
  /\ UNCHANGED <<attemptOf, opened, retired>>

(* Deleting a source drops its attempts with it. *)
Retire(s) ==
  /\ s \notin retired
  /\ retired' = retired \cup {s}
  /\ attemptStatus' = [j \in JobIds |-> IF attemptOf[j] = s THEN "absent"
                                        ELSE attemptStatus[j]]
  /\ UNCHANGED <<attemptOf, opened>>

Next ==
  \/ \E s \in Sources, first \in {"pending", "indexing"} : Open(s, first)
  \/ \E j \in JobIds, to \in Stages : Move(j, to)
  \/ \E s \in Sources : Retire(s)

Spec == Init /\ [][Next]_vars

-----------------------------------------------------------------------------

TypeOK ==
  /\ attemptOf \in [JobIds -> Sources \cup {None}]
  /\ attemptStatus \in [JobIds -> Stages \cup {"absent"}]
  /\ opened \in 0..MaxJobs
  /\ retired \subseteq Sources

(***************************************************************************)
(* At most one unfinished attempt per source: the promise behind the       *)
(* partial unique index uq_jobs_active_source.                             *)
(***************************************************************************)
OneUnfinished ==
  \A j, k \in JobIds :
    /\ attemptOf[j] = attemptOf[k]
    /\ attemptStatus[j] \in Active
    /\ attemptStatus[k] \in Active
    => j = k

(* A deleted source has no attempt left. *)
RetiredIsEmpty ==
  \A j \in JobIds : attemptOf[j] \in retired => attemptStatus[j] = "absent"
=============================================================================
