--------------------------- MODULE MCJobLifecycle ---------------------------
(***************************************************************************)
(* Instances of IngestionJobs for TLC: a website and a text, either with   *)
(* callers that race for a key, or with workers and an operator.           *)
(***************************************************************************)
EXTENDS IngestionJobs, TLC

CONSTANTS s1, s2, c1, c2, p1, p2

MC_Kind == s1 :> "url" @@ s2 :> "text"
MC_Alike == Permutations({c1, c2})

VARIABLE part

PartInit == JobsInit /\ part \in {"creation", "work"}

PartNext ==
  /\ \/ /\ part = "creation"
        /\ \/ \E c \in Callers : Create(c)
           \/ \E s \in Sources : Request(s)
           \/ \E j \in JobIds : Operate(j, "failed", progress[j])
     \/ /\ part = "work"
        /\ \/ Call(c1, None, p1) \/ Insert(c1) \/ Replay(c1)
           \/ \E s \in Sources : Request(s)
           \/ \E j \in JobIds, to \in Stages, next \in Counters : Operate(j, to, next)
           \/ Poll
        /\ opened' < MaxJobs
  /\ UNCHANGED part

PartSpec == PartInit /\ [][PartNext]_<<jobsVars, part>>
=============================================================================
