---------------------------- MODULE DerivedViews ----------------------------
(***************************************************************************)
(* Person models and beliefs together: one handler at a time processes a   *)
(* memory of a subject through both stages, if the subject is fenced, and  *)
(* any number of them otherwise.  A report that failed is repeated.        *)
(***************************************************************************)
EXTENDS PersonModels, Beliefs

viewVars == <<session, work, names, modelVars, beliefs>>

ViewsInit == NamesInit /\ ModelsInit /\ BeliefsInit

ViewsNext ==
  \E h \in Handlers :
    \/ ModelStep(h) /\ UNCHANGED beliefs
    \/ BeliefStep(h) /\ UNCHANGED modelVars
    \/ /\ \/ \E m \in Memories : Process(h, m)
          \/ UpsertTaxonomy(h) \/ StartStages(h) \/ CompleteStage(h)
          \/ HandlerFails(h)
       /\ UNCHANGED <<modelVars, beliefs>>

ViewsSpec == ViewsInit /\ [][ViewsNext]_viewVars

-----------------------------------------------------------------------------

(* Every memory counts once in what was learned from it, whatever failed,  *)
(* was repeated or ran beside it: an unedited score is the mean of what    *)
(* its evidence was counted with, and so is the confidence of a belief     *)
(* that was never contradicted.                                            *)
EachMemoryCountsOnce ==
  /\ \A pair \in DOMAIN models :
       LET row == models[pair]
       IN row.there /\ ~row.edited =>
            /\ row.count = Cardinality(row.evidence)
            /\ {v[1] : v \in row.votes} = row.evidence
            /\ IsMeanOf(row.score, row.votes)
  /\ \A b \in ToSet(beliefs) :
       /\ {v[1] : v \in b.votes} = b.evidence
       /\ ~b.contradicted => IsMeanOf(b.confidence, b.votes)

(* The model cannot make a person or a topic up: an estimate is supported  *)
(* by memories that name both, whatever the model called them, unless it   *)
(* was edited.                                                             *)
OnlyNamedPairs ==
  \A p \in Names, t \in Names :
    ~models[<<p, t>>].edited =>
      \A m \in models[<<p, t>>].evidence : p \in PeopleOf[m] /\ t \in TopicsOf[m]

(* A contradiction is remembered: a row says so exactly if two memories    *)
(* took different known stances, also after its stance has settled again,  *)
(* and without one its stance is the one they took.                        *)
ContradictionIsRemembered ==
  \A b \in ToSet(beliefs) :
    /\ b.contradicted <=> Cardinality(Known(b.history)) > 1
    /\ ~b.contradicted => Known(b.history) = Known({b.stance})

\* An ingest writes the row of a name anew.
Renewed(table, name) ==
  \E h \in Handlers : work[h].pc = "taxonomy" /\ <<table, name>> \in work[h].read \ work'[h].read

(* Behind the fence nothing that was learned is lost but by an ingest, and *)
(* by that the aliases of a name its memory uses and nothing else.         *)
(* Observations and edits read a row, merge it and write it back, and no   *)
(* one's evidence or alias is overwritten in between; nor is a belief      *)
(* hidden by a second row of its claim and topic, which only the order of  *)
(* the statements prevents.                                                *)
NothingLearnedIsLost ==
  [][fenced =>
       /\ \A t \in Tables, n \in Names :
            \/ names[t][n] \subseteq names'[t][n]
            \/ Renewed(t, n) /\ names'[t][n] = {n}
       /\ \A pair \in DOMAIN models : models[pair].evidence \subseteq models'[pair].evidence
       /\ \A i \in DOMAIN beliefs :
            i \in DOMAIN beliefs' /\ beliefs[i].evidence \subseteq beliefs'[i].evidence
       /\ \A i, j \in DOMAIN beliefs' :
            /\ beliefs'[i].claim = beliefs'[j].claim
            /\ beliefs'[i].topic = beliefs'[j].topic
            => i = j]_viewVars
=============================================================================
