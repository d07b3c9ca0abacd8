---------------------------- MODULE PersonModels ----------------------------
(***************************************************************************)
(* Person-topic models: what the gateway estimates of a person on a topic. *)
(* A memory is shown to the language model, which answers with pairs of a  *)
(* person and a topic; each pair is merged into its row.  A debug request  *)
(* edits the same rows.  The five scores of a row are merged alike, and    *)
(* one stands for them.                                                    *)
(***************************************************************************)
EXTENDS ObservedNames

CONSTANTS
  PairAnswers,   (* what the model may answer: sequences of pairs          *)
  Edits,         (* what a debug request may carry                         *)
  MaxScore,      (* the score that stands for 1                            *)
  MaxEdits       (* bound: debug requests                                  *)

ASSUME PairsAssumption ==
  /\ \A answer \in PairAnswers :
       /\ answer \in Seq(ToSet(answer))
       /\ \A pair \in ToSet(answer) :
            /\ DOMAIN pair = {"person", "personAliases", "topic", "topicAliases", "score"}
            /\ pair.personAliases \in Seq(Names) /\ pair.topicAliases \in Seq(Names)
            /\ pair.score \in Int
  /\ \A edit \in Edits : edit.person \in Names /\ edit.topic \in Names \cup {Nothing}
  /\ MaxScore \in Nat

VARIABLES
  models,        (* per person and topic: the row                          *)
  edits

modelVars == <<models, edits>>

\* A row nothing was saved in yet reads as zero.  Its votes and whether it
\* was edited are history.
NoModel == [there |-> FALSE, score |-> <<0, 1>>, count |-> 0, evidence |-> {},
            votes |-> {}, edited |-> FALSE]

ModelsInit ==
  /\ models = [pair \in Names \X Names |-> NoModel]
  /\ edits \in 0..MaxEdits

Clamp(score) == IF score < 0 THEN 0 ELSE IF score > MaxScore THEN MaxScore ELSE score

-----------------------------------------------------------------------------
(* Observing a memory                                                      *)

\* The model is asked only about people on topics.  An answer that does not
\* parse is sent back once to be repaired; after that the stage fails.
AskForPairs(h) ==
  LET m == work[h].memory
  IN /\ work[h].op = "person_model" /\ work[h].pc = "ask"
     /\ \E answer \in IF PeopleOf[m] = {} \/ TopicsOf[m] = {} THEN {<<>>} ELSE PairAnswers :
          work' = [work EXCEPT ![h].pc = "item", ![h].items =
                    [i \in DOMAIN answer |-> [answer[i] EXCEPT !.score = Clamp(@)]]]
     /\ UNCHANGED <<session, names, modelVars>>

(* Refuted variant: the answer of the model is taken at its word.          *)
ResolveNothing(pair, m) == pair

\* Both sides of a pair are taken under the memory's names, if it has them.
Resolve(pair, m) ==
  [pair EXCEPT !.person = Match(@, pair.personAliases, PeopleOf[m]),
               !.topic = Match(@, pair.topicAliases, TopicsOf[m])]

\* The pair that is worked on; that of an edit is taken as it is.
Pair(h) == IF work[h].op = "edit" THEN Item(h) ELSE Resolve(Item(h), work[h].memory)

\* A pair with a side the memory does not name is passed over.
SkipPair(h) ==
  /\ work[h].op = "person_model" /\ work[h].pc = "item" /\ work[h].items # <<>>
  /\ Nothing \in {Pair(h).person, Pair(h).topic}
  /\ work' = [work EXCEPT ![h].items = Tail(@)]
  /\ UNCHANGED <<session, names, modelVars>>

(* The memories behind a row are a list without repetition.                *)
WithEvidence(evidence, ids) == evidence \cup ids

(* Refuted variant: a memory may be counted again.                         *)
MergeAgain(row, pair, m) ==
  [row EXCEPT !.there = TRUE,
              !.score = Average(row.score, row.count, pair.score),
              !.count = @ + 1,
              !.evidence = WithEvidence(@, {m}),
              !.votes = @ \cup {<<m, pair.score>>}]

\* A memory counts once; the first one replaces the scores.
MergeObservation(row, pair, m) ==
  IF m \in row.evidence THEN row
  ELSE [row EXCEPT !.there = TRUE,
                   !.score = Average(row.score, row.count, pair.score),
                   !.count = @ + 1,
                   !.evidence = WithEvidence(@, {m}),
                   !.votes = @ \cup {<<m, pair.score>>}]

-----------------------------------------------------------------------------
(* Editing a row                                                           *)

\* The person is found by its id, or the request is answered 404.
SubmitEdit(h) ==
  /\ edits < MaxEdits /\ edits' = edits + 1
  /\ \E edit \in Edits :
       /\ names["person"][edit.person] # {}
       /\ Begin(h, [NoWork EXCEPT !.op = "edit", !.pc = "item", !.items = <<edit>>])
  /\ UNCHANGED <<fenced, names, completed, failures, models>>

\* A topic that is not given, or not the subject's, is answered 400 or 404,
\* after the aliases of the person were saved.
RefuseEdit(h) ==
  /\ work[h].op = "edit" /\ work[h].pc = "topic"
  /\ Item(h).topic = Nothing
  /\ Answer(h)
  /\ UNCHANGED <<fenced, names, completed, failures, modelVars>>

(* Refuted variant: the memories that are given replace those there were.  *)
EditReplacing(row, edit) ==
  [row EXCEPT !.there = TRUE,
              !.score = IF edit.score = Nothing THEN @ ELSE <<Clamp(edit.score), 1>>,
              !.count = IF edit.count # Nothing THEN edit.count
                        ELSE IF @ < Cardinality(edit.ids) THEN Cardinality(edit.ids) ELSE @,
              !.evidence = edit.ids,
              !.edited = TRUE]

\* What is not given stays.  A count that is not given is raised to the
\* number of memories that are.
EditRow(row, edit) ==
  [row EXCEPT !.there = TRUE,
              !.score = IF edit.score = Nothing THEN @ ELSE <<Clamp(edit.score), 1>>,
              !.count = IF edit.count # Nothing THEN edit.count
                        ELSE IF @ < Cardinality(edit.ids) THEN Cardinality(edit.ids) ELSE @,
              !.evidence = WithEvidence(@, edit.ids),
              !.edited = TRUE]

-----------------------------------------------------------------------------
(* The statements of both                                                  *)

Observing(h) == work[h].op \in {"person_model", "edit"}

\* An edit writes the person only to add aliases.
ReadPerson(h) ==
  /\ Observing(h) /\ work[h].pc = "item" /\ work[h].items # <<>>
  /\ work[h].op = "person_model" => Nothing \notin {Pair(h).person, Pair(h).topic}
  /\ IF work[h].op = "edit" /\ Pair(h).personAliases = <<>>
     THEN Step(h, "topic") /\ UNCHANGED <<session, names>>
     ELSE ReadName(h, "person", Pair(h).person, "person")
  /\ UNCHANGED modelVars

WritePerson(h) ==
  /\ work[h].pc = "person"
  /\ WriteName(h, "person", Pair(h).person, Pair(h).personAliases, "topic")
  /\ UNCHANGED modelVars

\* An edit writes the topic to create it, or to add aliases.
ReadTopic(h) ==
  /\ Observing(h) /\ work[h].pc = "topic"
  /\ Pair(h).topic # Nothing
  /\ IF /\ work[h].op = "edit" /\ Pair(h).topicAliases = <<>>
        /\ names["topic"][Pair(h).topic] # {}
     THEN Step(h, "row") /\ UNCHANGED <<session, names>>
     ELSE ReadName(h, "topic", Pair(h).topic, "topic_write")
  /\ UNCHANGED modelVars

WriteTopic(h) ==
  /\ Observing(h) /\ work[h].pc = "topic_write"
  /\ WriteName(h, "topic", Pair(h).topic, Pair(h).topicAliases, "row")
  /\ UNCHANGED modelVars

ReadModel(h) ==
  /\ Observing(h) /\ work[h].pc = "row"
  /\ work' = [work EXCEPT ![h].read = models[<<Pair(h).person, Pair(h).topic>>],
                          ![h].pc = "row_write"]
  /\ UNCHANGED <<session, names, modelVars>>

\* The whole row is written, whatever it has become since it was read.
SaveModel(h) ==
  LET w == work[h]
  IN /\ Observing(h) /\ w.pc = "row_write"
     /\ models' = [models EXCEPT ![<<Pair(h).person, Pair(h).topic>>] =
          IF w.op = "edit" THEN EditRow(w.read, Pair(h))
          ELSE MergeObservation(w.read, Pair(h), w.memory)]
     /\ work' = [work EXCEPT ![h].items = Tail(@), ![h].read = Nothing, ![h].pc = "item"]
     /\ UNCHANGED <<session, names, edits>>

ModelStep(h) ==
  \/ AskForPairs(h) \/ SkipPair(h) \/ SubmitEdit(h) \/ RefuseEdit(h)
  \/ ReadPerson(h) \/ WritePerson(h) \/ ReadTopic(h) \/ WriteTopic(h)
  \/ ReadModel(h) \/ SaveModel(h)
=============================================================================
