------------------------------- MODULE Beliefs -------------------------------
(***************************************************************************)
(* Beliefs: a claim, the stance the evidence takes to it, and whether the  *)
(* evidence contradicts itself.  Rows are found by claim and topic; no key *)
(* makes them unique, and the newest is the one that is merged into.       *)
(***************************************************************************)
EXTENDS ObservedNames

CONSTANTS
  Bearing,         (* the memories that bear on beliefs                    *)
  BeliefAnswers    (* what the model may answer: sequences of beliefs      *)

ASSUME BeliefsAssumption ==
  \A answer \in BeliefAnswers :
    /\ answer \in Seq(ToSet(answer))
    /\ \A item \in ToSet(answer) :
         /\ DOMAIN item = {"claim", "topic", "topicAliases", "stance", "confidence"}
         /\ item.confidence \in Int

VARIABLES beliefs  (* the rows, in the order of their ids                    *)

BeliefsInit == beliefs = <<>>

Known(stances) == stances \ {"unknown"}

-----------------------------------------------------------------------------

\* A belief without a topic takes the topic of a memory that has just one,
\* and a topic of the memory is preferred to the model's name for it.
TopicOf(item, m) ==
  LET named == IF item.topic = Nothing /\ Cardinality(TopicsOf[m]) = 1
               THEN CHOOSE t \in TopicsOf[m] : TRUE ELSE item.topic
      match == Match(named, item.topicAliases, TopicsOf[m])
  IN IF named # Nothing /\ match # Nothing THEN match ELSE named

\* Only memories of an outcome or of a change of mind, or with an impact on
\* beliefs, are shown to the model.
AskForBeliefs(h) ==
  LET m == work[h].memory
  IN /\ work[h].op = "belief" /\ work[h].pc = "ask"
     /\ \E answer \in IF m \in Bearing THEN BeliefAnswers ELSE {<<>>} :
          work' = [work EXCEPT ![h].pc = "item", ![h].items =
                    [i \in DOMAIN answer |-> [answer[i] EXCEPT !.topic = TopicOf(answer[i], m)]]]
     /\ UNCHANGED <<session, names, beliefs>>

ReadBeliefTopic(h) ==
  /\ work[h].op = "belief" /\ work[h].pc = "item" /\ work[h].items # <<>>
  /\ IF Item(h).topic = Nothing
     THEN Step(h, "row") /\ UNCHANGED <<session, names>>
     ELSE ReadName(h, "topic", Item(h).topic, "topic_write")
  /\ UNCHANGED beliefs

WriteBeliefTopic(h) ==
  /\ work[h].op = "belief" /\ work[h].pc = "topic_write"
  /\ WriteName(h, "topic", Item(h).topic, Item(h).topicAliases, "row")
  /\ UNCHANGED beliefs

\* The row of the claim and topic that was updated last.
Newest(claim, topic) ==
  LET rows == {i \in DOMAIN beliefs : beliefs[i].claim = claim /\ beliefs[i].topic = topic}
  IN IF rows = {} THEN 0
     ELSE CHOOSE i \in rows : \A j \in rows : beliefs[j].updated <= beliefs[i].updated

ReadBelief(h) ==
  LET i == Newest(Item(h).claim, Item(h).topic)
  IN /\ work[h].op = "belief" /\ work[h].pc = "row"
     /\ work' = [work EXCEPT ![h].read = IF i = 0 THEN <<>> ELSE <<beliefs[i]>>,
                             ![h].pc = "row_write"]
     /\ UNCHANGED <<session, names, beliefs>>

NewBelief(item, m) ==
  [id |-> 0, updated |-> 0, claim |-> item.claim, topic |-> item.topic, stance |-> item.stance,
   confidence |-> <<item.confidence, 1>>, evidence |-> {m}, history |-> {item.stance},
   contradicted |-> FALSE, votes |-> {<<m, item.confidence>>}]

Conflict(left, right) == left # right /\ "unknown" \notin {left, right}

\* Two known stances that differ cancel each other.
MergeStance(existing, observed) ==
  CASE existing = "unknown" -> observed
    [] observed \in {"unknown", existing} -> existing
    [] OTHER -> "unknown"

(* Refuted variant: what was detected is what this memory shows.           *)
MergeForgetting(row, item, m) ==
  LET conflict == Conflict(row.stance, item.stance)
      mean == Average(row.confidence, Cardinality(row.evidence), item.confidence)
  IN IF m \in row.evidence THEN row
     ELSE [row EXCEPT !.stance = MergeStance(@, item.stance),
                      !.confidence = IF conflict /\ 10 * mean[1] > 6 * mean[2]
                                     THEN <<6, 10>> ELSE mean,
                      !.evidence = @ \cup {m},
                      !.history = @ \cup {item.stance},
                      !.contradicted = conflict,
                      !.votes = @ \cup {<<m, item.confidence>>}]

\* Confidence is averaged, and capped at six tenths by a conflict.
MergeBelief(row, item, m) ==
  LET conflict == Conflict(row.stance, item.stance)
      mean == Average(row.confidence, Cardinality(row.evidence), item.confidence)
  IN IF m \in row.evidence THEN row
     ELSE [row EXCEPT !.stance = MergeStance(@, item.stance),
                      !.confidence = IF conflict /\ 10 * mean[1] > 6 * mean[2]
                                     THEN <<6, 10>> ELSE mean,
                      !.evidence = @ \cup {m},
                      !.history = @ \cup {item.stance},
                      !.contradicted = @ \/ conflict,
                      !.votes = @ \cup {<<m, item.confidence>>}]

Now == 1 + Max({0} \cup {b.updated : b \in ToSet(beliefs)})

\* A row that was read is updated by its id, and another inserted.
SaveBelief(h) ==
  LET w == work[h]
  IN /\ w.op = "belief" /\ w.pc = "row_write"
     /\ beliefs' =
          IF w.read = <<>>
          THEN Append(beliefs, [NewBelief(Item(h), w.memory)
                                  EXCEPT !.id = Len(beliefs) + 1, !.updated = Now])
          ELSE [beliefs EXCEPT ![w.read[1].id] =
                  [MergeBelief(w.read[1], Item(h), w.memory) EXCEPT !.updated = Now]]
     /\ work' = [work EXCEPT ![h].items = Tail(@), ![h].read = Nothing, ![h].pc = "item"]
     /\ UNCHANGED <<session, names>>

BeliefStep(h) ==
  \/ AskForBeliefs(h) \/ ReadBeliefTopic(h) \/ WriteBeliefTopic(h)
  \/ ReadBelief(h) \/ SaveBelief(h)
=============================================================================
