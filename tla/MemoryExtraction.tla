-------------------------- MODULE MemoryExtraction --------------------------
(***************************************************************************)
(* POST /memory/extract with its entities: the model structures a text,    *)
(* the memory is ingested, and the people, topics, claims, ... it mentions *)
(* are stored one by one.  What fails after the memory exists is taken     *)
(* back by deleting it, which may fail too.  SubjectMemory has the stages  *)
(* of the ingestion, which is two steps here.                              *)
(***************************************************************************)
EXTENDS Naturals, FiniteSets, NameLists

CONSTANTS
  Extractors,     (* handlers of the subject, each serves one extraction   *)
  RawAnswers,     (* what the model may answer, readable or not            *)
  MemoryTypes,    (* the types a memory may have                           *)
  EntityTypes,    (* the types an entity may have                          *)
  MaxTakenBack    (* bound: DELETE /memory of others                       *)

(* What can be read has lists where lists are due.                         *)
ASSUME AnswersAssumption ==
  \A raw \in RawAnswers : raw.wellFormed =>
    \A list \in {raw.people, raw.topics, raw.entities} : list \in Seq(ToSet(list))

VARIABLES
  alone,        (* are requests of the subject kept apart by the fence?    *)
  extractions,  (* per handler: how far it came, with what                 *)
  extracted,    (* the memories and their entities, by handler             *)
  takenBack     (* deletions by others so far                              *)

extractionVars == <<alone, extractions, extracted, takenBack>>

NoExtraction == [pc |-> "new", answer |-> <<>>, left |-> <<>>]

\* A handler makes one memory at most, which is named by it.
NoRow == [live |-> FALSE, point |-> FALSE, people |-> <<>>, topics |-> <<>>, entities |-> <<>>]

ExtractionInit ==
  /\ alone \in BOOLEAN
  /\ extractions = [x \in Extractors |-> NoExtraction]
  /\ extracted = [x \in Extractors |-> NoRow]
  /\ takenBack = 0

-----------------------------------------------------------------------------
(* Reading an answer                                                       *)

Nameable(e) == e.name # Blank /\ e.type # Blank

Entities(list) ==
  FirstOfEach(list, [e \in {d \in ToSet(list) : Nameable(d)} |-> <<e.type, LowerCase[e.name]>>])

\* One entity of an unknown type spoils the answer, unless it has no name.
Acceptable(raw) ==
  /\ raw.wellFormed
  /\ raw.summary # Blank
  /\ raw.type \in MemoryTypes
  /\ \A e \in ToSet(raw.entities) : Nameable(e) => e.type \in EntityTypes

Normalized(raw) ==
  [people |-> Unique(raw.people), topics |-> Unique(raw.topics),
   entities |-> Entities(raw.entities)]

-----------------------------------------------------------------------------

Busy(x) == extractions[x].pc \notin {"new", "refused", "answered"}

Reach(x, pc) == extractions' = [extractions EXCEPT ![x].pc = pc]

\* An answer that cannot be used is repaired once, by the model itself.
Extract(x) ==
  /\ extractions[x].pc = "new"
  /\ alone => \A y \in Extractors : ~Busy(y)
  /\ \E first, repaired \in RawAnswers :
       LET raw == IF Acceptable(first) THEN first ELSE repaired
       IN extractions' = [extractions EXCEPT ![x] =
            IF Acceptable(raw) THEN [pc |-> "create", answer |-> Normalized(raw), left |-> <<>>]
            ELSE [@ EXCEPT !.pc = "refused"]]
  /\ UNCHANGED <<alone, extracted, takenBack>>

CreateRow(x) ==
  LET a == extractions[x].answer
  IN /\ extractions[x].pc = "create"
     /\ extracted' = [extracted EXCEPT ![x] =
          [NoRow EXCEPT !.live = TRUE, !.people = a.people, !.topics = a.topics]]
     /\ Reach(x, "stages")
     /\ UNCHANGED <<alone, takenBack>>

\* The point is written and named by the row, the views are observed; the
\* row may be gone by then, and what fails here leaves the memory behind.
RunStages(x) ==
  /\ extractions[x].pc = "stages"
  /\ IF extracted[x].live
     THEN /\ extracted' = [extracted EXCEPT ![x].point = TRUE]
          /\ extractions' = [extractions EXCEPT ![x].pc = "entities",
                                                ![x].left = extractions[x].answer.entities]
     ELSE Reach(x, "refused") /\ UNCHANGED extracted
  /\ UNCHANGED <<alone, takenBack>>

(* Refuted variant: the error of an insert is not looked at.               *)
StoreSomeEntities(x) ==
  LET left == extractions[x].left
  IN /\ extractions[x].pc = "entities"
     /\ left # <<>>
     /\ \/ extracted' = [extracted EXCEPT ![x].entities = Append(@, Head(left))]
        \/ UNCHANGED extracted
     /\ extractions' = [extractions EXCEPT ![x].left = Tail(left)]
     /\ UNCHANGED <<alone, takenBack>>

\* The row of an entity refers to its memory; whatever stops an insert is
\* compensated, unless the handler itself is stopped.
StoreEntity(x) ==
  LET left == extractions[x].left
  IN /\ extractions[x].pc = "entities"
     /\ left # <<>>
     /\ \/ /\ extracted[x].live
           /\ extracted' = [extracted EXCEPT ![x].entities = Append(@, Head(left))]
           /\ extractions' = [extractions EXCEPT ![x].left = Tail(left)]
        \/ Reach(x, "compensate") /\ UNCHANGED extracted
     /\ UNCHANGED <<alone, takenBack>>

AnswerExtraction(x) ==
  /\ extractions[x].pc = "entities"
  /\ extractions[x].left = <<>>
  /\ Reach(x, "answered")
  /\ UNCHANGED <<alone, extracted, takenBack>>

\* The error of the compensation is dropped, and its two writes are apart.
Compensate(x) ==
  /\ extractions[x].pc = "compensate"
  /\ extracted[x].point
  /\ extracted' = [extracted EXCEPT ![x].point = FALSE]
  /\ Reach(x, "drop")
  /\ UNCHANGED <<alone, takenBack>>

\* Entities go with their memory.
DropRow(x) ==
  /\ \/ extractions[x].pc = "drop"
     \/ extractions[x].pc = "compensate" /\ ~extracted[x].point
  /\ extracted' = [extracted EXCEPT ![x] = NoRow]
  /\ Reach(x, "refused")
  /\ UNCHANGED <<alone, takenBack>>

\* A call or statement fails where nothing is compensated, the request is
\* out of time, or the process dies: what is stored stays.
ExtractionFails(x) ==
  /\ Busy(x)
  /\ Reach(x, "refused")
  /\ UNCHANGED <<alone, extracted, takenBack>>

\* DELETE /memory by another request of the subject.
TakeBack(x) ==
  /\ takenBack < MaxTakenBack
  /\ extracted[x].live
  /\ alone => \A y \in Extractors : ~Busy(y)
  /\ extracted' = [extracted EXCEPT ![x] = NoRow]
  /\ takenBack' = takenBack + 1
  /\ UNCHANGED <<alone, extractions>>

ExtractionNext ==
  \E x \in Extractors :
    \/ Extract(x) \/ CreateRow(x) \/ RunStages(x) \/ StoreEntity(x) \/ AnswerExtraction(x)
    \/ Compensate(x) \/ DropRow(x) \/ ExtractionFails(x) \/ TakeBack(x)

ExtractionSpec == ExtractionInit /\ [][ExtractionNext]_extractionVars

-----------------------------------------------------------------------------

NameKeys(list) == {LowerCase[n] : n \in ToSet(list) \ {Blank}}

EntityKeys(list) == {<<e.type, LowerCase[e.name]>> : e \in {d \in ToSet(list) : Nameable(d)}}

OncePerKey(list, keys) == Len(list) = Cardinality(keys)

(* A memory never stands for an answer that had to be thrown away, and     *)
(* names nobody and nothing twice; and once its request was answered, it   *)
(* has every entity of the answer and its point: a part of one remains     *)
(* only of a request that was refused.                                     *)
ExtractionIsWhole ==
  \A x \in {y \in Extractors : extracted[y].live} :
    LET row == extracted[x]
    IN \E raw \in RawAnswers :
         /\ raw.wellFormed /\ raw.summary # Blank /\ raw.type \in MemoryTypes
         /\ \A key \in EntityKeys(raw.entities) : key[1] \in EntityTypes
         /\ NameKeys(row.people) = NameKeys(raw.people)
         /\ NameKeys(row.topics) = NameKeys(raw.topics)
         /\ EntityKeys(row.entities) \subseteq EntityKeys(raw.entities)
         /\ extractions[x].pc = "answered" =>
              row.point /\ EntityKeys(row.entities) = EntityKeys(raw.entities)
         /\ OncePerKey(row.people, NameKeys(row.people))
         /\ OncePerKey(row.topics, NameKeys(row.topics))
         /\ OncePerKey(row.entities, EntityKeys(row.entities))
=============================================================================
