---------------------------- MODULE ObservedNames ----------------------------
(***************************************************************************)
(* What the two services that learn from a memory share: the handler that  *)
(* processes the memory, the fence of its subject, and the rows of people  *)
(* and topics, which both read, merge and write back by name.  Names are   *)
(* normalized (lower case, single spaces), as the code compares them.      *)
(***************************************************************************)
EXTENDS Integers, FiniteSets, SequencesExt

CONSTANTS
  Handlers,      (* concurrent requests of one subject                     *)
  Memories,      (* memories of outcome reports, which may be repeated     *)
  Names,         (* names and aliases of people and topics                 *)
  PeopleOf,      (* the people each memory names                           *)
  TopicsOf,      (* the topics each memory names                           *)
  MaxFailures,   (* bound: failed statements, failed calls, dead handlers  *)
  Nothing

ASSUME NamesAssumption ==
  /\ Nothing \notin Names \cup Handlers
  /\ \A m \in Memories : PeopleOf[m] \subseteq Names /\ TopicsOf[m] \subseteq Names

VARIABLES
  fenced,      (* are callers authenticated, and the subject fenced?       *)
  holder,      (* the handler that holds the fence                         *)
  work,        (* what each handler is doing                               *)
  names,       (* per table and name: what its row answers to, {} if none  *)
  completed,   (* per memory: the stages its processing state completed    *)
  failures

session == <<fenced, holder, completed, failures>>

ViewStages == {"person_model", "belief"}
Tables == {"person", "topic"}

NoWork == [op |-> "none", pc |-> "idle", memory |-> Nothing, items |-> <<>>,
           read |-> Nothing]

\* The rows of people and topics a memory names.
Taxonomy(m) == ({"person"} \X PeopleOf[m]) \cup ({"topic"} \X TopicsOf[m])

\* What was processed before has left its rows.
NamesInit ==
  /\ fenced \in BOOLEAN
  /\ holder = Nothing
  /\ work = [h \in Handlers |-> NoWork]
  /\ completed \in [Memories -> {{}, {"person_model"}, ViewStages}]
  /\ names = [t \in Tables |-> [n \in Names |->
               {x \in {n} : \E m \in Memories : completed[m] # {} /\ <<t, n>> \in Taxonomy(m)}]]
  /\ failures \in 0..MaxFailures

-----------------------------------------------------------------------------

\* The next handler of a subject waits until the one before has answered.
Begin(h, job) ==
  /\ work[h] = NoWork
  /\ fenced => holder = Nothing
  /\ work' = [work EXCEPT ![h] = job]
  /\ holder' = IF fenced THEN h ELSE holder

Answer(h) ==
  /\ work' = [work EXCEPT ![h] = NoWork]
  /\ holder' = IF holder = h THEN Nothing ELSE holder

Step(h, pc) == work' = [work EXCEPT ![h].pc = pc]

Item(h) == Head(work[h].items)

\* The stage a memory is at, which a repeated report resumes.
PendingStage(done) ==
  IF "person_model" \notin done THEN "person_model"
  ELSE IF "belief" \notin done THEN "belief" ELSE "done"

\* A memory is ingested, or ingested again by a repeated report.
Process(h, m) ==
  /\ Begin(h, [NoWork EXCEPT !.op = "ingest", !.pc = "taxonomy", !.memory = m,
                              !.read = Taxonomy(m)])
  /\ UNCHANGED <<fenced, names, completed, failures>>

\* Every ingest first writes the people, then the topics of its memory, each
\* under its name and without any alias.
UpsertTaxonomy(h) ==
  /\ work[h].pc = "taxonomy"
  /\ \E row \in work[h].read :
       /\ row[1] = "topic" => \A other \in work[h].read : other[1] = "topic"
       /\ names' = [names EXCEPT ![row[1]][row[2]] = {row[2]}]
       /\ work' = [work EXCEPT ![h].read = @ \ {row}]
  /\ UNCHANGED session

\* Only then is the state of its stages read.
StartStages(h) ==
  LET stage == PendingStage(completed[work[h].memory])
  IN /\ work[h].pc = "taxonomy" /\ work[h].read = {}
     /\ IF stage = "done" THEN Answer(h)
        ELSE /\ work' = [work EXCEPT ![h].op = stage, ![h].pc = "ask", ![h].read = Nothing]
             /\ UNCHANGED holder
     /\ UNCHANGED <<fenced, names, completed, failures>>

CompleteStage(h) ==
  LET m == work[h].memory
      done == completed[m] \cup {work[h].op}
  IN /\ work[h].pc = "item" /\ work[h].items = <<>>
     /\ IF m = Nothing THEN UNCHANGED completed
        ELSE completed' = [completed EXCEPT ![m] = done]
     /\ IF m = Nothing \/ PendingStage(done) = "done" THEN Answer(h)
        ELSE /\ work' = [work EXCEPT ![h].op = PendingStage(done), ![h].pc = "ask"]
             /\ UNCHANGED holder
     /\ UNCHANGED <<fenced, names, failures>>

\* Any statement and any call of the model may fail, and the handler may die:
\* what was written stays, and the stage is not completed.
HandlerFails(h) ==
  /\ work[h] # NoWork
  /\ failures < MaxFailures
  /\ failures' = failures + 1
  /\ Answer(h)
  /\ UNCHANGED <<fenced, names, completed>>

-----------------------------------------------------------------------------
(* Names                                                                   *)

\* Of a name and its aliases, the first that the memory uses itself.
Match(name, aliases, candidates) ==
  LET called == <<name>> \o aliases
      i == SelectInSeq(called, LAMBDA n : n \in candidates)
  IN IF i = 0 THEN Nothing ELSE called[i]

ReadName(h, table, name, pc) ==
  /\ work' = [work EXCEPT ![h].read = names[table][name], ![h].pc = pc]
  /\ UNCHANGED <<session, names>>

\* The upsert replaces the aliases by those read before and the new ones.
WriteName(h, table, name, aliases, pc) ==
  /\ names' = [names EXCEPT ![table][name] = work[h].read \cup {name} \cup ToSet(aliases)]
  /\ work' = [work EXCEPT ![h].read = Nothing, ![h].pc = pc]
  /\ UNCHANGED session

-----------------------------------------------------------------------------
(* Confidences and scores are fractions <<numerator, denominator>>.        *)

\* The mean of a score that weighs count, and one more.
Average(score, count, observed) ==
  IF count = 0 THEN <<observed, 1>>
  ELSE <<score[1] * count + observed * score[2], score[2] * (count + 1)>>

\* A vote is a memory and what it was counted with.
IsMeanOf(score, votes) ==
  score[1] * Cardinality(votes) = score[2] * MapThenSumSet(LAMBDA v : v[2], votes)
=============================================================================
