-------------------------- MODULE ContextAssembly --------------------------
(***************************************************************************)
(* What the model is told beside the user's words.  Two branches run at    *)
(* once, one searches the memories of the subject, one asks the knowledge  *)
(* service; when both are over their findings are cut to fixed budgets.    *)
(* Sizes are the bytes of rendered text, in units of the model.            *)
(***************************************************************************)
EXTENDS MemorySearch

CONSTANTS
  Requests,          (* what users ask: query, goal, people, topics, flags *)
  Subject,           (* the user who asks                                  *)
  Size,              (* per memory: the size of its summary                *)
  Estimates,         (* per person: the topics of the person's models      *)
  BeliefsAbout,      (* per topic: its beliefs, newest first               *)
  AllBeliefs,        (* all beliefs of the subject, newest first           *)
  Credentials,       (* subjects the knowledge service is configured for   *)
  KnowledgeAnswers,  (* what the knowledge service may answer              *)
  KnowledgeLimit,    (* evidence asked for                                 *)
  MemoryLimit, MemoryChars, LineLimit,
  Budget,            (* per section                                        *)
  HeadingSize, NoteSize, LineSize, RuneWidth

IsList(seq) == seq \in Seq(ToSet(seq))

PeopleNamed == UNION {ToSet(x.people) : x \in Requests \cup {Memory[m] : m \in Items}}
TopicsNamed == UNION {ToSet(x.topics) : x \in Requests \cup {Memory[m] : m \in Items}}

(* Every reservation has room for its heading.                             *)
ASSUME ContextAssumption ==
  /\ NoQuestion \notin Requests
  /\ \A x \in Requests \cup {Memory[m] : m \in Items} : IsList(x.people) /\ IsList(x.topics)
  /\ \A p \in PeopleNamed : IsList(Estimates[p])
  /\ \A t \in TopicsNamed : IsList(BeliefsAbout[t])
  /\ IsList(AllBeliefs)
  /\ \A evidence \in KnowledgeAnswers :
       /\ IsList(evidence)
       /\ \A e \in ToSet(evidence) :
            /\ DOMAIN e = {"chunk", "provenance", "text", "truncated"}
            /\ e.provenance \in Nat /\ e.text \in Nat
  /\ Size \in [Items -> Nat]
  /\ {HeadingSize, NoteSize, LineSize, LineLimit, Budget.knowledge} \subseteq Nat
  /\ RuneWidth \in Nat \ {0}
  /\ {Budget.memory, Budget.people, Budget.topics, Budget.beliefs} \subseteq {n \in Nat : n >= HeadingSize}

VARIABLES
  request,     (* the request, or NoQuestion                               *)
  memoryPart,  (* the packet of the memory branch                          *)
  knowledge,   (* the packet of the knowledge branch                       *)
  packet       (* what was put together                                    *)

contextVars == <<searchVars, request, memoryPart, knowledge, packet>>

NoMemory == [pc |-> "off", memories |-> <<>>, omitted |-> 0, people |-> <<>>,
             topics |-> <<>>, beliefs |-> <<>>]
NoKnowledge == [pc |-> "off", status |-> "", evidence |-> <<>>]

ContextInit ==
  /\ SearchInit
  /\ request = NoQuestion
  /\ memoryPart = NoMemory
  /\ knowledge = NoKnowledge
  /\ packet = <<>>

Sum(sizes) ==
  LET sum[n \in 0..Len(sizes)] == IF n = 0 THEN 0 ELSE sum[n - 1] + sizes[n]
  IN sum[Len(sizes)]

SummariesSize(memories) == Sum([i \in DOMAIN memories |-> Size[memories[i]]])

-----------------------------------------------------------------------------
(* The sections of memories and lines                                      *)

(* Memories with one summary count once; those beyond the limits are only  *)
(* counted.                                                                *)
MemorySection(results) ==
  LET section[n \in 0..Len(results)] ==
        IF n = 0 THEN [memories |-> <<>>, omitted |-> 0]
        ELSE LET m == results[n]
                 so == section[n - 1]
             IN IF \E i \in 1..n - 1 : Memory[results[i]].words = Memory[m].words THEN so
                ELSE IF \/ Len(so.memories) = MemoryLimit
                        \/ SummariesSize(so.memories) + Size[m] > MemoryChars
                THEN [so EXCEPT !.omitted = @ + 1]
                ELSE [so EXCEPT !.memories = Append(@, m)]
  IN section[Len(results)]

\* Of each group of lines the first that is new.
Lines(groups) ==
  LET lines[n \in 0..Len(groups)] ==
        IF n = 0 THEN <<>>
        ELSE LET so == lines[n - 1]
                 new == {i \in DOMAIN groups[n] : groups[n][i] \notin ToSet(so)}
             IN IF new = {} \/ Len(so) = LineLimit THEN so ELSE Append(so, groups[n][Min(new)])
  IN lines[Len(groups)]

Singles(lines) == [i \in DOMAIN lines |-> <<lines[i]>>]

Each(seq, f(_)) == FlattenSeq([i \in DOMAIN seq |-> f(seq[i])])

If(condition, item) == IF condition THEN <<item>> ELSE <<>>

Line(name, of) == [name |-> name, of |-> of, size |-> LineSize]

(* Known lines, then a line per name asked for, then all other names of    *)
(* the memories.  kind: the field that lists them.                         *)
NameLines(known, asked, results, kind) ==
  Lines(Singles(known)
        \o [i \in DOMAIN asked |->
              Each(results, LAMBDA m : If(asked[i] \in ToSet(Memory[m][kind]), Line(asked[i], m)))]
        \o Singles(Each(results, LAMBDA m : Each(Memory[m][kind], LAMBDA n : <<Line(n, m)>>))))

PeopleContext(models, results) == NameLines(models, request.people, results, "people")
TopicContext(results) == NameLines(<<>>, request.topics, results, "topics")

NamesMentioned(asked, results, kind) ==
  Lines(Singles(asked \o Each(results, LAMBDA m : Memory[m][kind])))

(* The models of the people named, for the topics named if any are.        *)
ModelLines(people, topics) ==
  Lines(Singles(Each(people, LAMBDA p :
    Each(Estimates[p], LAMBDA t : If(topics = <<>> \/ t \in ToSet(topics), Line(p, t))))))

(* The beliefs about the topics named, or any if there are none.           *)
BeliefLines(topics) ==
  LET about == Lines(Singles(Each(topics, LAMBDA t :
                 Each(SubSeq(BeliefsAbout[t], 1, Min({Len(BeliefsAbout[t]), LineLimit})),
                      LAMBDA b : <<Line(b, "belief")>>))))
  IN IF about # <<>> THEN about
     ELSE Lines(Singles(Each(AllBeliefs, LAMBDA b : <<Line(b, "belief")>>)))

-----------------------------------------------------------------------------
(* The budgets                                                             *)

LinesSize(lines) == HeadingSize + Sum([i \in DOMAIN lines |-> lines[i].size])

(* Refuted variant: cuts behind the character that crosses the limit.      *)
ClipBehind(size, limit) ==
  IF size <= limit THEN size ELSE ((limit + RuneWidth - 1) \div RuneWidth) * RuneWidth

\* A text is cut between two characters.
Clip(size, limit) == IF size <= limit THEN size ELSE (limit \div RuneWidth) * RuneWidth

(* The last line is cut, or dropped if cutting it is not enough.           *)
TrimLines(lines, budget) ==
  LET trimmed[n \in 0..Len(lines)] ==
        LET some == SubSeq(lines, 1, n)
            excess == LinesSize(some) - budget
        IN IF n = 0 \/ excess <= 0 THEN some
           ELSE IF lines[n].size <= excess THEN trimmed[n - 1]
           ELSE [some EXCEPT ![n].size = Clip(@, @ - excess)]
  IN trimmed[Len(lines)]

MemorySize(memories, omitted) ==
  HeadingSize + SummariesSize(memories)
    + IF memories # <<>> /\ omitted > 0 THEN NoteSize ELSE 0

TrimMemories(memories, omitted) ==
  LET n == Len(memories)
      fits == {k \in 1..n : MemorySize(SubSeq(memories, 1, k), omitted + n - k) <= Budget.memory}
      kept == IF fits = {} THEN 0 ELSE Max(fits)
  IN [memories |-> SubSeq(memories, 1, kept), omitted |-> omitted + n - kept]

EvidenceSize(items) ==
  IF items = <<>> THEN 0
  ELSE HeadingSize + Sum([i \in DOMAIN items |-> items[i].provenance + items[i].text])

CutTo(e, n) == [e EXCEPT !.text = Clip(e.text, n), !.truncated = TRUE]

(* Evidence that does not fit is cut to the longest text that does; where  *)
(* its provenance alone does not fit it is omitted, and a later, shorter   *)
(* one may still fit.                                                      *)
TrimEvidence(evidence, omitted) ==
  LET Fits(items) == EvidenceSize(items) <= Budget.knowledge
      trimmed[n \in 0..Len(evidence)] ==
        IF n = 0 THEN [kept |-> <<>>, omitted |-> omitted]
        ELSE LET e == evidence[n]
                 so == trimmed[n - 1]
                 fitting == {k \in 0..e.text : Fits(Append(so.kept, CutTo(e, k)))}
             IN IF Fits(Append(so.kept, e)) THEN [so EXCEPT !.kept = Append(@, e)]
                ELSE IF fitting = {} \/ Clip(e.text, Max(fitting)) = 0
                THEN [so EXCEPT !.omitted = @ + 1]
                ELSE [so EXCEPT !.kept = Append(@, CutTo(e, Max(fitting)))]
  IN trimmed[Len(evidence)]

ApplyContextBudgets(p) ==
  LET evidence == TrimEvidence(p.evidence, p.omittedEvidence)
      memories == TrimMemories(p.memories, p.omitted)
  IN [p EXCEPT !.evidence = evidence.kept, !.omittedEvidence = evidence.omitted,
               !.memories = memories.memories, !.omitted = memories.omitted,
               !.people = TrimLines(@, Budget.people),
               !.topics = TrimLines(@, Budget.topics),
               !.beliefs = TrimLines(@, Budget.beliefs)]

-----------------------------------------------------------------------------
(* The branches                                                            *)

Query(r) == IF r.query # {} THEN r.query ELSE r.goal

Question(r) ==
  [subject |-> Subject, asked |-> TRUE, words |-> IF r.goal # {} THEN r.goal ELSE r.query,
   type |-> "any", people |-> ToSet(r.people), topics |-> ToSet(r.topics),
   mixed |-> r.mixed, confidence |-> 0, expired |-> FALSE, limit |-> MemoryLimit]

(* Without memories a response is a plain answer, whatever mode it asks.   *)
Mode(r) == IF r.memoryOff THEN "answer" ELSE r.mode

Start(r) ==
  /\ request = NoQuestion /\ search.pc = "idle"
  /\ request' = r
  /\ IF r.memoryOff \/ Query(r) = {}
     THEN memoryPart' = [NoMemory EXCEPT !.pc = "done"] /\ UNCHANGED searchVars
     ELSE memoryPart' = [NoMemory EXCEPT !.pc = "search"] /\ StartSearch(Question(r))
  /\ knowledge' =
       IF r.knowledgeOff THEN [NoKnowledge EXCEPT !.pc = "done", !.status = "disabled"]
       ELSE IF Query(r) = {} THEN [NoKnowledge EXCEPT !.pc = "done"]
       ELSE IF Subject \notin Credentials
       THEN [NoKnowledge EXCEPT !.pc = "done", !.status = "not_configured"]
       ELSE [NoKnowledge EXCEPT !.pc = "asked"]
  /\ UNCHANGED packet

\* The error of the search ends the branch; no one else hears of it.
MemoryFails ==
  /\ memoryPart.pc = "search" /\ search.pc = "failed"
  /\ memoryPart' = [NoMemory EXCEPT !.pc = "done"]
  /\ UNCHANGED <<searchVars, request, knowledge, packet>>

(* Reading models or beliefs may fail, and costs only these.               *)
AssembleMemory(modelsRead, beliefsRead) ==
  LET results == search.results
      section == MemorySection(results)
      names == NamesMentioned(request.people, results, "people")
      subjects == NamesMentioned(request.topics, results, "topics")
      models == IF modelsRead THEN ModelLines(names, subjects) ELSE <<>>
  IN /\ memoryPart.pc = "search" /\ search.pc = "found"
     /\ memoryPart' =
          [pc |-> "done", memories |-> section.memories, omitted |-> section.omitted,
           people |-> PeopleContext(models, results),
           topics |-> TopicContext(results),
           beliefs |-> IF beliefsRead THEN BeliefLines(subjects) ELSE <<>>]
     /\ UNCHANGED <<searchVars, request, knowledge, packet>>

(* More than was asked for, a chunk named twice or evidence that is not    *)
(* complete makes the whole answer invalid.                                *)
WellFormed(evidence) ==
  /\ Len(evidence) <= KnowledgeLimit
  /\ IsInjective([i \in DOMAIN evidence |-> evidence[i].chunk])
  /\ \A i \in DOMAIN evidence : evidence[i].text > 0

KnowledgeAnswered(evidence) ==
  /\ knowledge.pc = "asked"
  /\ knowledge' = IF WellFormed(evidence)
                  THEN [pc |-> "done", status |-> "ready", evidence |-> evidence]
                  ELSE [NoKnowledge EXCEPT !.pc = "done", !.status = "invalid_response"]
  /\ UNCHANGED <<searchVars, request, memoryPart, packet>>

(* No answer, one in time, or one that refuses.                            *)
KnowledgeFails ==
  /\ knowledge.pc = "asked"
  /\ \E code \in {"timeout", "unauthorized"} :
       knowledge' = [NoKnowledge EXCEPT !.pc = "done", !.status = code]
  /\ UNCHANGED <<searchVars, request, memoryPart, packet>>

(* Refuted variant: a failed search of memories returns before the join.   *)
MergedUnlessFailed(m, k) ==
  [mode |-> Mode(request), memories |-> m.memories, omitted |-> m.omitted,
   people |-> m.people, topics |-> m.topics, beliefs |-> m.beliefs,
   status |-> IF search.pc = "failed" THEN "" ELSE k.status,
   evidence |-> IF search.pc = "failed" THEN <<>> ELSE k.evidence, omittedEvidence |-> 0]

Merged(m, k) ==
  [mode |-> Mode(request), memories |-> m.memories, omitted |-> m.omitted,
   people |-> m.people, topics |-> m.topics, beliefs |-> m.beliefs,
   status |-> k.status, evidence |-> k.evidence, omittedEvidence |-> 0]

Join ==
  /\ memoryPart.pc = "done" /\ knowledge.pc = "done" /\ packet = <<>>
  /\ packet' = ApplyContextBudgets(Merged(memoryPart, knowledge))
  /\ UNCHANGED <<searchVars, request, memoryPart, knowledge>>

(* What the debug endpoint shows beside the response: the budgets applied  *)
(* to the packet again, or to one that was told nothing from memories.     *)
DebugPacket(disableMemory) ==
  ApplyContextBudgets(
    IF disableMemory
    THEN [packet EXCEPT !.memories = <<>>, !.omitted = 0, !.people = <<>>, !.topics = <<>>,
                        !.beliefs = <<>>, !.omittedEvidence = 0]
    ELSE packet)

\* The search endpoint asks without a response being made.
SearchEndpoint(q) ==
  /\ request = NoQuestion
  /\ StartSearch(q)
  /\ UNCHANGED <<request, memoryPart, knowledge, packet>>

ContextNext ==
  \/ \E q \in Questions : SearchEndpoint(q)
  \/ \E r \in Requests : Start(r)
  \/ SearchStep /\ UNCHANGED <<request, memoryPart, knowledge, packet>>
  \/ \E m \in Items : (LoseRow(m) \/ LosePoint(m)) /\ UNCHANGED <<request, memoryPart, knowledge, packet>>
  \/ MemoryFails
  \/ \E modelsRead, beliefsRead \in BOOLEAN : AssembleMemory(modelsRead, beliefsRead)
  \/ \E evidence \in KnowledgeAnswers : KnowledgeAnswered(evidence)
  \/ KnowledgeFails
  \/ Join

ContextSpec == ContextInit /\ [][ContextNext]_contextVars

-----------------------------------------------------------------------------

(* Neither branch suppresses the other: the evidence the service gave is   *)
(* in the packet or counted as omitted, whatever became of the search, and *)
(* so are the memories found, each summary once, whatever the service      *)
(* said.  Where no memories were wanted or found, nothing learned from     *)
(* memories is told, and none that were not wanted shape the answer.       *)
BranchesAreIndependent ==
  packet # <<>> =>
    /\ packet.status = knowledge.status
    /\ Len(packet.evidence) + packet.omittedEvidence = Len(knowledge.evidence)
    /\ Len(packet.memories) + packet.omitted =
         IF search.pc = "found"
         THEN Cardinality({Memory[m].words : m \in ToSet(search.results)}) ELSE 0
    /\ search.pc # "found" => packet.people \o packet.topics \o packet.beliefs = <<>>
    /\ request.memoryOff => search.pc = "idle" /\ packet.mode = "answer"

(* Every section fits its reservation, so that none needs another's room;  *)
(* what is kept is in the order it came in, cut only at its end; and what  *)
(* the debug endpoint shows is what the model was told: applying the       *)
(* budgets a second time changes nothing, and without memories the same    *)
(* evidence is left.                                                       *)
BudgetsHold ==
  packet # <<>> =>
    /\ EvidenceSize(packet.evidence) <= Budget.knowledge
    /\ MemorySize(packet.memories, packet.omitted) <= Budget.memory
    /\ LinesSize(packet.people) <= Budget.people
    /\ LinesSize(packet.topics) <= Budget.topics
    /\ LinesSize(packet.beliefs) <= Budget.beliefs
    /\ IsPrefix(packet.memories, memoryPart.memories)
    /\ \A e \in ToSet(packet.evidence) : \E given \in ToSet(knowledge.evidence) :
         /\ e.chunk = given.chunk /\ e.provenance = given.provenance
         /\ e.text > 0 /\ e.text <= given.text
         /\ e.text < given.text => e.truncated
    /\ DebugPacket(FALSE) = packet
    /\ DebugPacket(TRUE).evidence = packet.evidence
=============================================================================
