------------------------------ MODULE MCGateway ------------------------------
(***************************************************************************)
(* Six parts of the gateway side by side: a behaviour explores the part   *)
(* it starts in, and the others keep their first state.  What couples them *)
(* is the fence, which RequestAdmission takes and the others rely on.      *)
(***************************************************************************)
EXTENDS DerivedViews, RequestAdmission, ContextAssembly, Responses, MemoryExtraction,
        OutcomeContext, TLC

CONSTANTS alice, bob, a1, x1, x2, z1, tok, svc, p1, p2, t1, t2, c,
          m1, m2, m3, m4, m5, m6, w1, w2, w3, w4, ann, Ann, eve, note,
          home, k1, g1, g2

VARIABLE part    (* the part that is explored                                *)

Parts == {"views", "admission", "context", "responses", "extraction", "reports"}

vars == <<part, viewVars, admissionVars, contextVars, responseVars, extractionVars, reportVars>>

-----------------------------------------------------------------------------
(* Views: two memories with different names, three that bear on beliefs.   *)

MCPeopleOf == m1 :> {p1} @@ m2 :> {p1} @@ m3 :> {} @@ m4 :> {} @@ m5 :> {}
MCTopicsOf == m1 :> {t1, t2} @@ m2 :> {t1} @@ m3 :> {t1, t2} @@ m4 :> {t1} @@ m5 :> {t1}

PairOf(person, aliases, topic, score) ==
  [person |-> person, personAliases |-> aliases, topic |-> topic,
   topicAliases |-> <<>>, score |-> score]

MCPairAnswers ==
  {<<PairOf(p1, <<p2>>, t1, 3)>>,
   <<PairOf(p1, <<>>, t1, 0), PairOf(p2, <<p1>>, t2, 1)>>,
   <<PairOf(p2, <<>>, t1, 1)>>}

ClaimOf(topic, stance, confidence) ==
  [claim |-> c, topic |-> topic, topicAliases |-> <<>>, stance |-> stance,
   confidence |-> confidence]

MCBeliefAnswers ==
  {<<ClaimOf(t1, "supports", 2)>>, <<ClaimOf(Nothing, "contradicts", 1)>>,
   <<ClaimOf(t1, "unknown", 0), ClaimOf(t1, "contradicts", 2)>>}

MCEdits ==
  {PairOf(p1, <<t2>>, Nothing, Nothing) @@ [count |-> Nothing, ids |-> {}],
   [PairOf(p1, <<>>, t1, 1) EXCEPT !.topicAliases = <<t2>>] @@ [count |-> 0, ids |-> {}],
   PairOf(p1, <<>>, t1, Nothing) @@ [count |-> Nothing, ids |-> {m2, m3}]}

Pending(S) == completed = [m \in Memories |-> IF m \in S THEN {} ELSE ViewStages]

ViewsCase ==
  /\ failures = IF fenced THEN 0 ELSE MaxFailures
  /\ \/ Pending({m1, m2}) /\ edits = IF fenced THEN 0 ELSE MaxEdits
     \/ Pending(IF fenced THEN {m3, m4, m5} ELSE {m3, m4}) /\ edits = MaxEdits

\* Without the fence no memory is ingested again once it is done.
ViewsBound == fenced \/ \A h \in Handlers :
  work'[h].op = "ingest" => completed[work'[h].memory] # ViewStages

-----------------------------------------------------------------------------
(* Admission: every way to be refused, two keys, proxies and forgeries.    *)

RequestOf(peer, forwarded, token, delegation, route, user) ==
  [peer |-> peer, forwarded |-> forwarded, token |-> token, delegation |-> delegation,
   route |-> route, user |-> user,
   body |-> [large |-> FALSE, values |-> 1, wellFormed |-> TRUE]]

MCIncoming ==
  FALSE :> {RequestOf(a1, <<>>, None, <<>>, "responses", alice)} @@
  TRUE :> {RequestOf(a1, <<>>, tok, <<>>, "responses", None),
           RequestOf(x1, <<<<z1, x2, x1>>, <<a1>>>>, svc, <<bob>>, "responses", bob),
           RequestOf(x1, <<<<None, x2>>>>, svc, <<alice>>, "purge", alice),
           RequestOf(x1, <<<<a1, None>>>>, svc, <<>>, "ingest", None),
           RequestOf(a1, <<<<z1>>>>, tok, <<bob>>, "responses", None),
           RequestOf(a1, <<>>, None, <<>>, "health", None),
           RequestOf(x1, <<<<a1, z1, x2>>>>, None, <<>>, "memory", bob)}
MCSubjectOf == tok :> alice
MCDelegates == svc :> {alice, bob}

\* With tokens all is at one time, so that the lock is what matters; without,
\* time passes.
AdmissionCase == clock = IF authEnabled THEN MaxTime ELSE 1

-----------------------------------------------------------------------------
(* Context: repetitions, someone else's memory and an expired one.         *)

MemoryOf(subject, people, topics, words, hybrid, rest, created) ==
  [subject |-> subject, type |-> "note", people |-> people, topics |-> topics,
   words |-> words, text |-> words, hybrid |-> hybrid, rest |-> rest,
   created |-> created, expired |-> created = 6, confidence |-> 1]

MCMemory ==
  m1 :> MemoryOf(alice, <<p1>>, <<t1>>, {w1, w2, w3}, 4, 2, 1) @@
  m2 :> MemoryOf(alice, <<p2, p1>>, <<t1, t2>>, {w1, w2}, 4, 2, 2) @@
  m3 :> MemoryOf(alice, <<p1>>, <<t1>>, {w3, w4}, 3, 4, 3) @@
  m4 :> MemoryOf(alice, <<p1>>, <<t2>>, {w2, w4}, 2, 2, 4) @@
  m5 :> MemoryOf(bob, <<p1>>, <<t1>>, {w4}, 5, 4, 5) @@
  m6 :> MemoryOf(alice, <<p2>>, <<t1>>, {w1, w4}, 5, 4, 6)

MCQuestions ==
  {[subject |-> alice, asked |-> TRUE, words |-> {w4}, type |-> "note", people |-> {},
    topics |-> {t1}, mixed |-> FALSE, confidence |-> 1, expired |-> TRUE, limit |-> 0],
   [subject |-> bob, asked |-> TRUE, words |-> {}, type |-> "any", people |-> {},
    topics |-> {}, mixed |-> FALSE, confidence |-> 2, expired |-> FALSE, limit |-> MaxLimit + 1]}

AskOf(query, goal, mode, people, topics, mixed) ==
  [query |-> query, goal |-> goal, mode |-> mode, people |-> people, topics |-> topics,
   mixed |-> mixed, memoryOff |-> FALSE, knowledgeOff |-> FALSE]

MCRequests ==
  {AskOf({w1, w2}, {}, "answer", <<>>, <<>>, FALSE),
   AskOf({w4}, {w3}, "scenario", <<p1, p2>>, <<t1>>, TRUE),
   [AskOf({w1}, {}, "scenario", <<p1>>, <<t2, t1>>, FALSE) EXCEPT !.knowledgeOff = TRUE],
   [AskOf({}, {w1}, "scenario", <<p2>>, <<>>, FALSE) EXCEPT !.memoryOff = TRUE],
   AskOf({}, {}, "answer", <<>>, <<>>, FALSE)}

MCSize == [m \in Items |-> IF m = m3 THEN 3 ELSE 2]
MCEstimates == p1 :> <<t1, t2>> @@ p2 :> <<t2>>
MCBeliefsAbout == t1 :> <<w1, w2>> @@ t2 :> <<w2>>
MCAllBeliefs == <<w3, w1>>

EvidenceOf(chunk, provenance, text) ==
  [chunk |-> chunk, provenance |-> provenance, text |-> text, truncated |-> FALSE]

MCKnowledgeAnswers ==
  {<<>>,
   <<EvidenceOf(1, 2, 3), EvidenceOf(2, 2, 4)>>,
   <<EvidenceOf(1, 2, 9), EvidenceOf(2, 1, 2)>>,
   <<EvidenceOf(1, 2, 1), EvidenceOf(2, 9, 1), EvidenceOf(3, 1, 6)>>,
   <<EvidenceOf(1, 1, 1), EvidenceOf(1, 1, 1)>>,
   <<EvidenceOf(1, 1, 1), EvidenceOf(2, 1, 1), EvidenceOf(3, 1, 1), EvidenceOf(4, 1, 1)>>}

MCBudget == [knowledge |-> 11, memory |-> 8, people |-> 8, topics |-> 7, beliefs |-> 4]
MCWeights == [retrieval |-> 2, goal |-> 1, rest |-> 1]
MCThreshold == <<1, 2>>

-----------------------------------------------------------------------------
(* Responses: answers that fail to parse, that leave nothing and that      *)
(* recommend what is not there.                                            *)

StrategyOf(id, blank, score) == [id |-> id, blank |-> blank, score |-> score]

MCPlans ==
  {[strategies |-> <<>>, recommended |-> 1],
   [strategies |-> <<StrategyOf(1, TRUE, 3)>>, recommended |-> 1],
   [strategies |-> <<StrategyOf(1, TRUE, 9), StrategyOf(2, FALSE, 1),
                     StrategyOf(3, FALSE, 2), StrategyOf(4, FALSE, 7)>>, recommended |-> 1]}

-----------------------------------------------------------------------------

(* Extraction: answers that are unreadable, repetitive or of a strange     *)
(* type, also where the strange entity has no name.                        *)

MCLowerCase == ann :> ann @@ Ann :> ann @@ eve :> eve

EntityOf(type, name) == [type |-> type, name |-> name]

RawOf(type, summary, people, entities) ==
  [wellFormed |-> TRUE, type |-> type, summary |-> summary, people |-> people,
   topics |-> <<eve>>, entities |-> entities]

MCRawAnswers ==
  {[RawOf(note, eve, <<>>, <<>>) EXCEPT !.wellFormed = FALSE],
   RawOf(note, Blank, <<ann>>, <<>>),
   RawOf(note, eve, <<Ann, Blank, ann>>,
         <<EntityOf("person", Ann), EntityOf("place", Blank), EntityOf("claim", ann),
           EntityOf("person", ann)>>),
   RawOf(note, eve, <<eve, ann>>, <<EntityOf("place", ann), EntityOf("person", ann)>>),
   RawOf(eve, eve, <<ann>>, <<EntityOf("person", ann)>>)}

-----------------------------------------------------------------------------
(* Reports: one that names its message, one that names a session only, a   *)
(* stranger's, one that takes another report's key.                        *)

MCSessionOwner == home :> alice @@ note :> bob

PostOf(within, role, plan, goal, people) ==
  [session |-> within, role |-> role, plan |-> plan, goal |-> goal, people |-> people,
   topics |-> <<>>]

PlanOf(recommended, responses) ==
  [recommended |-> recommended,
   strategies |-> [i \in DOMAIN responses |-> [id |-> i, response |-> responses[i]]]]

MCPosts ==
  {PostOf(home, "user", <<>>, Unnamed, <<>>),
   PostOf(home, "assistant", <<>>, Unnamed, <<>>),
   PostOf(home, "assistant", PlanOf(2, <<g1, g2>>), g1, <<Ann>>),
   PostOf(home, "assistant", PlanOf(0, <<g1, g2>>), g2, <<eve>>),
   PostOf(note, "assistant", PlanOf(1, <<g2>>), g1, <<ann, eve>>)}

PayloadOf(user, within, message, key, goal, people) ==
  [user |-> user, session |-> within, message |-> message, key |-> key, goal |-> goal,
   people |-> people, topics |-> <<>>, text |-> g1]

MCPayloads ==
  {PayloadOf(alice, home, 0, k1, Unnamed, <<ann>>),
   PayloadOf(alice, note, 1, Unnamed, g2, <<>>),
   PayloadOf(bob, home, 0, k1, Unnamed, <<>>),
   PayloadOf(Unnamed, note, 0, k1, Unnamed, <<>>),
   PayloadOf(Unnamed, note, 2, k1, g1, <<>>)}

MCRawAnalyses ==
  {[wellFormed |-> FALSE], [wellFormed |-> TRUE, summary |-> Blank],
   [wellFormed |-> TRUE, summary |-> eve, people |-> <<ann, Ann>>, topics |-> <<Blank>>]}

-----------------------------------------------------------------------------

MCInit ==
  /\ part \in Parts
  /\ ViewsInit
  /\ IF part = "views" THEN ViewsCase
     ELSE Pending({}) /\ ~fenced /\ failures = 0 /\ edits = 0
  /\ AdmissionInit
  /\ IF part = "admission" THEN AdmissionCase ELSE ~authEnabled /\ clock = 1
  /\ ContextInit /\ (part # "context" => collection)
  /\ ResponsesInit /\ (part # "responses" => ~locked)
  /\ ExtractionInit /\ (part # "extraction" => ~alone)
  /\ ReportsInit /\ (part # "reports" => ~apart)

MCNext ==
  \/ part = "views" /\ ViewsNext /\ ViewsBound
     /\ UNCHANGED <<part, admissionVars, contextVars, responseVars, extractionVars, reportVars>>
  \/ part = "admission" /\ AdmissionNext
     /\ UNCHANGED <<part, viewVars, contextVars, responseVars, extractionVars, reportVars>>
  \/ part = "context" /\ ContextNext
     /\ UNCHANGED <<part, viewVars, admissionVars, responseVars, extractionVars, reportVars>>
  \/ part = "responses" /\ ResponsesNext
     /\ UNCHANGED <<part, viewVars, admissionVars, contextVars, extractionVars, reportVars>>
  \/ part = "extraction" /\ ExtractionNext
     /\ UNCHANGED <<part, viewVars, admissionVars, contextVars, responseVars, reportVars>>
  \/ part = "reports" /\ ReportsNext
     /\ UNCHANGED <<part, viewVars, admissionVars, contextVars, responseVars, extractionVars>>

MCSpec == MCInit /\ [][MCNext]_vars

\* The handlers of every part are the same two.
Symmetry == Permutations(Handlers) \cup Permutations(Users)
=============================================================================
