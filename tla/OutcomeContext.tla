--------------------------- MODULE OutcomeContext ---------------------------
(***************************************************************************)
(* What an outcome report is about: the answer of the assistant it is the  *)
(* outcome of, with its plan, goal, people and topics.  Every attempt      *)
(* works this out anew, while the session goes on; the outcome's row keeps *)
(* what the first attempt found.  OutcomeProcessing has the stages of a    *)
(* report, which are two steps here.                                       *)
(***************************************************************************)
EXTENDS Naturals, FiniteSets, NameLists

CONSTANTS
  Reporters,      (* handlers of reports                                   *)
  Payloads,       (* reports that callers may send, and send again         *)
  SessionOwner,   (* the subject of each session                           *)
  DefaultOwner,   (* the subject of callers that name none                 *)
  Posts,          (* messages that may be added, each to a session         *)
  RawAnalyses,    (* what the model may make of an outcome                 *)
  MaxPosts,
  MaxReports,     (* bound: reports sent                                   *)
  MaxScanned,     (* messages of a session that are read                   *)
  Unnamed         (* no subject, session, key, goal or prediction          *)

(* A report, a message and an answer that can be read have lists where     *)
(* lists are due; messages are known by their place.                       *)
ASSUME ReportsAssumption ==
  /\ \A p \in Payloads : p.message \in Nat
  /\ \A r \in Payloads \cup Posts \cup {raw \in RawAnalyses : raw.wellFormed /\ raw.summary # Blank} :
       r.people \in Seq(ToSet(r.people)) /\ r.topics \in Seq(ToSet(r.topics))

VARIABLES
  apart,      (* are the requests of a subject kept apart by the fence?    *)
  posts,      (* messages, in order                                        *)
  reports,    (* per handler: what it reports and what it found            *)
  sent,       (* reports so far                                            *)
  reported,   (* rows of interaction_outcomes                              *)
  recorded    (* rows of memory_items made for outcomes                    *)

reportVars == <<apart, posts, reports, sent, reported, recorded>>

NoReport == [pc |-> "idle"]

ReportsInit ==
  /\ apart \in BOOLEAN
  /\ posts = <<>>
  /\ reports = [a \in Reporters |-> NoReport]
  /\ sent = 0
  /\ reported = {} /\ recorded = {}

-----------------------------------------------------------------------------
(* The session                                                             *)

Working(subject) ==
  {a \in Reporters : reports[a].pc # "idle" /\ reports[a].of.user = subject}

Post(post) ==
  /\ Len(posts) < MaxPosts
  /\ apart => Working(SessionOwner[post.session]) = {}
  /\ posts' = Append(posts, post)
  /\ UNCHANGED <<apart, reports, sent, reported, recorded>>

\* The oldest messages of the session, as far as they are read.
Scanned(session) ==
  LET own == {i \in DOMAIN posts : posts[i].session = session}
  IN {i \in own : Cardinality({j \in own : j < i}) < MaxScanned}

\* The latest of these that has a plan, or just the latest; 0 without one.
LatestAnswered(session) ==
  LET answers == {i \in Scanned(session) : posts[i].role = "assistant"}
      planned == {i \in answers : posts[i].plan # <<>>}
      candidates == IF planned # {} THEN planned ELSE answers
  IN IF candidates = {} THEN 0 ELSE Max(candidates)

-----------------------------------------------------------------------------
(* A report                                                                *)

SendReport(a, p) ==
  /\ reports[a] = NoReport
  /\ sent < MaxReports
  /\ apart => p.user # Unnamed /\ Working(p.user) = {}
  /\ reports' = [reports EXCEPT ![a] = [pc |-> "resolve", of |-> p]]
  /\ sent' = sent + 1
  /\ UNCHANGED <<apart, posts, reported, recorded>>

ReportEnds(a) == reports' = [reports EXCEPT ![a] = NoReport]

FirstNamed(x, y) == IF x # Unnamed THEN x ELSE y

\* The strategy the plan recommends, or its first one.
Predicted(plan) ==
  IF plan = <<>> THEN Unnamed
  ELSE LET chosen == SelectSeq(plan.strategies, LAMBDA st : st.id = plan.recommended)
       IN IF chosen # <<>> THEN Head(chosen).response
          ELSE IF plan.strategies # <<>> THEN Head(plan.strategies).response ELSE Unnamed

(* Refuted variant: the session the caller names is believed.              *)
SessionNamed(p) == FirstNamed(p.session, IF p.message # 0 THEN posts[p.message].session ELSE Unnamed)

\* A message decides the session, and the session the subject.
SessionOf(p) == IF p.message # 0 THEN posts[p.message].session ELSE p.session

Found(p) ==
  /\ p.message <= Len(posts)
  /\ LET session == SessionOf(p)
     IN session # Unnamed =>
          /\ session \in DOMAIN SessionOwner
          /\ p.user # Unnamed => SessionOwner[session] = p.user

ContextOf(p) ==
  LET session == SessionOf(p)
      message == IF p.message # 0 THEN p.message
                 ELSE IF session # Unnamed THEN LatestAnswered(session) ELSE 0
      meta == IF message # 0 THEN posts[message]
              ELSE [plan |-> <<>>, goal |-> Unnamed, people |-> <<>>, topics |-> <<>>]
      user == IF session # Unnamed THEN SessionOwner[session] ELSE FirstNamed(p.user, DefaultOwner)
  IN [user |-> user, session |-> session, message |-> message,
      goal |-> FirstNamed(p.goal, meta.goal), predicted |-> Predicted(meta.plan),
      people |-> Merge(p.people, meta.people), topics |-> Merge(p.topics, meta.topics)]

\* What makes two reports the same; also the key of a report without one.
RequestHash(user, p) ==
  <<user, p.session, p.message, p.text, p.goal, Unique(p.people), Unique(p.topics)>>

RowsFor(user, key) == {o \in reported : o.user = user /\ o.key = key}

HasSummary(raw) == raw.wellFormed /\ raw.summary # Blank

ResolveReport(a) ==
  LET p == reports[a].of
  IN /\ reports[a].pc = "resolve"
     /\ IF Found(p) THEN reports' = [reports EXCEPT ![a] =
                           [pc |-> "look", of |-> p, context |-> ContextOf(p)]]
        ELSE ReportEnds(a)
     /\ UNCHANGED <<apart, posts, sent, reported, recorded>>

KeyOfReport(r) ==
  IF r.of.key # Unnamed THEN r.of.key ELSE RequestHash(r.context.user, r.of)

\* The analysis of an outcome that is known is the stored one; a new one is
\* made by the model, and repaired once.
LookUpReport(a) ==
  LET r == reports[a]
      rows == RowsFor(r.context.user, KeyOfReport(r))
      goes(pc, analysis) ==
        reports' = [reports EXCEPT ![a] = [pc |-> pc, of |-> r.of, analysis |-> analysis,
          context |-> [r.context EXCEPT !.people = Merge(@, analysis.people),
                                        !.topics = Merge(@, analysis.topics)]]]
  IN /\ r.pc = "look"
     /\ \/ \E o \in rows :
             IF o.hash = RequestHash(r.context.user, r.of) THEN goes("record", o.analysis)
             ELSE ReportEnds(a)
        \/ /\ rows = {}
           /\ \E first, repaired \in RawAnalyses :
                LET raw == IF HasSummary(first) THEN first ELSE repaired
                IN IF HasSummary(raw)
                   THEN goes("reserve", [people |-> Unique(raw.people), topics |-> Unique(raw.topics)])
                   ELSE ReportEnds(a)
     /\ UNCHANGED <<apart, posts, sent, reported, recorded>>

NewOutcome(r) ==
  [user |-> r.context.user, key |-> KeyOfReport(r), hash |-> RequestHash(r.context.user, r.of),
   by |-> r.of, session |-> r.context.session, message |-> r.context.message,
   goal |-> r.context.goal, predicted |-> r.context.predicted, analysis |-> r.analysis]

ReserveReport(a) ==
  LET r == reports[a]
      rows == RowsFor(r.context.user, KeyOfReport(r))
  IN /\ r.pc = "reserve"
     /\ reported' = IF rows = {} THEN reported \cup {NewOutcome(r)} ELSE reported
     /\ IF \A o \in rows : o.hash = RequestHash(r.context.user, r.of)
        THEN reports' = [reports EXCEPT ![a].pc = "record"]
        ELSE ReportEnds(a)
     /\ UNCHANGED <<apart, posts, sent, recorded>>

\* The memory is keyed by its outcome; the one that exists stays as it is.
RecordReport(a) ==
  LET r == reports[a]
      known == {m \in recorded : m.user = r.context.user /\ m.outcome = KeyOfReport(r)}
  IN /\ r.pc = "record"
     /\ recorded' = IF known # {} THEN recorded
                    ELSE recorded \cup
                      {[user |-> r.context.user, outcome |-> KeyOfReport(r),
                        session |-> r.context.session, message |-> r.context.message,
                        people |-> r.context.people, topics |-> r.context.topics]}
     /\ ReportEnds(a)
     /\ UNCHANGED <<apart, posts, sent, reported>>

ReportFails(a) ==
  /\ reports[a] # NoReport
  /\ ReportEnds(a)
  /\ UNCHANGED <<apart, posts, sent, reported, recorded>>

ReportsNext ==
  \/ \E post \in Posts : Post(post)
  \/ \E a \in Reporters :
       \/ \E p \in Payloads : SendReport(a, p)
       \/ ResolveReport(a) \/ LookUpReport(a) \/ ReserveReport(a)
       \/ RecordReport(a) \/ ReportFails(a)

ReportsSpec == ReportsInit /\ [][ReportsNext]_reportVars

-----------------------------------------------------------------------------

(* An outcome stays with one subject and one conversation: message and     *)
(* session are its subject's, who is the caller if there is one; goal and  *)
(* prediction are those of its message.  What a later attempt records for  *)
(* it is of the same session; behind the fence it may be about a later     *)
(* answer than the row, never an earlier one, and only of a report that    *)
(* names no message.                                                       *)
OutcomesKeepTheirContext ==
  \A o \in reported :
    /\ o.by.user # Unnamed => o.user = o.by.user
    /\ o.session # Unnamed => SessionOwner[o.session] = o.user
    /\ o.message # 0 =>
         /\ posts[o.message].session = o.session
         /\ o.predicted = Predicted(posts[o.message].plan)
         /\ o.goal \in {posts[o.message].goal, o.by.goal}
    /\ \A m \in recorded : m.user = o.user /\ m.outcome = o.key =>
         /\ m.session = o.session
         /\ ToSet(Unique(o.by.people)) \subseteq ToSet(m.people)
         /\ apart => m.message >= o.message
         /\ o.by.message # 0 => m.message = o.message
=============================================================================
