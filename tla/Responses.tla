----------------------------- MODULE Responses -----------------------------
(***************************************************************************)
(* A response as the database sees it: the session is found or created,    *)
(* the user's messages are stored, the model answers, the answer is        *)
(* stored; each is a statement or a call of its own, and nothing undoes    *)
(* one.  The debug endpoint reads a session and its last turn.             *)
(***************************************************************************)
EXTENDS Naturals, FiniteSets, Sequences

CONSTANTS
  Calls,         (* requests, each made at most once                       *)
  Users,
  SessionIds,    (* ids clients give to sessions                           *)
  FreshIds,      (* ids the gateway makes up                               *)
  MaxMessages,   (* user messages of one request                           *)
  Plans,         (* plans the model may answer with; <<>> cannot be parsed *)
  MaxStrategies,
  MaxListed,     (* messages of a session the debug endpoint reads         *)
  Nobody

ASSUME ResponsesAssumption ==
  /\ Nobody \notin Users \cup Calls
  /\ MaxStrategies \in Nat \ {0}
  /\ \A plan \in Plans :
       plan.strategies \in Seq([id : Nat, blank : BOOLEAN, score : Nat])

VARIABLES
  locked,     (* are callers authenticated, and their requests fenced?     *)
  running,    (* per user: the call that holds the fence                   *)
  calls,      (* per call: what it asks and how far it came                *)
  sessions,   (* per id: the user of the session's row, Nobody without     *)
  messages    (* the rows of messages, in order                            *)

responseVars == <<locked, running, calls, sessions, messages>>

NewCall == [pc |-> "new", user |-> Nobody, session |-> Nobody, left |-> 0,
            scenario |-> FALSE, plan |-> <<>>]

ResponsesInit ==
  /\ locked \in BOOLEAN
  /\ running = [u \in Users |-> Nobody]
  /\ calls = [c \in Calls |-> NewCall]
  /\ sessions = [s \in SessionIds \cup FreshIds |-> Nobody]
  /\ messages = <<>>

-----------------------------------------------------------------------------

(* Refuted variant: the fence is not waited for.                           *)
AcceptUnfenced(c, u, s, n, scenario) ==
  /\ calls[c].pc = "new"
  /\ running' = IF locked THEN [running EXCEPT ![u] = c] ELSE running
  /\ calls' = [calls EXCEPT ![c] = [NewCall EXCEPT !.pc = "session", !.user = u,
                                      !.session = s, !.left = n, !.scenario = scenario]]
  /\ UNCHANGED <<locked, sessions, messages>>

Accept(c, u, s, n, scenario) ==
  /\ calls[c].pc = "new"
  /\ locked => running[u] = Nobody
  /\ running' = IF locked THEN [running EXCEPT ![u] = c] ELSE running
  /\ calls' = [calls EXCEPT ![c] = [NewCall EXCEPT !.pc = "session", !.user = u,
                                      !.session = s, !.left = n, !.scenario = scenario]]
  /\ UNCHANGED <<locked, sessions, messages>>

Ends(c) ==
  /\ calls' = [calls EXCEPT ![c].pc = "over"]
  /\ running' = [u \in Users |-> IF running[u] = c THEN Nobody ELSE running[u]]

GoesOn(c, pc) == calls' = [calls EXCEPT ![c].pc = pc] /\ UNCHANGED running

(* Refuted variant: whoever knows its id may continue a session.           *)
KnowsId(u, s) == sessions[s] # Nobody

(* Someone else's session answers like one that does not exist (404).      *)
MayUse(u, s) == sessions[s] = u

FindSession(c) ==
  LET s == calls[c].session
  IN /\ calls[c].pc = "session"
     /\ IF s = Nobody \/ sessions[s] = Nobody THEN GoesOn(c, "create")
        ELSE IF MayUse(calls[c].user, s) THEN GoesOn(c, "messages")
        ELSE Ends(c)
     /\ UNCHANGED <<locked, sessions, messages>>

(* The id is unique: of two calls that did not find the session the later  *)
(* one fails.                                                              *)
Insert(c, s) ==
  IF sessions[s] # Nobody THEN Ends(c) /\ UNCHANGED sessions
  ELSE /\ sessions' = [sessions EXCEPT ![s] = calls[c].user]
       /\ calls' = [calls EXCEPT ![c].pc = "messages", ![c].session = s]
       /\ UNCHANGED running

CreateSession(c) ==
  /\ calls[c].pc = "create"
  /\ IF calls[c].session # Nobody THEN Insert(c, calls[c].session)
     ELSE \E s \in FreshIds : sessions[s] = Nobody /\ Insert(c, s)
  /\ UNCHANGED <<locked, messages>>

Message(c, role) ==
  [session |-> calls[c].session, user |-> calls[c].user, role |-> role, call |-> c]

StoreMessage(c) ==
  /\ calls[c].pc = "messages"
  /\ IF calls[c].left = 0 THEN GoesOn(c, "model") /\ UNCHANGED messages
     ELSE /\ messages' = Append(messages, Message(c, "user"))
          /\ calls' = [calls EXCEPT ![c].left = @ - 1]
          /\ UNCHANGED running
  /\ UNCHANGED <<locked, sessions>>

-----------------------------------------------------------------------------
(* Plans: sequences of strategies, some without a label and a draft.       *)

(* The first ones that are not blank, each at its place in the plan.       *)
Usable(plan) ==
  LET named == {i \in DOMAIN plan : ~plan[i].blank}
  IN [i \in {n \in named : Cardinality({m \in named : m < n}) < MaxStrategies} |-> plan[i]]

(* The one the model recommends, if it is there, or the first of the best. *)
Recommended(plan, id) ==
  IF \E i \in DOMAIN plan : plan[i].id = id THEN id
  ELSE LET best == {i \in DOMAIN plan : \A j \in DOMAIN plan : plan[j].score <= plan[i].score}
       IN plan[CHOOSE i \in best : \A j \in best : i <= j].id

(* An answer that cannot be parsed is repaired once.  A plan of nothing    *)
(* but blank strategies is parsed and then leaves none to render, which    *)
(* panics.                                                                 *)
Generate(c) ==
  /\ calls[c].pc = "model"
  /\ IF ~calls[c].scenario THEN GoesOn(c, "answer")
     ELSE \E first, repaired \in Plans :
            LET plan == IF first.strategies = <<>> THEN repaired ELSE first
                usable == Usable(plan.strategies)
            IN IF DOMAIN usable = {} THEN Ends(c)
               ELSE /\ calls' = [calls EXCEPT ![c].pc = "answer",
                                   ![c].plan = <<Recommended(usable, plan.recommended), usable>>]
                    /\ UNCHANGED running
  /\ UNCHANGED <<locked, sessions, messages>>

StoreAnswer(c) ==
  /\ calls[c].pc = "answer"
  /\ messages' = Append(messages, Message(c, "assistant"))
  /\ Ends(c)
  /\ UNCHANGED <<locked, sessions>>

(* Any statement or call fails, the 30 seconds of the request end, or the  *)
(* process dies: what is stored stays.                                     *)
CallFails(c) ==
  /\ calls[c].pc \notin {"new", "over"}
  /\ Ends(c)
  /\ UNCHANGED <<locked, sessions, messages>>

-----------------------------------------------------------------------------
(* The debug endpoint                                                      *)

Listed(s) ==
  LET own == {i \in DOMAIN messages : messages[i].session = s}
  IN {i \in own : Cardinality({j \in own : j < i}) < MaxListed}

LatestAnswer(listed) ==
  LET answers == {i \in listed : messages[i].role = "assistant"}
  IN IF answers = {} THEN 0 ELSE CHOOSE i \in answers : \A j \in answers : j <= i

(* By the id of a message, of whatever role, or of a session; either must  *)
(* be the actor's if there is one, and the session of the message is shown *)
(* with it.                                                                *)
Readable(actor, owner) == owner # Nobody /\ (locked => owner = actor)

Shown(s, i) == [session |-> s, message |-> i, listed |-> Listed(s)]

Views(actor) ==
  {Shown(messages[i].session, i) : i \in {j \in DOMAIN messages : Readable(actor, messages[j].user)}}
  \cup {Shown(s, LatestAnswer(Listed(s))) : s \in {x \in DOMAIN sessions : Readable(actor, sessions[x])}}

ResponsesNext ==
  \/ \E c \in Calls :
       \/ \E u \in Users, s \in SessionIds \cup {Nobody}, n \in 1..MaxMessages, scenario \in BOOLEAN :
            Accept(c, u, s, n, scenario)
       \/ FindSession(c) \/ CreateSession(c) \/ StoreMessage(c)
       \/ Generate(c) \/ StoreAnswer(c) \/ CallFails(c)

ResponsesSpec == ResponsesInit /\ [][ResponsesNext]_responseVars

-----------------------------------------------------------------------------

(* A session belongs to one user: every message in it is of the user whose *)
(* row it is, although the session is looked up first and created later;   *)
(* and with tokens the debug endpoint shows a user nothing of another's,   *)
(* also what comes along with the message or session asked for.            *)
SessionsAreOwned ==
  /\ \A i \in DOMAIN messages : messages[i].user = sessions[messages[i].session]
  /\ locked => \A actor \in Users : \A view \in Views(actor) :
       /\ sessions[view.session] = actor
       /\ \A i \in view.listed : messages[i].user = actor
       /\ view.message # 0 => messages[view.message].user = actor

(* Behind the fence a session reads as a conversation: the messages of one *)
(* request stand together and its answer right behind them.  Without it    *)
(* requests may interleave, but no answer precedes its questions.  And an  *)
(* answer that is a plan recommends one of its own strategies.             *)
SessionsReadAsConversations ==
  /\ \A i, j \in DOMAIN messages :
       i < j /\ messages[i].session = messages[j].session =>
         /\ messages[i].call = messages[j].call => messages[i].role = "user"
         /\ locked /\ messages[i].call = messages[j].call =>
              \A k \in i..j : messages[k].session = messages[i].session
                                => messages[k].call = messages[i].call
  /\ \A c \in Calls :
       calls[c].plan # <<>> =>
         /\ Cardinality(DOMAIN calls[c].plan[2]) \in 1..MaxStrategies
         /\ \E i \in DOMAIN calls[c].plan[2] :
              calls[c].plan[2][i].id = calls[c].plan[1] /\ ~calls[c].plan[2][i].blank
=============================================================================
