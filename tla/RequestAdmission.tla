-------------------------- MODULE RequestAdmission --------------------------
(***************************************************************************)
(* What a request passes before its handler runs: the address it is taken  *)
(* to come from, its token, the rate limit of its key, the gauge of        *)
(* requests in flight, the lock of its subject, and the checks of its      *)
(* body.  Time is counted in ticks.                                        *)
(***************************************************************************)
EXTENDS Naturals, FiniteSets, SequencesExt

CONSTANTS
  Slots,            (* concurrent requests                                 *)
  Incoming,         (* the requests clients send with and without tokens   *)
  TrustedProxies,   (* addresses of the deployment's proxies               *)
  SubjectOf,        (* plain token -> subject                              *)
  Delegates,        (* service token -> subjects its prefix covers         *)
  Limit, Window,    (* admissions per key and window                       *)
  ClientTTL,        (* how long a silent key is remembered                 *)
  CleanupInterval,
  MaxDelay,         (* bound: from reading the clock to the limiter       *)
  MaxTime,          (* bound: the clock                                    *)
  MaxDrops,         (* bound: connections the database drops               *)
  None

ASSUME LimiterAssumption ==
  /\ Limit \in Nat \ {0} /\ Window \in Nat \ {0}
  /\ ClientTTL \in Nat /\ MaxDelay \in Nat /\ MaxTime \in Nat
  /\ ClientTTL >= Window + 2 * MaxDelay

VARIABLES
  authEnabled,   (* does the deployment require tokens?                    *)
  clock,
  requests,      (* per slot: the request in it and how far it came        *)
  clients,       (* the limiter: per key, what it kept and last seen       *)
  lastCleanup,
  admitted,      (* history: per key, the admissions                       *)
  inFlight,      (* the gauge                                              *)
  locks,         (* per subject: the slot whose connection holds its lock  *)
  overlapped,    (* history: subjects whose lock was lost with a           *)
                 (* connection while the handler went on                   *)
  drops,
  purged         (* subjects with a row in subject_purges                  *)

limiter == <<clients, lastCleanup, admitted>>
fence == <<locks, overlapped, drops, purged>>
admissionVars == <<authEnabled, clock, requests, limiter, inFlight, fence>>

Subjects == {SubjectOf[t] : t \in DOMAIN SubjectOf} \cup UNION {Delegates[t] : t \in DOMAIN Delegates}
AnyRequest == Incoming[TRUE] \cup Incoming[FALSE]

(* The header may come in several lines, each a list of addresses; Get     *)
(* returns the first of them, and the empty string if there is none.       *)
FirstLine(forwarded) == IF forwarded = <<>> THEN <<>> ELSE Head(forwarded)

Keys == Subjects \cup {r.peer : r \in AnyRequest}
          \cup UNION {ToSet(FirstLine(r.forwarded)) : r \in AnyRequest}

(* A deployment's tokens name subjects, and its proxies have addresses.    *)
ASSUME AdmissionAssumption ==
  /\ IsFiniteSet(Slots) /\ None \notin Slots
  /\ None \notin Subjects /\ None \notin TrustedProxies
  /\ \A r \in AnyRequest : FirstLine(r.forwarded) \in Seq(ToSet(FirstLine(r.forwarded)))

Free == [pc |-> "free", of |-> None, address |-> None, subject |-> None, stamp |-> 0]

AdmissionInit ==
  /\ authEnabled \in BOOLEAN
  /\ clock \in 1..MaxTime
  /\ requests = [s \in Slots |-> Free]
  /\ clients = <<>>
  /\ lastCleanup = 0
  /\ admitted = [k \in Keys |-> {}]
  /\ inFlight = 0
  /\ locks = [s \in Subjects |-> None]
  /\ overlapped = {}
  /\ drops = 0
  /\ purged = {}

-----------------------------------------------------------------------------
(* Addresses and tokens                                                    *)

Trusted(address) == address \in TrustedProxies

(* Refuted variant: the first entry of the header is the client.           *)
ResolveLeftmost(peer, forwarded) ==
  LET line == FirstLine(forwarded)
  IN IF Trusted(peer) /\ line # <<>> /\ Head(line) # None THEN Head(line) ELSE peer

(* The first line of the forwarding header is read from its right end, as  *)
(* long as the hop that wrote the next entry is trusted: the client is the *)
(* last hop that is not, or the first of all.  An entry read there that is *)
(* no address (None) makes the line void.  Further lines are not read.     *)
ResolveAddress(peer, forwarded) ==
  LET hops == Append(FirstLine(forwarded), peer)
      address == hops[Max({i \in DOMAIN hops : i = 1 \/ ~Trusted(hops[i])})]
  IN IF address = None THEN peer ELSE address

ServiceRoutes == {"responses", "ingest", "purge"}

(* Delegation is the list of values of the subject header.                 *)
Authenticate(r) ==
  IF r.route = "health" \/ ~authEnabled THEN [status |-> 200, subject |-> None]
  ELSE IF r.token \in DOMAIN Delegates
  THEN IF /\ Len(r.delegation) = 1 /\ r.delegation[1] \in Delegates[r.token]
          /\ r.route \in ServiceRoutes
       THEN [status |-> 200, subject |-> r.delegation[1]]
       ELSE [status |-> 403, subject |-> None]
  ELSE IF r.token \notin DOMAIN SubjectOf THEN [status |-> 401, subject |-> None]
  ELSE IF r.delegation # <<>> /\ r.delegation[1] # SubjectOf[r.token]
  THEN [status |-> 403, subject |-> None]
  ELSE [status |-> 200, subject |-> SubjectOf[r.token]]

Set(s, fields) ==
  requests' = [requests EXCEPT ![s] = [f \in DOMAIN @ |->
                 IF f \in DOMAIN fields THEN fields[f] ELSE @[f]]]

(* The health routes are neither authenticated nor limited.                *)
Receive(s, r) ==
  LET address == ResolveAddress(r.peer, r.forwarded)
      auth == Authenticate(r)
  IN /\ requests[s] = Free
     /\ Set(s, [of |-> r, address |-> address, subject |-> auth.subject,
                pc |-> CASE auth.status # 200 -> "refused"
                         [] r.route = "health" -> "admitted"
                         [] OTHER -> "stamped",
                stamp |-> IF auth.status = 200 THEN clock ELSE 0])
     /\ UNCHANGED <<authEnabled, clock, limiter, inFlight, fence>>

-----------------------------------------------------------------------------
(* The rate limit                                                          *)

KeyOf(s) == IF requests[s].subject # None THEN requests[s].subject ELSE requests[s].address

(* Admissions are numbered, since two may have the same stamp.             *)
InWindow(stamps, now) == {a \in stamps : a.at + Window >= now}

(* At most once per interval, every key that was silent is forgotten.      *)
CleanupDue(now) == lastCleanup = 0 \/ now >= lastCleanup + CleanupInterval
Silent(k, now) == now > clients[k].lastSeen + ClientTTL

(* Refuted variant: forgets whoever was silent for less than a window.     *)
RememberedBriefly(now) ==
  {k \in DOMAIN clients : ~(CleanupDue(now) /\ now >= clients[k].lastSeen + Window)}

Remembered(now) ==
  {k \in DOMAIN clients : ~(CleanupDue(now) /\ Silent(k, now))}

Admission(key, now) == [nr |-> Cardinality(admitted[key]) + 1, at |-> now]

(* Under the mutex, but with the time that was read before it: requests    *)
(* pass in another order than that of their stamps.                        *)
Allow(s) ==
  LET now == requests[s].stamp
      key == KeyOf(s)
      known == Remembered(now)
      kept == IF key \in known THEN InWindow(clients[key].stamps, now) ELSE {}
      allowed == Cardinality(kept) < Limit
      new == IF allowed THEN {Admission(key, now)} ELSE {}
      client == [stamps |-> kept \cup new, lastSeen |-> now]
  IN /\ requests[s].pc = "stamped"
     /\ clients' = [k \in known \cup {key} |-> IF k = key THEN client ELSE clients[k]]
     /\ lastCleanup' = IF CleanupDue(now) THEN now ELSE lastCleanup
     /\ admitted' = [admitted EXCEPT ![key] = @ \cup new]
     /\ Set(s, [pc |-> IF allowed THEN "admitted" ELSE "limited"])
     /\ UNCHANGED <<authEnabled, clock, inFlight, fence>>

-----------------------------------------------------------------------------
(* The gauge, the lock and the handler                                     *)

Running == {"locking", "handling"}

Fenced(s) == requests[s].subject # None

Log(s) ==
  /\ requests[s].pc = "admitted"
  /\ inFlight' = inFlight + 1
  /\ Set(s, [pc |-> IF Fenced(s) THEN "locking" ELSE "handling"])
  /\ UNCHANGED <<authEnabled, clock, limiter, fence>>

(* Closing the connection, which every exit defers, releases the lock.     *)
Released(s) == [x \in Subjects |-> IF locks[x] = s THEN None ELSE locks[x]]

Answered(s) ==
  /\ requests' = [requests EXCEPT ![s] = Free]
  /\ inFlight' = inFlight - 1
  /\ locks' = Released(s)
  /\ UNCHANGED <<authEnabled, clock, limiter>>

(* Refuted variant: the lock is taken by a statement that does not wait.   *)
LockWithoutWaiting(s) ==
  /\ requests[s].pc = "locking"
  /\ locks' = [locks EXCEPT ![requests[s].subject] = s]
  /\ Set(s, [pc |-> "handling"])
  /\ UNCHANGED <<authEnabled, clock, limiter, inFlight, overlapped, drops, purged>>

(* The deletion of the subject is looked up after the lock is held; only   *)
(* its repetition passes (410 otherwise).                                  *)
Lock(s) ==
  LET x == requests[s].subject
  IN /\ requests[s].pc = "locking" /\ locks[x] = None
     /\ IF x \in purged /\ requests[s].of.route # "purge"
        THEN Answered(s)
        ELSE /\ locks' = [locks EXCEPT ![x] = s]
             /\ Set(s, [pc |-> "handling"])
             /\ UNCHANGED <<authEnabled, clock, limiter, inFlight>>
     /\ UNCHANGED <<overlapped, drops, purged>>

(* No connection, or the request's 30 seconds end before the lock: 503.    *)
LockFails(s) ==
  /\ requests[s].pc = "locking"
  /\ Answered(s)
  /\ UNCHANGED <<overlapped, drops, purged>>

(* The database ends the session that holds the lock; nothing tells the    *)
(* handler.                                                                *)
DropConnection(s) ==
  /\ drops < MaxDrops
  /\ requests[s].pc = "handling" /\ Fenced(s) /\ locks[requests[s].subject] = s
  /\ drops' = drops + 1
  /\ locks' = Released(s)
  /\ overlapped' = overlapped \cup {requests[s].subject}
  /\ UNCHANGED <<authEnabled, clock, requests, limiter, inFlight, purged>>

(* A body holds one JSON value of at most 1 MiB.  body.large: the limit is *)
(* crossed before the decoder finds anything else wrong.                   *)
BodyError(body) ==
  CASE body.large -> "request_too_large"
    [] ~body.large /\ body.values = 0 -> "empty_body"
    [] ~body.large /\ body.values = 1 /\ ~body.wellFormed -> "invalid_json"
    [] ~body.large /\ body.values > 1 /\ body.wellFormed -> "trailing_json"
    [] ~body.large /\ body.values > 1 /\ ~body.wellFormed -> "invalid_json"
    [] OTHER -> "none"

(* With a token the subject is the user, and no selector of the body may   *)
(* name another one; without, the body chooses.                            *)
UserOf(s) ==
  LET named == requests[s].of.user
  IN IF ~Fenced(s) THEN IF named = None THEN "dev" ELSE named
     ELSE IF named \in {None, requests[s].subject} THEN requests[s].subject ELSE "conflict"

PurgeAccepted(s) ==
  /\ requests[s].of.route = "purge" /\ Fenced(s)
  /\ BodyError(requests[s].of.body) = "none"
  /\ requests[s].of.user # None
  /\ UserOf(s) # "conflict"

Handle(s) ==
  /\ requests[s].pc = "handling"
  /\ purged' = IF PurgeAccepted(s) THEN purged \cup {UserOf(s)} ELSE purged
  /\ Answered(s)
  /\ UNCHANGED <<overlapped, drops>>

(* Deferred statements run; the recoverer around them answers 500.         *)
Panic(s) ==
  /\ requests[s].pc = "handling"
  /\ Answered(s)
  /\ UNCHANGED <<overlapped, drops, purged>>

(* The answer of a refused request is written (401 and 429 are counted).   *)
Refuse(s) ==
  /\ requests[s].pc \in {"refused", "limited"}
  /\ requests' = [requests EXCEPT ![s] = Free]
  /\ UNCHANGED <<authEnabled, clock, limiter, inFlight, fence>>

Tick ==
  /\ clock < MaxTime
  /\ \A s \in Slots : requests[s].pc = "stamped" => clock < requests[s].stamp + MaxDelay
  /\ clock' = clock + 1
  /\ UNCHANGED <<authEnabled, requests, limiter, inFlight, fence>>

AdmissionNext ==
  \/ Tick
  \/ \E s \in Slots :
       \/ \E r \in Incoming[authEnabled] : Receive(s, r)
       \/ Allow(s) \/ Log(s) \/ Lock(s) \/ LockFails(s)
       \/ DropConnection(s) \/ Handle(s) \/ Panic(s) \/ Refuse(s)

AdmissionSpec == AdmissionInit /\ [][AdmissionNext]_admissionVars

-----------------------------------------------------------------------------

Within(k, from) == Cardinality(InWindow(admitted[k], from))

(* The limit is exact, whatever was forgotten and in whatever order stamps *)
(* reached the limiter: of what was admitted at most Limit lie in the      *)
(* window that ends at a key's newest admission; and whoever is refused    *)
(* used up the limit in the window of the refused request.                 *)
LimitIsExact ==
  /\ \A k \in Keys : \A a \in admitted[k] :
       (\A b \in admitted[k] : b.at <= a.at) => Within(k, a.at) <= Limit
  /\ \A s \in Slots :
       requests[s].pc = "limited" => Within(KeyOf(s), requests[s].stamp) >= Limit

(* The address is the peer of the socket, or every hop behind it is a      *)
(* trusted proxy, and so is the peer.                                      *)
VouchedFor(peer, hops, address) ==
  \/ address = peer
  \/ \E i \in DOMAIN hops :
       /\ address = hops[i]
       /\ Trusted(peer)
       /\ \A j \in i + 1..Len(hops) : Trusted(hops[j])

Present == {s \in Slots : requests[s].pc # "free"}

(* Who a request is: its address is vouched for by the hops of the line    *)
(* that is read; and a handler acts for the subject of the token, or for   *)
(* one its service may act for on this route.                              *)
IdentityIsVouched ==
  \A s \in Present :
    LET r == requests[s].of
    IN /\ VouchedFor(r.peer, FirstLine(r.forwarded), requests[s].address)
       /\ requests[s].pc \in Running /\ authEnabled /\ r.route # "health" =>
            /\ UserOf(s) \in {requests[s].subject, "conflict"}
            /\ \/ r.token \in DOMAIN SubjectOf /\ requests[s].subject = SubjectOf[r.token]
               \/ /\ r.token \in DOMAIN Delegates /\ r.route \in ServiceRoutes
                  /\ requests[s].subject \in Delegates[r.token]

(* The handlers of a subject run one at a time, unless the database lost   *)
(* the connection of one; and however a request ends, nothing of it stays  *)
(* behind: a lock belongs to a request being handled, and the gauge counts *)
(* these.                                                                  *)
FenceHolds ==
  /\ \A x \in Subjects \ overlapped :
       Cardinality({s \in Slots : requests[s].pc = "handling" /\ requests[s].subject = x}) <= 1
  /\ \A x \in Subjects : locks[x] # None =>
       requests[locks[x]].pc = "handling" /\ requests[locks[x]].subject = x
  /\ inFlight = Cardinality({s \in Slots : requests[s].pc \in Running})
=============================================================================
