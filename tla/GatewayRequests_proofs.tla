----------------------- MODULE GatewayRequests_proofs -----------------------
(***************************************************************************)
(* What is proved of three parts of the gateway that share no state:       *)
(* requests on their way to the fence (RequestAdmission), sessions and     *)
(* their plans (Responses), and what is learned from memories              *)
(* (DerivedViews).  Each part has one inductive invariant per theorem; the *)
(* first section is what the parts need of numbers.  The last sections     *)
(* follow a mean: a sum over a set of votes is the same in every order, so *)
(* that one vote more adds itself.                                         *)
(***************************************************************************)
EXTENDS DerivedViews, RequestAdmission, Responses, FiniteSetTheorems, WellFoundedInduction, TLAPS

-----------------------------------------------------------------------------
(* Greatest and least numbers of a set                                     *)

Less == {p \in Nat \X Nat : p[1] < p[2]}

LEMMA LessIsWellFounded == IsWellFoundedOn(Less, Nat)
BY NatLessThanWellFounded DEF OpToRel, Less

LEMMA LeastNumber ==
  ASSUME NEW S, S \subseteq Nat, S # {}
  PROVE  \E x \in S : \A y \in S : x <= y
<1>1. PICK x \in S : \A y \in S : ~ (<<y, x>> \in Less)
  BY WFMin, LessIsWellFounded, Zenon
<1>2. \A y \in S : y < x => <<y, x>> \in Less
  BY DEF Less
<1>3. \A y \in S : x <= y
  <2> TAKE y \in S
  <2>1. y \in Nat /\ x \in Nat
    OBVIOUS
  <2>2. ~ (y < x)
    BY <1>1, <1>2
  <2> QED
    BY <2>1, <2>2
<1> QED
  BY <1>3

(* What holds of 0, and of every number up to l if it holds of the one     *)
(* before, holds of all of them.                                           *)
LEMMA EveryPart ==
  ASSUME NEW l \in Nat, NEW W, 0 \in W, \A n \in 1..l : n - 1 \in W => n \in W
  PROVE  \A n \in 0..l : n \in W
<1> DEFINE Left == {n \in 0..l : n \notin W}
<1> SUFFICES ASSUME Left # {} PROVE FALSE
  OBVIOUS
<1>1. PICK n \in Left : \A m \in Left : n <= m
  <2> HIDE DEF Left
  <2>1. Left \subseteq Nat
    BY DEF Left
  <2> QED
    BY <2>1, LeastNumber, Zenon
<1>2. n \in 1..l /\ n - 1 \in 0..l /\ n - 1 \notin Left
  BY <1>1
<1> QED
  BY <1>1, <1>2

LEMMA GreatestNumber ==
  ASSUME NEW n \in Nat, NEW S, S \subseteq 0..n, S # {}
  PROVE  Max(S) \in S /\ \A y \in S : y <= Max(S)
<1> DEFINE D == {n - y : y \in S}
<1>1. \A y \in S : y \in Nat /\ n - y \in Nat
  OBVIOUS
<1>2. D \subseteq Nat /\ D # {}
  BY <1>1
<1> HIDE DEF D
<1>3. PICK d \in D : \A e \in D : d <= e
  BY <1>2, LeastNumber, Zenon
<1>4. PICK x \in S : d = n - x
  BY DEF D
<1>5. \A y \in S : y <= x
  <2> TAKE y \in S
  <2>1. n - y \in D
    BY DEF D
  <2>2. n - x <= n - y
    BY <1>3, <1>4, <2>1
  <2> QED
    BY <1>1, <2>2
<1>6. \E m \in S : \A y \in S : y <= m
  BY <1>5
<1>7. Max(S) = CHOOSE m \in S : \A y \in S : y <= m
  BY DEF Max
<1> QED
  BY <1>6, <1>7

-----------------------------------------------------------------------------
(* What every request of the gateway passes                                *)

PastGauge == {s \in Slots : requests[s].pc \in Running}

(* The lock of a subject is held by the slot that handles it, unless the   *)
(* database dropped its connection; the gauge counts whoever is past it.   *)
FenceInv ==
  /\ DOMAIN requests = Slots
  /\ \A s \in Slots : /\ DOMAIN requests[s] = DOMAIN Free
                      /\ requests[s].subject \in Subjects \cup {None}
                      /\ requests[s].pc = "locking" => requests[s].subject # None
  /\ locks \in [Subjects -> Slots \cup {None}]
  /\ \A x \in Subjects : locks[x] # None =>
       requests[locks[x]].pc = "handling" /\ requests[locks[x]].subject = x
  /\ \A s \in Slots :
       requests[s].pc = "handling" /\ requests[s].subject \in Subjects \ overlapped
         => locks[requests[s].subject] = s
  /\ inFlight = Cardinality(PastGauge)

LEMMA FenceStarts == AdmissionInit => FenceInv
<1> SUFFICES ASSUME AdmissionInit PROVE FenceInv
  OBVIOUS
<1>1. \A s \in Slots : requests[s] = Free
  BY DEF AdmissionInit
<1>2. PastGauge = {}
  BY <1>1 DEF PastGauge, Free, Running
<1>3. inFlight = Cardinality(PastGauge)
  BY <1>2, FS_EmptySet DEF AdmissionInit
<1> QED
  BY <1>1, <1>3 DEF AdmissionInit, FenceInv, Free

(* A request goes on, or its slot is free again.                           *)
LEMMA SetOne ==
  ASSUME NEW s \in Slots, NEW fields, FenceInv, Set(s, fields)
  PROVE  /\ DOMAIN requests' = Slots
         /\ \A t \in Slots \ {s} : requests'[t] = requests[t]
         /\ DOMAIN requests'[s] = DOMAIN Free
         /\ \A f \in DOMAIN Free :
              requests'[s][f] = IF f \in DOMAIN fields THEN fields[f] ELSE requests[s][f]
BY DEF Set, FenceInv

LEMMA PastGaugeIsFinite == IsFiniteSet(PastGauge)
BY AdmissionAssumption, FS_Subset DEF PastGauge

(* Before the gauge and the lock a request changes nobody else's fence.    *)
LEMMA OutsideFence ==
  ASSUME FenceInv, NEW s \in Slots, NEW fields, Set(s, fields),
         requests[s].pc \notin Running \cup {"admitted"},
         "pc" \in DOMAIN fields, fields.pc \notin Running,
         requests'[s].subject \in Subjects \cup {None},
         UNCHANGED <<inFlight, fence>>
  PROVE  FenceInv'
<1>1. /\ DOMAIN requests' = Slots
      /\ \A t \in Slots \ {s} : requests'[t] = requests[t]
      /\ DOMAIN requests'[s] = DOMAIN Free
      /\ requests'[s].pc = fields.pc
  BY SetOne DEF Free
<1>2. PastGauge' = PastGauge
  BY <1>1 DEF PastGauge
<1>3. \A x \in Subjects : locks[x] # None => locks[x] \in Slots \ {s}
  BY AdmissionAssumption DEF FenceInv, Running
<1>4. UNCHANGED <<inFlight, locks, overlapped>>
  BY DEF fence
<1>5. \A t \in Slots : /\ DOMAIN requests'[t] = DOMAIN Free
                       /\ requests'[t].subject \in Subjects \cup {None}
                       /\ requests'[t].pc = "locking" => requests'[t].subject # None
  BY <1>1 DEF FenceInv, Running
<1>6. \A x \in Subjects : locks'[x] # None =>
         requests'[locks'[x]].pc = "handling" /\ requests'[locks'[x]].subject = x
  BY <1>1, <1>3, <1>4 DEF FenceInv
<1>7. \A t \in Slots :
         requests'[t].pc = "handling" /\ requests'[t].subject \in Subjects \ overlapped'
           => locks'[requests'[t].subject] = t
  BY <1>1, <1>4 DEF FenceInv, Running
<1> QED
  BY <1>1, <1>2, <1>4, <1>5, <1>6, <1>7 DEF FenceInv

LEMMA SubjectIsNamed ==
  ASSUME NEW r PROVE Authenticate(r).subject \in Subjects \cup {None}
<1>1. CASE r.route = "health" \/ ~authEnabled
  BY <1>1 DEF Authenticate
<1>2. CASE ~ (r.route = "health" \/ ~authEnabled) /\ r.token \in DOMAIN Delegates
  BY <1>2 DEF Authenticate, Subjects
<1>3. CASE ~ (r.route = "health" \/ ~authEnabled) /\ r.token \notin DOMAIN Delegates
  BY <1>3 DEF Authenticate, Subjects
<1> QED
  BY <1>1, <1>2, <1>3

(* However a request ends, its slot is free and its lock is given back.    *)
LEMMA EndsFence ==
  ASSUME FenceInv, NEW s \in Slots, Answered(s), requests[s].pc \in Running,
         overlapped' = overlapped
  PROVE  FenceInv'
<1>1. requests' = [requests EXCEPT ![s] = Free] /\ locks' = Released(s)
  BY DEF Answered
<1>2. /\ DOMAIN requests' = Slots
      /\ requests'[s] = Free
      /\ \A t \in Slots \ {s} : requests'[t] = requests[t]
  BY <1>1 DEF FenceInv
<1>3. PastGauge' = PastGauge \ {s} /\ s \in PastGauge
  BY <1>2 DEF PastGauge, Free, Running
<1>4. inFlight' = Cardinality(PastGauge')
  BY <1>3, PastGaugeIsFinite, FS_RemoveElement DEF Answered, FenceInv
<1>5. locks' \in [Subjects -> Slots \cup {None}]
  BY <1>1 DEF Released, FenceInv
<1>6. \A x \in Subjects : locks'[x] # None => locks'[x] = locks[x] /\ locks[x] # s
  BY <1>1, AdmissionAssumption DEF Released, FenceInv
<1>7. \A x \in Subjects : locks'[x] # None =>
         requests'[locks'[x]].pc = "handling" /\ requests'[locks'[x]].subject = x
  BY <1>2, <1>5, <1>6 DEF FenceInv
<1>8. \A t \in Slots \ {s} :
         requests[t].pc = "handling" /\ requests[t].subject \in Subjects \ overlapped
           => locks'[requests[t].subject] = t
  BY <1>1 DEF FenceInv, Released
<1> QED
  BY <1>2, <1>4, <1>5, <1>7, <1>8 DEF FenceInv, Free

LEMMA ReceiveKeepsFence ==
  ASSUME FenceInv, NEW s \in Slots, NEW r, Receive(s, r)
  PROVE  FenceInv'
<1> DEFINE auth == Authenticate(r)
           pc == CASE auth.status # 200 -> "refused"
                   [] r.route = "health" -> "admitted"
                   [] OTHER -> "stamped"
           fields == [of |-> r, address |-> ResolveAddress(r.peer, r.forwarded),
                      subject |-> auth.subject, pc |-> pc,
                      stamp |-> IF auth.status = 200 THEN clock ELSE 0]
<1>1. /\ requests[s] = Free /\ Set(s, fields)
      /\ UNCHANGED <<inFlight, fence>>
  BY DEF Receive
<1>2. pc \in {"refused", "admitted", "stamped"} /\ fields.pc = pc /\ fields.subject = auth.subject
  OBVIOUS
<1>3. auth.subject \in Subjects \cup {None}
  BY SubjectIsNamed
<1> HIDE DEF pc, auth
<1>4. DOMAIN fields = {"of", "address", "subject", "pc", "stamp"}
  OBVIOUS
<1>5. requests'[s].subject = auth.subject
  BY <1>1, <1>2, <1>4, SetOne DEF Free
<1> HIDE DEF fields
<1> QED
  BY <1>1, <1>2, <1>3, <1>4, <1>5, OutsideFence DEF Free, Running

LEMMA AllowKeepsFence ==
  ASSUME FenceInv, NEW s \in Slots, Allow(s)
  PROVE  FenceInv'
<1>1. PICK pc \in {"admitted", "limited"} : Set(s, [pc |-> pc])
  BY Zenon DEF Allow
<1>2. requests[s].pc = "stamped" /\ UNCHANGED <<inFlight, fence>>
  BY DEF Allow
<1>3. requests'[s].subject = requests[s].subject
  BY <1>1, SetOne DEF Free
<1> QED
  BY <1>1, <1>2, <1>3, OutsideFence DEF Running, FenceInv

LEMMA LogKeepsFence ==
  ASSUME FenceInv, NEW s \in Slots, Log(s)
  PROVE  FenceInv'
<1> DEFINE fields == [pc |-> IF Fenced(s) THEN "locking" ELSE "handling"]
<1>1. /\ requests[s].pc = "admitted" /\ Set(s, fields)
      /\ inFlight' = inFlight + 1 /\ UNCHANGED <<locks, overlapped>>
  BY DEF Log, fence
<1>2. /\ DOMAIN requests' = Slots
      /\ \A t \in Slots \ {s} : requests'[t] = requests[t]
      /\ DOMAIN requests'[s] = DOMAIN Free
      /\ requests'[s].pc = IF Fenced(s) THEN "locking" ELSE "handling"
      /\ requests'[s].subject = requests[s].subject
  BY <1>1, SetOne DEF Free
<1>3. PastGauge' = PastGauge \cup {s} /\ s \notin PastGauge
  BY <1>1, <1>2 DEF PastGauge, Running
<1>4. inFlight' = Cardinality(PastGauge')
  BY <1>1, <1>3, PastGaugeIsFinite, FS_AddElement DEF FenceInv
<1>5. \A x \in Subjects : locks[x] # None => locks[x] \in Slots \ {s}
  BY <1>1, AdmissionAssumption DEF FenceInv
<1>6. \A x \in Subjects : locks'[x] # None =>
         requests'[locks'[x]].pc = "handling" /\ requests'[locks'[x]].subject = x
  BY <1>1, <1>2, <1>5 DEF FenceInv
<1>7. \A t \in Slots :
         requests'[t].pc = "handling" /\ requests'[t].subject \in Subjects \ overlapped'
           => locks'[requests'[t].subject] = t
  BY <1>1, <1>2, AdmissionAssumption DEF FenceInv, Fenced
<1> QED
  BY <1>1, <1>2, <1>4, <1>6, <1>7 DEF FenceInv, Fenced

LEMMA LockKeepsFence ==
  ASSUME FenceInv, NEW s \in Slots, Lock(s)
  PROVE  FenceInv'
<1> DEFINE x == requests[s].subject
<1>1. /\ requests[s].pc = "locking" /\ locks[x] = None
      /\ overlapped' = overlapped
  BY DEF Lock
<1>2. CASE Answered(s)
  BY <1>1, <1>2, EndsFence DEF Running
<1>3. CASE /\ locks' = [locks EXCEPT ![x] = s] /\ inFlight' = inFlight
           /\ Set(s, [pc |-> "handling"])
  <2>1. /\ DOMAIN requests' = Slots
        /\ \A t \in Slots \ {s} : requests'[t] = requests[t]
        /\ DOMAIN requests'[s] = DOMAIN Free
        /\ requests'[s].pc = "handling"
        /\ requests'[s].subject = x
    BY <1>3, SetOne DEF Free
  <2>2. x \in Subjects
    BY <1>1 DEF FenceInv
  <2>3. PastGauge' = PastGauge
    BY <1>1, <2>1 DEF PastGauge, Running
  <2>4. \A y \in Subjects : locks[y] # None => locks[y] \in Slots \ {s}
    BY <1>1, AdmissionAssumption DEF FenceInv
  <2>5. \A y \in Subjects : locks'[y] # None =>
           requests'[locks'[y]].pc = "handling" /\ requests'[locks'[y]].subject = y
    BY <1>3, <2>1, <2>4 DEF FenceInv
  <2>6. \A t \in Slots :
           requests'[t].pc = "handling" /\ requests'[t].subject \in Subjects \ overlapped'
             => locks'[requests'[t].subject] = t
    BY <1>1, <1>3, <2>1, <2>2, AdmissionAssumption DEF FenceInv
  <2> QED
    BY <1>1, <1>3, <2>1, <2>2, <2>3, <2>5, <2>6, AdmissionAssumption DEF FenceInv
<1> QED
  BY <1>2, <1>3 DEF Lock

LEMMA DropKeepsFence ==
  ASSUME FenceInv, NEW s \in Slots, DropConnection(s)
  PROVE  FenceInv'
<1>1. /\ requests' = requests /\ inFlight' = inFlight
      /\ locks' = Released(s)
      /\ overlapped' = overlapped \cup {requests[s].subject}
  BY DEF DropConnection
<1>2. PastGauge' = PastGauge
  BY <1>1 DEF PastGauge
<1>3. locks' \in [Subjects -> Slots \cup {None}]
  BY <1>1 DEF Released, FenceInv
<1>4. \A x \in Subjects : locks'[x] # None => locks'[x] = locks[x]
  BY <1>1 DEF Released
<1>5. \A x \in Subjects : x # requests[s].subject => locks'[x] = locks[x]
  BY <1>1, AdmissionAssumption DEF Released, FenceInv
<1>6. \A t \in Slots :
         requests'[t].pc = "handling" /\ requests'[t].subject \in Subjects \ overlapped'
           => locks'[requests'[t].subject] = t
  BY <1>1, <1>5 DEF FenceInv
<1> QED
  BY <1>1, <1>2, <1>3, <1>4, <1>6 DEF FenceInv

LEMMA RefuseKeepsFence ==
  ASSUME FenceInv, NEW s \in Slots, Refuse(s)
  PROVE  FenceInv'
<1>1. /\ requests' = [requests EXCEPT ![s] = Free]
      /\ requests[s].pc \in {"refused", "limited"}
      /\ UNCHANGED <<inFlight, locks, overlapped>>
  BY DEF Refuse, fence
<1>2. PastGauge' = PastGauge
  BY <1>1 DEF PastGauge, Free, Running, FenceInv
<1>3. \A x \in Subjects : locks[x] # None => locks[x] \in Slots \ {s}
  BY <1>1, AdmissionAssumption DEF FenceInv
<1>4. \A x \in Subjects : locks'[x] # None =>
         requests'[locks'[x]].pc = "handling" /\ requests'[locks'[x]].subject = x
  BY <1>1, <1>3 DEF FenceInv
<1> QED
  BY <1>1, <1>2, <1>4 DEF FenceInv, Free

LEMMA FenceStep == FenceInv /\ [AdmissionNext]_admissionVars => FenceInv'
<1> SUFFICES ASSUME FenceInv, [AdmissionNext]_admissionVars PROVE FenceInv'
  OBVIOUS
<1>1. CASE Tick \/ UNCHANGED admissionVars
  <2>1. UNCHANGED <<requests, inFlight, locks, overlapped>>
    BY <1>1 DEF Tick, admissionVars, fence
  <2> QED
    BY <2>1 DEF FenceInv, PastGauge
<1>2. ASSUME NEW s \in Slots, NEW r, Receive(s, r) PROVE FenceInv'
  BY <1>2, ReceiveKeepsFence
<1>3. ASSUME NEW s \in Slots, Allow(s) \/ Log(s) \/ Lock(s) \/ DropConnection(s) \/ Refuse(s)
      PROVE  FenceInv'
  BY <1>3, AllowKeepsFence, LogKeepsFence, LockKeepsFence, DropKeepsFence, RefuseKeepsFence
<1>4. ASSUME NEW s \in Slots, LockFails(s) \/ Handle(s) \/ Panic(s)
      PROVE  FenceInv'
  BY <1>4, EndsFence DEF LockFails, Handle, Panic, Running
<1> QED
  BY <1>1, <1>2, <1>3, <1>4 DEF AdmissionNext

(* The handlers of a subject run one at a time unless its connection was   *)
(* dropped, a lock belongs to a request being handled, and the gauge       *)
(* counts those past it: for any number of slots, tokens and subjects,     *)
(* whatever fails or panics (WithSubject, WithRequestLogging).             *)
THEOREM FenceHoldsAlways == AdmissionSpec => []FenceHolds
<1>1. FenceInv => FenceHolds
  <2> SUFFICES ASSUME FenceInv,
                      NEW x \in Subjects \ overlapped
               PROVE  Cardinality({s \in Slots : requests[s].pc = "handling"
                                                   /\ requests[s].subject = x}) <= 1
    BY DEF FenceInv, FenceHolds, PastGauge
  <2> DEFINE H == {s \in Slots : requests[s].pc = "handling" /\ requests[s].subject = x}
  <2>1. H \subseteq {locks[x]}
    BY DEF FenceInv
  <2> HIDE DEF H
  <2>2. IsFiniteSet({locks[x]}) /\ Cardinality({locks[x]}) = 1
    BY FS_Singleton
  <2>3. Cardinality(H) <= Cardinality({locks[x]})
    BY <2>1, <2>2, FS_Subset
  <2> QED
    BY <2>2, <2>3 DEF H
<1> QED
  BY FenceStarts, FenceStep, <1>1, PTL DEF AdmissionSpec

-----------------------------------------------------------------------------
(* Who a request is                                                        *)

Vouched(r, a) == VouchedFor(r.peer, FirstLine(r.forwarded), a)

(* What is read from the right end of the first line was written by hops   *)
(* that are trusted, the peer of the socket first.                         *)
LEMMA AddressIsVouched ==
  ASSUME NEW r \in AnyRequest
  PROVE  Vouched(r, ResolveAddress(r.peer, r.forwarded))
<1> DEFINE line == FirstLine(r.forwarded)
           n == Len(line)
           hops == Append(line, r.peer)
           S == {i \in DOMAIN hops : i = 1 \/ ~Trusted(hops[i])}
           m == Max(S)
<1>1. /\ n \in Nat /\ DOMAIN line = 1..n
      /\ DOMAIN hops = 1..n + 1
      /\ hops[n + 1] = r.peer
      /\ \A i \in 1..n : hops[i] = line[i]
  <2>1. line \in Seq(ToSet(line))
    BY AdmissionAssumption
  <2> HIDE DEF line
  <2> QED
    BY <2>1
<1> HIDE DEF n, hops
<1>2. S \subseteq 0..n + 1 /\ S # {} /\ n + 1 \in Nat
  BY <1>1
<1> HIDE DEF S
<1>3. m \in S /\ \A i \in S : i <= m
  BY <1>2, GreatestNumber
<1> HIDE DEF m
<1>4. m \in 1..n + 1
  BY <1>1, <1>3 DEF S
<1>5. \A j \in 1..n + 1 : j > m => Trusted(hops[j])
  <2> TAKE j \in 1..n + 1
  <2> HAVE j > m
  <2>1. j \notin S
    BY <1>3, <1>4
  <2> QED
    BY <1>1, <2>1 DEF S
<1>6. CASE m = n + 1
  BY <1>1, <1>6 DEF Vouched, VouchedFor, ResolveAddress, hops, S, m
<1>7. CASE m \in 1..n
  <2>1. hops[m] = line[m] /\ Trusted(r.peer)
    BY <1>1, <1>5, <1>7
  <2>2. \A j \in m + 1..n : Trusted(line[j])
    BY <1>1, <1>5, <1>4, <1>7
  <2>3. Vouched(r, hops[m])
    BY <1>1, <1>7, <2>1, <2>2 DEF Vouched, VouchedFor, n
  <2>4. ResolveAddress(r.peer, r.forwarded) = IF hops[m] = None THEN r.peer ELSE hops[m]
    BY DEF ResolveAddress, hops, S, m
  <2> QED
    BY <2>3, <2>4 DEF Vouched, VouchedFor
<1> QED
  BY <1>1, <1>4, <1>6, <1>7

(* Who a request is was decided when it came in, and nothing changes it.   *)
KnownInv ==
  /\ authEnabled \in BOOLEAN
  /\ DOMAIN requests = Slots
  /\ \A s \in Slots :
       /\ DOMAIN requests[s] = DOMAIN Free
       /\ requests[s].pc # "free" =>
            /\ requests[s].of \in AnyRequest
            /\ requests[s].address = ResolveAddress(requests[s].of.peer, requests[s].of.forwarded)
            /\ requests[s].pc # "refused" =>
                 /\ Authenticate(requests[s].of).status = 200
                 /\ requests[s].subject = Authenticate(requests[s].of).subject

LEMMA KnownStarts == AdmissionInit => KnownInv
BY DEF AdmissionInit, KnownInv, Free

LEMMA MovesOn ==
  ASSUME KnownInv, NEW s \in Slots, NEW pc, Set(s, [pc |-> pc]),
         requests[s].pc \notin {"free", "refused"}, authEnabled' = authEnabled
  PROVE  KnownInv'
<1>1. /\ DOMAIN requests' = Slots
      /\ \A t \in Slots \ {s} : requests'[t] = requests[t]
      /\ DOMAIN requests'[s] = DOMAIN Free
      /\ \A f \in {"of", "address", "subject"} : requests'[s][f] = requests[s][f]
  BY DEF Set, KnownInv, Free
<1>2. \A r : Authenticate(r)' = Authenticate(r)
  BY DEF Authenticate
<1> QED
  BY <1>1, <1>2 DEF KnownInv

LEMMA KnownStep == KnownInv /\ [AdmissionNext]_admissionVars => KnownInv'
<1> SUFFICES ASSUME KnownInv, [AdmissionNext]_admissionVars PROVE KnownInv'
  OBVIOUS
<1>1. ASSUME UNCHANGED <<requests, authEnabled>> PROVE KnownInv'
  BY <1>1 DEF KnownInv, Authenticate
<1>2. ASSUME NEW s \in Slots, requests' = [requests EXCEPT ![s] = Free], authEnabled' = authEnabled
      PROVE  KnownInv'
  BY <1>2 DEF KnownInv, Authenticate, Free
<1>3. ASSUME NEW s \in Slots, NEW r \in Incoming[authEnabled], Receive(s, r) PROVE KnownInv'
  <2> DEFINE auth == Authenticate(r)
             pc == CASE auth.status # 200 -> "refused"
                     [] r.route = "health" -> "admitted"
                     [] OTHER -> "stamped"
             fields == [of |-> r, address |-> ResolveAddress(r.peer, r.forwarded),
                        subject |-> auth.subject, pc |-> pc,
                        stamp |-> IF auth.status = 200 THEN clock ELSE 0]
  <2>1. Set(s, fields) /\ authEnabled' = authEnabled
    BY <1>3 DEF Receive
  <2>2. r \in AnyRequest
    BY DEF KnownInv, AnyRequest
  <2>3. pc # "refused" => auth.status = 200
    BY DEF Authenticate
  <2> HIDE DEF pc
  <2>4. /\ DOMAIN requests' = Slots
        /\ \A t \in Slots \ {s} : requests'[t] = requests[t]
        /\ DOMAIN requests'[s] = DOMAIN Free
        /\ requests'[s].of = r /\ requests'[s].pc = pc /\ requests'[s].subject = auth.subject
        /\ requests'[s].address = ResolveAddress(r.peer, r.forwarded)
    BY <2>1 DEF Set, KnownInv, Free
  <2>5. \A q : Authenticate(q)' = Authenticate(q)
    BY <2>1 DEF Authenticate
  <2> QED
    BY <2>1, <2>2, <2>3, <2>4, <2>5 DEF KnownInv
<1>4. ASSUME NEW s \in Slots, Allow(s) \/ Log(s) PROVE KnownInv'
  <2>1. authEnabled' = authEnabled /\ requests[s].pc \in {"stamped", "admitted"}
    BY <1>4 DEF Allow, Log
  <2>2. Allow(s) => \E pc : Set(s, [pc |-> pc])
    BY Zenon DEF Allow
  <2>3. Log(s) => \E pc : Set(s, [pc |-> pc])
    BY Zenon DEF Log
  <2> QED
    BY <1>4, <2>1, <2>2, <2>3, MovesOn
<1>5. ASSUME NEW s \in Slots, Lock(s) PROVE KnownInv'
  <2>1. CASE Answered(s)
    BY <2>1, <1>2 DEF Answered
  <2>2. CASE ~Answered(s)
    <3>1. /\ Set(s, [pc |-> "handling"]) /\ authEnabled' = authEnabled
          /\ requests[s].pc = "locking"
      BY <1>5, <2>2 DEF Lock
    <3> QED
      BY <3>1, MovesOn
  <2> QED
    BY <2>1, <2>2
<1>6. ASSUME NEW s \in Slots, LockFails(s) \/ Handle(s) \/ Panic(s) \/ Refuse(s) PROVE KnownInv'
  BY <1>2, <1>6 DEF LockFails, Handle, Panic, Refuse, Answered
<1>7. CASE Tick \/ UNCHANGED admissionVars \/ \E s \in Slots : DropConnection(s)
  BY <1>1, <1>7 DEF Tick, DropConnection, admissionVars
<1> QED
  BY <1>3, <1>4, <1>5, <1>6, <1>7 DEF AdmissionNext

(* The address of a request is the peer of its socket or was written by    *)
(* hops of the first line of the forwarding header that are all trusted    *)
(* (further lines are not read), and a handler acts for the subject of the *)
(* token or for one its service may act for (clientIPResolver.resolve, the *)
(* middleware of requestAuthenticator, effectiveUser).                     *)
THEOREM IdentityIsVouchedAlways == AdmissionSpec => []IdentityIsVouched
<1>1. KnownInv => IdentityIsVouched
  <2> SUFFICES ASSUME KnownInv,
                      NEW s \in Slots, requests[s].pc # "free"
               PROVE  LET r == requests[s].of
                          a == requests[s].address
                      IN /\ Vouched(r, a)
                         /\ requests[s].pc \in Running /\ authEnabled /\ r.route # "health" =>
                              /\ UserOf(s) \in {requests[s].subject, "conflict"}
                              /\ \/ /\ r.token \in DOMAIN SubjectOf
                                    /\ requests[s].subject = SubjectOf[r.token]
                                 \/ /\ r.token \in DOMAIN Delegates /\ r.route \in ServiceRoutes
                                    /\ requests[s].subject \in Delegates[r.token]
    BY DEF IdentityIsVouched, Vouched, Present
  <2> DEFINE r == requests[s].of
  <2>1. Vouched(r, requests[s].address)
    BY AddressIsVouched DEF KnownInv
  <2>2. ASSUME requests[s].pc \in Running, authEnabled, r.route # "health"
        PROVE  /\ UserOf(s) \in {requests[s].subject, "conflict"}
               /\ \/ r.token \in DOMAIN SubjectOf /\ requests[s].subject = SubjectOf[r.token]
                  \/ /\ r.token \in DOMAIN Delegates /\ r.route \in ServiceRoutes
                     /\ requests[s].subject \in Delegates[r.token]
    <3>1. Authenticate(r).status = 200 /\ requests[s].subject = Authenticate(r).subject
      BY <2>2 DEF KnownInv, Running
    <3>2. CASE r.token \in DOMAIN Delegates
      <4>1. /\ r.delegation[1] \in Delegates[r.token] /\ r.route \in ServiceRoutes
            /\ requests[s].subject = r.delegation[1]
        BY <2>2, <3>1, <3>2 DEF Authenticate
      <4>2. requests[s].subject \in Subjects
        BY <3>2, <4>1 DEF Subjects
      <4> QED
        BY <3>2, <4>1, <4>2, AdmissionAssumption DEF UserOf, Fenced
    <3>3. CASE r.token \notin DOMAIN Delegates
      <4>1. r.token \in DOMAIN SubjectOf /\ requests[s].subject = SubjectOf[r.token]
        BY <2>2, <3>1, <3>3 DEF Authenticate
      <4>2. requests[s].subject \in Subjects
        BY <4>1 DEF Subjects
      <4> QED
        BY <4>1, <4>2, AdmissionAssumption DEF UserOf, Fenced
    <3> QED
      BY <3>2, <3>3
  <2> QED
    BY <2>1, <2>2
<1> QED
  BY KnownStarts, KnownStep, <1>1, PTL DEF AdmissionSpec

-----------------------------------------------------------------------------
(* The rate limit                                                          *)

Remaining(k) == IF k \in DOMAIN clients THEN clients[k].stamps ELSE {}

(* An admission the limiter has let go counts for nobody who is still to   *)
(* be admitted: a newer one of its key lies more than a window after it,   *)
(* or whoever came so late was refused and will be, until those that are   *)
(* kept have left the window too; or it is older than any stamp to come.   *)
Gone(k, a) ==
  \/ \E b \in admitted[k] : a.at + Window < b.at
  \/ \E p \in Nat : a.at + Window < p /\ Cardinality(InWindow(Remaining(k), p)) >= Limit
  \/ a.at + Window + MaxDelay < clock

Timely(r, now) == r.stamp \in Nat /\ r.stamp <= now /\ now <= r.stamp + MaxDelay

NewestOf(k, a) == \A b \in admitted[k] : b.at <= a.at

KeysInv ==
  /\ clock \in Nat
  /\ DOMAIN admitted = Keys
  /\ \A k \in Keys : /\ IsFiniteSet(admitted[k])
                     /\ \A a \in admitted[k] : a.at \in Nat /\ a.at <= clock
  /\ DOMAIN clients \subseteq Keys
  /\ \A k \in DOMAIN clients :
       /\ clients[k].lastSeen \in Nat
       /\ clients[k].stamps \subseteq admitted[k]
       /\ \A a \in admitted[k] : a.at <= clients[k].lastSeen + MaxDelay
  /\ \A s \in Slots : requests[s].pc = "stamped" => Timely(requests[s], clock)

LimitInv ==
  /\ KeysInv
  /\ \A k \in Keys : \A a \in admitted[k] \ Remaining(k) : Gone(k, a)
  /\ LimitIsExact

LEMMA LimitStarts == AdmissionInit => LimitInv
<1> SUFFICES ASSUME AdmissionInit PROVE LimitInv
  OBVIOUS
<1>1. clock \in Nat
  BY LimiterAssumption DEF AdmissionInit
<1>2. DOMAIN clients = {} /\ admitted = [k \in Keys |-> {}]
  BY DEF AdmissionInit
<1>3. \A s \in Slots : requests[s].pc = "free"
  BY DEF AdmissionInit, Free
<1> QED
  BY <1>1, <1>2, <1>3, FS_EmptySet DEF LimitInv, KeysInv, LimitIsExact

LEMMA KeyIsNamed ==
  ASSUME KnownInv, NEW s \in Slots, requests[s].pc \notin {"free", "refused"}
  PROVE  KeyOf(s) \in Keys
<1> DEFINE r == requests[s].of
<1>1. r \in AnyRequest /\ requests[s].subject \in Subjects \cup {None}
  BY SubjectIsNamed DEF KnownInv
<1>2. requests[s].address = ResolveAddress(r.peer, r.forwarded)
  BY DEF KnownInv
<1>3. Vouched(r, requests[s].address)
  BY <1>1, <1>2, AddressIsVouched
<1>4. requests[s].address \in {r.peer} \cup ToSet(FirstLine(r.forwarded))
  BY <1>3 DEF Vouched, VouchedFor, ToSet
<1> QED
  BY <1>1, <1>4 DEF KeyOf, Keys

(* A step that leaves the limiter alone.                                   *)
LEMMA LimitIdle ==
  ASSUME LimitInv, UNCHANGED limiter, clock' \in Nat, clock <= clock',
         \A t \in Slots : requests'[t].pc = "stamped" => Timely(requests'[t], clock'),
         \A t \in Slots : requests'[t].pc = "limited" => requests'[t] = requests[t]
  PROVE  LimitInv'
<1>1. UNCHANGED <<admitted, clients>>
  BY DEF limiter
<1>2. \A k : Remaining(k)' = Remaining(k)
  BY <1>1 DEF Remaining
<1>3. \A S, p : InWindow(S, p)' = InWindow(S, p)
  BY DEF InWindow
<1>4. KeysInv'
  <2>1. \A k \in Keys : \A a \in admitted[k] : a.at \in Nat /\ a.at <= clock'
    BY DEF LimitInv, KeysInv
  <2> QED
    BY <1>1, <2>1 DEF LimitInv, KeysInv
<1>5. ASSUME NEW k \in Keys, NEW a \in admitted[k] \ Remaining(k) PROVE Gone(k, a)'
  <2>1. Gone(k, a) /\ a.at \in Nat /\ clock \in Nat
    BY DEF LimitInv, KeysInv
  <2>2. a.at + Window + MaxDelay < clock => a.at + Window + MaxDelay < clock'
    BY <2>1, LimiterAssumption
  <2> QED
    BY <1>1, <1>2, <1>3, <2>1, <2>2 DEF Gone
<1>6. \A k, p : Within(k, p)' = Within(k, p)
  BY <1>1, <1>3 DEF Within
<1>7. LimitIsExact'
  <2>1. ASSUME NEW t \in Slots, requests'[t].pc = "limited"
        PROVE  (Within(KeyOf(t), requests[t].stamp))' >= Limit
    <3>1. requests'[t] = requests[t]
      BY <2>1
    <3>2. KeyOf(t)' = KeyOf(t)
      BY <3>1 DEF KeyOf
    <3> QED
      BY <1>6, <2>1, <3>1, <3>2 DEF LimitInv, LimitIsExact
  <2> QED
    BY <1>1, <1>6, <2>1 DEF LimitInv, LimitIsExact
<1> QED
  BY <1>1, <1>2, <1>4, <1>5, <1>7 DEF LimitInv

(* A pass through the mutex.  What a key keeps within a window of the      *)
(* stamp of the pass stays; whatever else it kept is gone for good.        *)
LEMMA AllowKeepsLimit ==
  ASSUME KnownInv, LimitInv, NEW s \in Slots, Allow(s)
  PROVE  LimitInv'
<1>1. PICK key : key = KeyOf(s)
  OBVIOUS
<1>2. PICK now : now = requests[s].stamp
  OBVIOUS
<1>3. PICK known : known = Remembered(now)
  OBVIOUS
<1>4. PICK kept : kept = IF key \in known THEN InWindow(clients[key].stamps, now) ELSE {}
  OBVIOUS
<1>5. PICK this : this = Admission(key, now)
  OBVIOUS
<1> DEFINE allowed == Cardinality(kept) < Limit
           new == IF allowed THEN {this} ELSE {}
<1>6. /\ now \in Nat /\ clock \in Nat /\ now <= clock /\ clock <= now + MaxDelay
      /\ key \in Keys
  BY <1>1, <1>2, KeyIsNamed DEF Allow, LimitInv, KeysInv, Timely
<1>7. /\ DOMAIN clients' = known \cup {key}
      /\ clients'[key] = [stamps |-> kept \cup new, lastSeen |-> now]
      /\ \A k \in known \ {key} : clients'[k] = clients[k]
      /\ clock' = clock
  BY <1>1, <1>2, <1>3, <1>4, <1>5 DEF Allow
<1>8. admitted' = [admitted EXCEPT ![key] = @ \cup new]
  BY <1>1, <1>2, <1>3, <1>4, <1>5 DEF Allow
<1>9. Set(s, [pc |-> IF allowed THEN "admitted" ELSE "limited"])
  BY <1>1, <1>2, <1>3, <1>4, <1>5 DEF Allow
<1>10. known \subseteq DOMAIN clients /\ this.at = now
  BY <1>3, <1>5 DEF Remembered, Admission
<1>11. \A k \in DOMAIN clients \ known : \A a \in admitted[k] : a.at + Window + MaxDelay < clock
  <2> SUFFICES ASSUME NEW k \in DOMAIN clients \ known, NEW a \in admitted[k]
               PROVE  a.at + Window + MaxDelay < clock
    OBVIOUS
  <2>1. now > clients[k].lastSeen + ClientTTL
    BY <1>3 DEF Remembered, Silent
  <2>2. /\ clients[k].lastSeen \in Nat /\ a.at \in Nat
        /\ a.at <= clients[k].lastSeen + MaxDelay
    BY DEF LimitInv, KeysInv
  <2> QED
    BY <1>6, <2>1, <2>2, LimiterAssumption
<1>12. \A b \in kept : b \in Remaining(key) /\ b.at + Window >= now
  BY <1>4, <1>10 DEF Remaining, InWindow
<1>13. /\ Remaining(key) \subseteq admitted[key] /\ IsFiniteSet(admitted[key])
       /\ \A a \in admitted[key] : a.at \in Nat /\ a.at <= clock
  BY <1>6 DEF LimitInv, KeysInv, Remaining
<1>14. \A b \in Remaining(key) \ kept : b.at + Window < now
  <2> SUFFICES ASSUME NEW b \in Remaining(key) \ kept PROVE b.at + Window < now
    OBVIOUS
  <2>1. key \in DOMAIN clients /\ b \in clients[key].stamps /\ b.at \in Nat
    BY <1>13 DEF Remaining
  <2>2. CASE key \in known
    BY <1>4, <1>6, <2>1, <2>2, LimiterAssumption DEF InWindow
  <2>3. CASE key \notin known
    <3>1. b.at + Window + MaxDelay < clock
      BY <1>11, <1>13, <2>1, <2>3
    <3> QED
      BY <1>6, <2>1, <3>1, LimiterAssumption
  <2> QED
    BY <2>2, <2>3
<1>15. /\ IsFiniteSet(kept) /\ Cardinality(kept) \in Nat
       /\ IsFiniteSet(new) /\ IsFiniteSet(kept \cup new)
       /\ Cardinality(kept \cup new) <= IF allowed THEN Cardinality(kept) + 1 ELSE Cardinality(kept)
  <2>1. IsFiniteSet(kept) /\ Cardinality(kept) \in Nat
    BY <1>12, <1>13, FS_Subset, FS_CardinalityType
  <2>2. CASE allowed
    <3>1. new = {this}
      BY <2>2
    <3>2. /\ IsFiniteSet(kept \cup {this})
          /\ Cardinality(kept \cup {this}) =
               IF this \in kept THEN Cardinality(kept) ELSE Cardinality(kept) + 1
      BY <2>1, FS_AddElement
    <3>3. kept \cup new = kept \cup {this} /\ IsFiniteSet(new)
      BY <3>1, FS_Singleton
    <3> HIDE DEF new
    <3>4. Cardinality(kept \cup new) <= Cardinality(kept) + 1
      BY <2>1, <3>2, <3>3
    <3> QED
      BY <2>1, <2>2, <3>2, <3>3, <3>4
  <2>3. CASE ~allowed
    <3>1. new = {} /\ kept \cup new = kept
      BY <2>3
    <3> QED
      BY <2>1, <2>3, <3>1, FS_EmptySet
  <2> QED
    BY <2>2, <2>3
<1>16. /\ Remaining(key)' = kept \cup new
       /\ admitted'[key] = admitted[key] \cup new
       /\ \A k \in Keys \ {key} : admitted'[k] = admitted[k]
       /\ DOMAIN admitted' = Keys
  <2>1. DOMAIN admitted = Keys
    BY DEF LimitInv, KeysInv
  <2> QED
    BY <1>6, <1>7, <1>8, <2>1 DEF Remaining
<1>17. \A b \in new : allowed /\ b = this /\ b.at = now
  BY <1>10
<1> HIDE DEF new
<1>18. KeysInv'
  <2>1. \A k \in Keys : /\ IsFiniteSet(admitted'[k])
                        /\ \A a \in admitted'[k] : a.at \in Nat /\ a.at <= clock'
    <3> TAKE k \in Keys
    <3>1. CASE k # key
      BY <1>7, <1>16, <3>1 DEF LimitInv, KeysInv
    <3>2. CASE k = key
      <4>1. IsFiniteSet(admitted[key] \cup new)
        BY <1>13, <1>15, FS_Union
      <4> QED
        BY <1>6, <1>7, <1>13, <1>16, <1>17, <3>2, <4>1
    <3> QED
      BY <3>1, <3>2
  <2>2. DOMAIN clients' \subseteq Keys
    BY <1>6, <1>7, <1>10 DEF LimitInv, KeysInv
  <2>3. \A k \in DOMAIN clients' :
          /\ clients'[k].lastSeen \in Nat
          /\ clients'[k].stamps \subseteq admitted'[k]
          /\ \A a \in admitted'[k] : a.at <= clients'[k].lastSeen + MaxDelay
    <3> TAKE k \in DOMAIN clients'
    <3>1. CASE k # key
      BY <1>7, <1>10, <1>16, <2>2, <3>1 DEF LimitInv, KeysInv
    <3>2. CASE k = key
      <4>1. clients'[k].lastSeen = now /\ clients'[k].stamps = kept \cup new
        BY <1>7, <3>2
      <4>2. \A a \in admitted'[k] : a.at \in Nat /\ a.at <= clock
        BY <1>6, <1>7, <2>1, <3>2
      <4>3. clients'[k].stamps \subseteq admitted'[k]
        BY <1>12, <1>13, <1>16, <3>2, <4>1
      <4> QED
        BY <1>6, <4>1, <4>2, <4>3, LimiterAssumption
    <3> QED
      BY <3>1, <3>2
  <2>4. \A t \in Slots : requests'[t].pc = "stamped" => t # s /\ requests'[t] = requests[t]
    BY <1>9 DEF KnownInv, Set, Free
  <2> QED
    BY <1>6, <1>7, <1>16, <2>1, <2>2, <2>3, <2>4 DEF LimitInv, KeysInv
\* Whoever is outside the window of this pass, or of a later one.
<1>19. \A p \in Nat : now <= p => InWindow(Remaining(key), p) \subseteq kept
  <2> SUFFICES ASSUME NEW p \in Nat, now <= p, NEW b \in InWindow(Remaining(key), p)
               PROVE  b \in kept
    OBVIOUS
  <2>1. b \in Remaining(key) /\ b.at + Window >= p /\ b.at \in Nat
    BY <1>13 DEF InWindow
  <2> QED
    BY <1>6, <1>14, <2>1, LimiterAssumption
<1>20. \A k, p : InWindow(k, p)' = InWindow(k, p)
  BY DEF InWindow
<1>21. ASSUME NEW a \in admitted[key], a.at + Window < now
       PROVE  Gone(key, a)'
  <2>1. CASE allowed
    <3>1. this \in admitted'[key] /\ this.at = now
      BY <1>10, <1>16, <2>1 DEF new
    <3> QED
      BY <1>21, <3>1 DEF Gone
  <2>2. CASE ~allowed
    <3>1. Remaining(key)' = kept /\ InWindow(kept, now) = kept
      BY <1>12, <1>16, <2>2 DEF new, InWindow
    <3>2. Cardinality(InWindow(Remaining(key)', now)) >= Limit
      BY <1>15, <2>2, <3>1, LimiterAssumption
    <3> QED
      BY <1>6, <1>20, <1>21, <3>2 DEF Gone
  <2> QED
    BY <2>1, <2>2
<1>22. ASSUME NEW k \in Keys, NEW a \in admitted'[k] \ Remaining(k)'
       PROVE  Gone(k, a)'
  <2>1. CASE k # key /\ k \in DOMAIN clients \ known
    <3>1. a \in admitted[k] /\ a.at + Window + MaxDelay < clock'
      BY <1>7, <1>11, <1>16, <2>1
    <3> QED
      BY <3>1 DEF Gone
  <2>2. CASE k # key /\ k \notin DOMAIN clients \ known
    <3>1. Remaining(k)' = Remaining(k) /\ admitted'[k] = admitted[k]
      BY <1>7, <1>10, <1>16, <2>2 DEF Remaining
    <3>2. Gone(k, a)
      BY <3>1 DEF LimitInv
    <3> QED
      BY <1>7, <1>20, <3>1, <3>2 DEF Gone
  <2>3. CASE k = key /\ a \in Remaining(key)
    <3>1. a \in admitted[key] /\ a.at + Window < now
      BY <1>13, <1>14, <1>16, <2>3
    <3> QED
      BY <1>21, <2>3, <3>1
  <2>4. CASE k = key /\ a \notin Remaining(key)
    <3>1. a \in admitted[key] /\ a.at \in Nat /\ Gone(key, a)
      BY <1>13, <1>16, <2>4 DEF LimitInv
    <3>2. CASE \E b \in admitted[key] : a.at + Window < b.at
      BY <1>16, <2>4, <3>2 DEF Gone
    <3>3. CASE a.at + Window + MaxDelay < clock
      BY <1>7, <2>4, <3>3 DEF Gone
    <3>4. ASSUME NEW p \in Nat, a.at + Window < p, Cardinality(InWindow(Remaining(key), p)) >= Limit
          PROVE  Gone(key, a)'
      <4>1. CASE p <= now
        BY <1>6, <1>21, <3>1, <3>4, <4>1, LimiterAssumption
      <4>2. CASE ~(p <= now)
        <5>1. InWindow(Remaining(key), p) \subseteq kept
          BY <1>6, <1>19, <4>2
        <5>2. InWindow(Remaining(key), p) \subseteq InWindow(Remaining(key)', p)
          BY <1>16, <5>1 DEF InWindow
        <5>3. IsFiniteSet(InWindow(Remaining(key)', p))
          BY <1>15, <1>16, FS_Subset DEF InWindow
        <5>4. /\ Cardinality(InWindow(Remaining(key)', p)) \in Nat
              /\ Cardinality(InWindow(Remaining(key), p)) \in Nat
              /\ Cardinality(InWindow(Remaining(key), p)) <= Cardinality(InWindow(Remaining(key)', p))
          BY <5>2, <5>3, FS_Subset, FS_CardinalityType
        <5>5. Cardinality(InWindow(Remaining(key)', p)) >= Limit
          BY <3>4, <5>4, LimiterAssumption
        <5> QED
          BY <1>20, <3>4, <5>5 DEF Gone
      <4> QED
        BY <4>1, <4>2
    <3> QED
      BY <2>4, <3>1, <3>2, <3>3, <3>4 DEF Gone
  <2> QED
    BY <2>1, <2>2, <2>3, <2>4
<1>23. ASSUME NEW k \in Keys, NEW p
       PROVE  /\ Within(k, p) \in Nat /\ Within(k, p)' \in Nat
              /\ Within(k, p) <= Within(k, p)'
  <2>1. admitted[k] \subseteq admitted'[k] /\ IsFiniteSet(admitted'[k])
    BY <1>16, <1>18 DEF KeysInv
  <2>2. /\ InWindow(admitted[k], p) \subseteq InWindow(admitted'[k], p)
        /\ InWindow(admitted'[k], p) \subseteq admitted'[k]
    BY <2>1 DEF InWindow
  <2>3. IsFiniteSet(InWindow(admitted'[k], p))
    BY <2>1, <2>2, FS_Subset
  <2> QED
    BY <1>20, <2>2, <2>3, FS_Subset, FS_CardinalityType DEF Within
<1>24. ASSUME NEW k \in Keys, NEW a \in admitted'[k], NewestOf(k, a)'
       PROVE  Within(k, a.at)' <= Limit
  <2>1. CASE admitted'[k] = admitted[k]
    <3>1. NewestOf(k, a) /\ Within(k, a.at)' = Within(k, a.at)
      BY <1>20, <1>24, <2>1 DEF NewestOf, Within
    <3> QED
      BY <2>1, <3>1 DEF LimitInv, LimitIsExact, NewestOf
  <2>2. CASE admitted'[k] # admitted[k]
    <3>1. k = key /\ new # {}
      BY <1>16, <2>2
    <3>2. allowed /\ this \in admitted'[key]
      BY <1>16, <3>1 DEF new
    <3>3. a.at \in Nat /\ now <= a.at
      BY <1>10, <1>18, <1>24, <3>1, <3>2 DEF KeysInv, NewestOf
    <3>4. ASSUME NEW b \in admitted[key], b.at + Window >= a.at
          PROVE  b \in kept
      <4>1. b.at \in Nat /\ b \in admitted'[key]
        BY <1>13, <1>16
      <4>2. ~(b.at + Window < now)
        BY <1>6, <3>3, <3>4, <4>1, LimiterAssumption
      <4>3. CASE b \in Remaining(key)
        BY <1>14, <4>2, <4>3
      <4>4. CASE b \notin Remaining(key)
        <5>1. Gone(key, b)
          BY <1>6, <4>4 DEF LimitInv
        <5>2. ASSUME NEW c \in admitted[key], b.at + Window < c.at PROVE FALSE
          <6>1. c.at \in Nat /\ c.at <= a.at
            BY <1>13, <1>16, <1>24, <3>1, <5>2 DEF NewestOf
          <6> QED
            BY <3>3, <3>4, <4>1, <5>2, <6>1, LimiterAssumption
        <5>3. ASSUME NEW p \in Nat, b.at + Window < p, Cardinality(InWindow(Remaining(key), p)) >= Limit
              PROVE  FALSE
          <6>1. now <= p
            BY <1>6, <3>3, <3>4, <4>1, <5>3, LimiterAssumption
          <6>2. InWindow(Remaining(key), p) \subseteq kept
            BY <1>19, <6>1
          <6>3. /\ Cardinality(InWindow(Remaining(key), p)) \in Nat
                /\ Cardinality(InWindow(Remaining(key), p)) <= Cardinality(kept)
            BY <1>15, <6>2, FS_Subset, FS_CardinalityType
          <6> QED
            BY <1>15, <3>2, <5>3, <6>3, LimiterAssumption
        <5>4. ~(b.at + Window + MaxDelay < clock)
          BY <1>6, <4>1, <4>2, LimiterAssumption
        <5> QED
          BY <5>1, <5>2, <5>3, <5>4 DEF Gone
      <4> QED
        BY <4>3, <4>4
    <3>5. InWindow(admitted'[key], a.at) \subseteq kept \cup new
      BY <1>16, <3>4 DEF InWindow
    <3>6. /\ Cardinality(InWindow(admitted'[key], a.at)) \in Nat
          /\ Cardinality(InWindow(admitted'[key], a.at)) <= Cardinality(kept \cup new)
      BY <1>15, <3>5, FS_Subset, FS_CardinalityType
    <3>7. Cardinality(kept \cup new) \in Nat /\ Cardinality(kept \cup new) <= Cardinality(kept) + 1
      BY <1>15, <3>2, FS_CardinalityType
    <3>8. Within(k, a.at)' = Cardinality(InWindow(admitted'[key], a.at))
      BY <1>20, <3>1 DEF Within
    <3> QED
      BY <1>15, <3>2, <3>6, <3>7, <3>8, LimiterAssumption
  <2> QED
    BY <2>1, <2>2
<1>25. ASSUME NEW t \in Slots, requests'[t].pc = "limited"
       PROVE  (Within(KeyOf(t), requests[t].stamp))' >= Limit
  <2>1. CASE t # s
    <3>1. requests'[t] = requests[t]
      BY <1>9, <2>1 DEF Set, KnownInv
    <3>2. KeyOf(t)' = KeyOf(t) /\ KeyOf(t) \in Keys
      BY <1>25, <3>1, KeyIsNamed DEF KeyOf
    <3>3. Within(KeyOf(t), requests[t].stamp) >= Limit
      BY <1>25, <3>1 DEF LimitInv, LimitIsExact
    <3>4. PICK k \in Keys : k = KeyOf(t)
      BY <3>2
    <3>5. PICK p : p = requests[t].stamp
      OBVIOUS
    <3>6. (Within(KeyOf(t), requests[t].stamp))' = Within(k, p)'
      BY <3>1, <3>2, <3>4, <3>5
    <3> QED
      BY <1>23, <3>3, <3>4, <3>5, <3>6, LimiterAssumption
  <2>2. CASE t = s
    <3>1. /\ requests'[s].subject = requests[s].subject
          /\ requests'[s].address = requests[s].address
          /\ requests'[s].stamp = requests[s].stamp
          /\ requests'[s].pc = IF allowed THEN "admitted" ELSE "limited"
      BY <1>9 DEF Set, KnownInv, Free
    <3>2. ~allowed /\ KeyOf(s)' = key /\ requests'[s].stamp = now
      BY <1>1, <1>2, <1>25, <2>2, <3>1 DEF KeyOf
    <3>3. kept \subseteq InWindow(admitted'[key], now)
      BY <1>12, <1>13, <1>16 DEF InWindow
    <3>4. IsFiniteSet(InWindow(admitted'[key], now))
      <4>1. IsFiniteSet(admitted'[key])
        BY <1>6, <1>18 DEF KeysInv
      <4> QED
        BY <4>1, FS_Subset DEF InWindow
    <3>5. /\ Cardinality(InWindow(admitted'[key], now)) \in Nat
          /\ Cardinality(kept) <= Cardinality(InWindow(admitted'[key], now))
      BY <3>3, <3>4, FS_Subset, FS_CardinalityType
    <3>6. (Within(KeyOf(t), requests[t].stamp))' = Cardinality(InWindow(admitted'[key], now))
      BY <1>20, <2>2, <3>2 DEF Within
    <3> QED
      BY <1>15, <3>2, <3>5, <3>6, LimiterAssumption
  <2> QED
    BY <2>1, <2>2
<1>26. LimitIsExact'
  BY <1>24, <1>25 DEF LimitIsExact, NewestOf
<1> QED
  BY <1>18, <1>22, <1>26 DEF LimitInv

LEMMA LimitStep == KnownInv /\ LimitInv /\ [AdmissionNext]_admissionVars => LimitInv'
<1> SUFFICES ASSUME KnownInv, LimitInv, [AdmissionNext]_admissionVars PROVE LimitInv'
  OBVIOUS
<1>1. clock \in Nat /\ \A t \in Slots : requests[t].pc = "stamped" => Timely(requests[t], clock)
  BY DEF LimitInv, KeysInv
<1>2. ASSUME UNCHANGED <<limiter, requests, clock>> PROVE LimitInv'
  BY <1>1, <1>2, LimitIdle
<1>3. ASSUME NEW s \in Slots, UNCHANGED <<limiter, clock>>,
             \A t \in Slots \ {s} : requests'[t] = requests[t],
             requests'[s].pc = "stamped" => Timely(requests'[s], clock),
             requests'[s].pc # "limited"
      PROVE  LimitInv'
  <2>1. \A t \in Slots : requests'[t].pc = "stamped" => Timely(requests'[t], clock')
    BY <1>1, <1>3
  <2>2. \A t \in Slots : requests'[t].pc = "limited" => requests'[t] = requests[t]
    BY <1>3
  <2> QED
    BY <1>1, <1>3, <2>1, <2>2, LimitIdle
<1>4. ASSUME NEW s \in Slots, NEW pc, Set(s, [pc |-> pc]), pc \notin {"stamped", "limited"},
             UNCHANGED <<limiter, clock>>
      PROVE  LimitInv'
  <2>1. /\ \A t \in Slots \ {s} : requests'[t] = requests[t]
        /\ requests'[s].pc = pc
    BY <1>4 DEF Set, KnownInv, Free
  <2> QED
    BY <1>3, <1>4, <2>1
<1>5. ASSUME NEW s \in Slots, requests' = [requests EXCEPT ![s] = Free], UNCHANGED <<limiter, clock>>
      PROVE  LimitInv'
  <2>1. /\ \A t \in Slots \ {s} : requests'[t] = requests[t]
        /\ requests'[s].pc = "free"
    BY <1>5 DEF KnownInv, Free
  <2> QED
    BY <1>3, <1>5, <2>1
<1>6. ASSUME NEW s \in Slots, NEW r \in Incoming[authEnabled], Receive(s, r) PROVE LimitInv'
  <2> DEFINE auth == Authenticate(r)
             pc == CASE auth.status # 200 -> "refused"
                     [] r.route = "health" -> "admitted"
                     [] OTHER -> "stamped"
             stamp == IF auth.status = 200 THEN clock ELSE 0
             fields == [of |-> r, address |-> ResolveAddress(r.peer, r.forwarded),
                        subject |-> auth.subject, pc |-> pc, stamp |-> stamp]
  <2>1. Set(s, fields) /\ UNCHANGED <<limiter, clock>>
    BY <1>6 DEF Receive
  <2>2. pc # "limited" /\ (pc = "stamped" => stamp = clock)
    OBVIOUS
  <2> HIDE DEF pc, stamp
  <2>3. /\ \A t \in Slots \ {s} : requests'[t] = requests[t]
        /\ requests'[s].pc = pc /\ requests'[s].stamp = stamp
    BY <2>1 DEF Set, KnownInv, Free
  <2>4. pc = "stamped" => Timely(requests'[s], clock)
    BY <1>1, <2>2, <2>3, LimiterAssumption DEF Timely
  <2> QED
    BY <1>3, <2>1, <2>2, <2>3, <2>4
<1>7. ASSUME NEW s \in Slots, Allow(s) PROVE LimitInv'
  BY <1>7, AllowKeepsLimit
<1>8. ASSUME NEW s \in Slots, Log(s) PROVE LimitInv'
  BY <1>4, <1>8 DEF Log
<1>9. ASSUME NEW s \in Slots, Lock(s) PROVE LimitInv'
  <2>1. CASE Answered(s)
    BY <1>5, <2>1 DEF Answered
  <2>2. CASE ~Answered(s)
    <3>1. Set(s, [pc |-> "handling"]) /\ UNCHANGED <<limiter, clock>>
      BY <1>9, <2>2 DEF Lock
    <3> QED
      BY <1>4, <3>1
  <2> QED
    BY <2>1, <2>2
<1>10. ASSUME NEW s \in Slots, LockFails(s) \/ Handle(s) \/ Panic(s) \/ Refuse(s) PROVE LimitInv'
  BY <1>5, <1>10 DEF LockFails, Handle, Panic, Refuse, Answered
<1>11. CASE Tick
  <2>1. UNCHANGED <<limiter, requests>> /\ clock' = clock + 1
    BY <1>11 DEF Tick
  <2>2. \A t \in Slots : requests[t].pc = "stamped" => clock < requests[t].stamp + MaxDelay
    BY <1>11 DEF Tick
  <2>3. \A t \in Slots : requests'[t].pc = "stamped" => Timely(requests'[t], clock')
    BY <1>1, <2>1, <2>2, LimiterAssumption DEF Timely
  <2> QED
    BY <1>1, <2>1, <2>3, LimitIdle
<1>12. CASE UNCHANGED admissionVars \/ \E s \in Slots : DropConnection(s)
  BY <1>2, <1>12 DEF DropConnection, admissionVars
<1> QED
  BY <1>6, <1>7, <1>8, <1>9, <1>10, <1>11, <1>12 DEF AdmissionNext

(* The limit is exact for any number of requests and keys: in the window   *)
(* that ends at the newest admission of a key lie at most Limit, and who   *)
(* is refused used it up, although stamps pass the mutex out of order and  *)
(* silent keys are forgotten (allow, cleanupStaleClients).                 *)
THEOREM LimitIsExactAlways == AdmissionSpec => []LimitIsExact
<1>1. LimitInv => LimitIsExact
  BY DEF LimitInv
<1> QED
  BY KnownStarts, KnownStep, LimitStarts, LimitStep, <1>1, PTL DEF AdmissionSpec

-----------------------------------------------------------------------------
(* Sessions                                                                *)

Ids == SessionIds \cup FreshIds

(* The steps of a call that has its session.                               *)
Inside == {"messages", "model", "answer"}

Named(m) == m.session \in Ids /\ m.user \in Users /\ m.call \in Calls

(* A session that exists keeps its user; a call that has its session is of *)
(* that user, and so is every message it stores.                           *)
OwnerInv ==
  /\ sessions \in [Ids -> Users \cup {Nobody}]
  /\ messages \in Seq({messages[i] : i \in DOMAIN messages})
  /\ \A i \in DOMAIN messages :
       Named(messages[i]) /\ messages[i].user = sessions[messages[i].session]
  /\ DOMAIN calls = Calls
  /\ \A c \in Calls :
       /\ DOMAIN calls[c] = DOMAIN NewCall
       /\ calls[c].pc \in {"new", "session", "create", "over"} \cup Inside
       /\ calls[c].pc \notin {"new", "over"} => calls[c].user \in Users
       /\ calls[c].pc \in {"session", "create"} => calls[c].session \in SessionIds \cup {Nobody}
       /\ calls[c].pc \in Inside => /\ calls[c].session \in Ids
                                    /\ sessions[calls[c].session] = calls[c].user

LEMMA OwnerStarts == ResponsesInit => OwnerInv
BY DEF ResponsesInit, OwnerInv, NewCall, Ids, Inside

(* A step that stores nothing and only moves a call on.                    *)
LEMMA OwnerMoves ==
  ASSUME OwnerInv, NEW c \in Calls, NEW to,
         calls' = [calls EXCEPT ![c] = to], DOMAIN to = DOMAIN NewCall,
         to.pc \in {"session", "create", "over"} \cup Inside,
         to.pc # "over" => to.user \in Users,
         to.pc \in {"session", "create"} => to.session \in SessionIds \cup {Nobody},
         to.pc \in Inside => to.session \in Ids /\ sessions[to.session] = to.user,
         UNCHANGED <<sessions, messages>>
  PROVE  OwnerInv'
BY DEF OwnerInv, Inside, Named

LEMMA OwnerEnds ==
  ASSUME OwnerInv, NEW c \in Calls, Ends(c), UNCHANGED <<sessions, messages>>
  PROVE  OwnerInv'
BY OwnerMoves DEF Ends, OwnerInv, NewCall, Inside

LEMMA OwnerStores ==
  ASSUME OwnerInv, NEW c \in Calls, NEW role, calls[c].pc \in Inside,
         messages' = Append(messages, Message(c, role)), UNCHANGED sessions,
         DOMAIN calls' = Calls, \A d \in Calls \ {c} : calls'[d] = calls[d],
         DOMAIN calls'[c] = DOMAIN NewCall, calls'[c].user = calls[c].user,
         calls'[c].session = calls[c].session, calls'[c].pc \in Inside \cup {"over"}
  PROVE  /\ OwnerInv'
         /\ DOMAIN messages' = 1..Len(messages) + 1 /\ DOMAIN messages = 1..Len(messages)
         /\ Len(messages) \in Nat
         /\ messages'[Len(messages) + 1] = Message(c, role)
         /\ \A i \in DOMAIN messages : messages'[i] = messages[i]
<1> DEFINE n == Len(messages)
<1>1. n \in Nat /\ DOMAIN messages = 1..n
  BY DEF OwnerInv
<1>2. /\ DOMAIN messages' = 1..n + 1
      /\ messages'[n + 1] = Message(c, role)
      /\ \A i \in 1..n : messages'[i] = messages[i]
  BY <1>1 DEF OwnerInv
<1>3. messages' \in Seq({messages'[i] : i \in DOMAIN messages'})
  BY <1>1, <1>2 DEF OwnerInv
<1>4. Named(Message(c, role)) /\ Message(c, role).user = sessions[Message(c, role).session]
  BY DEF OwnerInv, Message, Named, Inside
<1>5. \A i \in DOMAIN messages' :
         Named(messages'[i]) /\ messages'[i].user = sessions'[messages'[i].session]
  BY <1>1, <1>2, <1>4 DEF OwnerInv
<1>6. \A d \in Calls :
       /\ DOMAIN calls'[d] = DOMAIN NewCall
       /\ calls'[d].pc \in {"new", "session", "create", "over"} \cup Inside
       /\ calls'[d].pc \notin {"new", "over"} => calls'[d].user \in Users
       /\ calls'[d].pc \in {"session", "create"} => calls'[d].session \in SessionIds \cup {Nobody}
       /\ calls'[d].pc \in Inside => /\ calls'[d].session \in Ids
                                     /\ sessions'[calls'[d].session] = calls'[d].user
  BY DEF OwnerInv, Inside
<1>7. OwnerInv'
  BY <1>3, <1>5, <1>6 DEF OwnerInv, Named
<1> QED
  BY <1>1, <1>2, <1>7

LEMMA OwnerStep == OwnerInv /\ [ResponsesNext]_responseVars => OwnerInv'
<1> SUFFICES ASSUME OwnerInv, [ResponsesNext]_responseVars PROVE OwnerInv'
  OBVIOUS
<1>1. ASSUME NEW c \in Calls, NEW u \in Users, NEW s \in SessionIds \cup {Nobody},
             NEW n, NEW scenario, Accept(c, u, s, n, scenario)
      PROVE  OwnerInv'
  <2> DEFINE to == [NewCall EXCEPT !.pc = "session", !.user = u, !.session = s,
                                   !.left = n, !.scenario = scenario]
  <2>1. calls' = [calls EXCEPT ![c] = to] /\ UNCHANGED <<sessions, messages>>
    BY <1>1 DEF Accept
  <2>2. DOMAIN to = DOMAIN NewCall /\ to.pc = "session" /\ to.user = u /\ to.session = s
    BY DEF NewCall
  <2> HIDE DEF to
  <2> QED
    BY <2>1, <2>2, OwnerMoves DEF Inside
<1>2. ASSUME NEW c \in Calls, FindSession(c) PROVE OwnerInv'
  <2> DEFINE s == calls[c].session
  <2>1. calls[c].pc = "session" /\ UNCHANGED <<sessions, messages>>
    BY <1>2 DEF FindSession
  <2>2. CASE s = Nobody \/ sessions[s] = Nobody
    <3>1. calls' = [calls EXCEPT ![c].pc = "create"]
      BY <1>2, <2>2 DEF FindSession, GoesOn
    <3> QED
      BY <2>1, <3>1 DEF OwnerInv, NewCall, Inside
  <2>3. CASE s # Nobody /\ sessions[s] # Nobody /\ MayUse(calls[c].user, s)
    <3>1. calls' = [calls EXCEPT ![c].pc = "messages"]
      BY <1>2, <2>3 DEF FindSession, GoesOn
    <3> QED
      BY <2>1, <2>3, <3>1 DEF OwnerInv, NewCall, Inside, MayUse, Ids
  <2>4. CASE s # Nobody /\ sessions[s] # Nobody /\ ~MayUse(calls[c].user, s)
    BY <1>2, <2>1, <2>4, OwnerEnds DEF FindSession
  <2> QED
    BY <2>2, <2>3, <2>4
<1>3. ASSUME NEW c \in Calls, CreateSession(c) PROVE OwnerInv'
  <2>1. PICK s \in Ids : calls[c].pc = "create" /\ Insert(c, s) /\ messages' = messages
    BY <1>3 DEF CreateSession, OwnerInv, Ids
  <2>2. CASE sessions[s] # Nobody
    BY <2>1, <2>2, OwnerEnds DEF Insert
  <2>3. CASE sessions[s] = Nobody
    <3>1. /\ sessions' = [sessions EXCEPT ![s] = calls[c].user]
          /\ calls' = [calls EXCEPT ![c].pc = "messages", ![c].session = s]
      BY <2>1, <2>3 DEF Insert
    <3>2. calls[c].user \in Users /\ sessions'[s] = calls[c].user
      BY <2>1, <3>1 DEF OwnerInv
    <3>3. \A x \in Ids : sessions[x] # Nobody => sessions'[x] = sessions[x]
      BY <2>3, <3>1 DEF OwnerInv
    <3>4. /\ DOMAIN calls' = Calls
          /\ \A d \in Calls \ {c} : calls'[d] = calls[d]
          /\ DOMAIN calls'[c] = DOMAIN NewCall
          /\ calls'[c].pc = "messages" /\ calls'[c].session = s /\ calls'[c].user = calls[c].user
      BY <3>1 DEF OwnerInv, NewCall
    <3>5. \A i \in DOMAIN messages :
             Named(messages[i]) /\ messages[i].user = sessions'[messages[i].session]
      BY <3>3, ResponsesAssumption DEF OwnerInv, Named
    <3>6. \A d \in Calls \ {c} : calls[d].pc \in Inside =>
             sessions'[calls[d].session] = calls[d].user
      BY <3>3, ResponsesAssumption DEF OwnerInv, Inside
    <3>7. sessions' \in [Ids -> Users \cup {Nobody}]
      BY <3>1, <3>2 DEF OwnerInv
    <3> QED
      BY <2>1, <3>2, <3>4, <3>5, <3>6, <3>7 DEF OwnerInv, Inside, Named
  <2> QED
    BY <2>2, <2>3
<1>4. ASSUME NEW c \in Calls, StoreMessage(c) PROVE OwnerInv'
  <2>1. calls[c].pc = "messages" /\ UNCHANGED sessions
    BY <1>4 DEF StoreMessage
  <2>2. CASE calls[c].left = 0
    <3>1. calls' = [calls EXCEPT ![c].pc = "model"] /\ UNCHANGED messages
      BY <1>4, <2>2 DEF StoreMessage, GoesOn
    <3> QED
      BY <2>1, <3>1 DEF OwnerInv, NewCall, Inside
  <2>3. CASE calls[c].left # 0
    <3>1. /\ messages' = Append(messages, Message(c, "user"))
          /\ calls' = [calls EXCEPT ![c].left = @ - 1]
      BY <1>4, <2>3 DEF StoreMessage
    <3>2. /\ DOMAIN calls' = Calls /\ \A d \in Calls \ {c} : calls'[d] = calls[d]
          /\ DOMAIN calls'[c] = DOMAIN NewCall /\ calls'[c].user = calls[c].user
          /\ calls'[c].session = calls[c].session /\ calls'[c].pc = calls[c].pc
      BY <3>1 DEF OwnerInv, NewCall
    <3> QED
      BY <2>1, <3>1, <3>2, OwnerStores DEF Inside
  <2> QED
    BY <2>2, <2>3
<1>5. ASSUME NEW c \in Calls, Generate(c) PROVE OwnerInv'
  <2>1. calls[c].pc = "model" /\ UNCHANGED <<sessions, messages>>
    BY <1>5 DEF Generate
  <2>2. \/ Ends(c)
        \/ GoesOn(c, "answer")
        \/ \E plan : calls' = [calls EXCEPT ![c].pc = "answer", ![c].plan = plan]
    BY <1>5, Zenon DEF Generate
  <2>3. \A plan : \/ calls' = [calls EXCEPT ![c].pc = "answer"]
                  \/ calls' = [calls EXCEPT ![c].pc = "answer", ![c].plan = plan]
                  => OwnerInv'
    BY <2>1 DEF OwnerInv, NewCall, Inside
  <2> QED
    BY <2>1, <2>2, <2>3, OwnerEnds DEF GoesOn
<1>6. ASSUME NEW c \in Calls, StoreAnswer(c) PROVE OwnerInv'
  <2>1. /\ calls[c].pc = "answer" /\ UNCHANGED sessions
        /\ messages' = Append(messages, Message(c, "assistant"))
        /\ calls' = [calls EXCEPT ![c].pc = "over"]
    BY <1>6 DEF StoreAnswer, Ends
  <2>2. /\ DOMAIN calls' = Calls /\ \A d \in Calls \ {c} : calls'[d] = calls[d]
        /\ DOMAIN calls'[c] = DOMAIN NewCall /\ calls'[c].user = calls[c].user
        /\ calls'[c].session = calls[c].session /\ calls'[c].pc = "over"
    BY <2>1 DEF OwnerInv, NewCall
  <2> QED
    BY <2>1, <2>2, OwnerStores DEF Inside
<1>7. ASSUME NEW c \in Calls, CallFails(c) PROVE OwnerInv'
  BY <1>7, OwnerEnds DEF CallFails
<1>8. CASE UNCHANGED responseVars
  BY <1>8 DEF responseVars, OwnerInv
<1> QED
  BY <1>1, <1>2, <1>3, <1>4, <1>5, <1>6, <1>7, <1>8 DEF ResponsesNext

(* Every message of a session is of the session's user, although calls     *)
(* find, create and continue sessions in separate statements; and with     *)
(* tokens the debug endpoint shows a user only its own sessions and        *)
(* messages (sessions.go, debug_context_handlers.go).                      *)
THEOREM SessionsAreOwnedAlways == ResponsesSpec => []SessionsAreOwned
<1>1. OwnerInv => SessionsAreOwned
  <2> SUFFICES ASSUME OwnerInv PROVE SessionsAreOwned
    OBVIOUS
  <2>1. \A i \in DOMAIN messages : messages[i].user = sessions[messages[i].session]
    BY DEF OwnerInv
  <2>2. ASSUME locked, NEW actor \in Users, NEW view \in Views(actor)
        PROVE  /\ sessions[view.session] = actor
               /\ \A i \in view.listed : messages[i].user = actor
               /\ view.message # 0 => messages[view.message].user = actor
    <3>1. \A s : \A i \in Listed(s) : i \in DOMAIN messages /\ messages[i].session = s
      BY DEF Listed
    <3>2. ASSUME NEW i \in DOMAIN messages, Readable(actor, messages[i].user),
                 view = Shown(messages[i].session, i)
          PROVE  /\ sessions[view.session] = actor
                 /\ \A j \in view.listed : messages[j].user = actor
                 /\ view.message # 0 => messages[view.message].user = actor
      <4>1. view.session = messages[i].session /\ view.message = i
            /\ view.listed = Listed(messages[i].session)
        BY <3>2 DEF Shown
      <4> QED
        BY <2>1, <2>2, <3>1, <3>2, <4>1 DEF Readable
    <3>3. ASSUME NEW s \in DOMAIN sessions, Readable(actor, sessions[s]),
                 view = Shown(s, LatestAnswer(Listed(s)))
          PROVE  /\ sessions[view.session] = actor
                 /\ \A j \in view.listed : messages[j].user = actor
                 /\ view.message # 0 => messages[view.message].user = actor
      <4>1. /\ view.session = s /\ view.listed = Listed(s)
            /\ view.message = LatestAnswer(Listed(s))
        BY <3>3 DEF Shown
      <4>2. LatestAnswer(Listed(s)) # 0 => LatestAnswer(Listed(s)) \in Listed(s)
        <5> DEFINE A == {i \in Listed(s) : messages[i].role = "assistant"}
        <5>1. A \subseteq 0..Len(messages) /\ Len(messages) \in Nat
          BY <3>1 DEF OwnerInv
        <5>2. A # {} => \E i \in A : \A j \in A : j <= i
          <6> HIDE DEF A
          <6> QED
            BY <5>1, GreatestNumber
        <5> QED
          BY <5>2 DEF LatestAnswer
      <4> QED
        BY <2>1, <2>2, <3>1, <3>3, <4>1, <4>2 DEF Readable
    <3> QED
      BY <3>2, <3>3 DEF Views
  <2> QED
    BY <2>1, <2>2 DEF SessionsAreOwned
<1> QED
  BY OwnerStarts, OwnerStep, <1>1, PTL DEF ResponsesSpec

-----------------------------------------------------------------------------
(* Plans and conversations                                                 *)

Strategy == [id : Nat, blank : BOOLEAN, score : Nat]

(* Of finitely many scores one is the best.  (By induction: the least      *)
(* place up to which there is none does not exist.)                        *)
LEMMA BestScore ==
  ASSUME NEW n \in Nat, NEW D, D \subseteq 1..n, D # {},
         NEW f, \A i \in D : f[i] \in Nat
  PROVE  \E i \in D : \A j \in D : f[j] <= f[i]
<1> DEFINE Best(k) == \E i \in D : i <= k /\ \A j \in D : j <= k => f[j] <= f[i]
           Bad == {k \in Nat : (\E i \in D : i <= k) /\ ~Best(k)}
<1>1. \A i \in D : i \in Nat /\ i >= 1 /\ i <= n
  OBVIOUS
<1>2. CASE Bad = {}
  <2>1. \E i \in D : i <= n
    BY <1>1
  <2>2. Best(n)
    BY <1>2, <2>1
  <2> QED
    BY <1>1, <2>2
<1>3. CASE Bad # {}
  <2>1. PICK k \in Bad : \A l \in Bad : k <= l
    <3>1. Bad \subseteq Nat
      OBVIOUS
    <3> HIDE DEF Bad
    <3> QED
      BY <1>3, <3>1, LeastNumber, Zenon
  <2>2. /\ k \in Nat /\ ~Best(k)
        /\ \E i \in D : i <= k
    OBVIOUS
  <2>3. k - 1 \in Nat
    BY <1>1, <2>2
  <2>4. k - 1 \notin Bad
    <3> HIDE DEF Bad
    <3> QED
      BY <2>1, <2>2, <2>3
  <2> HIDE DEF Best
  <2>5. (\E i \in D : i <= k - 1) => Best(k - 1)
    BY <2>3, <2>4
  <2>6. ASSUME NEW b \in D, b <= k - 1, \A j \in D : j <= k - 1 => f[j] <= f[b]
        PROVE  Best(k)
    <3>1. \A j \in D : j <= k => j <= k - 1 \/ j = k
      BY <1>1, <2>2
    <3>2. CASE k \in D /\ f[b] <= f[k]
      <4>1. \A j \in D : j <= k => f[j] <= f[k]
        BY <2>6, <3>1, <3>2
      <4> QED
        BY <2>2, <3>2, <4>1 DEF Best
    <3>3. CASE k \notin D \/ ~ (f[b] <= f[k])
      <4>1. \A j \in D : j <= k => f[j] <= f[b]
        BY <2>6, <3>1, <3>3
      <4>2. b <= k
        BY <1>1, <2>2, <2>6
      <4> QED
        BY <4>1, <4>2 DEF Best
    <3> QED
      BY <3>2, <3>3
  <2>7. CASE \E i \in D : i <= k - 1
    BY <2>2, <2>5, <2>6, <2>7 DEF Best
  <2>8. CASE ~ \E i \in D : i <= k - 1
    <3>1. PICK i \in D : i <= k
      BY <2>2
    <3>2. \A j \in D : j <= k => j = k
      BY <1>1, <2>2, <2>8
    <3>3. Best(k)
      BY <3>1, <3>2, <2>2 DEF Best
    <3> QED
      BY <2>2, <3>3
  <2> QED
    BY <2>7, <2>8
<1> QED
  BY <1>2, <1>3

(* A plan keeps at most MaxStrategies strategies, and what it recommends   *)
(* is one of them.                                                         *)
LEMMA PlanIsSound ==
  ASSUME NEW plan \in Seq(Strategy), NEW id, DOMAIN Usable(plan) # {}
  PROVE  /\ Cardinality(DOMAIN Usable(plan)) \in 1..MaxStrategies
         /\ \E i \in DOMAIN Usable(plan) :
              /\ Usable(plan)[i].id = Recommended(Usable(plan), id)
              /\ ~Usable(plan)[i].blank
<1> DEFINE named == {i \in DOMAIN plan : ~plan[i].blank}
           D == {n \in named : Cardinality({m \in named : m < n}) < MaxStrategies}
           f == Usable(plan)
           n == Len(plan)
<1>1. /\ n \in Nat /\ DOMAIN plan = 1..n /\ \A i \in DOMAIN plan : plan[i] \in Strategy
  OBVIOUS
<1>2. DOMAIN f = D /\ \A i \in D : f[i] = plan[i]
  BY DEF Usable
<1>3. /\ D \subseteq 1..n /\ D \subseteq 0..n
      /\ \A i \in D : f[i] \in Strategy /\ ~f[i].blank
  BY <1>1, <1>2
<1>4. IsFiniteSet(D) /\ IsFiniteSet(named)
  <2>1. named \subseteq 1..n
    BY <1>1
  <2>2. IsFiniteSet(1..n)
    <3> HIDE DEF n
    <3> QED
      BY <1>1, FS_Interval
  <2> HIDE DEF named, D, n
  <2> QED
    BY <1>3, <2>1, <2>2, FS_Subset
<1>5. Cardinality(D) \in 1..MaxStrategies
  <2>1. Max(D) \in D /\ \A i \in D : i <= Max(D)
    <3> HIDE DEF D
    <3> QED
      BY <1>1, <1>2, <1>3, GreatestNumber
  <2> DEFINE x == Max(D)
             B == {m \in named : m < x}
  <2>2. IsFiniteSet(B) /\ Cardinality(B) < MaxStrategies /\ Cardinality(B) \in Nat
    BY <1>4, <2>1, FS_Subset, FS_CardinalityType
  <2>3. D \subseteq B \cup {x}
    <3> HIDE DEF x
    <3>1. \A i \in D : i \in named /\ i \in Nat
      BY <1>3
    <3>2. x \in Nat /\ \A i \in D : i <= x
      BY <2>1, <3>1 DEF x
    <3> QED
      BY <3>1, <3>2
  <2>4. x \notin B
    BY <1>3, <2>1
  <2> HIDE DEF B, x
  <2>5. IsFiniteSet(B \cup {x}) /\ Cardinality(B \cup {x}) = Cardinality(B) + 1
    BY <2>2, <2>4, FS_AddElement
  <2>6. Cardinality(D) <= Cardinality(B) + 1
    BY <2>3, <2>5, FS_Subset
  <2>7. Cardinality(D) # 0 /\ Cardinality(D) \in Nat
    BY <1>2, <1>4, FS_EmptySet, FS_CardinalityType
  <2> QED
    BY <2>2, <2>6, <2>7, ResponsesAssumption
<1> HIDE DEF D, f
<1>6. CASE \E i \in DOMAIN f : f[i].id = id
  <2>1. Recommended(f, id) = id
    BY <1>6 DEF Recommended
  <2>2. \A i \in DOMAIN f : ~f[i].blank
    BY <1>2, <1>3
  <2>3. \E i \in DOMAIN f : f[i].id = Recommended(f, id) /\ ~f[i].blank
    BY <1>6, <2>1, <2>2
  <2> QED
    BY <1>2, <1>5, <2>3 DEF f
<1>7. CASE ~ \E i \in DOMAIN f : f[i].id = id
  <2> DEFINE best == {i \in DOMAIN f : \A j \in DOMAIN f : f[j].score <= f[i].score}
             score == [i \in D |-> f[i].score]
  <2>1. \A i \in D : score[i] \in Nat
    BY <1>3 DEF Strategy
  <2>2. \E i \in D : \A j \in D : score[j] <= score[i]
    <3> HIDE DEF score
    <3> QED
      BY <1>1, <1>2, <1>3, <2>1, BestScore DEF f
  <2>3. best # {} /\ best \subseteq Nat
    BY <1>2, <1>3, <2>2
  <2>4. PICK a \in best : \A j \in best : a <= j
    <3> HIDE DEF best
    <3> QED
      BY <2>3, LeastNumber
  <2>5. (CHOOSE i \in best : \A j \in best : i <= j) \in best
    <3> HIDE DEF best
    <3> QED
      BY <2>4
  <2>6. Recommended(f, id) = f[CHOOSE i \in best : \A j \in best : i <= j].id
    BY <1>7 DEF Recommended
  <2>7. \E i \in DOMAIN f : f[i].id = Recommended(f, id) /\ ~f[i].blank
    <3>1. \A i \in DOMAIN f : ~f[i].blank
      BY <1>2, <1>3
    <3>2. best \subseteq DOMAIN f
      OBVIOUS
    <3> HIDE DEF best
    <3> QED
      BY <2>5, <2>6, <3>1, <3>2
  <2> QED
    BY <1>2, <1>5, <2>7 DEF f
<1> QED
  BY <1>2, <1>5, <1>6, <1>7 DEF f

Sound(plan) ==
  plan # <<>> =>
    /\ Cardinality(DOMAIN plan[2]) \in 1..MaxStrategies
    /\ \E i \in DOMAIN plan[2] : plan[2][i].id = plan[1] /\ ~plan[2][i].blank

(* A call that is inside stores into its own session, has not answered yet *)
(* and, behind the fence, is the only one of its user that is inside; so   *)
(* nobody else's message stands behind the first of its own.               *)
TalkInv ==
  /\ OwnerInv
  /\ \A c \in Calls : Sound(calls[c].plan)
  /\ locked => \A c \in Calls :
       calls[c].pc \notin {"new", "over"} => running[calls[c].user] = c
  /\ DOMAIN running = Users
  /\ \A i \in DOMAIN messages :
       LET c == messages[i].call
       IN /\ calls[c].pc \in Inside \cup {"over"}
          /\ calls[c].pc \in Inside =>
               /\ messages[i].session = calls[c].session
               /\ messages[i].role = "user"
  /\ \A i, j \in DOMAIN messages :
       i < j /\ messages[i].session = messages[j].session /\ messages[i].call = messages[j].call
         => messages[i].role = "user"
  /\ locked => \A i, k \in DOMAIN messages :
       /\ i < k /\ messages[i].session = messages[k].session
       /\ calls[messages[i].call].pc \in Inside
       => messages[k].call = messages[i].call
  /\ locked => \A i, j, k \in DOMAIN messages :
       /\ i <= k /\ k <= j
       /\ messages[i].session = messages[j].session /\ messages[i].call = messages[j].call
       /\ messages[k].session = messages[i].session
       => messages[k].call = messages[i].call

LEMMA TalkStarts == ResponsesInit => TalkInv
<1> SUFFICES ASSUME ResponsesInit PROVE TalkInv
  OBVIOUS
<1>1. OwnerInv
  BY OwnerStarts
<1>2. \A c \in Calls : calls[c].pc = "new" /\ calls[c].plan = <<>>
  BY DEF ResponsesInit, NewCall
<1>3. DOMAIN messages = {}
  BY DEF ResponsesInit
<1> QED
  BY <1>1, <1>2, <1>3 DEF TalkInv, ResponsesInit, Sound

(* A step that stores no message: a call moves on or ends.                 *)
LEMMA TalkMoves ==
  ASSUME TalkInv, OwnerInv', NEW c \in Calls,
         UNCHANGED <<locked, messages>>,
         \A d \in Calls \ {c} : calls'[d] = calls[d],
         Sound(calls'[c].plan),
         calls[c].pc \in Inside => /\ calls'[c].pc \in Inside \cup {"over"}
                                   /\ calls'[c].session = calls[c].session,
         calls[c].pc = "over" => calls'[c].pc = "over",
         calls[c].pc \notin Inside \cup {"over"} \/ calls'[c].pc \in Inside \cup {"over"},
         DOMAIN running' = Users,
         locked => \A d \in Calls :
           calls'[d].pc \notin {"new", "over"} => running'[calls'[d].user] = d
  PROVE  TalkInv'
<1>1. \A i \in DOMAIN messages : messages[i].call \in Calls
  BY DEF TalkInv, OwnerInv, Named
<1>2. \A d \in Calls : /\ calls'[d].pc \in Inside /\ calls[d].pc \in Inside \cup {"over"}
                       => calls[d].pc \in Inside /\ calls'[d].session = calls[d].session
  BY DEF Inside
<1>3. \A i \in DOMAIN messages :
         LET d == messages[i].call
         IN /\ calls'[d].pc \in Inside \cup {"over"}
            /\ calls'[d].pc \in Inside =>
                 /\ messages[i].session = calls'[d].session
                 /\ messages[i].role = "user"
  <2> TAKE i \in DOMAIN messages
  <2> DEFINE d == messages[i].call
  <2>1. d \in Calls /\ calls[d].pc \in Inside \cup {"over"}
    BY <1>1 DEF TalkInv
  <2>2. calls'[d].pc \in Inside \cup {"over"}
    BY <2>1
  <2>3. calls'[d].pc \in Inside => calls[d].pc \in Inside /\ calls'[d].session = calls[d].session
    BY <1>2, <2>1
  <2>4. calls[d].pc \in Inside =>
          messages[i].session = calls[d].session /\ messages[i].role = "user"
    BY DEF TalkInv
  <2> QED
    BY <2>2, <2>3, <2>4
<1>4. \A d \in Calls : Sound(calls'[d].plan)
  BY DEF TalkInv
<1>5. locked => \A i, k \in DOMAIN messages :
         /\ i < k /\ messages[i].session = messages[k].session
         /\ calls'[messages[i].call].pc \in Inside
         => messages[k].call = messages[i].call
  <2>1. \A i \in DOMAIN messages : calls'[messages[i].call].pc \in Inside =>
          calls[messages[i].call].pc \in Inside
    BY <1>1, <1>2 DEF TalkInv
  <2> QED
    BY <2>1 DEF TalkInv
<1> QED
  BY <1>3, <1>4, <1>5 DEF TalkInv

LEMMA TalkEnds ==
  ASSUME TalkInv, OwnerInv', NEW c \in Calls, Ends(c), calls[c].pc # "new",
         UNCHANGED <<locked, messages>>
  PROVE  TalkInv'
<1>1. /\ \A d \in Calls \ {c} : calls'[d] = calls[d]
      /\ calls'[c].pc = "over" /\ calls'[c].plan = calls[c].plan
      /\ calls'[c].session = calls[c].session
  BY DEF Ends, TalkInv, OwnerInv, NewCall
<1>2. running' = [u \in Users |-> IF running[u] = c THEN Nobody ELSE running[u]]
  BY DEF Ends
<1>3. locked => \A d \in Calls :
        calls'[d].pc \notin {"new", "over"} => running'[calls'[d].user] = d
  BY <1>1, <1>2 DEF TalkInv, OwnerInv
<1>4. Sound(calls'[c].plan)
  BY <1>1 DEF TalkInv
<1> QED
  BY <1>1, <1>2, <1>3, <1>4, TalkMoves DEF Inside

(* A step that stores a message of a call that is inside.                  *)
LEMMA TalkStores ==
  ASSUME TalkInv, OwnerInv', NEW c \in Calls, NEW role \in {"user", "assistant"},
         calls[c].pc \in Inside,
         messages' = Append(messages, Message(c, role)), UNCHANGED <<locked, sessions>>,
         DOMAIN calls' = Calls, \A d \in Calls \ {c} : calls'[d] = calls[d],
         DOMAIN calls'[c] = DOMAIN NewCall, calls'[c].user = calls[c].user,
         calls'[c].session = calls[c].session, calls'[c].plan = calls[c].plan,
         calls'[c].pc = IF role = "user" THEN calls[c].pc ELSE "over",
         DOMAIN running' = Users,
         locked => \A d \in Calls :
           calls'[d].pc \notin {"new", "over"} => running'[calls'[d].user] = d
  PROVE  TalkInv'
<1> DEFINE n == Len(messages)
           s == calls[c].session
<1>1. /\ DOMAIN messages' = 1..n + 1 /\ DOMAIN messages = 1..n /\ n \in Nat
      /\ messages'[n + 1] = Message(c, role)
      /\ \A i \in 1..n : messages'[i] = messages[i]
  BY OwnerStores DEF TalkInv
<1> HIDE DEF n
<1>2. /\ messages'[n + 1].session = s /\ messages'[n + 1].call = c
      /\ messages'[n + 1].role = role
  BY <1>1 DEF Message
<1>3. \A i \in 1..n : messages[i].call \in Calls
  BY <1>1 DEF TalkInv, OwnerInv, Named
<1>4. calls'[c].pc \in Inside \cup {"over"} /\ (calls'[c].pc \in Inside => role = "user")
  BY DEF Inside
<1>5. \A d \in Calls : calls'[d].pc \in Inside =>
         calls[d].pc \in Inside /\ calls'[d].session = calls[d].session
  BY DEF Inside
\* Behind the fence, whoever else is inside has another session.
<1>6. ASSUME locked, NEW d \in Calls, calls[d].pc \in Inside, calls[d].session = s
      PROVE  d = c
  <2>1. calls[d].user = calls[c].user
    BY <1>6 DEF TalkInv, OwnerInv
  <2>2. running[calls[d].user] = d /\ running[calls[c].user] = c
    BY <1>6 DEF TalkInv, Inside
  <2> QED
    BY <2>1, <2>2
<1>7. \A i \in 1..n : messages[i].call = c => messages[i].session = s /\ messages[i].role = "user"
  BY <1>1 DEF TalkInv
<1>8. \A i \in DOMAIN messages' :
         LET d == messages'[i].call
         IN /\ calls'[d].pc \in Inside \cup {"over"}
            /\ calls'[d].pc \in Inside =>
                 /\ messages'[i].session = calls'[d].session
                 /\ messages'[i].role = "user"
  <2> TAKE i \in DOMAIN messages'
  <2>1. CASE i = n + 1
    BY <1>2, <1>4, <2>1
  <2>2. CASE i \in 1..n
    <3> DEFINE d == messages[i].call
    <3>1. d \in Calls /\ messages'[i] = messages[i]
      BY <1>1, <1>3, <2>2
    <3>2. /\ calls[d].pc \in Inside \cup {"over"}
          /\ calls[d].pc \in Inside =>
               messages[i].session = calls[d].session /\ messages[i].role = "user"
      BY <1>1, <2>2 DEF TalkInv
    <3>3. calls'[d].pc \in Inside \cup {"over"}
      BY <1>4, <3>1, <3>2
    <3> HIDE DEF d
    <3>4. calls'[d].pc \in Inside =>
               messages[i].session = calls'[d].session /\ messages[i].role = "user"
      BY <1>5, <3>1, <3>2
    <3> QED
      BY <3>1, <3>3, <3>4 DEF d
  <2> QED
    BY <1>1, <2>1, <2>2
<1>9. \A i, j \in DOMAIN messages' :
         /\ i < j /\ messages'[i].session = messages'[j].session
         /\ messages'[i].call = messages'[j].call
         => messages'[i].role = "user"
  <2> TAKE i, j \in DOMAIN messages'
  <2> HAVE /\ i < j /\ messages'[i].session = messages'[j].session
           /\ messages'[i].call = messages'[j].call
  <2>1. i \in 1..n /\ messages'[i] = messages[i]
    BY <1>1
  <2>2. CASE j = n + 1
    BY <1>2, <1>7, <2>1, <2>2
  <2>3. CASE j \in 1..n
    BY <1>1, <2>1, <2>3 DEF TalkInv
  <2> QED
    BY <1>1, <2>2, <2>3
<1>10. locked => \A i, k \in DOMAIN messages' :
         /\ i < k /\ messages'[i].session = messages'[k].session
         /\ calls'[messages'[i].call].pc \in Inside
         => messages'[k].call = messages'[i].call
  <2> HAVE locked
  <2> TAKE i, k \in DOMAIN messages'
  <2> HAVE /\ i < k /\ messages'[i].session = messages'[k].session
           /\ calls'[messages'[i].call].pc \in Inside
  <2>1. i \in 1..n /\ messages'[i] = messages[i] /\ messages[i].call \in Calls
    BY <1>1, <1>3
  <2>2. /\ calls[messages[i].call].pc \in Inside
        /\ messages[i].session = calls[messages[i].call].session
    BY <1>1, <1>5, <2>1 DEF TalkInv
  <2>3. CASE k = n + 1
    BY <1>2, <1>6, <2>1, <2>2, <2>3
  <2>4. CASE k \in 1..n
    BY <1>1, <2>1, <2>2, <2>4 DEF TalkInv
  <2> QED
    BY <1>1, <2>3, <2>4
<1>11. locked => \A i, j, k \in DOMAIN messages' :
         /\ i <= k /\ k <= j
         /\ messages'[i].session = messages'[j].session /\ messages'[i].call = messages'[j].call
         /\ messages'[k].session = messages'[i].session
         => messages'[k].call = messages'[i].call
  <2> HAVE locked
  <2> TAKE i, j, k \in DOMAIN messages'
  <2> HAVE /\ i <= k /\ k <= j
           /\ messages'[i].session = messages'[j].session
           /\ messages'[i].call = messages'[j].call
           /\ messages'[k].session = messages'[i].session
  <2>1. CASE i = k \/ j = k
    BY <2>1
  <2>2. CASE i # k /\ j # k
    <3>1. i \in 1..n /\ k \in 1..n /\ i < k
      BY <1>1, <2>2
    <3>2. messages'[i] = messages[i] /\ messages'[k] = messages[k]
      BY <1>1, <3>1
    <3>3. CASE j = n + 1
      <4>1. messages[i].call = c /\ messages[k].session = messages[i].session
        BY <1>2, <3>2, <3>3
      <4> QED
        BY <1>1, <3>1, <3>2, <4>1 DEF TalkInv
    <3>4. CASE j \in 1..n
      BY <1>1, <3>1, <3>2, <3>4 DEF TalkInv
    <3> QED
      BY <1>1, <3>3, <3>4
  <2> QED
    BY <2>1, <2>2
<1>12. \A d \in Calls : Sound(calls'[d].plan)
  BY DEF TalkInv
<1> QED
  BY <1>8, <1>9, <1>10, <1>11, <1>12 DEF TalkInv

LEMMA TalkStep == TalkInv /\ [ResponsesNext]_responseVars => TalkInv'
<1> SUFFICES ASSUME TalkInv, [ResponsesNext]_responseVars PROVE TalkInv'
  OBVIOUS
<1>1. OwnerInv'
  BY OwnerStep DEF TalkInv
\* A step after which the same calls are inside, with the same users, and hold
\* what they held.
<1>2. ASSUME NEW c \in Calls, calls[c].pc \notin {"new", "over"},
             DOMAIN calls' = Calls, \A d \in Calls \ {c} : calls'[d] = calls[d],
             calls'[c].user = calls[c].user, running' = running, locked' = locked
      PROVE  /\ DOMAIN running' = Users
             /\ locked => \A d \in Calls :
                  calls'[d].pc \notin {"new", "over"} => running'[calls'[d].user] = d
  BY <1>2 DEF TalkInv
<1>3. ASSUME NEW c \in Calls, NEW u \in Users, NEW s \in SessionIds \cup {Nobody},
             NEW n, NEW scenario, Accept(c, u, s, n, scenario)
      PROVE  TalkInv'
  <2> DEFINE to == [NewCall EXCEPT !.pc = "session", !.user = u, !.session = s,
                                   !.left = n, !.scenario = scenario]
  <2>1. /\ calls[c].pc = "new" /\ UNCHANGED <<locked, messages>>
        /\ calls' = [calls EXCEPT ![c] = to]
        /\ locked => running[u] = Nobody
        /\ running' = IF locked THEN [running EXCEPT ![u] = c] ELSE running
    BY <1>3 DEF Accept
  <2>2. to.pc = "session" /\ to.user = u /\ to.plan = <<>>
    BY DEF NewCall
  <2> HIDE DEF to
  <2>3. calls'[c] = to /\ \A d \in Calls \ {c} : calls'[d] = calls[d]
    BY <2>1 DEF TalkInv, OwnerInv
  <2>4. DOMAIN running' = Users
    BY <2>1 DEF TalkInv
  <2>5. locked => \A d \in Calls :
          calls'[d].pc \notin {"new", "over"} => running'[calls'[d].user] = d
    <3> SUFFICES ASSUME locked, NEW d \in Calls, calls'[d].pc \notin {"new", "over"}
                 PROVE  running'[calls'[d].user] = d
      OBVIOUS
    <3>1. CASE d = c
      BY <2>1, <2>2, <2>3, <3>1 DEF TalkInv
    <3>2. CASE d # c
      <4>1. running[calls[d].user] = d /\ d # Nobody /\ calls'[d] = calls[d]
        BY <2>3, <3>2, ResponsesAssumption DEF TalkInv
      <4>2. calls[d].user # u
        BY <2>1, <4>1
      <4> QED
        BY <2>1, <4>1, <4>2 DEF TalkInv
    <3> QED
      BY <3>1, <3>2
  <2>6. Sound(calls'[c].plan)
    BY <2>2, <2>3 DEF Sound
  <2> QED
    BY <1>1, <2>1, <2>2, <2>3, <2>4, <2>5, <2>6, TalkMoves DEF Inside
<1>4. ASSUME NEW c \in Calls, FindSession(c) PROVE TalkInv'
  <2>1. calls[c].pc = "session" /\ UNCHANGED <<locked, messages>>
    BY <1>4 DEF FindSession
  <2>2. CASE Ends(c)
    BY <1>1, <2>1, <2>2, TalkEnds
  <2>3. ASSUME NEW pc \in {"create", "messages"}, GoesOn(c, pc) PROVE TalkInv'
    <3>1. /\ DOMAIN calls' = Calls /\ \A d \in Calls \ {c} : calls'[d] = calls[d]
          /\ calls'[c].pc = pc /\ calls'[c].user = calls[c].user
          /\ calls'[c].plan = calls[c].plan /\ running' = running
      BY <2>3 DEF GoesOn, TalkInv, OwnerInv, NewCall
    <3>2. Sound(calls'[c].plan)
      BY <3>1 DEF TalkInv
    <3> QED
      BY <1>1, <1>2, <2>1, <3>1, <3>2, TalkMoves DEF Inside
  <2> QED
    BY <1>4, <2>2, <2>3, Zenon DEF FindSession
<1>5. ASSUME NEW c \in Calls, CreateSession(c) PROVE TalkInv'
  <2>1. /\ calls[c].pc = "create" /\ UNCHANGED <<locked, messages>>
        /\ \E s : Insert(c, s)
    BY <1>5, Zenon DEF CreateSession
  <2>2. PICK s : Insert(c, s)
    BY <2>1
  <2>3. CASE Ends(c)
    BY <1>1, <2>1, <2>3, TalkEnds
  <2>4. CASE ~Ends(c)
    <3>1. /\ calls' = [calls EXCEPT ![c].pc = "messages", ![c].session = s]
          /\ running' = running
      BY <2>2, <2>4 DEF Insert
    <3>2. /\ DOMAIN calls' = Calls /\ \A d \in Calls \ {c} : calls'[d] = calls[d]
          /\ calls'[c].pc = "messages" /\ calls'[c].user = calls[c].user
          /\ calls'[c].plan = calls[c].plan
      BY <3>1 DEF TalkInv, OwnerInv, NewCall
    <3>3. Sound(calls'[c].plan)
      BY <3>2 DEF TalkInv
    <3> QED
      BY <1>1, <1>2, <2>1, <3>1, <3>2, <3>3, TalkMoves DEF Inside
  <2> QED
    BY <2>3, <2>4
<1>6. ASSUME NEW c \in Calls, StoreMessage(c) PROVE TalkInv'
  <2>1. calls[c].pc = "messages" /\ UNCHANGED <<locked, sessions>>
    BY <1>6 DEF StoreMessage
  <2>2. CASE calls[c].left = 0
    <3>1. /\ calls' = [calls EXCEPT ![c].pc = "model"] /\ UNCHANGED messages
          /\ running' = running
      BY <1>6, <2>2 DEF StoreMessage, GoesOn
    <3>2. /\ DOMAIN calls' = Calls /\ \A d \in Calls \ {c} : calls'[d] = calls[d]
          /\ calls'[c].pc = "model" /\ calls'[c].user = calls[c].user
          /\ calls'[c].session = calls[c].session /\ calls'[c].plan = calls[c].plan
      BY <3>1 DEF TalkInv, OwnerInv, NewCall
    <3>3. Sound(calls'[c].plan)
      BY <3>2 DEF TalkInv
    <3> QED
      BY <1>1, <1>2, <2>1, <3>1, <3>2, <3>3, TalkMoves DEF Inside
  <2>3. CASE calls[c].left # 0
    <3>1. /\ messages' = Append(messages, Message(c, "user"))
          /\ calls' = [calls EXCEPT ![c].left = @ - 1] /\ running' = running
      BY <1>6, <2>3 DEF StoreMessage
    <3>2. /\ DOMAIN calls' = Calls /\ \A d \in Calls \ {c} : calls'[d] = calls[d]
          /\ DOMAIN calls'[c] = DOMAIN NewCall /\ calls'[c].user = calls[c].user
          /\ calls'[c].session = calls[c].session /\ calls'[c].pc = calls[c].pc
          /\ calls'[c].plan = calls[c].plan
      BY <3>1 DEF TalkInv, OwnerInv, NewCall
    <3> QED
      BY <1>1, <1>2, <2>1, <3>1, <3>2, TalkStores DEF Inside
  <2> QED
    BY <2>2, <2>3
<1>7. ASSUME NEW c \in Calls, Generate(c) PROVE TalkInv'
  <2>1. calls[c].pc = "model" /\ UNCHANGED <<locked, messages>>
    BY <1>7 DEF Generate
  <2>2. CASE Ends(c)
    BY <1>1, <2>1, <2>2, TalkEnds
  <2>3. ASSUME NEW plan, Sound(plan), running' = running,
               \/ calls' = [calls EXCEPT ![c].pc = "answer"]
               \/ calls' = [calls EXCEPT ![c].pc = "answer", ![c].plan = plan]
        PROVE  TalkInv'
    <3>1. /\ DOMAIN calls' = Calls /\ \A d \in Calls \ {c} : calls'[d] = calls[d]
          /\ calls'[c].pc = "answer" /\ calls'[c].user = calls[c].user
          /\ calls'[c].session = calls[c].session
          /\ calls'[c].plan \in {plan, calls[c].plan}
      BY <2>3 DEF TalkInv, OwnerInv, NewCall
    <3>2. Sound(calls'[c].plan)
      BY <2>3, <3>1 DEF TalkInv
    <3> QED
      BY <1>1, <1>2, <2>1, <2>3, <3>1, <3>2, TalkMoves DEF Inside
  <2>4. CASE GoesOn(c, "answer")
    <3>1. Sound(<<>>)
      BY DEF Sound
    <3> QED
      BY <2>3, <2>4, <3>1 DEF GoesOn
  <2>5. CASE ~Ends(c) /\ ~GoesOn(c, "answer")
    <3>1. PICK first \in Plans, repaired \in Plans :
            LET plan == IF first.strategies = <<>> THEN repaired ELSE first
                usable == Usable(plan.strategies)
            IN /\ DOMAIN usable # {}
               /\ calls' = [calls EXCEPT ![c].pc = "answer",
                              ![c].plan = <<Recommended(usable, plan.recommended), usable>>]
               /\ UNCHANGED running
      BY <1>7, <2>5, Zenon DEF Generate
    <3> DEFINE plan == IF first.strategies = <<>> THEN repaired ELSE first
               usable == Usable(plan.strategies)
               kept == <<Recommended(usable, plan.recommended), usable>>
    <3>2. plan.strategies \in Seq(Strategy)
      BY ResponsesAssumption DEF Strategy
    <3> HIDE DEF plan
    <3>3. Sound(kept)
      BY <3>1, <3>2, PlanIsSound DEF Sound, plan
    <3> HIDE DEF kept
    <3> QED
      BY <2>3, <3>1, <3>3 DEF kept, plan
  <2> QED
    BY <2>2, <2>4, <2>5
<1>8. ASSUME NEW c \in Calls, StoreAnswer(c) PROVE TalkInv'
  <2>1. /\ calls[c].pc = "answer" /\ UNCHANGED <<locked, sessions>>
        /\ messages' = Append(messages, Message(c, "assistant"))
        /\ calls' = [calls EXCEPT ![c].pc = "over"]
        /\ running' = [u \in Users |-> IF running[u] = c THEN Nobody ELSE running[u]]
    BY <1>8 DEF StoreAnswer, Ends
  <2>2. /\ DOMAIN calls' = Calls /\ \A d \in Calls \ {c} : calls'[d] = calls[d]
        /\ DOMAIN calls'[c] = DOMAIN NewCall /\ calls'[c].user = calls[c].user
        /\ calls'[c].session = calls[c].session /\ calls'[c].pc = "over"
        /\ calls'[c].plan = calls[c].plan
    BY <2>1 DEF TalkInv, OwnerInv, NewCall
  <2>3. locked => \A d \in Calls :
          calls'[d].pc \notin {"new", "over"} => running'[calls'[d].user] = d
    BY <2>1, <2>2 DEF TalkInv, OwnerInv
  <2> QED
    BY <1>1, <2>1, <2>2, <2>3, TalkStores DEF Inside
<1>9. ASSUME NEW c \in Calls, CallFails(c) PROVE TalkInv'
  BY <1>1, <1>9, TalkEnds DEF CallFails
<1>10. CASE UNCHANGED responseVars
  <2>1. UNCHANGED <<locked, running, calls, messages>>
    BY <1>10 DEF responseVars
  <2> QED
    BY <1>1, <2>1 DEF TalkInv
<1> QED
  BY <1>3, <1>4, <1>5, <1>6, <1>7, <1>8, <1>9, <1>10 DEF ResponsesNext

(* A session reads as a conversation: no answer precedes its questions;    *)
(* behind the fence the messages of one request stand together, however    *)
(* many run for the user; and a plan recommends one of the strategies it   *)
(* kept (createResponse, normalizePlan, chooseRecommendedStrategyID).      *)
THEOREM SessionsReadAsConversationsAlways == ResponsesSpec => []SessionsReadAsConversations
<1>1. TalkInv => SessionsReadAsConversations
  <2> SUFFICES ASSUME TalkInv PROVE SessionsReadAsConversations
    OBVIOUS
  <2>1. ASSUME NEW i \in DOMAIN messages, NEW j \in DOMAIN messages,
               i < j, messages[i].session = messages[j].session
        PROVE  /\ messages[i].call = messages[j].call => messages[i].role = "user"
               /\ locked /\ messages[i].call = messages[j].call =>
                    \A k \in i..j : messages[k].session = messages[i].session
                                      => messages[k].call = messages[i].call
    <3>1. messages[i].call = messages[j].call => messages[i].role = "user"
      BY <2>1 DEF TalkInv
    <3>2. \A k \in i..j : k \in DOMAIN messages /\ i <= k /\ k <= j
      BY DEF TalkInv, OwnerInv
    <3> QED
      BY <2>1, <3>1, <3>2 DEF TalkInv
  <2>2. \A c \in Calls : Sound(calls[c].plan)
    BY DEF TalkInv
  <2> QED
    BY <2>1, <2>2 DEF SessionsReadAsConversations, Sound
<1> QED
  BY TalkStarts, TalkStep, <1>1, PTL DEF ResponsesSpec

-----------------------------------------------------------------------------
(* What the views say of people and topics                                 *)

LEMMA MatchIsCandidate ==
  ASSUME NEW name, NEW aliases \in Seq(Names), NEW candidates
  PROVE  Match(name, aliases, candidates) \in candidates \cup {Nothing}
<1> DEFINE called == <<name>> \o aliases
           I == {i \in 1..Len(called) : called[i] \in candidates}
<1>1. Len(called) \in Nat
  OBVIOUS
<1>2. SelectInSeq(called, LAMBDA n : n \in candidates) = IF I # {} THEN Min(I) ELSE 0
  BY DEF SelectInSeq
<1>3. I \subseteq Nat \ {0}
  BY <1>1
<1>4. I # {} => Min(I) \in I
  <2> HIDE DEF I
  <2>1. I # {} => \E x \in I : \A y \in I : x <= y
    BY <1>3, LeastNumber
  <2> QED
    BY <2>1 DEF Min
<1>5. CASE I = {}
  BY <1>2, <1>5 DEF Match
<1>6. CASE I # {}
  <2>1. Min(I) # 0 /\ called[Min(I)] \in candidates
    BY <1>3, <1>4, <1>6
  <2>2. Match(name, aliases, candidates) = called[Min(I)]
    <3> HIDE DEF I, called
    <3> QED
      BY <1>2, <1>6, <2>1 DEF Match, called
  <2> QED
    BY <2>1, <2>2
<1> QED
  BY <1>5, <1>6

(* The pairs of the model's answers, as they are worked on.                *)
Asked == {[pair EXCEPT !.score = Clamp(@)] : pair \in UNION {ToSet(answer) : answer \in PairAnswers}}

LEMMA ResolvedPair ==
  ASSUME NEW pair \in Asked, NEW m \in Memories
  PROVE  /\ Resolve(pair, m).person \in PeopleOf[m] \cup {Nothing}
         /\ Resolve(pair, m).topic \in TopicsOf[m] \cup {Nothing}
<1>1. PICK q \in UNION {ToSet(answer) : answer \in PairAnswers} :
         pair = [q EXCEPT !.score = Clamp(@)]
  BY DEF Asked
<1>2. /\ DOMAIN q = {"person", "personAliases", "topic", "topicAliases", "score"}
      /\ q.personAliases \in Seq(Names) /\ q.topicAliases \in Seq(Names)
  BY PairsAssumption
<1>3. /\ DOMAIN pair = {"person", "personAliases", "topic", "topicAliases", "score"}
      /\ pair.personAliases \in Seq(Names) /\ pair.topicAliases \in Seq(Names)
  BY <1>1, <1>2
<1>4. /\ Resolve(pair, m).person = Match(pair.person, pair.personAliases, PeopleOf[m])
      /\ Resolve(pair, m).topic = Match(pair.topic, pair.topicAliases, TopicsOf[m])
  BY <1>3 DEF Resolve
<1> QED
  BY <1>3, <1>4, MatchIsCandidate

(* A row that was not edited has evidence only of memories that name both. *)
RowNamed(row, p, t) ==
  /\ DOMAIN row = DOMAIN NoModel
  /\ ~row.edited => \A m \in row.evidence : p \in PeopleOf[m] /\ t \in TopicsOf[m]

AtPair == {"person", "topic", "topic_write", "row", "row_write"}

PairIn(w) == IF w.op = "edit" THEN Head(w.items) ELSE Resolve(Head(w.items), w.memory)

(* What a handler works on was resolved against its memory, or comes from  *)
(* an edit; and the row it has read is a row of that pair.                 *)
WorkNamed(w) ==
  /\ DOMAIN w = DOMAIN NoWork
  /\ w.op \in {"none", "ingest", "person_model", "belief", "edit"}
  /\ w.op = "none" => w.pc = "idle"
  /\ w.pc = "person" => w.op \in {"person_model", "edit"}
  /\ w.pc = "taxonomy" <=> w.op = "ingest"
  /\ w.op = "ingest" => /\ w.memory \in Memories /\ w.items = <<>>
                        /\ w.read \subseteq Tables \X Names
  /\ w.op \in {"person_model", "belief"} => w.memory \in Memories
  /\ w.op = "person_model" => w.items \in Seq(Asked)
  /\ w.op = "edit" => w.items \in Seq(Edits) /\ w.memory = Nothing
  /\ w.op \in {"person_model", "edit"} /\ w.pc \in AtPair =>
       /\ w.items # <<>>
       /\ PairIn(w).person \in Names
       /\ w.op = "person_model" => /\ PairIn(w).person \in PeopleOf[w.memory]
                                   /\ PairIn(w).topic \in TopicsOf[w.memory]
       /\ w.pc \in {"topic_write", "row", "row_write"} => PairIn(w).topic \in Names
       /\ w.pc = "row_write" => RowNamed(w.read, PairIn(w).person, PairIn(w).topic)

NamedInv ==
  /\ DOMAIN models = Names \X Names
  /\ \A p, t \in Names : RowNamed(models[<<p, t>>], p, t)
  /\ DOMAIN work = Handlers
  /\ \A h \in Handlers : WorkNamed(work[h])

LEMMA NamedStarts == ViewsInit => NamedInv
<1> SUFFICES ASSUME ViewsInit PROVE NamedInv
  OBVIOUS
<1>1. /\ models = [pair \in Names \X Names |-> NoModel]
      /\ work = [h \in Handlers |-> NoWork]
  BY DEF ViewsInit, ModelsInit, NamesInit
<1>2. \A p, t : RowNamed(NoModel, p, t)
  BY DEF RowNamed, NoModel
<1>3. WorkNamed(NoWork)
  BY DEF WorkNamed, NoWork
<1> QED
  BY <1>1, <1>2, <1>3 DEF NamedInv

LEMMA NamedMoves ==
  ASSUME NamedInv, NEW h \in Handlers, NEW w, work' = [work EXCEPT ![h] = w], WorkNamed(w),
         UNCHANGED models
  PROVE  NamedInv'
BY DEF NamedInv

LEMMA NamedAnswers ==
  ASSUME NamedInv, NEW h \in Handlers, Answer(h), UNCHANGED models
  PROVE  NamedInv'
<1>1. WorkNamed(NoWork)
  BY DEF WorkNamed, NoWork
<1> QED
  BY <1>1, NamedMoves DEF Answer

(* A step from one statement of a pair to the next.                        *)
LEMMA SamePair ==
  ASSUME NEW w, NEW v, WorkNamed(w), DOMAIN v = DOMAIN NoWork,
         v.op = w.op, v.memory = w.memory, v.items = w.items,
         w.op \in {"person_model", "edit"}, w.pc \in AtPair, v.pc \in AtPair,
         v.pc \in {"topic_write", "row", "row_write"} => PairIn(w).topic \in Names,
         v.pc = "row_write" => RowNamed(v.read, PairIn(w).person, PairIn(w).topic)
  PROVE  WorkNamed(v)
<1>1. PairIn(v) = PairIn(w)
  BY DEF PairIn
<1> QED
  BY <1>1 DEF WorkNamed, AtPair

LEMMA NamedStep == NamedInv /\ [ViewsNext]_viewVars => NamedInv'
<1> SUFFICES ASSUME NamedInv, [ViewsNext]_viewVars PROVE NamedInv'
  OBVIOUS
<1> USE DEF NoWork
<1>1. CASE UNCHANGED viewVars
  BY <1>1 DEF NamedInv, viewVars, modelVars
<1>2. ASSUME NEW h \in Handlers, AskForPairs(h)
      PROVE  NamedInv'
  <2>1. WorkNamed(work[h]) /\ work[h].op = "person_model" /\ work[h].memory \in Memories
    BY <1>2 DEF NamedInv, WorkNamed, AskForPairs
  <2>2. PICK answer \in PairAnswers \cup {<<>>} :
           work' = [work EXCEPT ![h].pc = "item", ![h].items =
                     [i \in DOMAIN answer |-> [answer[i] EXCEPT !.score = Clamp(@)]]]
    BY <1>2 DEF AskForPairs
  <2> DEFINE clamped == [i \in DOMAIN answer |-> [answer[i] EXCEPT !.score = Clamp(@)]]
             v == [work[h] EXCEPT !.pc = "item", !.items = clamped]
  <2>3. clamped \in Seq(Asked)
    <3>1. CASE answer = <<>>
      <4>1. clamped = <<>>
        BY <3>1
      <4> QED
        BY <4>1
    <3>2. CASE answer \in PairAnswers
      <4>1. answer \in Seq(ToSet(answer))
        BY <3>2, PairsAssumption
      <4>2. \A i \in DOMAIN answer : clamped[i] \in Asked
        BY <3>2 DEF Asked, ToSet
      <4>3. DOMAIN answer = 1..Len(answer) /\ Len(answer) \in Nat
        BY <4>1
      <4> QED
        BY <4>2, <4>3
    <3> QED
      BY <2>2, <3>1, <3>2
  <2> HIDE DEF clamped
  <2>4. work' = [work EXCEPT ![h] = v]
    BY <2>1, <2>2 DEF NamedInv, WorkNamed, clamped
  <2>5. WorkNamed(v)
    BY <2>1, <2>3 DEF WorkNamed, AtPair
  <2>6. UNCHANGED models
    BY <1>2 DEF AskForPairs, modelVars
  <2> QED
    BY <2>4, <2>5, <2>6, NamedMoves
<1>3. ASSUME NEW h \in Handlers, SkipPair(h)
      PROVE  NamedInv'
  <2> DEFINE v == [work[h] EXCEPT !.items = Tail(@)]
  <2>1. WorkNamed(work[h]) /\ work[h].op = "person_model" /\ work[h].pc = "item"
        /\ work[h].items \in Seq(Asked) /\ work[h].items # <<>>
    BY <1>3 DEF NamedInv, WorkNamed, SkipPair
  <2>2. work' = [work EXCEPT ![h] = v] /\ UNCHANGED models
    BY <1>3 DEF NamedInv, SkipPair, modelVars
  <2>3. WorkNamed(v)
    BY <2>1 DEF WorkNamed, AtPair
  <2> QED
    BY <2>2, <2>3, NamedMoves
<1>4. ASSUME NEW h \in Handlers, SubmitEdit(h)
      PROVE  NamedInv'
  <2>1. PICK edit \in Edits :
           work' = [work EXCEPT ![h] = [NoWork EXCEPT !.op = "edit", !.pc = "item", !.items = <<edit>>]]
    BY <1>4 DEF SubmitEdit, Begin
  <2>2. WorkNamed([NoWork EXCEPT !.op = "edit", !.pc = "item", !.items = <<edit>>])
    BY DEF WorkNamed, AtPair
  <2>3. UNCHANGED models
    BY <1>4 DEF SubmitEdit
  <2> QED
    BY <2>1, <2>2, <2>3, NamedMoves
<1>5. ASSUME NEW h \in Handlers, RefuseEdit(h)
      PROVE  NamedInv'
  BY <1>5, NamedAnswers DEF RefuseEdit, modelVars
<1>6. ASSUME NEW h \in Handlers, ReadPerson(h)
      PROVE  NamedInv'
  <2>1. WorkNamed(work[h]) /\ work[h].pc = "item" /\ work[h].items # <<>>
        /\ work[h].op \in {"person_model", "edit"} /\ UNCHANGED models
    BY <1>6 DEF NamedInv, ReadPerson, Observing, modelVars
  <2>2. Pair(h) = PairIn(work[h])
    BY DEF Pair, PairIn, Item
  <2>3. /\ PairIn(work[h]).person \in Names
        /\ work[h].op = "person_model" => /\ PairIn(work[h]).person \in PeopleOf[work[h].memory]
                                          /\ PairIn(work[h]).topic \in TopicsOf[work[h].memory]
    <3>1. CASE work[h].op = "person_model"
      <4>1. /\ work[h].memory \in Memories /\ Head(work[h].items) \in Asked
            /\ PairIn(work[h]) = Resolve(Head(work[h].items), work[h].memory)
        BY <2>1, <3>1 DEF WorkNamed, PairIn
      <4>2. /\ PairIn(work[h]).person \in PeopleOf[work[h].memory] \cup {Nothing}
            /\ PairIn(work[h]).topic \in TopicsOf[work[h].memory] \cup {Nothing}
        BY <4>1, ResolvedPair
      <4>3. Nothing \notin {PairIn(work[h]).person, PairIn(work[h]).topic}
        BY <1>6, <2>2, <3>1 DEF ReadPerson
      <4> QED
        BY <4>1, <4>2, <4>3, NamesAssumption
    <3>2. CASE work[h].op = "edit"
      <4>1. Head(work[h].items) \in Edits /\ PairIn(work[h]) = Head(work[h].items)
        BY <2>1, <3>2 DEF WorkNamed, PairIn
      <4> QED
        BY <3>2, <4>1, PairsAssumption
    <3> QED
      BY <2>1, <3>1, <3>2
  <2>4. \/ \E x : work' = [work EXCEPT ![h].read = x, ![h].pc = "person"]
        \/ work' = [work EXCEPT ![h].pc = "topic"]
    BY <1>6 DEF ReadPerson, ReadName, Step
  <2>5. ASSUME NEW v, DOMAIN v = DOMAIN NoWork, v.op = work[h].op, v.memory = work[h].memory,
               v.items = work[h].items, v.pc \in {"person", "topic"}
        PROVE  WorkNamed(v)
    <3>1. PairIn(v) = PairIn(work[h])
      BY <2>5 DEF PairIn
    <3> QED
      BY <2>1, <2>3, <2>5, <3>1 DEF WorkNamed, AtPair
  <2>6. CASE work' = [work EXCEPT ![h].pc = "topic"]
    <3> DEFINE v == [work[h] EXCEPT !.pc = "topic"]
    <3>1. work' = [work EXCEPT ![h] = v]
      BY <2>6 DEF NamedInv
    <3>2. WorkNamed(v)
      BY <2>1, <2>5 DEF WorkNamed
    <3> QED
      BY <2>1, <3>1, <3>2, NamedMoves
  <2>7. CASE \E x : work' = [work EXCEPT ![h].read = x, ![h].pc = "person"]
    <3>1. PICK x : work' = [work EXCEPT ![h].read = x, ![h].pc = "person"]
      BY <2>7
    <3> DEFINE v == [work[h] EXCEPT !.read = x, !.pc = "person"]
    <3>2. work' = [work EXCEPT ![h] = v]
      BY <3>1 DEF NamedInv
    <3>3. WorkNamed(v)
      BY <2>1, <2>5 DEF WorkNamed
    <3> QED
      BY <2>1, <3>2, <3>3, NamedMoves
  <2> QED
    BY <2>4, <2>6, <2>7
<1>7. ASSUME NEW h \in Handlers, WritePerson(h)
      PROVE  NamedInv'
  <2> DEFINE v == [work[h] EXCEPT !.read = Nothing, !.pc = "topic"]
  <2>1. WorkNamed(work[h]) /\ work[h].pc = "person" /\ UNCHANGED models
        /\ work' = [work EXCEPT ![h] = v]
    BY <1>7 DEF NamedInv, WritePerson, WriteName, modelVars
  <2>2. work[h].op \in {"person_model", "edit"}
    BY <2>1 DEF WorkNamed
  <2>3. WorkNamed(v)
    <3>1. DOMAIN v = DOMAIN NoWork /\ v.op = work[h].op /\ v.memory = work[h].memory
          /\ v.items = work[h].items /\ v.pc = "topic"
      BY <2>1 DEF WorkNamed
    <3> HIDE DEF v
    <3> QED
      BY <2>1, <2>2, <3>1, SamePair DEF AtPair
  <2> QED
    BY <2>1, <2>3, NamedMoves
<1>8. ASSUME NEW h \in Handlers, ReadTopic(h)
      PROVE  NamedInv'
  <2>1. WorkNamed(work[h]) /\ work[h].pc = "topic" /\ UNCHANGED models
        /\ work[h].op \in {"person_model", "edit"}
    BY <1>8 DEF NamedInv, ReadTopic, Observing, modelVars
  <2>2. Pair(h) = PairIn(work[h]) /\ Pair(h).topic # Nothing
    BY <1>8 DEF Pair, PairIn, Item, ReadTopic
  <2>3. PairIn(work[h]).topic \in Names
    <3>1. CASE work[h].op = "person_model"
      BY <2>1, <3>1, NamesAssumption DEF WorkNamed, AtPair
    <3>2. CASE work[h].op = "edit"
      <4>1. Head(work[h].items) \in Edits /\ PairIn(work[h]) = Head(work[h].items)
        BY <2>1, <3>2 DEF WorkNamed, PairIn, AtPair
      <4> QED
        BY <2>2, <4>1, PairsAssumption
    <3> QED
      BY <2>1, <3>1, <3>2
  <2>4. ASSUME NEW v, DOMAIN v = DOMAIN NoWork, v.op = work[h].op, v.memory = work[h].memory,
               v.items = work[h].items, v.pc \in {"topic_write", "row"}
        PROVE  WorkNamed(v)
    BY <2>1, <2>3, <2>4, SamePair DEF AtPair
  <2>5. \/ \E x : work' = [work EXCEPT ![h].read = x, ![h].pc = "topic_write"]
        \/ work' = [work EXCEPT ![h].pc = "row"]
    BY <1>8 DEF ReadTopic, ReadName, Step
  <2>6. CASE work' = [work EXCEPT ![h].pc = "row"]
    <3> DEFINE v == [work[h] EXCEPT !.pc = "row"]
    <3>1. work' = [work EXCEPT ![h] = v]
      BY <2>6 DEF NamedInv
    <3>2. WorkNamed(v)
      BY <2>1, <2>4 DEF WorkNamed
    <3> QED
      BY <2>1, <3>1, <3>2, NamedMoves
  <2>7. CASE \E x : work' = [work EXCEPT ![h].read = x, ![h].pc = "topic_write"]
    <3>1. PICK x : work' = [work EXCEPT ![h].read = x, ![h].pc = "topic_write"]
      BY <2>7
    <3> DEFINE v == [work[h] EXCEPT !.read = x, !.pc = "topic_write"]
    <3>2. work' = [work EXCEPT ![h] = v]
      BY <3>1 DEF NamedInv
    <3>3. WorkNamed(v)
      BY <2>1, <2>4 DEF WorkNamed
    <3> QED
      BY <2>1, <3>2, <3>3, NamedMoves
  <2> QED
    BY <2>5, <2>6, <2>7
<1>9. ASSUME NEW h \in Handlers, WriteTopic(h)
      PROVE  NamedInv'
  <2> DEFINE v == [work[h] EXCEPT !.read = Nothing, !.pc = "row"]
  <2>1. WorkNamed(work[h]) /\ work[h].pc = "topic_write" /\ UNCHANGED models
        /\ work[h].op \in {"person_model", "edit"}
        /\ work' = [work EXCEPT ![h] = v]
    BY <1>9 DEF NamedInv, WriteTopic, WriteName, Observing, modelVars
  <2>2. PairIn(work[h]).topic \in Names
    BY <2>1 DEF WorkNamed, AtPair
  <2>3. WorkNamed(v)
    <3>1. DOMAIN v = DOMAIN NoWork /\ v.op = work[h].op /\ v.memory = work[h].memory
          /\ v.items = work[h].items /\ v.pc = "row"
      BY <2>1 DEF WorkNamed
    <3> HIDE DEF v
    <3> QED
      BY <2>1, <2>2, <3>1, SamePair DEF AtPair
  <2> QED
    BY <2>1, <2>3, NamedMoves
<1>10. ASSUME NEW h \in Handlers, ReadModel(h)
       PROVE  NamedInv'
  <2> DEFINE row == models[<<Pair(h).person, Pair(h).topic>>]
             v == [work[h] EXCEPT !.read = row, !.pc = "row_write"]
  <2>1. WorkNamed(work[h]) /\ work[h].pc = "row" /\ UNCHANGED models
        /\ work[h].op \in {"person_model", "edit"}
        /\ work' = [work EXCEPT ![h] = v]
    BY <1>10 DEF NamedInv, ReadModel, Observing, modelVars
  <2>2. Pair(h) = PairIn(work[h])
    BY DEF Pair, PairIn, Item
  <2>3. PairIn(work[h]).person \in Names /\ PairIn(work[h]).topic \in Names
    BY <2>1 DEF WorkNamed, AtPair
  <2>4. RowNamed(row, PairIn(work[h]).person, PairIn(work[h]).topic)
    BY <2>2, <2>3 DEF NamedInv
  <2>5. WorkNamed(v)
    <3>1. DOMAIN v = DOMAIN NoWork /\ v.op = work[h].op /\ v.memory = work[h].memory
          /\ v.items = work[h].items /\ v.pc = "row_write" /\ v.read = row
      BY <2>1 DEF WorkNamed
    <3> HIDE DEF v, row
    <3> QED
      BY <2>1, <2>3, <2>4, <3>1, SamePair DEF AtPair
  <2> QED
    BY <2>1, <2>5, NamedMoves
<1>11. ASSUME NEW h \in Handlers, SaveModel(h)
       PROVE  NamedInv'
  <2> DEFINE w == work[h]
             p == PairIn(w).person
             t == PairIn(w).topic
             new == IF w.op = "edit" THEN EditRow(w.read, Pair(h))
                    ELSE MergeObservation(w.read, Pair(h), w.memory)
             v == [w EXCEPT !.items = Tail(@), !.read = Nothing, !.pc = "item"]
  <2>1. WorkNamed(w) /\ w.pc = "row_write" /\ w.op \in {"person_model", "edit"}
        /\ models' = [models EXCEPT ![<<Pair(h).person, Pair(h).topic>>] = new]
        /\ work' = [work EXCEPT ![h] = v]
    BY <1>11 DEF NamedInv, SaveModel, Observing
  <2>2. Pair(h) = PairIn(w)
    BY DEF Pair, PairIn, Item
  <2>3. /\ p \in Names /\ t \in Names /\ RowNamed(w.read, p, t) /\ w.items # <<>>
        /\ w.op = "person_model" => p \in PeopleOf[w.memory] /\ t \in TopicsOf[w.memory]
    BY <2>1 DEF WorkNamed, AtPair
  <2>4. RowNamed(new, p, t)
    <3>1. CASE w.op = "edit"
      <4>1. new = EditRow(w.read, Pair(h))
        BY <3>1
      <4>2. DOMAIN new = DOMAIN NoModel /\ new.edited
        BY <2>3, <4>1 DEF EditRow, RowNamed, NoModel
      <4> QED
        BY <4>2 DEF RowNamed
    <3>2. CASE w.op = "person_model"
      <4>1. new = MergeObservation(w.read, Pair(h), w.memory)
        BY <3>2
      <4>2. /\ DOMAIN new = DOMAIN NoModel /\ new.edited = w.read.edited
            /\ new.evidence \subseteq w.read.evidence \cup {w.memory}
        BY <2>3, <4>1 DEF MergeObservation, WithEvidence, RowNamed, NoModel
      <4> QED
        BY <2>3, <3>2, <4>2 DEF RowNamed
    <3> QED
      BY <2>1, <3>1, <3>2
  <2>5. WorkNamed(v)
    BY <2>1, <2>3 DEF WorkNamed, AtPair
  <2>6. \A q, s \in Names : RowNamed(models'[<<q, s>>], q, s)
    <3> SUFFICES ASSUME NEW q \in Names, NEW s \in Names
                 PROVE  RowNamed(models'[<<q, s>>], q, s)
      OBVIOUS
    <3> HIDE DEF new, v
    <3>1. CASE q = p /\ s = t
      BY <2>1, <2>2, <2>3, <2>4, <3>1 DEF NamedInv
    <3>2. CASE ~(q = p /\ s = t)
      <4>1. models'[<<q, s>>] = models[<<q, s>>]
        BY <2>1, <2>2, <3>2 DEF NamedInv
      <4> QED
        BY <4>1 DEF NamedInv
    <3> QED
      BY <3>1, <3>2
  <2> HIDE DEF new, v
  <2> QED
    BY <2>1, <2>5, <2>6 DEF NamedInv
<1>12. ASSUME NEW h \in Handlers, BeliefStep(h), UNCHANGED modelVars
       PROVE  NamedInv'
  <2> DEFINE w == work[h]
  <2>1. WorkNamed(w) /\ w.op = "belief" /\ UNCHANGED models
    BY <1>12 DEF NamedInv, BeliefStep, AskForBeliefs, ReadBeliefTopic, WriteBeliefTopic, ReadBelief,
       SaveBelief, modelVars
  <2>2. ASSUME NEW v, DOMAIN v = DOMAIN NoWork, v.op = "belief", v.memory = w.memory,
               v.pc \in {"item", "topic_write", "row", "row_write"}
        PROVE  WorkNamed(v)
    BY <2>1, <2>2 DEF WorkNamed
  <2>3. \E v : /\ work' = [work EXCEPT ![h] = v]
               /\ DOMAIN v = DOMAIN NoWork /\ v.op = "belief" /\ v.memory = w.memory
               /\ v.pc \in {"item", "topic_write", "row", "row_write"}
    <3>1. CASE AskForBeliefs(h)
      <4>1. PICK x : work' = [work EXCEPT ![h].pc = "item", ![h].items = x]
        BY <3>1 DEF AskForBeliefs
      <4> DEFINE v == [w EXCEPT !.pc = "item", !.items = x]
      <4>2. work' = [work EXCEPT ![h] = v]
        BY <4>1 DEF NamedInv
      <4>3. DOMAIN v = DOMAIN NoWork /\ v.op = "belief" /\ v.memory = w.memory /\ v.pc = "item"
        BY <2>1 DEF WorkNamed
      <4> QED
        BY <4>2, <4>3
    <3>2. CASE ReadBeliefTopic(h)
      <4>1. CASE work' = [work EXCEPT ![h].pc = "row"]
        <5> DEFINE v == [w EXCEPT !.pc = "row"]
        <5>1. work' = [work EXCEPT ![h] = v]
          BY <4>1 DEF NamedInv
        <5>2. DOMAIN v = DOMAIN NoWork /\ v.op = "belief" /\ v.memory = w.memory /\ v.pc = "row"
          BY <2>1 DEF WorkNamed
        <5> QED
          BY <5>1, <5>2
      <4>2. CASE \E x : work' = [work EXCEPT ![h].read = x, ![h].pc = "topic_write"]
        <5>1. PICK x : work' = [work EXCEPT ![h].read = x, ![h].pc = "topic_write"]
          BY <4>2
        <5> DEFINE v == [w EXCEPT !.read = x, !.pc = "topic_write"]
        <5>2. work' = [work EXCEPT ![h] = v]
          BY <5>1 DEF NamedInv
        <5>3. DOMAIN v = DOMAIN NoWork /\ v.op = "belief" /\ v.memory = w.memory /\ v.pc = "topic_write"
          BY <2>1 DEF WorkNamed
        <5> QED
          BY <5>2, <5>3
      <4> QED
        BY <3>2, <4>1, <4>2 DEF ReadBeliefTopic, ReadName, Step
    <3>3. CASE WriteBeliefTopic(h)
      <4> DEFINE v == [w EXCEPT !.read = Nothing, !.pc = "row"]
      <4>1. work' = [work EXCEPT ![h] = v]
        BY <3>3 DEF NamedInv, WriteBeliefTopic, WriteName
      <4>2. DOMAIN v = DOMAIN NoWork /\ v.op = "belief" /\ v.memory = w.memory /\ v.pc = "row"
        BY <2>1 DEF WorkNamed
      <4> QED
        BY <4>1, <4>2
    <3>4. CASE ReadBelief(h)
      <4>1. PICK x : work' = [work EXCEPT ![h].read = x, ![h].pc = "row_write"]
        BY <3>4 DEF ReadBelief
      <4> DEFINE v == [w EXCEPT !.read = x, !.pc = "row_write"]
      <4>2. work' = [work EXCEPT ![h] = v]
        BY <4>1 DEF NamedInv
      <4>3. DOMAIN v = DOMAIN NoWork /\ v.op = "belief" /\ v.memory = w.memory /\ v.pc = "row_write"
        BY <2>1 DEF WorkNamed
      <4> QED
        BY <4>2, <4>3
    <3>5. CASE SaveBelief(h)
      <4> DEFINE v == [w EXCEPT !.items = Tail(@), !.read = Nothing, !.pc = "item"]
      <4>1. work' = [work EXCEPT ![h] = v]
        BY <3>5 DEF NamedInv, SaveBelief
      <4>2. DOMAIN v = DOMAIN NoWork /\ v.op = "belief" /\ v.memory = w.memory /\ v.pc = "item"
        BY <2>1 DEF WorkNamed
      <4> QED
        BY <4>1, <4>2
    <3> QED
      BY <1>12, <3>1, <3>2, <3>3, <3>4, <3>5 DEF BeliefStep
  <2> QED
    BY <2>1, <2>2, <2>3, NamedMoves
<1>13. ASSUME NEW h \in Handlers, NEW m \in Memories, Process(h, m), UNCHANGED modelVars
       PROVE  NamedInv'
  <2> DEFINE v == [NoWork EXCEPT !.op = "ingest", !.pc = "taxonomy", !.memory = m, !.read = Taxonomy(m)]
  <2>1. work' = [work EXCEPT ![h] = v] /\ UNCHANGED models
    BY <1>13 DEF Process, Begin, modelVars
  <2>2. Taxonomy(m) \subseteq Tables \X Names
    BY NamesAssumption DEF Taxonomy, Tables
  <2>3. WorkNamed(v)
    BY <2>2 DEF WorkNamed, AtPair
  <2> QED
    BY <2>1, <2>3, NamedMoves
<1>14. ASSUME NEW h \in Handlers, CompleteStage(h), UNCHANGED modelVars
       PROVE  NamedInv'
  <2> DEFINE done == completed[work[h].memory] \cup {work[h].op}
             v == [work[h] EXCEPT !.op = PendingStage(done), !.pc = "ask"]
  <2>1. UNCHANGED models
    BY <1>14 DEF modelVars
  <2>2. CASE Answer(h)
    BY <2>1, <2>2, NamedAnswers
  <2>3. CASE /\ work[h].memory # Nothing /\ PendingStage(done) # "done"
             /\ work' = [work EXCEPT ![h].op = PendingStage(done), ![h].pc = "ask"]
    <3>1. WorkNamed(work[h]) /\ work[h].pc = "item" /\ work[h].items = <<>>
      BY <1>14 DEF NamedInv, CompleteStage
    <3>2. work[h].memory \in Memories
      BY <2>3, <3>1 DEF WorkNamed
    <3>3. PendingStage(done) \in {"person_model", "belief"}
      BY <2>3 DEF PendingStage
    <3>4. work' = [work EXCEPT ![h] = v]
      BY <2>3 DEF NamedInv
    <3>5. WorkNamed(v)
      <4>1. /\ DOMAIN v = DOMAIN NoWork /\ v.op \in {"person_model", "belief"} /\ v.pc = "ask"
            /\ v.memory \in Memories /\ v.items = <<>>
        BY <3>1, <3>2, <3>3 DEF WorkNamed
      <4> HIDE DEF v
      <4> QED
        BY <4>1 DEF WorkNamed, AtPair
    <3> QED
      BY <2>1, <3>4, <3>5, NamedMoves
  <2> QED
    BY <1>14, <2>2, <2>3 DEF CompleteStage
<1>15. ASSUME NEW h \in Handlers, UpsertTaxonomy(h), UNCHANGED modelVars
       PROVE  NamedInv'
  <2>1. PICK row \in work[h].read : work' = [work EXCEPT ![h].read = @ \ {row}]
    BY <1>15 DEF UpsertTaxonomy
  <2> DEFINE v == [work[h] EXCEPT !.read = @ \ {row}]
  <2>2. WorkNamed(work[h]) /\ work[h].pc = "taxonomy" /\ UNCHANGED models
        /\ work' = [work EXCEPT ![h] = v]
    BY <1>15, <2>1 DEF NamedInv, UpsertTaxonomy, modelVars
  <2>3. WorkNamed(v)
    BY <2>2 DEF WorkNamed, AtPair
  <2> QED
    BY <2>2, <2>3, NamedMoves
<1>16. ASSUME NEW h \in Handlers, StartStages(h), UNCHANGED modelVars
       PROVE  NamedInv'
  <2> DEFINE stage == PendingStage(completed[work[h].memory])
             v == [work[h] EXCEPT !.op = stage, !.pc = "ask", !.read = Nothing]
  <2>1. UNCHANGED models
    BY <1>16 DEF modelVars
  <2>2. CASE Answer(h)
    BY <2>1, <2>2, NamedAnswers
  <2>3. CASE /\ stage # "done"
             /\ work' = [work EXCEPT ![h].op = stage, ![h].pc = "ask", ![h].read = Nothing]
    <3>1. WorkNamed(work[h]) /\ work[h].pc = "taxonomy"
      BY <1>16 DEF NamedInv, StartStages
    <3>2. stage \in {"person_model", "belief"}
      BY <2>3 DEF PendingStage
    <3>3. work' = [work EXCEPT ![h] = v]
      BY <2>3 DEF NamedInv
    <3>4. WorkNamed(v)
      <4>1. /\ DOMAIN v = DOMAIN NoWork /\ v.op \in {"person_model", "belief"} /\ v.pc = "ask"
            /\ v.memory \in Memories /\ v.items = <<>>
        BY <3>1, <3>2 DEF WorkNamed
      <4> HIDE DEF v
      <4> QED
        BY <4>1 DEF WorkNamed, AtPair
    <3> QED
      BY <2>1, <3>3, <3>4, NamedMoves
  <2> QED
    BY <1>16, <2>2, <2>3 DEF StartStages
<1>17. ASSUME NEW h \in Handlers, HandlerFails(h), UNCHANGED modelVars
       PROVE  NamedInv'
  BY <1>17, NamedAnswers DEF HandlerFails, modelVars
<1> QED
  BY <1>1, <1>2, <1>3, <1>4, <1>5, <1>6, <1>7, <1>8, <1>9, <1>10, <1>11, <1>12, <1>13, <1>14,
     <1>15, <1>16, <1>17 DEF ViewsNext, ModelStep

(* DerivedViews.OnlyNamedPairs: an estimate that was not edited rests only *)
(* on memories that name its person and its topic.                         *)
THEOREM OnlyNamedPairsAlways == ViewsSpec => []OnlyNamedPairs
<1>1. NamedInv => OnlyNamedPairs
  BY DEF NamedInv, RowNamed, OnlyNamedPairs
<1> QED
  BY NamedStarts, NamedStep, <1>1, PTL DEF ViewsSpec

-----------------------------------------------------------------------------
(* What the rows of beliefs remember                                       *)

RowFields == {"id", "updated", "claim", "topic", "stance", "confidence", "evidence", "history",
              "contradicted", "votes"}

(* Two memories took different known stances.                              *)
Differ(stances) == \E a, b \in Known(stances) : a # b

(* A row that has never been contradicted has the only known stance there  *)
(* was, if any: so the next stance contradicts the row exactly if it       *)
(* differs from one that was taken before.                                 *)
Remembers(row) ==
  /\ DOMAIN row = RowFields
  /\ row.updated \in Nat
  /\ IsFiniteSet(row.history)
  /\ row.contradicted \in BOOLEAN
  /\ row.contradicted <=> Differ(row.history)
  /\ ~row.contradicted => Known(row.history) = Known({row.stance})

(* What a handler is about to merge into is nothing, or a row as it was.   *)
ReadBefore(w) ==
  w.read = <<>> \/ \E row : w.read = <<row>> /\ Remembers(row) /\ row.id \in DOMAIN beliefs

BelievedInv ==
  /\ beliefs \in Seq(ToSet(beliefs))
  /\ \A i \in DOMAIN beliefs : Remembers(beliefs[i]) /\ beliefs[i].id = i
  /\ DOMAIN work = Handlers
  /\ \A h \in Handlers :
       /\ DOMAIN work[h] = DOMAIN NoWork
       /\ work[h].op = "belief" /\ work[h].pc = "row_write" => ReadBefore(work[h])

LEMMA NewRow ==
  ASSUME NEW row, NEW stance, DOMAIN row = RowFields, row.updated \in Nat,
         row.history = {stance}, row.stance = stance, row.contradicted = FALSE
  PROVE  Remembers(row)
<1>1. IsFiniteSet(row.history)
  BY FS_Singleton
<1>2. ~Differ(row.history)
  BY DEF Differ, Known
<1> QED
  BY <1>1, <1>2 DEF Remembers

LEMMA MergedRow ==
  ASSUME NEW row, Remembers(row), NEW item, NEW m, NEW n \in Nat
  PROVE  LET new == [MergeBelief(row, item, m) EXCEPT !.updated = n]
         IN Remembers(new) /\ new.id = row.id /\ new.claim = row.claim /\ new.topic = row.topic
            /\ row.evidence \subseteq new.evidence
<1> DEFINE merged == MergeBelief(row, item, m)
           new == [merged EXCEPT !.updated = n]
<1>1. CASE m \in row.evidence
  <2>1. merged = row
    BY <1>1 DEF MergeBelief
  <2>2. /\ DOMAIN new = RowFields /\ new.updated = n /\ new.id = row.id /\ new.claim = row.claim
        /\ new.topic = row.topic /\ new.evidence = row.evidence /\ new.history = row.history
        /\ new.stance = row.stance /\ new.contradicted = row.contradicted
    BY <2>1 DEF Remembers, RowFields
  <2> HIDE DEF new
  <2> QED
    BY <2>2 DEF Remembers, new
<1>2. CASE m \notin row.evidence
  <2>1. /\ DOMAIN merged = RowFields /\ merged.id = row.id /\ merged.claim = row.claim
        /\ merged.topic = row.topic /\ merged.evidence = row.evidence \cup {m}
        /\ merged.history = row.history \cup {item.stance}
        /\ merged.stance = MergeStance(row.stance, item.stance)
        /\ merged.contradicted = (row.contradicted \/ Conflict(row.stance, item.stance))
    <3> DEFINE conflict == Conflict(row.stance, item.stance)
               mean == Average(row.confidence, Cardinality(row.evidence), item.confidence)
               capped == IF conflict /\ 10 * mean[1] > 6 * mean[2] THEN <<6, 10>> ELSE mean
    <3>1. merged = [row EXCEPT !.stance = MergeStance(@, item.stance),
                               !.confidence = capped,
                               !.evidence = @ \cup {m},
                               !.history = @ \cup {item.stance},
                               !.contradicted = @ \/ conflict,
                               !.votes = @ \cup {<<m, item.confidence>>}]
      BY <1>2 DEF MergeBelief
    <3> HIDE DEF merged, capped, conflict
    <3>2. merged.contradicted = (row.contradicted \/ conflict)
      BY <3>1 DEF Remembers, RowFields
    <3> QED
      BY <3>1, <3>2 DEF Remembers, RowFields, conflict
  <2> HIDE DEF merged
  <2>2. /\ DOMAIN new = RowFields /\ new.updated = n /\ new.id = row.id /\ new.claim = row.claim
        /\ new.topic = row.topic /\ row.evidence \subseteq new.evidence
        /\ new.history = row.history \cup {item.stance}
        /\ new.stance = MergeStance(row.stance, item.stance)
        /\ new.contradicted = (row.contradicted \/ Conflict(row.stance, item.stance))
    BY <2>1 DEF RowFields
  <2> HIDE DEF new
  <2>3. IsFiniteSet(new.history)
    <3>1. IsFiniteSet(row.history)
      BY DEF Remembers
    <3>2. IsFiniteSet(row.history \cup {item.stance})
      BY <3>1, FS_AddElement
    <3> QED
      BY <2>2, <3>2
  <2>4. new.contradicted \in BOOLEAN
    BY <2>2 DEF Remembers, Conflict
  <2>5. CASE row.contradicted
    <3>1. Differ(new.history)
      BY <2>2, <2>5 DEF Remembers, Differ, Known
    <3> QED
      BY <2>2, <2>3, <2>4, <2>5, <3>1 DEF Remembers, new, merged
  <2>6. CASE ~row.contradicted /\ Conflict(row.stance, item.stance)
    <3>1. row.stance \in Known(row.history)
      BY <2>6 DEF Remembers, Known, Conflict
    <3>2. Differ(new.history)
      BY <2>2, <2>6, <3>1 DEF Differ, Known, Conflict
    <3> QED
      BY <2>2, <2>3, <2>4, <2>6, <3>2 DEF Remembers, new, merged
  <2>7. CASE ~row.contradicted /\ ~Conflict(row.stance, item.stance)
    <3>1. ~new.contradicted
      BY <2>2, <2>7
    <3>2. Known(new.history) = Known({row.stance}) \cup Known({item.stance})
      BY <2>2, <2>7 DEF Remembers, Known
    <3>3. Known({new.stance}) = Known({row.stance}) \cup Known({item.stance})
      <4>1. CASE row.stance = "unknown"
        <5>1. new.stance = item.stance
          BY <2>2, <4>1 DEF MergeStance
        <5> QED
          BY <4>1, <5>1 DEF Known
      <4>2. CASE row.stance # "unknown" /\ item.stance \in {"unknown", row.stance}
        <5>1. new.stance = row.stance
          BY <2>2, <4>2 DEF MergeStance
        <5> QED
          BY <4>2, <5>1 DEF Known
      <4> QED
        BY <2>7, <4>1, <4>2 DEF Conflict
    <3>4. ~Differ(new.history)
      <4>1. Known(new.history) \subseteq {new.stance}
        BY <3>2, <3>3 DEF Known
      <4> QED
        BY <4>1 DEF Differ
    <3> QED
      BY <2>2, <2>3, <2>4, <3>1, <3>2, <3>3, <3>4 DEF Remembers, new, merged
  <2> QED
    BY <2>5, <2>6, <2>7
<1> QED
  BY <1>1, <1>2

LEMMA SequenceOfItself ==
  ASSUME NEW S, NEW s \in Seq(S)
  PROVE  s \in Seq(ToSet(s))
BY DEF ToSet

(* The clock is a number after every update there was.                     *)
LEMMA NowIsLater ==
  ASSUME BelievedInv
  PROVE  Now \in Nat
<1> DEFINE times == {0} \cup {b.updated : b \in ToSet(beliefs)}
<1>1. \A i \in DOMAIN beliefs : beliefs[i].updated \in Nat
  BY DEF BelievedInv, Remembers
<1>2. Len(beliefs) \in Nat /\ DOMAIN beliefs = 1..Len(beliefs)
  BY DEF BelievedInv
<1>3. times = {0} \cup {beliefs[i].updated : i \in DOMAIN beliefs}
  BY DEF ToSet
<1>4. times \subseteq Nat
  BY <1>1, <1>3
<1>5. \E x \in times : \A y \in times : y <= x
  <2>1. CASE DOMAIN beliefs = {}
    <3>1. times = {0}
      BY <1>3, <2>1
    <3> HIDE DEF times
    <3> QED
      BY <3>1
  <2>2. CASE DOMAIN beliefs # {}
    <3> DEFINE time == [i \in DOMAIN beliefs |-> beliefs[i].updated]
    <3>1. \A i \in DOMAIN beliefs : time[i] \in Nat
      BY <1>1
    <3>2. \E i \in DOMAIN beliefs : \A j \in DOMAIN beliefs : time[j] <= time[i]
      <4> HIDE DEF time
      <4> QED
        BY <1>2, <2>2, <3>1, BestScore
    <3>3. PICK i \in DOMAIN beliefs : \A j \in DOMAIN beliefs : beliefs[j].updated <= beliefs[i].updated
      BY <3>2
    <3>4. beliefs[i].updated \in times
      BY <1>3
    <3>5. \A y \in times : y = 0 \/ \E j \in DOMAIN beliefs : y = beliefs[j].updated
      BY <1>3
    <3> HIDE DEF times
    <3> QED
      BY <1>1, <3>3, <3>4, <3>5
  <2> QED
    BY <2>1, <2>2
<1> HIDE DEF times
<1>6. Max(times) \in times
  BY <1>5 DEF Max
<1>7. Max(times) \in Nat
  BY <1>4, <1>6
<1> QED
  BY <1>7 DEF Now, times

LEMMA NewestIsARow ==
  ASSUME BelievedInv, NEW claim, NEW topic
  PROVE  LET i == Newest(claim, topic)
         IN \/ i = 0 /\ \A j \in DOMAIN beliefs :
                          ~(beliefs[j].claim = claim /\ beliefs[j].topic = topic)
            \/ /\ i \in DOMAIN beliefs /\ i # 0
               /\ beliefs[i].claim = claim /\ beliefs[i].topic = topic
<1> DEFINE rows == {i \in DOMAIN beliefs : beliefs[i].claim = claim /\ beliefs[i].topic = topic}
           time == [i \in DOMAIN beliefs |-> beliefs[i].updated]
<1>1. CASE rows = {}
  BY <1>1 DEF Newest
<1>2. CASE rows # {}
  <2>1. Len(beliefs) \in Nat /\ DOMAIN beliefs = 1..Len(beliefs)
    BY DEF BelievedInv
  <2>2. rows \subseteq 1..Len(beliefs) /\ 0 \notin rows
    BY <2>1
  <2>3. \A i \in rows : time[i] \in Nat
    BY DEF BelievedInv, Remembers
  <2>4. \E i \in rows : \A j \in rows : time[j] <= time[i]
    <3> HIDE DEF time, rows
    <3> QED
      BY <1>2, <2>1, <2>2, <2>3, BestScore
  <2>5. \E i \in rows : \A j \in rows : beliefs[j].updated <= beliefs[i].updated
    BY <2>4
  <2>6. Newest(claim, topic) \in rows
    <3>1. Newest(claim, topic)
            = CHOOSE i \in rows : \A j \in rows : beliefs[j].updated <= beliefs[i].updated
      BY <1>2 DEF Newest
    <3> HIDE DEF rows
    <3> QED
      BY <2>5, <3>1
  <2> QED
    BY <2>2, <2>6
<1> QED
  BY <1>1, <1>2

LEMMA BelievedStarts == ViewsInit => BelievedInv
<1> SUFFICES ASSUME ViewsInit PROVE BelievedInv
  OBVIOUS
<1>1. beliefs = <<>> /\ work = [h \in Handlers |-> NoWork]
  BY DEF ViewsInit, BeliefsInit, NamesInit
<1>2. NoWork.op = "none"
  BY DEF NoWork
<1> QED
  BY <1>1, <1>2, SequenceOfItself DEF BelievedInv

(* A handler goes on, and writes no belief.                                *)
LEMMA BelievedMoves ==
  ASSUME BelievedInv, NEW h \in Handlers, NEW v, work' = [work EXCEPT ![h] = v],
         DOMAIN v = DOMAIN NoWork, v.op = "belief" /\ v.pc = "row_write" => ReadBefore(v),
         UNCHANGED beliefs
  PROVE  BelievedInv'
BY DEF BelievedInv, ReadBefore

(* Whatever is no statement on beliefs leaves them alone.                  *)
LEMMA OtherWork ==
  ASSUME BelievedInv, NEW h \in Handlers,
         \/ ModelStep(h)
         \/ \E m \in Memories : Process(h, m)
         \/ UpsertTaxonomy(h) \/ StartStages(h) \/ CompleteStage(h)
         \/ HandlerFails(h)
         \/ AskForBeliefs(h) \/ ReadBeliefTopic(h) \/ WriteBeliefTopic(h)
  PROVE  \E v : /\ work' = [work EXCEPT ![h] = v]
                /\ DOMAIN v = DOMAIN NoWork
                /\ ~(v.op = "belief" /\ v.pc = "row_write")
<1> DEFINE w == work[h]
           Goes(v) == /\ work' = [work EXCEPT ![h] = v]
                      /\ DOMAIN v = DOMAIN NoWork
                      /\ ~(v.op = "belief" /\ v.pc = "row_write")
<1>1. DOMAIN work = Handlers /\ DOMAIN w = DOMAIN NoWork
  BY DEF BelievedInv
<1>2. DOMAIN NoWork = {"op", "pc", "memory", "items", "read"} /\ NoWork.op = "none"
  BY DEF NoWork
<1>3. CASE Answer(h)
  <2>1. Goes(NoWork)
    BY <1>2, <1>3 DEF Answer
  <2> QED
    BY <2>1
<1>4. ASSUME NEW pc, pc # "row_write", work' = [work EXCEPT ![h].pc = pc]
      PROVE  \E v : Goes(v)
  <2>1. Goes([w EXCEPT !.pc = pc])
    BY <1>1, <1>2, <1>4
  <2> QED
    BY <2>1
<1>5. ASSUME NEW x, NEW pc, pc # "row_write" \/ w.op # "belief",
             work' = [work EXCEPT ![h].read = x, ![h].pc = pc]
      PROVE  \E v : Goes(v)
  <2>1. Goes([w EXCEPT !.read = x, !.pc = pc])
    BY <1>1, <1>2, <1>5
  <2> QED
    BY <2>1
<1>6. ASSUME NEW x, work' = [work EXCEPT ![h].pc = "item", ![h].items = x]
      PROVE  \E v : Goes(v)
  <2>1. Goes([w EXCEPT !.pc = "item", !.items = x])
    BY <1>1, <1>2, <1>6
  <2> QED
    BY <2>1
<1>7. CASE AskForPairs(h) \/ AskForBeliefs(h)
  <2>1. \E x : work' = [work EXCEPT ![h].pc = "item", ![h].items = x]
    BY <1>7 DEF AskForPairs, AskForBeliefs
  <2> QED
    BY <1>6, <2>1
<1>8. CASE SkipPair(h)
  <2>1. w.pc = "item" /\ work' = [work EXCEPT ![h].items = Tail(@)]
    BY <1>8 DEF SkipPair
  <2>2. Goes([w EXCEPT !.items = Tail(@)])
    BY <1>1, <1>2, <2>1
  <2> QED
    BY <2>2
<1>9. CASE SubmitEdit(h)
  <2>1. PICK x : work' = [work EXCEPT ![h] = [NoWork EXCEPT !.op = "edit", !.pc = "item", !.items = x]]
    BY <1>9 DEF SubmitEdit, Begin
  <2>2. Goes([NoWork EXCEPT !.op = "edit", !.pc = "item", !.items = x])
    BY <1>2, <2>1
  <2> QED
    BY <2>2
<1>10. CASE RefuseEdit(h) \/ HandlerFails(h)
  BY <1>3, <1>10 DEF RefuseEdit, HandlerFails
<1>11. CASE ReadPerson(h) \/ ReadTopic(h) \/ ReadBeliefTopic(h)
  <2>1. \/ \E x, pc : pc # "row_write" /\ work' = [work EXCEPT ![h].read = x, ![h].pc = pc]
        \/ \E pc : pc # "row_write" /\ work' = [work EXCEPT ![h].pc = pc]
    BY <1>11 DEF ReadPerson, ReadTopic, ReadBeliefTopic, ReadName, Step
  <2> QED
    BY <1>4, <1>5, <2>1
<1>12. CASE WritePerson(h) \/ WriteTopic(h) \/ WriteBeliefTopic(h)
  <2>1. \E x, pc : pc # "row_write" /\ work' = [work EXCEPT ![h].read = x, ![h].pc = pc]
    BY <1>12 DEF WritePerson, WriteTopic, WriteBeliefTopic, WriteName
  <2> QED
    BY <1>5, <2>1
<1>13. CASE ReadModel(h)
  <2>1. w.op # "belief" /\ \E x : work' = [work EXCEPT ![h].read = x, ![h].pc = "row_write"]
    BY <1>13 DEF ReadModel, Observing
  <2> QED
    BY <1>5, <2>1
<1>14. CASE SaveModel(h)
  <2>1. work' = [work EXCEPT ![h].items = Tail(@), ![h].read = Nothing, ![h].pc = "item"]
    BY <1>14 DEF SaveModel
  <2>2. Goes([w EXCEPT !.items = Tail(@), !.read = Nothing, !.pc = "item"])
    BY <1>1, <1>2, <2>1
  <2> QED
    BY <2>2
<1>15. ASSUME NEW m \in Memories, Process(h, m)
       PROVE  \E v : Goes(v)
  <2> DEFINE v == [NoWork EXCEPT !.op = "ingest", !.pc = "taxonomy", !.memory = m, !.read = Taxonomy(m)]
  <2>1. work' = [work EXCEPT ![h] = v]
    BY <1>15 DEF Process, Begin
  <2>2. Goes(v)
    BY <1>2, <2>1
  <2> QED
    BY <2>2
<1>16. CASE UpsertTaxonomy(h)
  <2>1. PICK row \in w.read : work' = [work EXCEPT ![h].read = @ \ {row}]
    BY <1>16 DEF UpsertTaxonomy
  <2> DEFINE v == [w EXCEPT !.read = @ \ {row}]
  <2>2. Goes(v)
    BY <1>1, <1>2, <1>16, <2>1 DEF UpsertTaxonomy
  <2> QED
    BY <2>2
<1>17. CASE StartStages(h)
  <2>1. Answer(h) \/ \E op : work' = [work EXCEPT ![h].op = op, ![h].pc = "ask", ![h].read = Nothing]
    BY <1>17 DEF StartStages
  <2>2. ASSUME NEW op, work' = [work EXCEPT ![h].op = op, ![h].pc = "ask", ![h].read = Nothing]
        PROVE  \E v : Goes(v)
    <3>1. Goes([w EXCEPT !.op = op, !.pc = "ask", !.read = Nothing])
      BY <1>1, <1>2, <2>2
    <3> QED
      BY <3>1
  <2> QED
    BY <1>3, <2>1, <2>2
<1>18. CASE CompleteStage(h)
  <2>1. Answer(h) \/ \E op : work' = [work EXCEPT ![h].op = op, ![h].pc = "ask"]
    BY <1>18 DEF CompleteStage
  <2>2. ASSUME NEW op, work' = [work EXCEPT ![h].op = op, ![h].pc = "ask"]
        PROVE  \E v : Goes(v)
    <3>1. Goes([w EXCEPT !.op = op, !.pc = "ask"])
      BY <1>1, <1>2, <2>2
    <3> QED
      BY <3>1
  <2> QED
    BY <1>3, <2>1, <2>2
<1>19. CASE ModelStep(h)
  BY <1>7, <1>8, <1>9, <1>10, <1>11, <1>12, <1>13, <1>14, <1>19 DEF ModelStep
<1> QED
  BY <1>7, <1>10, <1>11, <1>12, <1>15, <1>16, <1>17, <1>18, <1>19

LEMMA BelievedStep == BelievedInv /\ [ViewsNext]_viewVars => BelievedInv'
<1> SUFFICES ASSUME BelievedInv, [ViewsNext]_viewVars PROVE BelievedInv'
  OBVIOUS
<1>1. CASE UNCHANGED viewVars
  BY <1>1 DEF BelievedInv, ReadBefore, viewVars
<1>2. ASSUME NEW h \in Handlers, UNCHANGED beliefs,
             \/ ModelStep(h)
             \/ \E m \in Memories : Process(h, m)
             \/ UpsertTaxonomy(h) \/ StartStages(h) \/ CompleteStage(h)
             \/ HandlerFails(h)
             \/ AskForBeliefs(h) \/ ReadBeliefTopic(h) \/ WriteBeliefTopic(h)
      PROVE  BelievedInv'
  BY <1>2, OtherWork, BelievedMoves
<1>3. ASSUME NEW h \in Handlers, ReadBelief(h)
      PROVE  BelievedInv'
  <2> DEFINE i == Newest(Item(h).claim, Item(h).topic)
             read == IF i = 0 THEN <<>> ELSE <<beliefs[i]>>
             v == [work[h] EXCEPT !.read = read, !.pc = "row_write"]
  <2>1. work' = [work EXCEPT ![h] = v] /\ UNCHANGED beliefs
    BY <1>3 DEF ReadBelief, BelievedInv
  <2>2. i = 0 \/ i \in DOMAIN beliefs
    BY NewestIsARow
  <2>3. read = <<>> \/ \E row : read = <<row>> /\ Remembers(row) /\ row.id \in DOMAIN beliefs
    <3> HIDE DEF i
    <3> QED
      BY <2>2 DEF BelievedInv
  <2>4. DOMAIN v = DOMAIN NoWork /\ v.read = read
    BY DEF BelievedInv, NoWork
  <2> HIDE DEF v, read
  <2> QED
    BY <2>1, <2>3, <2>4, BelievedMoves DEF ReadBefore
<1>4. ASSUME NEW h \in Handlers, SaveBelief(h)
      PROVE  BelievedInv'
  <2> DEFINE w == work[h]
             v == [w EXCEPT !.items = Tail(@), !.read = Nothing, !.pc = "item"]
  <2>1. /\ w.op = "belief" /\ w.pc = "row_write" /\ ReadBefore(w)
        /\ work' = [work EXCEPT ![h] = v]
    BY <1>4 DEF SaveBelief, BelievedInv
  <2>2. DOMAIN v = DOMAIN NoWork /\ v.pc = "item"
    BY DEF BelievedInv, NoWork
  <2>3. Now \in Nat
    BY NowIsLater
  <2>4. beliefs \in Seq(ToSet(beliefs)) /\ Len(beliefs) \in Nat /\ DOMAIN beliefs = 1..Len(beliefs)
    BY DEF BelievedInv
  <2>5. /\ beliefs' \in Seq(ToSet(beliefs'))
        /\ \A i \in DOMAIN beliefs' : Remembers(beliefs'[i]) /\ beliefs'[i].id = i
        /\ DOMAIN beliefs \subseteq DOMAIN beliefs'
    <3>1. CASE w.read = <<>>
      <4> DEFINE new == [NewBelief(Item(h), w.memory) EXCEPT !.id = Len(beliefs) + 1, !.updated = Now]
      <4>1. Remembers(new) /\ new.id = Len(beliefs) + 1
        <5>1. /\ DOMAIN new = RowFields /\ new.updated = Now /\ new.id = Len(beliefs) + 1
              /\ new.history = {Item(h).stance} /\ new.stance = Item(h).stance
              /\ new.contradicted = FALSE
          BY DEF NewBelief, RowFields
        <5> HIDE DEF new
        <5> QED
          BY <2>3, <5>1, NewRow
      <4>2. beliefs' = Append(beliefs, new)
        BY <1>4, <3>1 DEF SaveBelief
      <4> HIDE DEF new
      <4>3. beliefs' \in Seq(ToSet(beliefs) \cup {new})
        BY <2>4, <4>2
      <4>4. /\ DOMAIN beliefs' = 1..(Len(beliefs) + 1)
            /\ \A i \in 1..Len(beliefs) : beliefs'[i] = beliefs[i]
            /\ beliefs'[Len(beliefs) + 1] = new
        BY <2>4, <4>2
      <4>5. \A i \in DOMAIN beliefs' : i \in DOMAIN beliefs \/ i = Len(beliefs) + 1
        BY <2>4, <4>4
      <4> QED
        BY <2>4, <4>1, <4>3, <4>4, <4>5, SequenceOfItself DEF BelievedInv
    <3>2. CASE w.read # <<>>
      <4>1. PICK row : w.read = <<row>> /\ Remembers(row) /\ row.id \in DOMAIN beliefs
        BY <2>1, <3>2 DEF ReadBefore
      <4> DEFINE new == [MergeBelief(w.read[1], Item(h), w.memory) EXCEPT !.updated = Now]
      <4>2. w.read[1] = row
        BY <4>1
      <4>3. Remembers(new) /\ new.id = row.id
        BY <2>3, <4>1, <4>2, MergedRow
      <4>4. beliefs' = [beliefs EXCEPT ![row.id] = new]
        BY <1>4, <3>2, <4>2 DEF SaveBelief
      <4> HIDE DEF new
      <4>5. beliefs' \in Seq(ToSet(beliefs) \cup {new})
        <5>1. \A i \in 1..Len(beliefs) : beliefs'[i] \in ToSet(beliefs) \cup {new}
          BY <2>4, <4>4 DEF ToSet
        <5>2. beliefs' = [i \in 1..Len(beliefs) |-> beliefs'[i]]
          BY <2>4, <4>4
        <5> QED
          BY <2>4, <5>1, <5>2
      <4>6. /\ DOMAIN beliefs' = DOMAIN beliefs
            /\ \A i \in DOMAIN beliefs : beliefs'[i] = IF i = row.id THEN new ELSE beliefs[i]
        BY <4>4
      <4> QED
        BY <4>3, <4>5, <4>6, SequenceOfItself DEF BelievedInv
    <3> QED
      BY <3>1, <3>2
  <2>6. ASSUME NEW g \in Handlers
        PROVE  /\ DOMAIN work'[g] = DOMAIN NoWork
               /\ work'[g].op = "belief" /\ work'[g].pc = "row_write" => ReadBefore(work[g])'
    <3> HIDE DEF v
    <3>1. CASE g = h
      BY <2>1, <2>2, <3>1 DEF BelievedInv
    <3>2. CASE g # h
      <4>1. work'[g] = work[g]
        BY <2>1, <3>2 DEF BelievedInv
      <4> QED
        BY <2>5, <4>1 DEF BelievedInv, ReadBefore
    <3> QED
      BY <3>1, <3>2
  <2>7. DOMAIN work' = Handlers
    BY <2>1 DEF BelievedInv
  <2> QED
    BY <2>5, <2>6, <2>7 DEF BelievedInv
<1>5. ASSUME NEW h \in Handlers, BeliefStep(h)
      PROVE  BelievedInv'
  <2>1. CASE AskForBeliefs(h) \/ ReadBeliefTopic(h) \/ WriteBeliefTopic(h)
    <3>1. UNCHANGED beliefs
      BY <2>1 DEF AskForBeliefs, ReadBeliefTopic, WriteBeliefTopic
    <3> QED
      BY <1>2, <2>1, <3>1
  <2> QED
    BY <1>3, <1>4, <1>5, <2>1 DEF BeliefStep
<1> QED
  BY <1>1, <1>2, <1>5 DEF ViewsNext

LEMMA MoreThanOne ==
  ASSUME NEW S, IsFiniteSet(S)
  PROVE  Cardinality(S) > 1 <=> \E a, b \in S : a # b
<1>1. Cardinality(S) \in Nat
  BY FS_CardinalityType
<1>2. Cardinality(S) = 0 <=> S = {}
  BY FS_EmptySet
<1>3. Cardinality(S) = 1 <=> \E a : S = {a}
  BY FS_Singleton
<1> QED
  BY <1>1, <1>2, <1>3

(* DerivedViews.ContradictionIsRemembered: a belief is marked contradicted *)
(* exactly if two memories took different known stances, however many      *)
(* observations followed.                                                  *)
THEOREM ContradictionIsRememberedAlways == ViewsSpec => []ContradictionIsRemembered
<1>1. BelievedInv => ContradictionIsRemembered
  <2> SUFFICES ASSUME BelievedInv, NEW i \in DOMAIN beliefs
               PROVE  /\ beliefs[i].contradicted <=> Cardinality(Known(beliefs[i].history)) > 1
                      /\ ~beliefs[i].contradicted
                           => Known(beliefs[i].history) = Known({beliefs[i].stance})
    BY DEF ContradictionIsRemembered, ToSet
  <2>1. Remembers(beliefs[i])
    BY DEF BelievedInv
  <2>2. IsFiniteSet(Known(beliefs[i].history))
    BY <2>1, FS_Subset DEF Remembers, Known
  <2> QED
    BY <2>1, <2>2, MoreThanOne DEF Remembers, Differ
<1> QED
  BY BelievedStarts, BelievedStep, <1>1, PTL DEF ViewsSpec

-----------------------------------------------------------------------------
(* Nothing learned is lost behind the fence                                *)

TopicIn(w) == IF w.op = "belief" THEN Head(w.items).topic ELSE PairIn(w).topic

(* What a handler has read, and will write back, is still what is there.   *)
Fresh(w, ns, ms, bs) ==
  /\ w.pc = "person" => w.read = ns["person"][PairIn(w).person]
  /\ w.pc = "topic_write" => w.read = ns["topic"][TopicIn(w)]
  /\ w.op \in {"person_model", "edit"} /\ w.pc = "row_write" =>
       w.read = ms[<<PairIn(w).person, PairIn(w).topic>>]
  /\ w.op = "belief" /\ w.pc = "row_write" =>
       \/ /\ w.read = <<>>
          /\ \A j \in DOMAIN bs : ~(/\ bs[j].claim = Head(w.items).claim
                                    /\ bs[j].topic = Head(w.items).topic)
       \/ \E i \in DOMAIN bs : w.read = <<bs[i]>>

OneRowEach(bs) ==
  \A i, j \in DOMAIN bs : bs[i].claim = bs[j].claim /\ bs[i].topic = bs[j].topic => i = j

(* Behind the fence only its holder works, on what is there.               *)
FreshInv ==
  /\ DOMAIN names = Tables /\ \A t \in Tables : DOMAIN names[t] = Names
  /\ fenced => /\ \A h \in Handlers : h # holder => work[h] = NoWork
               /\ \A h \in Handlers : Fresh(work[h], names, models, beliefs)
               /\ OneRowEach(beliefs)

NamesKept ==
  \A t \in Tables, n \in Names :
    \/ names[t][n] \subseteq names'[t][n]
    \/ Renewed(t, n) /\ names'[t][n] = {n}
ModelsKept == \A pair \in DOMAIN models : models[pair].evidence \subseteq models'[pair].evidence
BeliefsKept ==
  \A i \in DOMAIN beliefs : i \in DOMAIN beliefs' /\ beliefs[i].evidence \subseteq beliefs'[i].evidence

Kept == fenced => NamesKept /\ ModelsKept /\ BeliefsKept /\ OneRowEach(beliefs')

LEMMA FreshStarts == ViewsInit => FreshInv
<1> SUFFICES ASSUME ViewsInit PROVE FreshInv
  OBVIOUS
<1>1. /\ DOMAIN names = Tables /\ \A t \in Tables : DOMAIN names[t] = Names
      /\ beliefs = <<>>
      /\ work = [h \in Handlers |-> NoWork]
  BY DEF ViewsInit, NamesInit, BeliefsInit
<1>2. Fresh(NoWork, names, models, beliefs)
  BY DEF Fresh, NoWork
<1> QED
  BY <1>1, <1>2 DEF FreshInv, OneRowEach

(* Every step writes at most one row of a name, and the fence stays.       *)
LEMMA NamesShape ==
  ASSUME FreshInv, ViewsNext
  PROVE  /\ fenced' = fenced
         /\ DOMAIN names' = Tables /\ \A t \in Tables : DOMAIN names'[t] = Names
<1>1. \/ UNCHANGED <<fenced, names>>
      \/ \E h \in Handlers : \E table, name, aliases, pc :
           WriteName(h, table, name, aliases, pc)
      \/ \E h \in Handlers : UpsertTaxonomy(h)
  <2>1. ASSUME NEW h \in Handlers, ModelStep(h)
        PROVE  \/ UNCHANGED <<fenced, names>>
               \/ \E table, name, aliases, pc : WriteName(h, table, name, aliases, pc)
    <3>1. CASE WritePerson(h)
      BY <3>1, Zenon DEF WritePerson
    <3>2. CASE WriteTopic(h)
      BY <3>2, Zenon DEF WriteTopic
    <3>3. CASE ~WritePerson(h) /\ ~WriteTopic(h)
      BY <2>1, <3>3 DEF ModelStep, AskForPairs, SkipPair, SubmitEdit, RefuseEdit, ReadPerson,
         ReadTopic, ReadModel, SaveModel, ReadName, session
    <3> QED
      BY <3>1, <3>2, <3>3
  <2>2. ASSUME NEW h \in Handlers, BeliefStep(h)
        PROVE  \/ UNCHANGED <<fenced, names>>
               \/ \E table, name, aliases, pc : WriteName(h, table, name, aliases, pc)
    <3>1. CASE WriteBeliefTopic(h)
      BY <3>1, Zenon DEF WriteBeliefTopic
    <3>2. CASE ~WriteBeliefTopic(h)
      BY <2>2, <3>2 DEF BeliefStep, AskForBeliefs, ReadBeliefTopic, ReadBelief, SaveBelief,
         ReadName, session
    <3> QED
      BY <3>1, <3>2
  <2>3. ASSUME NEW h \in Handlers,
               \/ \E m \in Memories : Process(h, m)
               \/ StartStages(h) \/ CompleteStage(h)
               \/ HandlerFails(h)
        PROVE  UNCHANGED <<fenced, names>>
    BY <2>3 DEF Process, StartStages, CompleteStage, HandlerFails
  <2> QED
    BY <2>1, <2>2, <2>3, Zenon DEF ViewsNext
<1>2. ASSUME NEW h \in Handlers, NEW table, NEW name, NEW aliases, NEW pc,
             WriteName(h, table, name, aliases, pc)
      PROVE  /\ fenced' = fenced
             /\ DOMAIN names' = Tables /\ \A t \in Tables : DOMAIN names'[t] = Names
  BY <1>2 DEF WriteName, session, FreshInv
<1>3. ASSUME NEW h \in Handlers, UpsertTaxonomy(h)
      PROVE  /\ fenced' = fenced
             /\ DOMAIN names' = Tables /\ \A t \in Tables : DOMAIN names'[t] = Names
  BY <1>3 DEF UpsertTaxonomy, session, FreshInv
<1> QED
  BY <1>1, <1>2, <1>3 DEF FreshInv

(* A name is written over what was read.                                   *)
LEMMA NameIsKept ==
  ASSUME FreshInv, NEW h \in Handlers, NEW table, NEW name, NEW aliases, NEW pc,
         WriteName(h, table, name, aliases, pc), work[h].read = names[table][name]
  PROVE  NamesKept
<1> SUFFICES ASSUME NEW t \in Tables, NEW n \in Names
             PROVE  names[t][n] \subseteq names'[t][n]
  BY DEF NamesKept
<1>1. names' = [names EXCEPT ![table][name] = names[table][name] \cup {name} \cup ToSet(aliases)]
  BY DEF WriteName
<1>2. CASE t = table /\ n = name
  <2>1. names'[t][n] = names[table][name] \cup {name} \cup ToSet(aliases)
    BY <1>1, <1>2 DEF FreshInv
  <2> QED
    BY <1>2, <2>1
<1>3. CASE ~(t = table /\ n = name)
  <2>1. names'[t][n] = names[t][n]
    BY <1>1, <1>3 DEF FreshInv
  <2> QED
    BY <2>1
<1> QED
  BY <1>2, <1>3

(* The holder of the fence takes a step, and stays the holder.             *)
LEMMA HolderMoves ==
  ASSUME FreshInv, fenced, DOMAIN work = Handlers, NEW h \in Handlers, NEW v,
         work' = [work EXCEPT ![h] = v], holder' = holder, work[h] # NoWork,
         Fresh(v, names', models', beliefs')
  PROVE  /\ \A g \in Handlers : g # holder' => work'[g] = NoWork
         /\ \A g \in Handlers : Fresh(work'[g], names', models', beliefs')
<1>1. holder = h
  BY DEF FreshInv
<1>2. \A g \in Handlers : g # h => work'[g] = NoWork
  BY <1>1 DEF FreshInv
<1>3. Fresh(NoWork, names', models', beliefs')
  BY DEF Fresh, NoWork
<1> QED
  BY <1>1, <1>2, <1>3

(* A handler takes the fence.                                              *)
LEMMA HolderBegins ==
  ASSUME FreshInv, fenced, DOMAIN work = Handlers, NEW h \in Handlers, NEW v,
         Begin(h, v), v.pc \in {"taxonomy", "item"}
  PROVE  /\ \A g \in Handlers : g # holder' => work'[g] = NoWork
         /\ \A g \in Handlers : Fresh(work'[g], names', models', beliefs')
<1>1. Fresh(NoWork, names', models', beliefs')
  BY DEF Fresh, NoWork
<1>2. holder = Nothing /\ holder' = h /\ work' = [work EXCEPT ![h] = v]
  BY DEF Begin
<1>3. \A g \in Handlers : work[g] = NoWork
  BY <1>2, NamesAssumption DEF FreshInv
<1>4. Fresh(v, names', models', beliefs')
  BY DEF Fresh
<1> QED
  BY <1>1, <1>2, <1>3, <1>4

(* A handler gives the fence up.                                           *)
LEMMA HolderAnswers ==
  ASSUME FreshInv, fenced, DOMAIN work = Handlers, NEW h \in Handlers, Answer(h),
         work[h] # NoWork
  PROVE  /\ \A g \in Handlers : g # holder' => work'[g] = NoWork
         /\ \A g \in Handlers : Fresh(work'[g], names', models', beliefs')
<1>1. Fresh(NoWork, names', models', beliefs')
  BY DEF Fresh, NoWork
<1>2. work' = [work EXCEPT ![h] = NoWork] /\ holder = h /\ holder' = Nothing
  BY DEF Answer, FreshInv
<1>3. \A g \in Handlers : work'[g] = NoWork
  BY <1>2 DEF FreshInv
<1> QED
  BY <1>1, <1>3

Alone ==
  /\ \A g \in Handlers : g # holder' => work'[g] = NoWork
  /\ \A g \in Handlers : Fresh(work'[g], names', models', beliefs')

AllKept == NamesKept /\ ModelsKept /\ BeliefsKept /\ OneRowEach(beliefs')

LEMMA RestIsKept ==
  ASSUME FreshInv, fenced
  PROVE  /\ UNCHANGED names => NamesKept
         /\ UNCHANGED models => ModelsKept
         /\ UNCHANGED beliefs => BeliefsKept /\ OneRowEach(beliefs')
BY DEF NamesKept, ModelsKept, BeliefsKept, OneRowEach, FreshInv

LEMMA ModelsAlone ==
  ASSUME NamedInv, BelievedInv, FreshInv, fenced, NEW h \in Handlers, ModelStep(h),
         UNCHANGED beliefs
  PROVE  Alone /\ AllKept
<1> DEFINE w == work[h]
<1>1. /\ DOMAIN work = Handlers /\ NoWork.pc = "idle"
      /\ DOMAIN w = {"op", "pc", "memory", "items", "read"}
      /\ Fresh(w, names, models, beliefs)
  BY DEF NamedInv, WorkNamed, NoWork, FreshInv
<1>2. Pair(h) = PairIn(w)
  BY DEF Pair, PairIn, Item
<1>3. BeliefsKept /\ OneRowEach(beliefs')
  BY RestIsKept
<1>4. ASSUME NEW v, work' = [work EXCEPT ![h] = v], w.pc # "idle", holder' = holder,
             Fresh(v, names', models', beliefs')
      PROVE  Alone
  BY <1>1, <1>4, HolderMoves DEF Alone
<1>5. ASSUME NEW pc, work' = [work EXCEPT ![h].pc = pc], w.pc # "idle", holder' = holder,
             pc \in {"topic", "row"}
      PROVE  Alone
  <2> DEFINE v == [w EXCEPT !.pc = pc]
  <2>1. work' = [work EXCEPT ![h] = v] /\ v.pc = pc
    BY <1>1, <1>5
  <2> HIDE DEF v
  <2> QED
    BY <1>4, <1>5, <2>1 DEF Fresh
<1>6. CASE AskForPairs(h)
  <2>1. PICK x : work' = [work EXCEPT ![h].pc = "item", ![h].items = x]
    BY <1>6 DEF AskForPairs
  <2>2. w.pc = "ask" /\ holder' = holder /\ UNCHANGED <<names, models>>
    BY <1>6 DEF AskForPairs, session, modelVars
  <2> DEFINE v == [w EXCEPT !.pc = "item", !.items = x]
  <2>3. work' = [work EXCEPT ![h] = v] /\ v.pc = "item"
    BY <1>1, <2>1
  <2> HIDE DEF v
  <2> QED
    BY <1>3, <1>4, <2>2, <2>3, RestIsKept DEF Fresh, AllKept
<1>7. CASE SkipPair(h)
  <2>1. w.pc = "item" /\ holder' = holder /\ UNCHANGED <<names, models>>
    BY <1>7 DEF SkipPair, session, modelVars
  <2> DEFINE v == [w EXCEPT !.items = Tail(@)]
  <2>2. work' = [work EXCEPT ![h] = v] /\ v.pc = "item"
    BY <1>1, <1>7, <2>1 DEF SkipPair
  <2> HIDE DEF v
  <2> QED
    BY <1>3, <1>4, <2>1, <2>2, RestIsKept DEF Fresh, AllKept
<1>8. CASE SubmitEdit(h)
  <2>1. PICK x : Begin(h, [NoWork EXCEPT !.op = "edit", !.pc = "item", !.items = x])
    BY <1>8 DEF SubmitEdit
  <2>2. UNCHANGED <<names, models>>
    BY <1>8 DEF SubmitEdit
  <2> DEFINE v == [NoWork EXCEPT !.op = "edit", !.pc = "item", !.items = x]
  <2>3. Begin(h, v) /\ v.pc = "item"
    BY <2>1 DEF NoWork
  <2> HIDE DEF v
  <2>4. Alone
    BY <1>1, <2>3, HolderBegins DEF Alone
  <2> QED
    BY <1>3, <2>2, <2>4, RestIsKept DEF AllKept
<1>9. CASE RefuseEdit(h)
  <2>1. Answer(h) /\ work[h] # NoWork /\ UNCHANGED <<names, models>>
    BY <1>1, <1>9 DEF RefuseEdit, modelVars
  <2>2. Alone
    BY <1>1, <2>1, HolderAnswers DEF Alone
  <2> QED
    BY <1>3, <2>1, <2>2, RestIsKept DEF AllKept
<1>10. CASE ReadPerson(h)
  <2>1. w.pc = "item" /\ holder' = holder /\ UNCHANGED <<names, models>>
    BY <1>10 DEF ReadPerson, Step, ReadName, session, modelVars
  <2>2. CASE work' = [work EXCEPT ![h].pc = "topic"]
    BY <1>3, <1>5, <2>1, <2>2, RestIsKept DEF AllKept
  <2>3. CASE work' = [work EXCEPT ![h].read = names["person"][Pair(h).person], ![h].pc = "person"]
    <3> DEFINE x == names["person"][Pair(h).person]
               v == [w EXCEPT !.read = x, !.pc = "person"]
    <3>1. /\ work' = [work EXCEPT ![h] = v] /\ v.pc = "person" /\ v.read = x
          /\ v.op = w.op /\ v.memory = w.memory /\ v.items = w.items
      BY <1>1, <2>3
    <3> HIDE DEF v
    <3>2. PairIn(v) = PairIn(w)
      BY <3>1 DEF PairIn
    <3>3. Fresh(v, names', models', beliefs')
      BY <1>2, <2>1, <3>1, <3>2 DEF Fresh
    <3> QED
      BY <1>3, <1>4, <2>1, <3>1, <3>3, RestIsKept DEF AllKept
  <2> QED
    BY <1>10, <2>2, <2>3 DEF ReadPerson, Step, ReadName
<1>11. CASE WritePerson(h)
  <2> DEFINE v == [w EXCEPT !.read = Nothing, !.pc = "topic"]
  <2>1. /\ w.pc = "person" /\ holder' = holder /\ UNCHANGED models
        /\ WriteName(h, "person", Pair(h).person, Pair(h).personAliases, "topic")
    BY <1>11 DEF WritePerson, WriteName, session, modelVars
  <2>2. work' = [work EXCEPT ![h] = v] /\ v.pc = "topic"
    BY <1>1, <2>1 DEF WriteName
  <2> HIDE DEF v
  <2>3. w.read = names["person"][Pair(h).person]
    BY <1>1, <1>2, <2>1 DEF Fresh
  <2>4. NamesKept
    BY <2>1, <2>3, NameIsKept
  <2> QED
    BY <1>3, <1>4, <2>1, <2>2, <2>4, RestIsKept DEF Fresh, AllKept
<1>12. CASE ReadTopic(h)
  <2>1. /\ w.pc = "topic" /\ w.op \in {"person_model", "edit"} /\ holder' = holder
        /\ UNCHANGED <<names, models>>
    BY <1>12 DEF ReadTopic, Step, ReadName, session, modelVars, Observing
  <2>2. CASE work' = [work EXCEPT ![h].pc = "row"]
    BY <1>3, <1>5, <2>1, <2>2, RestIsKept DEF AllKept
  <2>3. CASE work' = [work EXCEPT ![h].read = names["topic"][Pair(h).topic], ![h].pc = "topic_write"]
    <3> DEFINE x == names["topic"][Pair(h).topic]
               v == [w EXCEPT !.read = x, !.pc = "topic_write"]
    <3>1. /\ work' = [work EXCEPT ![h] = v] /\ v.pc = "topic_write" /\ v.read = x
          /\ v.op = w.op /\ v.memory = w.memory /\ v.items = w.items
      BY <1>1, <2>3
    <3> HIDE DEF v
    <3>2. PairIn(v) = PairIn(w)
      BY <3>1 DEF PairIn
    <3>3. Fresh(v, names', models', beliefs')
      BY <1>2, <2>1, <3>1, <3>2 DEF Fresh, TopicIn
    <3> QED
      BY <1>3, <1>4, <2>1, <3>1, <3>3, RestIsKept DEF AllKept
  <2> QED
    BY <1>12, <2>2, <2>3 DEF ReadTopic, Step, ReadName
<1>13. CASE WriteTopic(h)
  <2> DEFINE v == [w EXCEPT !.read = Nothing, !.pc = "row"]
  <2>1. /\ w.pc = "topic_write" /\ w.op # "belief" /\ holder' = holder /\ UNCHANGED models
        /\ WriteName(h, "topic", Pair(h).topic, Pair(h).topicAliases, "row")
    BY <1>13 DEF WriteTopic, WriteName, session, modelVars, Observing
  <2>2. work' = [work EXCEPT ![h] = v] /\ v.pc = "row"
    BY <1>1, <2>1 DEF WriteName
  <2> HIDE DEF v
  <2>3. w.read = names["topic"][Pair(h).topic]
    BY <1>1, <1>2, <2>1 DEF Fresh, TopicIn
  <2>4. NamesKept
    BY <2>1, <2>3, NameIsKept
  <2> QED
    BY <1>3, <1>4, <2>1, <2>2, <2>4, RestIsKept DEF Fresh, AllKept
<1>14. CASE ReadModel(h)
  <2> DEFINE x == models[<<Pair(h).person, Pair(h).topic>>]
             v == [w EXCEPT !.read = x, !.pc = "row_write"]
  <2>1. /\ w.pc = "row" /\ w.op \in {"person_model", "edit"} /\ holder' = holder
        /\ UNCHANGED <<names, models>>
    BY <1>14 DEF ReadModel, session, modelVars, Observing
  <2>2. /\ work' = [work EXCEPT ![h] = v] /\ v.pc = "row_write" /\ v.read = x
        /\ v.op = w.op /\ v.memory = w.memory /\ v.items = w.items
    BY <1>1, <1>14 DEF ReadModel
  <2> HIDE DEF v
  <2>3. PairIn(v) = PairIn(w)
    BY <2>2 DEF PairIn
  <2>4. Fresh(v, names', models', beliefs')
    BY <1>2, <2>1, <2>2, <2>3 DEF Fresh
  <2> QED
    BY <1>3, <1>4, <2>1, <2>2, <2>4, RestIsKept DEF AllKept
<1>15. CASE SaveModel(h)
  <2> DEFINE pair == <<Pair(h).person, Pair(h).topic>>
             new == IF w.op = "edit" THEN EditRow(w.read, Pair(h))
                    ELSE MergeObservation(w.read, Pair(h), w.memory)
             v == [w EXCEPT !.items = Tail(@), !.read = Nothing, !.pc = "item"]
  <2>1. /\ w.pc = "row_write" /\ w.op \in {"person_model", "edit"} /\ holder' = holder
        /\ UNCHANGED names /\ models' = [models EXCEPT ![pair] = new]
    BY <1>15 DEF SaveModel, session, Observing
  <2>2. work' = [work EXCEPT ![h] = v] /\ v.pc = "item"
    BY <1>1, <1>15 DEF SaveModel
  <2>3. w.read = models[pair]
    BY <1>1, <1>2, <2>1 DEF Fresh
  <2>4. pair \in Names \X Names /\ RowNamed(w.read, Pair(h).person, Pair(h).topic)
    BY <1>2, <2>1 DEF NamedInv, WorkNamed, AtPair
  <2>5. w.read.evidence \subseteq new.evidence
    BY <2>4 DEF EditRow, MergeObservation, WithEvidence, RowNamed, NoModel
  <2> HIDE DEF v, new, pair
  <2>6. ModelsKept
    BY <2>1, <2>3, <2>5 DEF ModelsKept
  <2> QED
    BY <1>3, <1>4, <2>1, <2>2, <2>6, RestIsKept DEF Fresh, AllKept
<1> QED
  BY <1>6, <1>7, <1>8, <1>9, <1>10, <1>11, <1>12, <1>13, <1>14, <1>15 DEF ModelStep

LEMMA BeliefsAlone ==
  ASSUME NamedInv, BelievedInv, FreshInv, fenced, NEW h \in Handlers, BeliefStep(h),
         UNCHANGED modelVars
  PROVE  Alone /\ AllKept
<1> DEFINE w == work[h]
<1>1. /\ DOMAIN work = Handlers /\ NoWork.pc = "idle"
      /\ DOMAIN w = {"op", "pc", "memory", "items", "read"}
      /\ Fresh(w, names, models, beliefs)
  BY DEF NamedInv, WorkNamed, NoWork, FreshInv
<1>2. ModelsKept
  BY RestIsKept DEF modelVars
<1>3. ASSUME NEW v, work' = [work EXCEPT ![h] = v], w.pc # "idle", holder' = holder,
             Fresh(v, names', models', beliefs')
      PROVE  Alone
  BY <1>1, <1>3, HolderMoves DEF Alone
<1>4. CASE AskForBeliefs(h)
  <2>1. PICK x : work' = [work EXCEPT ![h].pc = "item", ![h].items = x]
    BY <1>4 DEF AskForBeliefs
  <2>2. w.pc = "ask" /\ holder' = holder /\ UNCHANGED <<names, beliefs>>
    BY <1>4 DEF AskForBeliefs, session
  <2> DEFINE v == [w EXCEPT !.pc = "item", !.items = x]
  <2>3. work' = [work EXCEPT ![h] = v] /\ v.pc = "item"
    BY <1>1, <2>1
  <2> HIDE DEF v
  <2> QED
    BY <1>2, <1>3, <2>2, <2>3, RestIsKept DEF Fresh, AllKept
<1>5. CASE ReadBeliefTopic(h)
  <2>1. w.pc = "item" /\ w.op = "belief" /\ holder' = holder /\ UNCHANGED <<names, beliefs>>
    BY <1>5 DEF ReadBeliefTopic, Step, ReadName, session
  <2>2. CASE work' = [work EXCEPT ![h].pc = "row"]
    <3> DEFINE v == [w EXCEPT !.pc = "row"]
    <3>1. work' = [work EXCEPT ![h] = v] /\ v.pc = "row"
      BY <1>1, <2>2
    <3> HIDE DEF v
    <3> QED
      BY <1>2, <1>3, <2>1, <3>1, RestIsKept DEF Fresh, AllKept
  <2>3. CASE work' = [work EXCEPT ![h].read = names["topic"][Item(h).topic], ![h].pc = "topic_write"]
    <3> DEFINE x == names["topic"][Item(h).topic]
               v == [w EXCEPT !.read = x, !.pc = "topic_write"]
    <3>1. /\ work' = [work EXCEPT ![h] = v] /\ v.pc = "topic_write" /\ v.read = x
          /\ v.op = "belief" /\ v.items = w.items
      BY <1>1, <2>1, <2>3
    <3> HIDE DEF v
    <3>2. Fresh(v, names', models', beliefs')
      BY <2>1, <3>1 DEF Fresh, TopicIn, Item
    <3> QED
      BY <1>2, <1>3, <2>1, <3>1, <3>2, RestIsKept DEF AllKept
  <2> QED
    BY <1>5, <2>2, <2>3 DEF ReadBeliefTopic, Step, ReadName
<1>6. CASE WriteBeliefTopic(h)
  <2> DEFINE v == [w EXCEPT !.read = Nothing, !.pc = "row"]
  <2>1. /\ w.pc = "topic_write" /\ w.op = "belief" /\ holder' = holder /\ UNCHANGED beliefs
        /\ WriteName(h, "topic", Item(h).topic, Item(h).topicAliases, "row")
    BY <1>6 DEF WriteBeliefTopic, WriteName, session
  <2>2. work' = [work EXCEPT ![h] = v] /\ v.pc = "row"
    BY <1>1, <2>1 DEF WriteName
  <2> HIDE DEF v
  <2>3. w.read = names["topic"][Item(h).topic]
    BY <1>1, <2>1 DEF Fresh, TopicIn, Item
  <2>4. NamesKept
    BY <2>1, <2>3, NameIsKept
  <2> QED
    BY <1>2, <1>3, <2>1, <2>2, <2>4, RestIsKept DEF Fresh, AllKept
<1>7. CASE ReadBelief(h)
  <2> DEFINE i == Newest(Item(h).claim, Item(h).topic)
             x == IF i = 0 THEN <<>> ELSE <<beliefs[i]>>
             v == [w EXCEPT !.read = x, !.pc = "row_write"]
  <2>1. w.pc = "row" /\ w.op = "belief" /\ holder' = holder /\ UNCHANGED <<names, beliefs>>
    BY <1>7 DEF ReadBelief, session
  <2>2. /\ work' = [work EXCEPT ![h] = v] /\ v.pc = "row_write" /\ v.op = "belief"
        /\ v.read = x /\ v.items = w.items
    BY <1>1, <1>7, <2>1 DEF ReadBelief
  <2>3. \/ /\ x = <<>>
           /\ \A j \in DOMAIN beliefs : ~(/\ beliefs[j].claim = Head(w.items).claim
                                          /\ beliefs[j].topic = Head(w.items).topic)
        \/ \E j \in DOMAIN beliefs : x = <<beliefs[j]>>
    <3>1. \/ i = 0 /\ \A j \in DOMAIN beliefs :
                        ~(beliefs[j].claim = Item(h).claim /\ beliefs[j].topic = Item(h).topic)
          \/ i \in DOMAIN beliefs /\ i # 0
      BY NewestIsARow
    <3> HIDE DEF i
    <3> QED
      BY <3>1 DEF Item
  <2> HIDE DEF v, x
  <2>4. Fresh(v, names', models', beliefs')
    BY <2>1, <2>2, <2>3 DEF Fresh
  <2> QED
    BY <1>2, <1>3, <2>1, <2>2, <2>4, RestIsKept DEF AllKept
<1>8. CASE SaveBelief(h)
  <2> DEFINE v == [w EXCEPT !.items = Tail(@), !.read = Nothing, !.pc = "item"]
  <2>1. w.pc = "row_write" /\ w.op = "belief" /\ holder' = holder /\ UNCHANGED names
    BY <1>8 DEF SaveBelief, session
  <2>2. work' = [work EXCEPT ![h] = v] /\ v.pc = "item"
    BY <1>1, <1>8 DEF SaveBelief
  <2> HIDE DEF v
  <2>3. BeliefsKept /\ OneRowEach(beliefs')
    <3>1. /\ beliefs \in Seq(ToSet(beliefs)) /\ Len(beliefs) \in Nat
          /\ DOMAIN beliefs = 1..Len(beliefs) /\ OneRowEach(beliefs) /\ Now \in Nat
      BY NowIsLater DEF BelievedInv, FreshInv
    <3>2. CASE w.read = <<>>
      <4> DEFINE new == [NewBelief(Item(h), w.memory) EXCEPT !.id = Len(beliefs) + 1, !.updated = Now]
      <4>1. beliefs' = Append(beliefs, new)
        BY <1>8, <3>2 DEF SaveBelief
      <4>2. new.claim = Item(h).claim /\ new.topic = Item(h).topic
        BY DEF NewBelief
      <4>3. \A j \in DOMAIN beliefs : ~(beliefs[j].claim = new.claim /\ beliefs[j].topic = new.topic)
        <5>1. \A r : w.read # <<r>>
          BY <3>2
        <5> HIDE DEF new
        <5> QED
          BY <1>1, <2>1, <4>2, <5>1 DEF Fresh, Item
      <4> HIDE DEF new
      <4>4. /\ DOMAIN beliefs' = 1..(Len(beliefs) + 1)
            /\ \A i \in DOMAIN beliefs : beliefs'[i] = beliefs[i]
            /\ beliefs'[Len(beliefs) + 1] = new
        BY <3>1, <4>1
      <4>5. \A i \in DOMAIN beliefs' : i \in DOMAIN beliefs \/ i = Len(beliefs) + 1
        BY <3>1, <4>4
      <4>6. DOMAIN beliefs \subseteq DOMAIN beliefs'
        BY <3>1, <4>4
      <4> QED
        BY <3>1, <4>3, <4>4, <4>5, <4>6 DEF BeliefsKept, OneRowEach
    <3>3. CASE w.read # <<>>
      <4>1. PICK k \in DOMAIN beliefs : w.read = <<beliefs[k]>>
        BY <1>1, <2>1, <3>3 DEF Fresh
      <4>2. PICK row : row = beliefs[k]
        OBVIOUS
      <4>3. w.read[1] = row /\ Remembers(row) /\ row.id = k /\ Now \in Nat
        BY <3>1, <4>1, <4>2 DEF BelievedInv
      <4> DEFINE new == [MergeBelief(row, Item(h), w.memory) EXCEPT !.updated = Now]
      <4>3a. /\ Remembers(new) /\ new.id = row.id /\ new.claim = row.claim
            /\ new.topic = row.topic /\ row.evidence \subseteq new.evidence
        <5> DEFINE item == Item(h)
                   m == w.memory
        <5> HIDE DEF item, m
        <5>1. LET merged == [MergeBelief(row, item, m) EXCEPT !.updated = Now]
              IN Remembers(merged) /\ merged.id = row.id /\ merged.claim = row.claim
                 /\ merged.topic = row.topic /\ row.evidence \subseteq merged.evidence
          BY <4>3, MergedRow
        <5> QED
          BY <5>1 DEF item, m
      <4>4. beliefs' = [beliefs EXCEPT ![k] = new]
        BY <1>8, <3>3, <4>3 DEF SaveBelief
      <4> HIDE DEF new
      <4>5. /\ DOMAIN beliefs' = DOMAIN beliefs
            /\ \A i \in DOMAIN beliefs : beliefs'[i] = IF i = k THEN new ELSE beliefs[i]
        BY <4>4
      <4>6. \A i \in DOMAIN beliefs : /\ beliefs'[i].claim = beliefs[i].claim
                                      /\ beliefs'[i].topic = beliefs[i].topic
                                      /\ beliefs[i].evidence \subseteq beliefs'[i].evidence
        BY <4>2, <4>3a, <4>5
      <4> QED
        BY <3>1, <4>5, <4>6 DEF BeliefsKept, OneRowEach
    <3> QED
      BY <3>2, <3>3
  <2> QED
    BY <1>2, <1>3, <2>1, <2>2, <2>3, RestIsKept DEF Fresh, AllKept
<1> QED
  BY <1>4, <1>5, <1>6, <1>7, <1>8 DEF BeliefStep

LEMMA StagesAlone ==
  ASSUME NamedInv, FreshInv, fenced, NEW h \in Handlers,
         \/ \E m \in Memories : Process(h, m)
         \/ UpsertTaxonomy(h) \/ StartStages(h) \/ CompleteStage(h)
         \/ HandlerFails(h),
         UNCHANGED <<modelVars, beliefs>>
  PROVE  Alone /\ AllKept
<1> DEFINE w == work[h]
<1>1. /\ DOMAIN work = Handlers /\ NoWork.pc = "idle"
      /\ DOMAIN w = {"op", "pc", "memory", "items", "read"}
  BY DEF NamedInv, WorkNamed, NoWork
<1>2. ASSUME ~UpsertTaxonomy(h)
      PROVE  AllKept
  <2>1. UNCHANGED <<names, models, beliefs>>
    BY <1>2 DEF Process, StartStages, CompleteStage, HandlerFails, modelVars
  <2> QED
    BY <2>1, RestIsKept DEF AllKept
<1>3. ASSUME Answer(h), w # NoWork
      PROVE  Alone
  BY <1>1, <1>3, HolderAnswers DEF Alone
<1>4. ASSUME NEW m \in Memories, Process(h, m)
      PROVE  Alone
  <2> DEFINE v == [NoWork EXCEPT !.op = "ingest", !.pc = "taxonomy", !.memory = m, !.read = Taxonomy(m)]
  <2>1. Begin(h, v) /\ v.pc = "taxonomy"
    BY <1>4 DEF Process, NoWork
  <2> HIDE DEF v
  <2> QED
    BY <1>1, <2>1, HolderBegins DEF Alone
<1>5. ASSUME UpsertTaxonomy(h)
      PROVE  Alone /\ AllKept
  <2>1. PICK row \in w.read :
           /\ names' = [names EXCEPT ![row[1]][row[2]] = {row[2]}]
           /\ work' = [work EXCEPT ![h].read = @ \ {row}]
    BY <1>5 DEF UpsertTaxonomy
  <2> DEFINE v == [w EXCEPT !.read = @ \ {row}]
  <2>2. /\ w.pc = "taxonomy" /\ w # NoWork /\ holder' = holder
        /\ work' = [work EXCEPT ![h] = v] /\ v.pc = "taxonomy" /\ v.read = w.read \ {row}
        /\ v.op = w.op
    BY <1>1, <1>5, <2>1 DEF UpsertTaxonomy, session
  <2>3. w.op = "ingest" /\ row \in Tables \X Names
    BY <2>1, <2>2 DEF NamedInv, WorkNamed
  <2> HIDE DEF v
  <2>4. Fresh(v, names', models', beliefs')
    BY <2>2, <2>3 DEF Fresh
  <2>5. NamesKept
    <3> SUFFICES ASSUME NEW t \in Tables, NEW n \in Names
                 PROVE  \/ names[t][n] \subseteq names'[t][n]
                        \/ Renewed(t, n) /\ names'[t][n] = {n}
      BY DEF NamesKept
    <3>1. CASE row = <<t, n>>
      <4>1. names'[t][n] = {n}
        BY <2>1, <3>1 DEF FreshInv
      <4>2. <<t, n>> \in w.read \ work'[h].read
        BY <1>1, <2>1, <2>2, <3>1
      <4> QED
        BY <2>2, <4>1, <4>2 DEF Renewed
    <3>2. CASE row # <<t, n>>
      <4>1. ~(row[1] = t /\ row[2] = n)
        BY <2>3, <3>2
      <4>2. names'[t][n] = names[t][n]
        BY <2>1, <2>3, <4>1 DEF FreshInv
      <4> QED
        BY <4>2
    <3> QED
      BY <3>1, <3>2
  <2> QED
    BY <1>1, <2>2, <2>4, <2>5, HolderMoves, RestIsKept DEF Alone, AllKept, modelVars
<1>6. ASSUME StartStages(h)
      PROVE  Alone
  <2>1. w.pc = "taxonomy" /\ w # NoWork
    BY <1>1, <1>6 DEF StartStages
  <2>2. ASSUME NEW op, holder' = holder,
               work' = [work EXCEPT ![h].op = op, ![h].pc = "ask", ![h].read = Nothing]
        PROVE  Alone
    <3> DEFINE v == [w EXCEPT !.op = op, !.pc = "ask", !.read = Nothing]
    <3>1. work' = [work EXCEPT ![h] = v] /\ v.pc = "ask"
      BY <1>1, <2>2
    <3> HIDE DEF v
    <3>2. Fresh(v, names', models', beliefs')
      BY <3>1 DEF Fresh
    <3> QED
      BY <1>1, <2>1, <2>2, <3>1, <3>2, HolderMoves DEF Alone
  <2>3. CASE Answer(h)
    BY <1>3, <2>1, <2>3
  <2>4. CASE ~Answer(h)
    <3>1. /\ holder' = holder
          /\ \E op : work' = [work EXCEPT ![h].op = op, ![h].pc = "ask", ![h].read = Nothing]
      BY <1>6, <2>4 DEF StartStages
    <3> QED
      BY <2>2, <3>1, Zenon
  <2> QED
    BY <2>3, <2>4
<1>7. ASSUME HandlerFails(h)
      PROVE  Alone
  BY <1>3, <1>7 DEF HandlerFails
<1>8. ASSUME CompleteStage(h)
      PROVE  Alone
  <2>1. w.pc = "item" /\ w # NoWork
    BY <1>1, <1>8 DEF CompleteStage
  <2>2. ASSUME NEW op, work' = [work EXCEPT ![h].op = op, ![h].pc = "ask"], holder' = holder
        PROVE  Alone
    <3> DEFINE v == [w EXCEPT !.op = op, !.pc = "ask"]
    <3>1. work' = [work EXCEPT ![h] = v] /\ v.pc = "ask"
      BY <1>1, <2>2
    <3> HIDE DEF v
    <3>2. Fresh(v, names', models', beliefs')
      BY <3>1 DEF Fresh
    <3> QED
      BY <1>1, <2>1, <2>2, <3>1, <3>2, HolderMoves DEF Alone
  <2>3. \/ Answer(h)
        \/ holder' = holder /\ \E op : work' = [work EXCEPT ![h].op = op, ![h].pc = "ask"]
    BY <1>8 DEF CompleteStage
  <2>4. CASE Answer(h)
    BY <1>3, <2>1, <2>4
  <2>5. CASE holder' = holder /\ \E op : work' = [work EXCEPT ![h].op = op, ![h].pc = "ask"]
    BY <2>2, <2>5, Zenon
  <2> QED
    BY <2>3, <2>4, <2>5
<1> QED
  BY <1>2, <1>4, <1>7, <1>8, <1>5, <1>6

LEMMA FreshStep ==
  ASSUME NamedInv, BelievedInv, FreshInv, [ViewsNext]_viewVars
  PROVE  FreshInv' /\ [Kept]_viewVars
<1>1. CASE UNCHANGED viewVars
  BY <1>1 DEF FreshInv, OneRowEach, viewVars, session, modelVars
<1>2. CASE ViewsNext
  <2>1. /\ fenced' = fenced
        /\ DOMAIN names' = Tables /\ \A t \in Tables : DOMAIN names'[t] = Names
    BY <1>2, NamesShape
  <2>2. fenced => Alone /\ AllKept
    BY <1>2, ModelsAlone, BeliefsAlone, StagesAlone, Zenon DEF ViewsNext
  <2>3. FreshInv'
    BY <2>1, <2>2 DEF FreshInv, Alone, AllKept
  <2>4. Kept
    BY <2>2 DEF Kept, AllKept
  <2> QED
    BY <2>3, <2>4
<1> QED
  BY <1>1, <1>2

(* DerivedViews.NothingLearnedIsLost: behind the fence no step takes a     *)
(* memory out of a row or makes a second row of a belief, and only an      *)
(* ingest takes aliases, all those of a name that its memory uses.         *)
THEOREM NothingLearnedIsLostAlways == ViewsSpec => NothingLearnedIsLost
<1>1. [Kept]_viewVars =>
        [fenced =>
           /\ \A t \in Tables, n \in Names :
                \/ names[t][n] \subseteq names'[t][n]
                \/ Renewed(t, n) /\ names'[t][n] = {n}
           /\ \A pair \in DOMAIN models : models[pair].evidence \subseteq models'[pair].evidence
           /\ \A i \in DOMAIN beliefs :
                i \in DOMAIN beliefs' /\ beliefs[i].evidence \subseteq beliefs'[i].evidence
           /\ \A i, j \in DOMAIN beliefs' :
                /\ beliefs'[i].claim = beliefs'[j].claim
                /\ beliefs'[i].topic = beliefs'[j].topic
                => i = j]_viewVars
  BY Zenon DEF Kept, NamesKept, ModelsKept, BeliefsKept, OneRowEach
<1> QED
  BY NamedStarts, NamedStep, BelievedStarts, BelievedStep, FreshStarts, FreshStep, <1>1, PTL
     DEF ViewsSpec, NothingLearnedIsLost

-----------------------------------------------------------------------------
(* Sums over votes                                                         *)

SumOf(votes) == MapThenSumSet(LAMBDA v : v[2], votes)

AnyOf(S) == CHOOSE x \in S : TRUE

(* A sum adds the votes one by one, in the order they happen to be chosen. *)
SumStep(sum, S) == IF S = {} THEN 0 ELSE AnyOf(S)[2] + sum[S \ {AnyOf(S)}]

Sums(sum, S) == \A s \in SUBSET S : sum[s] = SumStep(sum, s)

IsSum(sum, S) == sum \in [SUBSET S -> Int] /\ Sums(sum, S)

Votes(S) == IsFiniteSet(S) /\ \A v \in S : v[2] \in Int

LEMMA LessOne ==
  ASSUME NEW S, IsFiniteSet(S), NEW x \in S
  PROVE  /\ IsFiniteSet(S \ {x})
         /\ Cardinality(S) \in Nat /\ Cardinality(S \ {x}) \in Nat
         /\ Cardinality(S \ {x}) = Cardinality(S) - 1
BY FS_RemoveElement, FS_CardinalityType

LEMMA AnyOfIs == ASSUME NEW S, S # {} PROVE AnyOf(S) \in S
BY DEF AnyOf

(* Up to every size there is such a sum.                                   *)
LEMMA SumExists ==
  ASSUME NEW S, Votes(S)
  PROVE  \E sum \in [SUBSET S -> Int] : Sums(sum, S)
<1> DEFINE l == Cardinality(S)
           Upto(sum, k) == \A s \in SUBSET S : Cardinality(s) <= k => sum[s] = SumStep(sum, s)
           Some(k) == \E sum \in [SUBSET S -> Int] : Upto(sum, k)
           W == {k \in 0..l : Some(k)}
<1>1. l \in Nat /\ IsFiniteSet(S)
  BY FS_CardinalityType DEF Votes
<1>2. \A s \in SUBSET S : /\ IsFiniteSet(s) /\ Cardinality(s) \in Nat /\ Cardinality(s) <= l
                          /\ Cardinality(s) = 0 <=> s = {}
  BY <1>1, FS_Subset, FS_CardinalityType, FS_EmptySet
<1>3. ASSUME NEW s \in SUBSET S, s # {}
      PROVE  /\ AnyOf(s) \in s /\ AnyOf(s)[2] \in Int
             /\ s \ {AnyOf(s)} \in SUBSET S
             /\ Cardinality(s \ {AnyOf(s)}) = Cardinality(s) - 1
  <2>1. AnyOf(s) \in s
    BY <1>3, AnyOfIs
  <2>2. Cardinality(s \ {AnyOf(s)}) = Cardinality(s) - 1
    BY <1>2, <2>1, LessOne
  <2> QED
    BY <2>1, <2>2 DEF Votes
<1>4. 0 \in W
  <2> DEFINE sum == [s \in SUBSET S |-> 0]
  <2>1. Upto(sum, 0)
    <3> SUFFICES ASSUME NEW s \in SUBSET S, Cardinality(s) <= 0 PROVE sum[s] = SumStep(sum, s)
      OBVIOUS
    <3>1. s = {}
      BY <1>2
    <3> QED
      BY <3>1 DEF SumStep
  <2>2. sum \in [SUBSET S -> Int]
    OBVIOUS
  <2> HIDE DEF sum, Upto
  <2>3. Some(0)
    BY <2>1, <2>2
  <2> QED
    BY <1>1, <2>3
<1>5. ASSUME NEW k \in 1..l, k - 1 \in W PROVE k \in W
  <2>1. PICK sum \in [SUBSET S -> Int] : Upto(sum, k - 1)
    BY <1>5
  <2> DEFINE next == [s \in SUBSET S |-> IF Cardinality(s) = k THEN SumStep(sum, s) ELSE sum[s]]
  <2>2. next \in [SUBSET S -> Int]
    <3>1. \A s \in SUBSET S : SumStep(sum, s) \in Int
      BY <1>3 DEF SumStep
    <3> QED
      BY <3>1
  <2>3. ASSUME NEW s \in SUBSET S, Cardinality(s) <= k PROVE next[s] = SumStep(next, s)
    <3>1. SumStep(next, s) = SumStep(sum, s)
      <4>1. CASE s = {}
        BY <4>1 DEF SumStep
      <4>2. CASE s # {}
        <5> DEFINE r == s \ {AnyOf(s)}
        <5>1. r \in SUBSET S /\ Cardinality(r) = Cardinality(s) - 1
          BY <1>3, <4>2
        <5>2. Cardinality(r) # k
          BY <1>2, <2>3, <5>1
        <5>3. next[r] = sum[r]
          BY <5>1, <5>2
        <5> QED
          BY <4>2, <5>3 DEF SumStep
      <4> QED
        BY <4>1, <4>2
    <3>2. CASE Cardinality(s) = k
      BY <3>1, <3>2
    <3>3. CASE Cardinality(s) # k
      <4>1. Cardinality(s) <= k - 1
        BY <1>2, <2>3, <3>3
      <4> QED
        BY <2>1, <3>1, <3>3, <4>1
    <3> QED
      BY <3>2, <3>3
  <2>4. Upto(next, k)
    BY <2>3
  <2> HIDE DEF next, Upto
  <2>5. Some(k)
    BY <2>2, <2>4
  <2> QED
    BY <2>5
<1> HIDE DEF W
<1>6. l \in W
  BY <1>1, <1>4, <1>5, EveryPart
<1>7. PICK sum \in [SUBSET S -> Int] : Upto(sum, l)
  BY <1>6 DEF W
<1> QED
  BY <1>2, <1>7 DEF Sums

(* Two such sums agree wherever both are defined.                          *)
LEMMA SumsAgree ==
  ASSUME NEW S, IsFiniteSet(S), NEW T \in SUBSET S, NEW f, NEW g, Sums(f, S), Sums(g, T)
  PROVE  \A s \in SUBSET T : f[s] = g[s]
<1> DEFINE l == Cardinality(T)
           W == {k \in 0..l : \A s \in SUBSET T : Cardinality(s) = k => f[s] = g[s]}
<1>1. IsFiniteSet(T) /\ l \in Nat
  BY FS_Subset, FS_CardinalityType
<1>2. \A s \in SUBSET T : /\ IsFiniteSet(s) /\ Cardinality(s) \in Nat /\ Cardinality(s) <= l
                          /\ Cardinality(s) = 0 <=> s = {}
  BY <1>1, FS_Subset, FS_CardinalityType, FS_EmptySet
<1>3. \A s \in SUBSET T : f[s] = SumStep(f, s) /\ g[s] = SumStep(g, s)
  BY DEF Sums
<1>4. f[{}] = g[{}]
  BY <1>3 DEF SumStep
<1>5. 0 \in W
  BY <1>1, <1>2, <1>4
<1>6. ASSUME NEW k \in 1..l, k - 1 \in W PROVE k \in W
  <2> SUFFICES ASSUME NEW s \in SUBSET T, Cardinality(s) = k PROVE f[s] = g[s]
    OBVIOUS
  <2> DEFINE r == s \ {AnyOf(s)}
  <2>1. s # {} /\ IsFiniteSet(s)
    BY <1>2
  <2>2. r \in SUBSET T /\ Cardinality(r) = k - 1
    BY <2>1, AnyOfIs, LessOne
  <2>3. f[r] = g[r]
    BY <1>6, <2>2
  <2> QED
    BY <1>3, <2>1, <2>3 DEF SumStep
<1> HIDE DEF W
<1>7. \A k \in 0..l : k \in W
  BY <1>1, <1>5, <1>6, EveryPart
<1> QED
  BY <1>2, <1>7 DEF W

(* The sum a set of votes has is one of them.                              *)
LEMMA SumOfIs ==
  ASSUME NEW S, Votes(S)
  PROVE  \E sum : IsSum(sum, S) /\ SumOf(S) = sum[S]
<1> DEFINE Iter(f) == f = [s \in SUBSET S |-> IF s = {} THEN 0
                             ELSE (CHOOSE x \in s : TRUE)[2] + f[s \ {CHOOSE x \in s : TRUE}]]
           iter == CHOOSE f : Iter(f)
<1>1. SumOf(S) = iter[S]
  BY DEF SumOf, MapThenSumSet, MapThenFoldSet
<1>2. PICK sum : sum \in [SUBSET S -> Int] /\ Sums(sum, S)
  BY SumExists
<1>3. Iter(sum)
  <2>1. \A s \in SUBSET S : sum[s] = IF s = {} THEN 0
                   ELSE (CHOOSE x \in s : TRUE)[2] + sum[s \ {CHOOSE x \in s : TRUE}]
    BY <1>2 DEF Sums, SumStep, AnyOf
  <2>2. sum = [s \in SUBSET S |-> sum[s]]
    BY <1>2
  <2> QED
    BY <2>1, <2>2, Zenon
<1>4. Iter(iter)
  <2> HIDE DEF Iter
  <2> QED
    BY <1>3, Zenon
<1>5. Sums(iter, S)
  <2> HIDE DEF iter
  <2> QED
    BY <1>4 DEF Sums, SumStep, AnyOf
<1>6. iter[S] = sum[S]
  <2> HIDE DEF iter
  <2> QED
    BY <1>2, <1>5, SumsAgree DEF Votes
<1> QED
  BY <1>1, <1>2, <1>6 DEF IsSum

(* Any vote may be the one that is added last.                             *)
LEMMA AnyVoteLast ==
  ASSUME NEW S, Votes(S), NEW sum, IsSum(sum, S), NEW z \in S
  PROVE  sum[S] = z[2] + sum[S \ {z}]
<1> DEFINE l == Cardinality(S)
           W == {k \in 0..l : \A s \in SUBSET S : Cardinality(s) = k =>
                                \A y \in s : sum[s] = y[2] + sum[s \ {y}]}
<1> USE DEF IsSum
<1>1. IsFiniteSet(S) /\ l \in Nat
  BY FS_CardinalityType DEF Votes
<1>2. \A s \in SUBSET S : /\ IsFiniteSet(s) /\ Cardinality(s) \in Nat /\ Cardinality(s) <= l
                          /\ Cardinality(s) = 0 <=> s = {}
  BY <1>1, FS_Subset, FS_CardinalityType, FS_EmptySet
<1>3. 0 \in W
  BY <1>1, <1>2
<1>4. ASSUME NEW k \in 1..l, k - 1 \in W PROVE k \in W
  <2> SUFFICES ASSUME NEW s \in SUBSET S, Cardinality(s) = k, NEW y \in s
               PROVE  sum[s] = y[2] + sum[s \ {y}]
    OBVIOUS
  <2> DEFINE x == AnyOf(s)
  <2>1. x \in s /\ IsFiniteSet(s)
    BY <1>2, AnyOfIs
  <2>2. sum[s] = x[2] + sum[s \ {x}]
    BY <2>1 DEF Sums, SumStep
  <2>3. CASE x = y
    BY <2>2, <2>3
  <2>4. CASE x # y
    <3>1. /\ s \ {x} \in SUBSET S /\ Cardinality(s \ {x}) = k - 1 /\ y \in s \ {x}
          /\ s \ {y} \in SUBSET S /\ Cardinality(s \ {y}) = k - 1 /\ x \in s \ {y}
      BY <2>1, <2>4, LessOne
    <3>2. /\ sum[s \ {x}] = y[2] + sum[(s \ {x}) \ {y}]
          /\ sum[s \ {y}] = x[2] + sum[(s \ {y}) \ {x}]
      <4> HIDE DEF x
      <4> QED
        BY <1>4, <3>1
    <3>3. (s \ {x}) \ {y} = (s \ {y}) \ {x}
      OBVIOUS
    <3>4. x[2] \in Int /\ y[2] \in Int /\ sum[(s \ {x}) \ {y}] \in Int
      BY <2>1 DEF Votes
    <3> DEFINE rest == sum[(s \ {x}) \ {y}]
    <3>5. sum[s] = x[2] + (y[2] + rest) /\ sum[s \ {y}] = x[2] + rest
      BY <2>2, <3>2, <3>3
    <3>6. rest \in Int
      BY <3>4
    <3> HIDE DEF x, rest
    <3> QED
      BY <3>4, <3>5, <3>6
  <2> QED
    BY <2>3, <2>4
<1> HIDE DEF W
<1>5. \A k \in 0..l : k \in W
  BY <1>1, <1>3, <1>4, EveryPart
<1>6. l \in W
  BY <1>1, <1>5
<1> QED
  BY <1>6 DEF W

LEMMA SumOfNoVotes == SumOf({}) = 0
<1>1. Votes({})
  BY FS_EmptySet DEF Votes
<1>2. PICK sum : IsSum(sum, {}) /\ SumOf({}) = sum[{}]
  BY <1>1, SumOfIs
<1> QED
  BY <1>2 DEF IsSum, Sums, SumStep

LEMMA SumOfOneMore ==
  ASSUME NEW S, Votes(S), NEW v, v \notin S, v[2] \in Int
  PROVE  SumOf(S) \in Int /\ Votes(S \cup {v}) /\ SumOf(S \cup {v}) = SumOf(S) + v[2]
<1> DEFINE T == S \cup {v}
<1>1. Votes(T)
  BY FS_AddElement DEF Votes
<1>2. PICK f : IsSum(f, S) /\ SumOf(S) = f[S]
  BY SumOfIs
<1>3. PICK g : IsSum(g, T) /\ SumOf(T) = g[T]
  BY <1>1, SumOfIs
<1>4. g[T] = v[2] + g[T \ {v}]
  <2>1. v \in T
    OBVIOUS
  <2> HIDE DEF T
  <2> QED
    BY <1>1, <1>3, <2>1, AnyVoteLast
<1>5. g[T \ {v}] = g[S]
  <2>1. T \ {v} = S
    OBVIOUS
  <2> QED
    BY <2>1, Zenon
<1>6. g[S] = f[S]
  <2>1. S \in SUBSET T /\ S \in SUBSET S /\ IsFiniteSet(T)
    BY <1>1 DEF Votes
  <2> QED
    BY <1>2, <1>3, <2>1, SumsAgree DEF IsSum
<1>7. f[S] \in Int
  BY <1>2 DEF IsSum
<1>8. g[T] = f[S] + v[2]
  <2>1. g[T] = v[2] + f[S]
    BY <1>4, <1>5, <1>6, Zenon
  <2> QED
    BY <1>7, <2>1
<1> QED
  BY <1>1, <1>2, <1>3, <1>7, <1>8

-----------------------------------------------------------------------------
(* Every memory counts once                                                *)

(* A vote for every memory of the evidence.                                *)
Backed(votes, evidence) ==
  /\ Votes(votes) /\ IsFiniteSet(evidence)
  /\ Cardinality(votes) = Cardinality(evidence)
  /\ {v[1] : v \in votes} = evidence

IsMean(score, votes) == score[1] \in Int /\ score[2] \in Int /\ IsMeanOf(score, votes)

LEMMA NobodyVoted == Backed({}, {}) /\ IsMean(<<0, 1>>, {})
<1>1. Votes({}) /\ IsFiniteSet({}) /\ Cardinality({}) = 0
  BY FS_EmptySet DEF Votes
<1>2. {v[1] : v \in {}} = {}
  OBVIOUS
<1>3. MapThenSumSet(LAMBDA v : v[2], {}) = 0
  BY SumOfNoVotes DEF SumOf
<1>4. IsMeanOf(<<0, 1>>, {})
  BY <1>1, <1>3 DEF IsMeanOf
<1> QED
  BY <1>1, <1>2, <1>4 DEF Backed, IsMean

LEMMA VoteIsNew ==
  ASSUME NEW V, NEW E, Backed(V, E), NEW m, m \notin E, NEW x
  PROVE  /\ <<m, x>> \notin V
         /\ Cardinality(V) \in Nat
         /\ Cardinality(V \cup {<<m, x>>}) = Cardinality(V) + 1
<1> DEFINE vote == <<m, x>>
<1>1. vote[1] = m
  OBVIOUS
<1>2. IsFiniteSet(V) /\ {v[1] : v \in V} = E
  BY DEF Backed, Votes
<1>3. vote \notin V
  <2> HIDE DEF vote
  <2> QED
    BY <1>1, <1>2
<1> HIDE DEF vote
<1>4. Cardinality(V) \in Nat /\ Cardinality(V \cup {vote}) = Cardinality(V) + 1
  BY <1>2, <1>3, FS_AddElement, FS_CardinalityType
<1> QED
  BY <1>3, <1>4 DEF vote

LEMMA BackedByOneMore ==
  ASSUME NEW V, NEW E, Backed(V, E), NEW m, m \notin E, NEW x \in Int
  PROVE  /\ Backed(V \cup {<<m, x>>}, E \cup {m})
         /\ SumOf(V) \in Int
         /\ SumOf(V \cup {<<m, x>>}) = SumOf(V) + x
<1> DEFINE vote == <<m, x>>
<1>1. Votes(V) /\ IsFiniteSet(V) /\ IsFiniteSet(E) /\ {v[1] : v \in V} = E
      /\ Cardinality(V) = Cardinality(E)
  BY DEF Backed, Votes
<1>2. vote \notin V /\ vote[1] = m /\ vote[2] = x
  BY VoteIsNew
<1> HIDE DEF vote
<1>3. SumOf(V) \in Int /\ Votes(V \cup {vote}) /\ SumOf(V \cup {vote}) = SumOf(V) + vote[2]
  BY <1>1, <1>2, SumOfOneMore
<1>4. Cardinality(V) \in Nat /\ Cardinality(V \cup {vote}) = Cardinality(V) + 1
  BY <1>1, <1>2, FS_AddElement, FS_CardinalityType
<1>5. IsFiniteSet(E \cup {m}) /\ Cardinality(E \cup {m}) = Cardinality(E) + 1
  BY <1>1, FS_AddElement
<1>6. {v[1] : v \in V \cup {vote}} = E \cup {m}
  <2>1. {v[1] : v \in V \cup {vote}} = {v[1] : v \in V} \cup {vote[1]}
    OBVIOUS
  <2> QED
    BY <1>1, <1>2, <2>1
<1>7. Backed(V \cup {vote}, E \cup {m})
  BY <1>1, <1>3, <1>4, <1>5, <1>6 DEF Backed
<1> QED
  BY <1>2, <1>3, <1>4, <1>7 DEF vote

(* The mean of one vote more weighs all the votes there were.              *)
LEMMA MeanOfOneMore ==
  ASSUME NEW V, NEW E, Backed(V, E), NEW score, IsMean(score, V),
         NEW m, m \notin E, NEW x \in Int
  PROVE  IsMean(Average(score, Cardinality(E), x), V \cup {<<m, x>>})
<1> DEFINE c == Cardinality(V)
           s == SumOf(V)
           a == score[1]
           b == score[2]
           W == V \cup {<<m, x>>}
           mean == Average(score, Cardinality(E), x)
<1>1. c \in Nat /\ s \in Int /\ Cardinality(W) = c + 1 /\ SumOf(W) = s + x
  <2>1. /\ Cardinality(V) \in Nat
        /\ Cardinality(V \cup {<<m, x>>}) = Cardinality(V) + 1
    BY VoteIsNew
  <2>2. SumOf(V) \in Int
    BY BackedByOneMore
  <2>3. SumOf(W) = SumOf(V) + x
    BY BackedByOneMore
  <2> QED
    BY <2>1, <2>2, <2>3, Zenon
<1>2. a \in Int /\ b \in Int /\ a * c = b * s
  BY DEF IsMean, IsMeanOf, SumOf
<1>3. Cardinality(E) = c
  BY DEF Backed
<1>4. mean[1] \in Int /\ mean[2] \in Int /\ mean[1] * (c + 1) = mean[2] * (s + x)
  <2>1. CASE c = 0
    <3>1. V = {}
      BY <2>1, FS_EmptySet DEF Backed, Votes
    <3>2. s = 0
      BY <3>1, SumOfNoVotes
    <3>3. mean[1] = x /\ mean[2] = 1
      BY <1>3, <2>1 DEF Average
    <3> HIDE DEF mean, s, c
    <3> QED
      BY <2>1, <3>2, <3>3
  <2>2. CASE c # 0
    <3>1. mean[1] = a * c + x * b /\ mean[2] = b * (c + 1)
      BY <1>3, <2>2 DEF Average
    <3> HIDE DEF mean, s, c, a, b
    <3>2. mean[1] = b * s + b * x
      BY <1>1, <1>2, <3>1
    <3>3. mean[1] = b * (s + x)
      BY <1>1, <1>2, <3>2
    <3>4. b * (s + x) * (c + 1) = b * (c + 1) * (s + x)
      BY <1>1, <1>2
    <3>5. b * (s + x) \in Int /\ b * (c + 1) \in Int
      BY <1>1, <1>2
    <3> QED
      BY <3>1, <3>3, <3>4, <3>5
  <2> QED
    BY <2>1, <2>2
<1>5. mean[1] * Cardinality(W) = mean[2] * SumOf(W)
  <2> HIDE DEF mean, s, c, W
  <2> QED
    BY <1>1, <1>4
<1>6. IsMeanOf(mean, W)
  <2> HIDE DEF mean, W
  <2> QED
    BY <1>5 DEF IsMeanOf, SumOf
<1> QED
  BY <1>4, <1>6 DEF IsMean

(* An estimate that was not edited.                                        *)
Counted(row) ==
  /\ DOMAIN row = DOMAIN NoModel
  /\ ~row.edited => /\ Backed(row.votes, row.evidence)
                    /\ IsMean(row.score, row.votes)
                    /\ row.count = Cardinality(row.evidence)

LEMMA NothingCounted == Counted(NoModel)
BY NobodyVoted, FS_EmptySet DEF Counted, NoModel

LEMMA MergeCounts ==
  ASSUME NEW row, Counted(row), NEW pair, pair.score \in Int, NEW m
  PROVE  Counted(MergeObservation(row, pair, m))
<1> DEFINE new == MergeObservation(row, pair, m)
<1>1. CASE m \in row.evidence
  BY <1>1 DEF MergeObservation
<1>2. CASE m \notin row.evidence
  <2>1. /\ DOMAIN new = DOMAIN NoModel /\ new.edited = row.edited
        /\ new.votes = row.votes \cup {<<m, pair.score>>}
        /\ new.evidence = row.evidence \cup {m}
        /\ new.score = Average(row.score, row.count, pair.score)
        /\ new.count = row.count + 1
    BY <1>2 DEF MergeObservation, WithEvidence, Counted, NoModel
  <2> HIDE DEF new
  <2>2. CASE row.edited
    BY <2>1, <2>2 DEF Counted, new
  <2>3. CASE ~row.edited
    <3>1. /\ Backed(row.votes, row.evidence) /\ IsMean(row.score, row.votes)
          /\ row.count = Cardinality(row.evidence)
      BY <2>3 DEF Counted
    <3>2. Backed(new.votes, new.evidence)
      BY <1>2, <2>1, <3>1, BackedByOneMore
    <3>3. IsMean(new.score, new.votes)
      BY <1>2, <2>1, <3>1, MeanOfOneMore
    <3>4. new.count = Cardinality(new.evidence)
      BY <1>2, <2>1, <3>1, FS_AddElement DEF Backed
    <3> QED
      BY <2>1, <3>2, <3>3, <3>4 DEF Counted, new
  <2> QED
    BY <2>2, <2>3
<1> QED
  BY <1>1, <1>2

LEMMA EditCounts ==
  ASSUME NEW row, Counted(row), NEW edit
  PROVE  Counted(EditRow(row, edit))
<1>1. DOMAIN EditRow(row, edit) = DOMAIN NoModel /\ EditRow(row, edit).edited
  BY DEF EditRow, Counted, NoModel
<1> QED
  BY <1>1 DEF Counted

(* A belief; one that was contradicted may have a lower confidence.        *)
Weighed(row) ==
  /\ DOMAIN row = RowFields
  /\ Backed(row.votes, row.evidence)
  /\ ~row.contradicted => IsMean(row.confidence, row.votes)

LEMMA NewIsWeighed ==
  ASSUME NEW item, item.confidence \in Int, NEW m, NEW i, NEW n
  PROVE  Weighed([NewBelief(item, m) EXCEPT !.id = i, !.updated = n])
<1> DEFINE new == [NewBelief(item, m) EXCEPT !.id = i, !.updated = n]
<1>1. /\ DOMAIN new = RowFields /\ new.votes = {<<m, item.confidence>>} /\ new.evidence = {m}
      /\ new.confidence = <<item.confidence, 1>>
  BY DEF NewBelief, RowFields
<1> HIDE DEF new
<1>2. /\ {} \cup {<<m, item.confidence>>} = {<<m, item.confidence>>}
      /\ {} \cup {m} = {m}
      /\ m \notin {}
  OBVIOUS
<1>3. Backed(new.votes, new.evidence)
  <2>1. Backed({} \cup {<<m, item.confidence>>}, {} \cup {m})
    BY <1>2, NobodyVoted, BackedByOneMore, Zenon
  <2> QED
    BY <1>1, <1>2, <2>1, Zenon
<1>4. Average(<<0, 1>>, Cardinality({}), item.confidence) = <<item.confidence, 1>>
  BY FS_EmptySet DEF Average
<1>5. IsMean(new.confidence, new.votes)
  <2>1. IsMean(Average(<<0, 1>>, Cardinality({}), item.confidence),
               {} \cup {<<m, item.confidence>>})
    BY <1>2, NobodyVoted, MeanOfOneMore, Zenon
  <2> QED
    BY <1>1, <1>2, <1>4, <2>1, Zenon
<1> QED
  BY <1>1, <1>3, <1>5 DEF Weighed, new

LEMMA MergedIsWeighed ==
  ASSUME NEW row, Weighed(row), NEW item, item.confidence \in Int, NEW m, NEW n
  PROVE  Weighed([MergeBelief(row, item, m) EXCEPT !.updated = n])
<1> DEFINE merged == MergeBelief(row, item, m)
           new == [merged EXCEPT !.updated = n]
<1>1. CASE m \in row.evidence
  <2>1. merged = row
    BY <1>1 DEF MergeBelief
  <2>2. /\ DOMAIN new = RowFields /\ new.votes = row.votes /\ new.evidence = row.evidence
        /\ new.confidence = row.confidence /\ new.contradicted = row.contradicted
    BY <2>1 DEF Weighed, RowFields
  <2> HIDE DEF new
  <2> QED
    BY <2>2 DEF Weighed, new
<1>2. CASE m \notin row.evidence
  <2> DEFINE conflict == Conflict(row.stance, item.stance)
             mean == Average(row.confidence, Cardinality(row.evidence), item.confidence)
             capped == IF conflict /\ 10 * mean[1] > 6 * mean[2] THEN <<6, 10>> ELSE mean
  <2>1. merged = [row EXCEPT !.stance = MergeStance(@, item.stance),
                             !.confidence = capped,
                             !.evidence = @ \cup {m},
                             !.history = @ \cup {item.stance},
                             !.contradicted = @ \/ conflict,
                             !.votes = @ \cup {<<m, item.confidence>>}]
    BY <1>2 DEF MergeBelief
  <2>2. ~conflict => capped = mean
    OBVIOUS
  <2> HIDE DEF merged, capped, conflict, mean
  <2>3. merged.contradicted = (row.contradicted \/ conflict)
    BY <2>1 DEF Weighed, RowFields
  <2>4. /\ DOMAIN merged = RowFields /\ merged.confidence = capped
        /\ merged.evidence = row.evidence \cup {m}
        /\ merged.votes = row.votes \cup {<<m, item.confidence>>}
    BY <2>1 DEF Weighed, RowFields
  <2>5. /\ DOMAIN new = RowFields /\ new.confidence = capped
        /\ new.evidence = row.evidence \cup {m}
        /\ new.votes = row.votes \cup {<<m, item.confidence>>}
        /\ new.contradicted = merged.contradicted
    BY <2>4 DEF RowFields
  <2> HIDE DEF new
  <2>6. Backed(new.votes, new.evidence)
    BY <1>2, <2>5, BackedByOneMore DEF Weighed
  <2>7. ASSUME ~new.contradicted PROVE IsMean(new.confidence, new.votes)
    <3>1. ~row.contradicted /\ ~conflict
      BY <2>3, <2>5, <2>7
    <3>2. new.confidence = mean
      BY <2>2, <2>5, <3>1
    <3> QED
      BY <1>2, <2>5, <3>1, <3>2, MeanOfOneMore DEF Weighed, mean
  <2> QED
    BY <2>5, <2>6, <2>7 DEF Weighed, new, merged
<1> QED
  BY <1>1, <1>2

(* The beliefs of the model's answers, under the topics they get.          *)
Said == UNION {ToSet(answer) : answer \in BeliefAnswers}

Under(item, m) == [item EXCEPT !.topic = TopicOf(item, m)]

Voiced == UNION {{Under(item, m) : item \in Said} : m \in Memories}

LEMMA VoicedHasConfidence == \A item \in Voiced : item.confidence \in Int
<1> SUFFICES ASSUME NEW i \in Said, NEW m \in Memories PROVE Under(i, m).confidence \in Int
  BY DEF Voiced
<1>1. "confidence" \in DOMAIN i /\ i.confidence \in Int
  BY BeliefsAssumption DEF Said
<1>2. Under(i, m).confidence = i.confidence
  BY <1>1 DEF Under
<1> QED
  BY <1>1, <1>2

LEMMA PairHasScore ==
  ASSUME NEW pair \in Asked, NEW m
  PROVE  pair.score \in Int /\ Resolve(pair, m).score \in Int
<1>1. PICK q \in UNION {ToSet(answer) : answer \in PairAnswers} :
         pair = [q EXCEPT !.score = Clamp(@)]
  BY DEF Asked
<1>2. /\ DOMAIN q = {"person", "personAliases", "topic", "topicAliases", "score"}
      /\ q.score \in Int /\ MaxScore \in Int
  BY PairsAssumption
<1>3. Clamp(q.score) \in Int
  BY <1>2 DEF Clamp
<1>4. DOMAIN pair = DOMAIN q /\ pair.score = Clamp(q.score)
  BY <1>1, <1>2
<1>5. Resolve(pair, m).score = pair.score
  BY <1>2, <1>4 DEF Resolve
<1> QED
  BY <1>3, <1>4, <1>5

(* What a handler is about to merge into counts every memory once.         *)
WorkCounts(w) ==
  /\ w.op = "belief" => /\ w.items \in Seq(Voiced)
                        /\ w.pc \in {"topic_write", "row", "row_write"} => w.items # <<>>
  /\ w.pc = "row_write" =>
       IF w.op = "belief" THEN w.read = <<>> \/ \E row : w.read = <<row>> /\ Weighed(row)
       ELSE Counted(w.read)

TallyInv ==
  /\ \A p, t \in Names : Counted(models[<<p, t>>])
  /\ \A i \in DOMAIN beliefs : Weighed(beliefs[i])
  /\ \A h \in Handlers : WorkCounts(work[h])

LEMMA TallyStarts == ViewsInit => TallyInv
<1> SUFFICES ASSUME ViewsInit PROVE TallyInv
  OBVIOUS
<1>1. /\ models = [pair \in Names \X Names |-> NoModel]
      /\ work = [h \in Handlers |-> NoWork]
      /\ beliefs = <<>>
  BY DEF ViewsInit, ModelsInit, NamesInit, BeliefsInit
<1>2. WorkCounts(NoWork)
  BY DEF WorkCounts, NoWork
<1> QED
  BY <1>1, <1>2, NothingCounted DEF TallyInv

LEMMA TallyMoves ==
  ASSUME NamedInv, TallyInv, NEW h \in Handlers, NEW v, work' = [work EXCEPT ![h] = v],
         WorkCounts(v), UNCHANGED <<models, beliefs>>
  PROVE  TallyInv'
BY DEF TallyInv, NamedInv

LEMMA NoWorkCounts == WorkCounts(NoWork)
BY DEF WorkCounts, NoWork

(* The statements on people, topics and estimates.                         *)
LEMMA TallyModelStep ==
  ASSUME NamedInv, TallyInv, NEW h \in Handlers, ModelStep(h), UNCHANGED beliefs
  PROVE  TallyInv'
<1> DEFINE w == work[h]
<1>1. DOMAIN w = DOMAIN NoWork /\ WorkNamed(w)
  BY DEF NamedInv, WorkNamed
<1>2. DOMAIN NoWork = {"op", "pc", "memory", "items", "read"}
  BY DEF NoWork
<1>3. ASSUME NEW v, work' = [work EXCEPT ![h] = v], v.op # "belief", v.pc # "row_write",
             UNCHANGED models
      PROVE  TallyInv'
  <2>1. WorkCounts(v)
    BY <1>3 DEF WorkCounts
  <2> QED
    BY <1>3, <2>1, TallyMoves
<1>4. ASSUME NEW pc, pc # "row_write", w.op # "belief", work' = [work EXCEPT ![h].pc = pc],
             UNCHANGED models
      PROVE  TallyInv'
  <2> DEFINE v == [w EXCEPT !.pc = pc]
  <2>1. work' = [work EXCEPT ![h] = v] /\ v.op # "belief" /\ v.pc # "row_write"
    BY <1>1, <1>2, <1>4 DEF NamedInv
  <2> HIDE DEF v
  <2> QED
    BY <1>3, <1>4, <2>1
<1>5. ASSUME NEW x, NEW pc, pc # "row_write", w.op # "belief",
             work' = [work EXCEPT ![h].read = x, ![h].pc = pc], UNCHANGED models
      PROVE  TallyInv'
  <2> DEFINE v == [w EXCEPT !.read = x, !.pc = pc]
  <2>1. work' = [work EXCEPT ![h] = v] /\ v.op # "belief" /\ v.pc # "row_write"
    BY <1>1, <1>2, <1>5 DEF NamedInv
  <2> HIDE DEF v
  <2> QED
    BY <1>3, <1>5, <2>1
<1>6. CASE AskForPairs(h)
  <2>1. PICK x : work' = [work EXCEPT ![h].pc = "item", ![h].items = x]
    BY <1>6 DEF AskForPairs
  <2>2. w.op = "person_model" /\ UNCHANGED models
    BY <1>6 DEF AskForPairs, modelVars
  <2> DEFINE v == [w EXCEPT !.pc = "item", !.items = x]
  <2>3. work' = [work EXCEPT ![h] = v] /\ v.op # "belief" /\ v.pc # "row_write"
    BY <1>1, <1>2, <2>1, <2>2 DEF NamedInv
  <2> HIDE DEF v
  <2> QED
    BY <1>3, <2>2, <2>3
<1>7. CASE SkipPair(h)
  <2>1. /\ w.op = "person_model" /\ w.pc = "item" /\ UNCHANGED models
        /\ work' = [work EXCEPT ![h].items = Tail(@)]
    BY <1>7 DEF SkipPair, modelVars
  <2> DEFINE v == [w EXCEPT !.items = Tail(@)]
  <2>2. work' = [work EXCEPT ![h] = v] /\ v.op # "belief" /\ v.pc # "row_write"
    BY <1>1, <1>2, <2>1 DEF NamedInv
  <2> HIDE DEF v
  <2> QED
    BY <1>3, <2>1, <2>2
<1>8. CASE SubmitEdit(h)
  <2>1. PICK x : work' = [work EXCEPT ![h] = [NoWork EXCEPT !.op = "edit", !.pc = "item", !.items = x]]
    BY <1>8 DEF SubmitEdit, Begin
  <2> DEFINE v == [NoWork EXCEPT !.op = "edit", !.pc = "item", !.items = x]
  <2>2. v.op # "belief" /\ v.pc # "row_write" /\ UNCHANGED models
    BY <1>2, <1>8 DEF SubmitEdit
  <2> HIDE DEF v
  <2> QED
    BY <1>3, <2>1, <2>2 DEF v
<1>9. CASE RefuseEdit(h)
  BY <1>9, NoWorkCounts, TallyMoves DEF RefuseEdit, Answer, modelVars
<1>10. CASE ReadPerson(h) \/ ReadTopic(h)
  <2>1. w.op # "belief" /\ UNCHANGED models
    BY <1>10 DEF ReadPerson, ReadTopic, Observing, modelVars
  <2>2. \/ \E x, pc : pc # "row_write" /\ work' = [work EXCEPT ![h].read = x, ![h].pc = pc]
        \/ \E pc : pc # "row_write" /\ work' = [work EXCEPT ![h].pc = pc]
    BY <1>10 DEF ReadPerson, ReadTopic, ReadName, Step
  <2> QED
    BY <1>4, <1>5, <2>1, <2>2
<1>11. CASE WritePerson(h) \/ WriteTopic(h)
  <2>1. w.op # "belief" /\ UNCHANGED models
    BY <1>1, <1>11 DEF WorkNamed, WritePerson, WriteTopic, Observing, modelVars
  <2>2. \E x, pc : pc # "row_write" /\ work' = [work EXCEPT ![h].read = x, ![h].pc = pc]
    BY <1>11 DEF WritePerson, WriteTopic, WriteName
  <2> QED
    BY <1>5, <2>1, <2>2
<1>12. CASE ReadModel(h) \/ SaveModel(h)
  <2>1. /\ w.op \in {"person_model", "edit"} /\ w.pc \in {"row", "row_write"}
        /\ Pair(h) = PairIn(w)
    BY <1>12 DEF ReadModel, SaveModel, Observing, Pair, PairIn, Item
  <2>2. PairIn(w).person \in Names /\ PairIn(w).topic \in Names /\ w.items # <<>>
    BY <1>1, <2>1 DEF WorkNamed, AtPair
  <2> DEFINE p == PairIn(w).person
             t == PairIn(w).topic
  <2>3. CASE ReadModel(h)
    <3> DEFINE row == models[<<p, t>>]
               v == [w EXCEPT !.read = row, !.pc = "row_write"]
    <3>1. Counted(row)
      BY <2>2 DEF TallyInv
    <3>2. work' = [work EXCEPT ![h] = v] /\ UNCHANGED models
      BY <1>1, <1>2, <2>1, <2>3 DEF NamedInv, ReadModel, modelVars
    <3>3. v.op = w.op /\ v.read = row
      BY <1>1, <1>2
    <3> HIDE DEF v, row
    <3>4. WorkCounts(v)
      BY <2>1, <3>1, <3>3 DEF WorkCounts
    <3> QED
      BY <3>2, <3>4, TallyMoves
  <2>4. CASE SaveModel(h)
    <3> DEFINE new == IF w.op = "edit" THEN EditRow(w.read, Pair(h))
                      ELSE MergeObservation(w.read, Pair(h), w.memory)
               v == [w EXCEPT !.items = Tail(@), !.read = Nothing, !.pc = "item"]
    <3>1. /\ models' = [models EXCEPT ![<<p, t>>] = new]
          /\ work' = [work EXCEPT ![h] = v]
          /\ w.pc = "row_write"
      BY <2>1, <2>4 DEF SaveModel
    <3>2. Counted(w.read)
      BY <2>1, <3>1 DEF TallyInv, WorkCounts
    <3>3. Counted(new)
      <4>1. CASE w.op = "edit"
        BY <3>2, <4>1, EditCounts
      <4>2. CASE w.op = "person_model"
        <5>1. Head(w.items) \in Asked
          BY <1>1, <2>2, <4>2 DEF WorkNamed
        <5>2. Pair(h).score \in Int
          BY <2>1, <4>2, <5>1, PairHasScore DEF PairIn
        <5> QED
          BY <3>2, <4>2, <5>2, MergeCounts
      <4> QED
        BY <2>1, <4>1, <4>2
    <3>4. v.op = w.op /\ v.pc = "item"
      BY <1>1, <1>2
    <3> HIDE DEF v, new, p, t
    <3>5. WorkCounts(v)
      BY <2>1, <3>4 DEF WorkCounts
    <3>6. \A q, s \in Names : Counted(models'[<<q, s>>])
      BY <3>1, <3>3 DEF TallyInv, NamedInv
    <3> QED
      BY <3>1, <3>5, <3>6 DEF TallyInv, NamedInv
  <2> QED
    BY <1>12, <2>3, <2>4
<1> QED
  BY <1>6, <1>7, <1>8, <1>9, <1>10, <1>11, <1>12 DEF ModelStep

(* The statements on beliefs.                                              *)
LEMMA TallyBeliefStep ==
  ASSUME NamedInv, BelievedInv, TallyInv, NEW h \in Handlers, BeliefStep(h), UNCHANGED models
  PROVE  TallyInv'
<1> DEFINE w == work[h]
<1>1. DOMAIN w = DOMAIN NoWork /\ WorkNamed(w) /\ WorkCounts(w) /\ w.op = "belief"
  BY DEF NamedInv, WorkNamed, TallyInv, BeliefStep, AskForBeliefs, ReadBeliefTopic,
     WriteBeliefTopic, ReadBelief, SaveBelief
<1>2. DOMAIN NoWork = {"op", "pc", "memory", "items", "read"}
  BY DEF NoWork
<1>3. w.memory \in Memories /\ w.items \in Seq(Voiced)
  BY <1>1 DEF WorkNamed, WorkCounts
<1>4. ASSUME NEW v, work' = [work EXCEPT ![h] = v], v.op = "belief", v.items = w.items,
             v.pc # "row_write", w.items # <<>>, UNCHANGED beliefs
      PROVE  TallyInv'
  <2>1. WorkCounts(v)
    BY <1>3, <1>4 DEF WorkCounts
  <2> QED
    BY <1>4, <2>1, TallyMoves
<1>5. CASE AskForBeliefs(h)
  <2>1. PICK answer \in BeliefAnswers \cup {<<>>} :
          work' = [work EXCEPT ![h].pc = "item", ![h].items =
                     [i \in DOMAIN answer |-> [answer[i] EXCEPT !.topic = TopicOf(answer[i], w.memory)]]]
    BY <1>5 DEF AskForBeliefs
  <2> DEFINE said == [i \in DOMAIN answer |-> [answer[i] EXCEPT !.topic = TopicOf(answer[i], w.memory)]]
             v == [w EXCEPT !.pc = "item", !.items = said]
  <2>2. said \in Seq(Voiced)
    <3>1. CASE answer = <<>>
      <4>1. said = <<>>
        BY <3>1
      <4> HIDE DEF said
      <4> QED
        BY <4>1
    <3>2. CASE answer \in BeliefAnswers
      <4>1. answer \in Seq(ToSet(answer))
        BY <3>2, BeliefsAssumption
      <4>2. DOMAIN answer = 1..Len(answer) /\ Len(answer) \in Nat
        BY <4>1
      <4>3. ASSUME NEW i \in DOMAIN answer PROVE said[i] \in Voiced
        <5>1. answer[i] \in Said
          BY <3>2, <4>3 DEF ToSet, Said
        <5>2. said[i] = Under(answer[i], w.memory)
          BY <4>3 DEF Under
        <5> HIDE DEF said
        <5> QED
          BY <1>3, <5>1, <5>2 DEF Voiced
      <4>4. DOMAIN said = 1..Len(answer)
        BY <4>2
      <4>5. said = [i \in 1..Len(answer) |-> said[i]]
        BY <4>2
      <4> HIDE DEF said
      <4> QED
        BY <4>2, <4>3, <4>4, <4>5
    <3> QED
      BY <2>1, <3>1, <3>2
  <2> HIDE DEF said
  <2>3. work' = [work EXCEPT ![h] = v] /\ UNCHANGED beliefs
    BY <1>1, <1>5, <2>1 DEF NamedInv, AskForBeliefs, said
  <2>4. v.op = "belief" /\ v.pc = "item" /\ v.items = said
    BY <1>1, <1>2
  <2> HIDE DEF v
  <2>5. WorkCounts(v)
    BY <2>2, <2>4 DEF WorkCounts
  <2> QED
    BY <2>3, <2>5, TallyMoves
<1>6. CASE ReadBeliefTopic(h) \/ WriteBeliefTopic(h)
  <2>1. w.items # <<>> /\ UNCHANGED beliefs
    BY <1>1, <1>6 DEF ReadBeliefTopic, WriteBeliefTopic, WorkCounts
  <2>2. \/ \E x, pc : pc # "row_write" /\ work' = [work EXCEPT ![h].read = x, ![h].pc = pc]
        \/ \E pc : pc # "row_write" /\ work' = [work EXCEPT ![h].pc = pc]
    BY <1>6 DEF ReadBeliefTopic, WriteBeliefTopic, ReadName, WriteName, Step
  <2>3. ASSUME NEW x, NEW pc, pc # "row_write", work' = [work EXCEPT ![h].read = x, ![h].pc = pc]
        PROVE  TallyInv'
    <3> DEFINE v == [w EXCEPT !.read = x, !.pc = pc]
    <3>1. /\ work' = [work EXCEPT ![h] = v] /\ v.op = "belief" /\ v.pc # "row_write"
          /\ v.items = w.items
      BY <1>1, <1>2, <2>3 DEF NamedInv
    <3> HIDE DEF v
    <3> QED
      BY <1>4, <2>1, <3>1
  <2>4. ASSUME NEW pc, pc # "row_write", work' = [work EXCEPT ![h].pc = pc]
        PROVE  TallyInv'
    <3> DEFINE v == [w EXCEPT !.pc = pc]
    <3>1. /\ work' = [work EXCEPT ![h] = v] /\ v.op = "belief" /\ v.pc # "row_write"
          /\ v.items = w.items
      BY <1>1, <1>2, <2>4 DEF NamedInv
    <3> HIDE DEF v
    <3> QED
      BY <1>4, <2>1, <3>1
  <2> QED
    BY <2>2, <2>3, <2>4
<1>7. CASE ReadBelief(h)
  <2> DEFINE i == Newest(Item(h).claim, Item(h).topic)
             read == IF i = 0 THEN <<>> ELSE <<beliefs[i]>>
             v == [w EXCEPT !.read = read, !.pc = "row_write"]
  <2>1. work' = [work EXCEPT ![h] = v] /\ UNCHANGED beliefs /\ w.items # <<>>
    BY <1>1, <1>7 DEF ReadBelief, NamedInv, WorkCounts
  <2>2. i = 0 \/ i \in DOMAIN beliefs
    BY NewestIsARow
  <2>3. read = <<>> \/ \E row : read = <<row>> /\ Weighed(row)
    <3> HIDE DEF i
    <3> QED
      BY <2>2 DEF TallyInv
  <2>4. v.op = "belief" /\ v.read = read /\ v.items = w.items
    BY <1>1, <1>2
  <2> HIDE DEF v, read
  <2>5. WorkCounts(v)
    BY <1>3, <2>1, <2>3, <2>4 DEF WorkCounts
  <2> QED
    BY <2>1, <2>5, TallyMoves
<1>8. CASE SaveBelief(h)
  <2> DEFINE v == [w EXCEPT !.items = Tail(@), !.read = Nothing, !.pc = "item"]
  <2>1. w.pc = "row_write" /\ work' = [work EXCEPT ![h] = v]
    BY <1>8 DEF SaveBelief
  <2>2. w.items # <<>> /\ (w.read = <<>> \/ \E row : w.read = <<row>> /\ Weighed(row))
    BY <1>1, <2>1 DEF WorkCounts
  <2>3. Item(h).confidence \in Int
    BY <1>3, <2>2, VoicedHasConfidence DEF Item
  <2>4. v.op = "belief" /\ v.pc = "item" /\ v.items = Tail(w.items)
    BY <1>1, <1>2
  <2>5. Tail(w.items) \in Seq(Voiced)
    BY <1>3, <2>2
  <2> HIDE DEF v
  <2>6. WorkCounts(v)
    BY <2>4, <2>5 DEF WorkCounts
  <2>7. Len(beliefs) \in Nat /\ DOMAIN beliefs = 1..Len(beliefs) /\ beliefs \in Seq(ToSet(beliefs))
    BY DEF BelievedInv
  <2>8. \A i \in DOMAIN beliefs' : Weighed(beliefs'[i])
    <3>1. CASE w.read = <<>>
      <4> DEFINE new == [NewBelief(Item(h), w.memory) EXCEPT !.id = Len(beliefs) + 1, !.updated = Now]
      <4>1. Weighed(new)
        BY <2>3, NewIsWeighed
      <4>2. beliefs' = Append(beliefs, new)
        BY <1>8, <3>1 DEF SaveBelief
      <4> HIDE DEF new
      <4>3. /\ DOMAIN beliefs' = 1..(Len(beliefs) + 1)
            /\ \A i \in 1..Len(beliefs) : beliefs'[i] = beliefs[i]
            /\ beliefs'[Len(beliefs) + 1] = new
        BY <2>7, <4>2
      <4>4. \A i \in DOMAIN beliefs' : i \in DOMAIN beliefs \/ i = Len(beliefs) + 1
        BY <2>7, <4>3
      <4> QED
        BY <2>7, <4>1, <4>3, <4>4 DEF TallyInv
    <3>2. CASE w.read # <<>>
      <4>1. PICK row : w.read = <<row>> /\ Weighed(row)
        BY <2>2, <3>2
      <4> DEFINE new == [MergeBelief(row, Item(h), w.memory) EXCEPT !.updated = Now]
      <4>2. w.read[1] = row
        BY <4>1
      <4>3. Weighed(new)
        BY <2>3, <4>1, MergedIsWeighed
      <4>4. beliefs' = [beliefs EXCEPT ![row.id] = new]
        BY <1>8, <3>2, <4>2 DEF SaveBelief
      <4> HIDE DEF new
      <4> QED
        BY <4>3, <4>4 DEF TallyInv
    <3> QED
      BY <3>1, <3>2
  <2> QED
    BY <2>1, <2>6, <2>8 DEF TallyInv, NamedInv
<1> QED
  BY <1>5, <1>6, <1>7, <1>8 DEF BeliefStep

LEMMA TallyStep ==
  ASSUME NamedInv, BelievedInv, TallyInv, [ViewsNext]_viewVars
  PROVE  TallyInv'
<1>1. CASE UNCHANGED viewVars
  BY <1>1 DEF TallyInv, viewVars, modelVars
<1>2. ASSUME NEW h \in Handlers, ModelStep(h), UNCHANGED beliefs
      PROVE  TallyInv'
  BY <1>2, TallyModelStep
<1>3. ASSUME NEW h \in Handlers, BeliefStep(h), UNCHANGED modelVars
      PROVE  TallyInv'
  BY <1>3, TallyBeliefStep DEF modelVars
<1>4. ASSUME NEW h \in Handlers, Answer(h), UNCHANGED <<models, beliefs>>
      PROVE  TallyInv'
  BY <1>4, NoWorkCounts, TallyMoves DEF Answer
<1>5. ASSUME NEW h \in Handlers, NEW m \in Memories, Process(h, m), UNCHANGED <<models, beliefs>>
      PROVE  TallyInv'
  <2> DEFINE v == [NoWork EXCEPT !.op = "ingest", !.pc = "taxonomy", !.memory = m, !.read = Taxonomy(m)]
  <2>1. work' = [work EXCEPT ![h] = v]
    BY <1>5 DEF Process, Begin
  <2>2. v.pc = "taxonomy" /\ v.items = <<>>
    BY DEF NoWork
  <2> HIDE DEF v
  <2>3. WorkCounts(v)
    BY <2>2 DEF WorkCounts
  <2> QED
    BY <1>5, <2>1, <2>3, TallyMoves
<1>6. ASSUME NEW h \in Handlers, CompleteStage(h), UNCHANGED <<models, beliefs>>
      PROVE  TallyInv'
  <2>1. CASE Answer(h)
    BY <1>4, <1>6, <2>1
  <2>2. ASSUME NEW op, work' = [work EXCEPT ![h].op = op, ![h].pc = "ask"]
        PROVE  TallyInv'
    <3> DEFINE v == [work[h] EXCEPT !.op = op, !.pc = "ask"]
    <3>1. work' = [work EXCEPT ![h] = v]
      BY <2>2 DEF NamedInv
    <3>2. v.pc = "ask" /\ v.items = <<>>
      BY <1>6 DEF NamedInv, WorkNamed, NoWork, CompleteStage
    <3> HIDE DEF v
    <3>3. WorkCounts(v)
      BY <3>2 DEF WorkCounts
    <3> QED
      BY <1>6, <3>1, <3>3, TallyMoves
  <2> QED
    BY <1>6, <2>1, <2>2 DEF CompleteStage
<1>7. ASSUME NEW h \in Handlers, UpsertTaxonomy(h), UNCHANGED <<models, beliefs>>
      PROVE  TallyInv'
  <2>1. PICK row \in work[h].read : work' = [work EXCEPT ![h].read = @ \ {row}]
    BY <1>7 DEF UpsertTaxonomy
  <2> DEFINE v == [work[h] EXCEPT !.read = @ \ {row}]
  <2>2. work' = [work EXCEPT ![h] = v]
    BY <2>1 DEF NamedInv
  <2>3. v.pc = "taxonomy" /\ v.op = "ingest"
    BY <1>7 DEF NamedInv, WorkNamed, NoWork, UpsertTaxonomy
  <2> HIDE DEF v
  <2>4. WorkCounts(v)
    BY <2>3 DEF WorkCounts
  <2> QED
    BY <1>7, <2>2, <2>4, TallyMoves
<1>8. ASSUME NEW h \in Handlers, StartStages(h), UNCHANGED <<models, beliefs>>
      PROVE  TallyInv'
  <2>1. CASE Answer(h)
    BY <1>4, <1>8, <2>1
  <2>2. ASSUME NEW op, work' = [work EXCEPT ![h].op = op, ![h].pc = "ask", ![h].read = Nothing]
        PROVE  TallyInv'
    <3> DEFINE v == [work[h] EXCEPT !.op = op, !.pc = "ask", !.read = Nothing]
    <3>1. work' = [work EXCEPT ![h] = v]
      BY <2>2 DEF NamedInv
    <3>2. v.pc = "ask" /\ v.items = <<>>
      BY <1>8 DEF NamedInv, WorkNamed, NoWork, StartStages
    <3> HIDE DEF v
    <3>3. WorkCounts(v)
      BY <3>2 DEF WorkCounts
    <3> QED
      BY <1>8, <3>1, <3>3, TallyMoves
  <2> QED
    BY <1>8, <2>1, <2>2 DEF StartStages
<1> QED
  BY <1>1, <1>2, <1>3, <1>4, <1>5, <1>6, <1>7, <1>8 DEF ViewsNext, HandlerFails, modelVars

(* DerivedViews.EachMemoryCountsOnce: whatever failed, was repeated or ran *)
(* beside it, the score of an estimate that nobody edited, and the         *)
(* confidence of a belief that was never contradicted, is the mean of one  *)
(* vote for each memory of its evidence.                                   *)
THEOREM EachMemoryCountsOnceAlways == ViewsSpec => []EachMemoryCountsOnce
<1>1. NamedInv /\ BelievedInv /\ TallyInv => EachMemoryCountsOnce
  <2> SUFFICES ASSUME NamedInv, BelievedInv, TallyInv PROVE EachMemoryCountsOnce
    OBVIOUS
  <2>1. ASSUME NEW pair \in DOMAIN models
        PROVE  LET row == models[pair]
               IN row.there /\ ~row.edited =>
                    /\ row.count = Cardinality(row.evidence)
                    /\ {v[1] : v \in row.votes} = row.evidence
                    /\ IsMeanOf(row.score, row.votes)
    <3>1. Counted(models[pair])
      BY <2>1 DEF NamedInv, TallyInv
    <3> QED
      BY <3>1 DEF Counted, Backed, IsMean
  <2>2. ASSUME NEW b \in ToSet(beliefs)
        PROVE  /\ {v[1] : v \in b.votes} = b.evidence
               /\ ~b.contradicted => IsMeanOf(b.confidence, b.votes)
    <3>1. Weighed(b)
      BY <2>2 DEF TallyInv, ToSet
    <3> QED
      BY <3>1 DEF Weighed, Backed, IsMean
  <2> QED
    BY <2>1, <2>2 DEF EachMemoryCountsOnce
<1>2. ViewsInit => NamedInv /\ BelievedInv /\ TallyInv
  BY NamedStarts, BelievedStarts, TallyStarts
<1>3. NamedInv /\ BelievedInv /\ TallyInv /\ [ViewsNext]_viewVars
        => (NamedInv /\ BelievedInv /\ TallyInv)'
  BY NamedStep, BelievedStep, TallyStep
<1> QED
  BY <1>1, <1>2, <1>3, PTL DEF ViewsSpec
=============================================================================
