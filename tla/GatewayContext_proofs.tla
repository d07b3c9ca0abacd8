----------------------- MODULE GatewayContext_proofs -----------------------
(***************************************************************************)
(* Proofs about what the gateway learns from words and what it tells the   *)
(* model: extracted memories (MemoryExtraction), reports of outcomes       *)
(* (OutcomeContext), the search for memories (MemorySearch) and the        *)
(* context of a response (ContextAssembly).                                *)
(*                                                                         *)
(* The argument: of the items with the same key FirstOfEach keeps the      *)
(* first, so that a list which was merged has nobody twice and loses       *)
(* nobody when it is merged again; what a memory has of its entities is    *)
(* always a first part of the answer that was accepted; conversations only *)
(* grow, so that what a report was found to be about stays true while its  *)
(* handler is at work, and what is found later is not older; a selection   *)
(* leaves a candidate out only for one it has taken before; and what the   *)
(* budgets leave fits, part by part, so that nothing is cut twice.         *)
(***************************************************************************)
EXTENDS GatewayRequests_proofs, MemoryExtraction, OutcomeContext, ContextAssembly, SequenceTheorems

-----------------------------------------------------------------------------
(* Lists of names                                                          *)

(* What FirstOfEach computes, up to the n-th item.                         *)
FirstStep(list, key, kept, n) ==
  IF n = 0 THEN <<>>
  ELSE IF /\ list[n] \in DOMAIN key
          /\ \A e \in ToSet(kept[n - 1]) : key[e] # key[list[n]]
       THEN Append(kept[n - 1], list[n])
       ELSE kept[n - 1]

(* The recursion is well-defined: the least length for which it is not     *)
(* does not exist.                                                         *)
LEMMA FirstIsDefined ==
  ASSUME NEW list, NEW key, NEW l \in Nat
  PROVE  \E kept : kept = [n \in 0..l |-> FirstStep(list, key, kept, n)]
<1> DEFINE Some(m) == \E kept : kept = [n \in 0..m |-> FirstStep(list, key, kept, n)]
           Without == {m \in Nat : ~Some(m)}
<1> SUFFICES ASSUME l \in Without PROVE FALSE
  OBVIOUS
<1>1. PICK m \in Without : \A y \in Without : m <= y
  <2> HIDE DEF Without
  <2>1. Without \subseteq Nat /\ Without # {}
    BY DEF Without
  <2> QED
    BY <2>1, LeastNumber, Zenon
<1>2. m \in Nat /\ ~Some(m)
  OBVIOUS
<1>3. CASE m = 0
  <2> DEFINE kept == [n \in 0..0 |-> <<>>]
  <2>1. kept = [n \in 0..0 |-> FirstStep(list, key, kept, n)]
    BY DEF FirstStep
  <2> QED
    BY <1>2, <1>3, <2>1
<1>4. CASE m # 0
  <2>1. m - 1 \in Nat /\ m - 1 \notin Without
    BY <1>1, <1>2, <1>4
  <2>2. PICK kept : kept = [n \in 0..m - 1 |-> FirstStep(list, key, kept, n)]
    BY <2>1
  <2> DEFINE more == [n \in 0..m |-> IF n = m THEN FirstStep(list, key, kept, m) ELSE kept[n]]
  <2>3. \A n \in 0..m - 1 : more[n] = kept[n]
    BY <1>2
  <2>4. \A n \in 0..m : FirstStep(list, key, more, n) = FirstStep(list, key, kept, n)
    <3> TAKE n \in 0..m
    <3>1. CASE n = 0
      BY <3>1 DEF FirstStep
    <3>2. CASE n # 0
      <4>1. n - 1 \in 0..m - 1
        BY <1>2, <3>2
      <4>2. more[n - 1] = kept[n - 1]
        BY <2>3, <4>1
      <4> HIDE DEF more
      <4> QED
        BY <4>2 DEF FirstStep
    <3> QED
      BY <3>1, <3>2
  <2>5. \A n \in 0..m : more[n] = FirstStep(list, key, kept, n)
    <3> TAKE n \in 0..m
    <3>1. n = m \/ n \in 0..m - 1
      BY <1>2
    <3> QED
      BY <2>2, <2>3, <3>1
  <2>6. more = [n \in 0..m |-> FirstStep(list, key, more, n)]
    BY <2>4, <2>5
  <2> HIDE DEF more
  <2>7. Some(m)
    BY <2>6
  <2> QED
    BY <1>2, <2>7
<1> QED
  BY <1>3, <1>4

(* First of the items with its key. *)
IsFirst(list, key, i) ==
  /\ list[i] \in DOMAIN key
  /\ \A j \in 1..i - 1 : list[j] \in DOMAIN key => key[list[j]] # key[list[i]]

(* What FirstOfEach keeps: the items that are the first of their key, each *)
(* once, and every key there is.                                           *)
LEMMA FirstOfEachIs ==
  ASSUME NEW S, NEW list \in Seq(S), NEW key
  PROVE  /\ FirstOfEach(list, key) \in Seq(S)
         /\ ToSet(FirstOfEach(list, key))
              = {list[i] : i \in {j \in DOMAIN list : IsFirst(list, key, j)}}
         /\ \A i, j \in DOMAIN FirstOfEach(list, key) :
              key[FirstOfEach(list, key)[i]] = key[FirstOfEach(list, key)[j]] => i = j
         /\ \A j \in DOMAIN list : list[j] \in DOMAIN key =>
              \E e \in ToSet(FirstOfEach(list, key)) : key[e] = key[list[j]]
<1> DEFINE l == Len(list)
           kept == CHOOSE f : f = [n \in 0..l |-> FirstStep(list, key, f, n)]
           Firsts(n) == {list[i] : i \in {j \in 1..n : IsFirst(list, key, j)}}
           Right(n) == /\ kept[n] \in Seq(S)
                       /\ ToSet(kept[n]) = Firsts(n)
                       /\ \A i, j \in DOMAIN kept[n] :
                            key[kept[n][i]] = key[kept[n][j]] => i = j
                       /\ \A j \in 1..n : list[j] \in DOMAIN key =>
                            \E e \in ToSet(kept[n]) : key[e] = key[list[j]]
           Wrong == {n \in 0..l : ~Right(n)}
<1>1. l \in Nat /\ DOMAIN list = 1..l /\ \A i \in 1..l : list[i] \in S
  OBVIOUS
<1>2. kept = [n \in 0..l |-> FirstStep(list, key, kept, n)]
  <2>1. \E f : f = [n \in 0..l |-> FirstStep(list, key, f, n)]
    BY <1>1, FirstIsDefined
  <2> QED
    BY <2>1
<1>3. FirstOfEach(list, key) = kept[l]
  BY DEF FirstOfEach, FirstStep
<1> HIDE DEF kept
<1>4. \A n \in 0..l : kept[n] = FirstStep(list, key, kept, n)
  BY <1>2
<1>5. Right(0)
  <2>1. kept[0] = <<>>
    BY <1>1, <1>4 DEF FirstStep
  <2>2. Firsts(0) = {}
    BY <1>1
  <2> QED
    BY <2>1, <2>2 DEF ToSet
<1>6. ASSUME NEW n \in 1..l, Right(n - 1) PROVE Right(n)
  <2>1. /\ n - 1 \in 0..l /\ n \in 0..l /\ n # 0
        /\ list[n] \in S /\ kept[n - 1] \in Seq(S)
        /\ \A i : i \in 1..n <=> i \in 1..n - 1 \/ i = n
    BY <1>1, <1>6
  <2> DEFINE before == kept[n - 1]
             e == list[n]
  <2>2. kept[n] = IF e \in DOMAIN key /\ \A d \in ToSet(before) : key[d] # key[e]
                  THEN Append(before, e) ELSE before
    BY <1>4, <2>1 DEF FirstStep
  <2>3. \A d \in ToSet(before) : \E i \in 1..n - 1 : d = list[i] /\ IsFirst(list, key, i)
    BY <1>6
  <2>4. CASE e \in DOMAIN key /\ \A d \in ToSet(before) : key[d] # key[e]
    <3>1. IsFirst(list, key, n)
      <4> SUFFICES ASSUME NEW j \in 1..n - 1, list[j] \in DOMAIN key
                   PROVE  key[list[j]] # key[e]
        BY <2>4 DEF IsFirst
      <4>1. PICK d \in ToSet(before) : key[d] = key[list[j]]
        BY <1>6
      <4> QED
        BY <2>4, <4>1
    <3>2. Firsts(n) = Firsts(n - 1) \cup {e}
      BY <2>1, <3>1
    <3>3. /\ kept[n] \in Seq(S)
          /\ Len(kept[n]) = Len(before) + 1 /\ Len(before) \in Nat
          /\ DOMAIN before = 1..Len(before) /\ DOMAIN kept[n] = 1..Len(before) + 1
          /\ \A i \in 1..Len(before) : kept[n][i] = before[i]
          /\ kept[n][Len(before) + 1] = e
      BY <2>1, <2>2, <2>4
    <3> HIDE DEF before, e, Firsts
    <3>4. ToSet(kept[n]) = ToSet(before) \cup {e}
      BY <3>3 DEF ToSet
    <3>5. ToSet(kept[n]) = Firsts(n)
      BY <1>6, <3>2, <3>4 DEF before
    <3>6. \A i, j \in DOMAIN kept[n] : key[kept[n][i]] = key[kept[n][j]] => i = j
      <4> SUFFICES ASSUME NEW i \in DOMAIN kept[n], NEW j \in DOMAIN kept[n],
                          key[kept[n][i]] = key[kept[n][j]]
                   PROVE  i = j
        OBVIOUS
      <4>1. \A k \in 1..Len(before) : before[k] \in ToSet(before)
        BY <3>3 DEF ToSet
      <4>2. \A k \in 1..Len(before) : key[kept[n][k]] # key[e]
        BY <2>4, <3>3, <4>1
      <4>3. CASE i \in 1..Len(before) /\ j \in 1..Len(before)
        <5>1. i \in DOMAIN before /\ j \in DOMAIN before /\ key[before[i]] = key[before[j]]
          BY <3>3, <4>3
        <5> QED
          BY <1>6, <5>1 DEF before
      <4>4. CASE ~(i \in 1..Len(before)) \/ ~(j \in 1..Len(before))
        BY <3>3, <4>2, <4>4
      <4> QED
        BY <4>3, <4>4
    <3>7. \A j \in 1..n : list[j] \in DOMAIN key => \E d \in ToSet(kept[n]) : key[d] = key[list[j]]
      BY <1>6, <2>1, <3>4 DEF before, e
    <3> QED
      BY <3>3, <3>5, <3>6, <3>7
  <2>5. CASE ~(e \in DOMAIN key /\ \A d \in ToSet(before) : key[d] # key[e])
    <3>1. kept[n] = before
      BY <2>2, <2>5
    <3>2. ~IsFirst(list, key, n)
      <4> SUFFICES ASSUME e \in DOMAIN key, NEW d \in ToSet(before), key[d] = key[e]
                   PROVE  ~IsFirst(list, key, n)
        BY <2>5 DEF IsFirst
      <4>1. PICK i \in 1..n - 1 : d = list[i] /\ IsFirst(list, key, i)
        BY <2>3
      <4> QED
        BY <4>1 DEF IsFirst
    <3>3. Firsts(n) = Firsts(n - 1)
      BY <2>1, <3>2
    <3>4. e \in DOMAIN key => \E d \in ToSet(kept[n]) : key[d] = key[e]
      BY <2>5, <3>1
    <3>5. \A j \in 1..n : list[j] \in DOMAIN key => \E d \in ToSet(kept[n]) : key[d] = key[list[j]]
      BY <1>6, <2>1, <3>1, <3>4
    <3> QED
      BY <1>6, <3>1, <3>3, <3>5
  <2> QED
    BY <2>4, <2>5
<1> HIDE DEF Right
<1>7. Wrong = {}
  <2> SUFFICES ASSUME Wrong # {} PROVE FALSE
    OBVIOUS
  <2>1. Wrong \subseteq Nat
    BY <1>1
  <2>2. PICK n \in Wrong : \A y \in Wrong : n <= y
    <3> HIDE DEF Wrong
    <3> QED
      BY <2>1, LeastNumber, Zenon
  <2>3. n \in 1..l
    BY <1>1, <1>5, <2>2
  <2>4. Right(n - 1)
    BY <1>1, <2>2, <2>3
  <2> QED
    BY <1>6, <2>2, <2>3, <2>4
<1>8. Right(l)
  BY <1>1, <1>7
<1> QED
  BY <1>1, <1>3, <1>8 DEF Right

(* A list whose items have keys of their own is as long as there are keys. *)
LEMMA OneItemPerKey ==
  ASSUME NEW S, NEW list \in Seq(S), NEW key,
         \A i, j \in DOMAIN list : key[list[i]] = key[list[j]] => i = j
  PROVE  Len(list) = Cardinality({key[e] : e \in ToSet(list)})
<1> DEFINE K == {key[e] : e \in ToSet(list)}
           f == [i \in 1..Len(list) |-> key[list[i]]]
<1>1. Len(list) \in Nat /\ DOMAIN list = 1..Len(list)
  OBVIOUS
<1>2. K = {key[list[i]] : i \in 1..Len(list)}
  BY <1>1 DEF ToSet
<1>3. f \in Bijection(1..Len(list), K)
  <2> HIDE DEF K
  <2>1. f \in [1..Len(list) -> K]
    BY <1>2
  <2>2. \A i, j \in 1..Len(list) : f[i] = f[j] => i = j
    BY <1>1
  <2>3. \A k \in K : \E i \in 1..Len(list) : f[i] = k
    BY <1>2
  <2> HIDE DEF f
  <2> QED
    BY <2>1, <2>2, <2>3 DEF Bijection, Injection, Surjection, IsInjective
<1> HIDE DEF K
<1>4. IsFiniteSet(1..Len(list)) /\ Cardinality(1..Len(list)) = Len(list)
  BY <1>1, FS_Interval
<1>5. Cardinality(K) = Cardinality(1..Len(list))
  BY <1>3, <1>4, FS_Bijection DEF ExistsBijection
<1> QED
  BY <1>4, <1>5 DEF K

-----------------------------------------------------------------------------
(* Extractions                                                             *)

NameKey(list) == [n \in ToSet(list) \ {Blank} |-> LowerCase[n]]
EntityKey(list) == [e \in {d \in ToSet(list) : Nameable(d)} |-> <<e.type, LowerCase[e.name]>>]

(* Names are kept once each, and none is lost.                             *)
LEMMA NamesAreUnique ==
  ASSUME NEW list, list \in Seq(ToSet(list))
  PROVE  /\ Unique(list) \in Seq(ToSet(list))
         /\ NameKeys(Unique(list)) = NameKeys(list)
         /\ OncePerKey(Unique(list), NameKeys(Unique(list)))
<1> DEFINE key == NameKey(list)
           r == Unique(list)
<1>1. r = FirstOfEach(list, key)
  BY DEF Unique, NameKey
<1>2. DOMAIN key = ToSet(list) \ {Blank} /\ \A n \in DOMAIN key : key[n] = LowerCase[n]
  BY DEF NameKey
<1> HIDE DEF key
<1>3. /\ r \in Seq(ToSet(list))
      /\ ToSet(r) = {list[i] : i \in {j \in DOMAIN list : IsFirst(list, key, j)}}
      /\ \A i, j \in DOMAIN r : key[r[i]] = key[r[j]] => i = j
      /\ \A j \in DOMAIN list : list[j] \in DOMAIN key => \E e \in ToSet(r) : key[e] = key[list[j]]
  <2> HIDE DEF r
  <2> QED
    BY <1>1, FirstOfEachIs
<1> HIDE DEF r
<1>4. ToSet(r) \subseteq DOMAIN key
  BY <1>3 DEF IsFirst
<1>5. {key[e] : e \in ToSet(r)} = NameKeys(r)
  BY <1>2, <1>4 DEF NameKeys
<1>6. NameKeys(list) = {key[e] : e \in DOMAIN key}
  BY <1>2 DEF NameKeys
<1>7. \A n \in DOMAIN key : \E j \in DOMAIN list : n = list[j]
  BY <1>2 DEF ToSet
<1>8. {key[e] : e \in ToSet(r)} = {key[e] : e \in DOMAIN key}
  BY <1>3, <1>4, <1>7
<1>9. Len(r) = Cardinality({key[e] : e \in ToSet(r)})
  BY <1>3, OneItemPerKey
<1> QED
  BY <1>3, <1>5, <1>6, <1>8, <1>9 DEF OncePerKey, r

(* So are entities, also those of a part of the list.                      *)
LEMMA EntitiesAreUnique ==
  ASSUME NEW list, list \in Seq(ToSet(list))
  PROVE  /\ Entities(list) \in Seq(ToSet(list))
         /\ EntityKeys(Entities(list)) = EntityKeys(list)
         /\ \A part, rest \in Seq(ToSet(list)) : Entities(list) = part \o rest =>
              /\ EntityKeys(part) \subseteq EntityKeys(list)
              /\ OncePerKey(part, EntityKeys(part))
<1> DEFINE key == EntityKey(list)
           r == Entities(list)
<1>1. r = FirstOfEach(list, key)
  BY DEF Entities, EntityKey
<1>2. /\ DOMAIN key = {d \in ToSet(list) : Nameable(d)}
      /\ \A e \in DOMAIN key : key[e] = <<e.type, LowerCase[e.name]>>
  BY DEF EntityKey
<1> HIDE DEF key
<1>3. /\ r \in Seq(ToSet(list))
      /\ ToSet(r) = {list[i] : i \in {j \in DOMAIN list : IsFirst(list, key, j)}}
      /\ \A i, j \in DOMAIN r : key[r[i]] = key[r[j]] => i = j
      /\ \A j \in DOMAIN list : list[j] \in DOMAIN key => \E e \in ToSet(r) : key[e] = key[list[j]]
  <2> HIDE DEF r
  <2> QED
    BY <1>1, FirstOfEachIs
<1> HIDE DEF r
<1>4. ToSet(r) \subseteq DOMAIN key
  BY <1>3 DEF IsFirst
<1>5. \A part : ToSet(part) \subseteq DOMAIN key => {key[e] : e \in ToSet(part)} = EntityKeys(part)
  <2> SUFFICES ASSUME NEW part, ToSet(part) \subseteq DOMAIN key
               PROVE  {key[e] : e \in ToSet(part)} = EntityKeys(part)
    OBVIOUS
  <2>1. {d \in ToSet(part) : Nameable(d)} = ToSet(part)
    BY <1>2
  <2> QED
    BY <1>2, <2>1 DEF EntityKeys
<1>6. EntityKeys(list) = {key[e] : e \in DOMAIN key}
  BY <1>2 DEF EntityKeys
<1>7. \A n \in DOMAIN key : \E j \in DOMAIN list : n = list[j]
  BY <1>2 DEF ToSet
<1>8. {key[e] : e \in ToSet(r)} = {key[e] : e \in DOMAIN key}
  BY <1>3, <1>4, <1>7
<1>9. ASSUME NEW part \in Seq(ToSet(list)), NEW rest \in Seq(ToSet(list)), r = part \o rest
      PROVE  /\ EntityKeys(part) \subseteq EntityKeys(list)
             /\ OncePerKey(part, EntityKeys(part))
  <2>1. /\ Len(part) \in Nat /\ Len(r) \in Nat /\ Len(part) <= Len(r)
        /\ DOMAIN part = 1..Len(part) /\ DOMAIN r = 1..Len(r)
        /\ \A i \in DOMAIN part : r[i] = part[i]
    BY <1>9
  <2>2. DOMAIN part \subseteq DOMAIN r
    BY <2>1
  <2>3. ToSet(part) \subseteq ToSet(r)
    BY <2>1, <2>2 DEF ToSet
  <2>4. \A i, j \in DOMAIN part : key[part[i]] = key[part[j]] => i = j
    BY <1>3, <2>1, <2>2
  <2>5. Len(part) = Cardinality({key[e] : e \in ToSet(part)})
    BY <2>4, OneItemPerKey
  <2>6. {key[e] : e \in ToSet(part)} = EntityKeys(part)
    BY <1>4, <1>5, <2>3
  <2> QED
    BY <1>4, <1>6, <2>3, <2>5, <2>6 DEF OncePerKey
<1> QED
  BY <1>3, <1>4, <1>5, <1>6, <1>8, <1>9 DEF r

(* An answer that was accepted, as it is worked on.                        *)
Useful(a) == \E raw \in RawAnswers : Acceptable(raw) /\ a = Normalized(raw)

(* How much of its answer a memory has, by what its request has yet to do. *)
Grows(w, row) ==
  LET all == w.answer.entities
      Parts == Seq(ToSet(all))
  IN /\ row.people = w.answer.people /\ row.topics = w.answer.topics
     /\ row.entities \in Parts /\ \E rest \in Parts : all = row.entities \o rest
     /\ w.pc = "stages" => row.entities = <<>>
     /\ w.pc = "entities" => row.point /\ w.left \in Parts /\ all = row.entities \o w.left
     /\ w.pc = "answered" => row.point /\ row.entities = all

Extracting(w, row) ==
  /\ DOMAIN w = DOMAIN NoExtraction /\ DOMAIN row = DOMAIN NoRow
  /\ w.pc \notin {"new", "refused"} \/ row.live => Useful(w.answer)
  /\ row.live => w.pc \notin {"new", "create"} /\ Grows(w, row)

ExtractionInv ==
  /\ DOMAIN extractions = Extractors /\ DOMAIN extracted = Extractors
  /\ \A x \in Extractors : Extracting(extractions[x], extracted[x])

LEMMA ExtractionStarts == ExtractionInit => ExtractionInv
BY DEF ExtractionInit, ExtractionInv, Extracting, NoExtraction, NoRow

LEMMA UsefulLists ==
  ASSUME NEW a, Useful(a)
  PROVE  a.entities \in Seq(ToSet(a.entities))
<1>1. PICK raw \in RawAnswers : Acceptable(raw) /\ a = Normalized(raw)
  BY DEF Useful
<1>2. raw.entities \in Seq(ToSet(raw.entities))
  BY <1>1, AnswersAssumption DEF Acceptable
<1>3. a.entities = Entities(raw.entities)
  BY <1>1 DEF Normalized
<1>4. a.entities \in Seq(ToSet(raw.entities))
  BY <1>2, <1>3, EntitiesAreUnique
<1>5. \A i \in 1..Len(a.entities) : a.entities[i] \in ToSet(a.entities)
  BY <1>4 DEF ToSet
<1> QED
  BY <1>4, <1>5

(* A step of one request that touches no memory but its own.               *)
LEMMA ExtractionMoves ==
  ASSUME ExtractionInv, NEW x \in Extractors,
         NEW w, NEW row, Extracting(w, row),
         \/ UNCHANGED extractions /\ w = extractions[x]
         \/ extractions' = [extractions EXCEPT ![x] = w],
         \/ UNCHANGED extracted /\ row = extracted[x]
         \/ extracted' = [extracted EXCEPT ![x] = row]
  PROVE  ExtractionInv'
<1>1. \A y \in Extractors : /\ extractions'[y] = IF y = x THEN w ELSE extractions[y]
                            /\ extracted'[y] = IF y = x THEN row ELSE extracted[y]
      /\ DOMAIN extractions' = Extractors /\ DOMAIN extracted' = Extractors
  BY DEF ExtractionInv
<1>2. \A v, r : Extracting(v, r)' = Extracting(v, r)
  OBVIOUS
<1>3. \A y \in Extractors : Extracting(extractions'[y], extracted'[y])
  BY <1>1 DEF ExtractionInv
<1> QED
  BY <1>1, <1>3 DEF ExtractionInv

LEMMA ExtractionStep == ExtractionInv /\ [ExtractionNext]_extractionVars => ExtractionInv'
<1> SUFFICES ASSUME ExtractionInv, [ExtractionNext]_extractionVars PROVE ExtractionInv'
  OBVIOUS
<1>1. CASE UNCHANGED extractionVars
  BY <1>1 DEF ExtractionInv, extractionVars
<1> SUFFICES ASSUME NEW x \in Extractors,
                    \/ Extract(x) \/ CreateRow(x) \/ RunStages(x) \/ StoreEntity(x)
                    \/ AnswerExtraction(x) \/ Compensate(x) \/ DropRow(x)
                    \/ ExtractionFails(x) \/ TakeBack(x)
             PROVE  ExtractionInv'
  BY <1>1 DEF ExtractionNext
<1> DEFINE w == extractions[x]
           row == extracted[x]
<1>2. /\ Extracting(w, row)
      /\ DOMAIN w = {"pc", "answer", "left"}
      /\ DOMAIN row = {"live", "point", "people", "topics", "entities"}
  BY DEF ExtractionInv, Extracting, NoExtraction, NoRow
<1>3. \A pc : Reach(x, pc) => extractions' = [extractions EXCEPT ![x] = [w EXCEPT !.pc = pc]]
  BY DEF Reach
<1>4. ASSUME NEW v, v.pc = "refused", v.answer = w.answer, DOMAIN v = DOMAIN w,
             NEW r, r = row \/ r = NoRow
      PROVE  Extracting(v, r)
  <2>1. CASE r = row
    <3>1. row.live => Grows(v, row)
      BY <1>2, <1>4 DEF Extracting, Grows
    <3> QED
      BY <1>2, <1>4, <2>1, <3>1 DEF Extracting
  <2>2. CASE r = NoRow
    BY <1>2, <1>4, <2>2 DEF Extracting, NoRow
  <2> QED
    BY <1>4, <2>1, <2>2
<1>5. CASE Extract(x)
  <2>1. PICK first, repaired \in RawAnswers :
          LET raw == IF Acceptable(first) THEN first ELSE repaired
          IN extractions' = [extractions EXCEPT ![x] =
               IF Acceptable(raw) THEN [pc |-> "create", answer |-> Normalized(raw), left |-> <<>>]
               ELSE [@ EXCEPT !.pc = "refused"]]
    BY <1>5 DEF Extract
  <2>2. UNCHANGED extracted /\ w.pc = "new"
    BY <1>5 DEF Extract
  <2> DEFINE raw == IF Acceptable(first) THEN first ELSE repaired
             made == [pc |-> "create", answer |-> Normalized(raw), left |-> <<>>]
             v == IF Acceptable(raw) THEN made ELSE [w EXCEPT !.pc = "refused"]
  <2>3. extractions' = [extractions EXCEPT ![x] = v]
    BY <2>1
  <2>4. CASE Acceptable(raw)
    <3>1. Useful(made.answer)
      BY <2>4 DEF Useful
    <3>2. ~row.live
      BY <1>2, <2>2 DEF Extracting
    <3>3. Extracting(made, row)
      BY <1>2, <3>1, <3>2 DEF Extracting, NoExtraction
    <3>4. v = made
      BY <2>4
    <3> HIDE DEF made, v
    <3> QED
      BY <2>2, <2>3, <3>3, <3>4, ExtractionMoves
  <2>5. CASE ~Acceptable(raw)
    <3>1. v = [w EXCEPT !.pc = "refused"]
      BY <2>5
    <3> HIDE DEF v
    <3>2. Extracting(v, row)
      BY <1>2, <1>4, <3>1
    <3> QED
      BY <2>2, <2>3, <3>2, ExtractionMoves
  <2> QED
    BY <2>4, <2>5
<1>6. CASE CreateRow(x)
  <2> DEFINE v == [w EXCEPT !.pc = "stages"]
             r == [NoRow EXCEPT !.live = TRUE, !.people = w.answer.people, !.topics = w.answer.topics]
  <2>1. /\ w.pc = "create"
        /\ extractions' = [extractions EXCEPT ![x] = v]
        /\ extracted' = [extracted EXCEPT ![x] = r]
    BY <1>3, <1>6 DEF CreateRow
  <2>2. Useful(w.answer)
    BY <1>2, <2>1 DEF Extracting
  <2>3. /\ DOMAIN v = DOMAIN w /\ v.pc = "stages" /\ v.answer = w.answer
        /\ DOMAIN r = DOMAIN NoRow /\ r.live /\ r.people = w.answer.people
        /\ r.topics = w.answer.topics /\ r.entities = <<>>
    BY <1>2 DEF NoRow
  <2> DEFINE all == w.answer.entities
  <2>4. /\ all \in Seq(ToSet(all)) /\ <<>> \in Seq(ToSet(all)) /\ all = <<>> \o all
    BY <2>2, UsefulLists
  <2> HIDE DEF v, r
  <2>5. Extracting(v, r)
    BY <1>2, <2>2, <2>3, <2>4 DEF Extracting, Grows, NoExtraction
  <2> QED
    BY <2>1, <2>5, ExtractionMoves
<1>7. CASE RunStages(x)
  <2>1. CASE row.live
    <3> DEFINE v == [w EXCEPT !.pc = "entities", !.left = w.answer.entities]
               r == [row EXCEPT !.point = TRUE]
               all == w.answer.entities
    <3>1. /\ w.pc = "stages"
          /\ extractions' = [extractions EXCEPT ![x] = v]
          /\ extracted' = [extracted EXCEPT ![x] = r]
      BY <1>7, <2>1 DEF RunStages
    <3>2. Useful(w.answer) /\ Grows(w, row) /\ row.entities = <<>>
      BY <1>2, <2>1, <3>1 DEF Extracting, Grows
    <3>3. /\ DOMAIN v = DOMAIN w /\ v.pc = "entities" /\ v.answer = w.answer /\ v.left = all
          /\ DOMAIN r = DOMAIN row /\ r.point /\ r.people = row.people
          /\ r.topics = row.topics /\ r.entities = row.entities
      BY <1>2
    <3>4. all \in Seq(ToSet(all)) /\ all = <<>> \o all
      BY <3>2, UsefulLists
    <3> HIDE DEF v, r, all
    <3>5. Grows(v, r)
      BY <3>2, <3>3, <3>4 DEF Grows, all
    <3>6. Extracting(v, r)
      BY <1>2, <3>2, <3>3, <3>5 DEF Extracting
    <3> QED
      BY <3>1, <3>6, ExtractionMoves
  <2>2. CASE ~row.live
    BY <1>2, <1>3, <1>4, <1>7, <2>2, ExtractionMoves DEF RunStages
  <2> QED
    BY <2>1, <2>2
<1>8. CASE StoreEntity(x)
  <2> DEFINE left == w.left
             all == w.answer.entities
  <2>1. w.pc = "entities" /\ left # <<>>
    BY <1>8 DEF StoreEntity
  <2>2. CASE row.live /\ extracted' = [extracted EXCEPT ![x].entities = Append(@, Head(left))]
                      /\ extractions' = [extractions EXCEPT ![x].left = Tail(left)]
    <3> DEFINE v == [w EXCEPT !.left = Tail(left)]
               r == [row EXCEPT !.entities = Append(@, Head(left))]
    <3>1. /\ extractions' = [extractions EXCEPT ![x] = v]
          /\ extracted' = [extracted EXCEPT ![x] = r]
      BY <2>2
    <3>2. Useful(w.answer) /\ Grows(w, row)
      BY <1>2, <2>2 DEF Extracting
    <3>3. /\ DOMAIN v = DOMAIN w /\ v.pc = "entities" /\ v.answer = w.answer /\ v.left = Tail(left)
          /\ DOMAIN r = DOMAIN row /\ r.point = row.point /\ r.people = row.people
          /\ r.topics = row.topics /\ r.entities = Append(row.entities, Head(left))
      BY <1>2, <2>1
    <3>4. /\ row.entities \in Seq(ToSet(all)) /\ left \in Seq(ToSet(all))
          /\ all = row.entities \o left
      BY <2>1, <3>2 DEF Grows
    <3> HIDE DEF v, r, all, left
    <3>5. /\ Append(row.entities, Head(left)) \in Seq(ToSet(all)) /\ Tail(left) \in Seq(ToSet(all))
          /\ all = Append(row.entities, Head(left)) \o Tail(left)
      BY <2>1, <3>4
    <3>6. Grows(v, r)
      BY <2>1, <3>2, <3>3, <3>5, Zenon DEF Grows, all
    <3>7. Extracting(v, r)
      BY <1>2, <3>2, <3>3, <3>6 DEF Extracting
    <3> QED
      BY <3>1, <3>7, ExtractionMoves
  <2>3. CASE Reach(x, "compensate") /\ UNCHANGED extracted
    <3> DEFINE v == [w EXCEPT !.pc = "compensate"]
    <3>1. DOMAIN v = DOMAIN w /\ v.pc = "compensate" /\ v.answer = w.answer
      BY <1>2
    <3>2. extractions' = [extractions EXCEPT ![x] = v]
      BY <1>3, <2>3
    <3> HIDE DEF v
    <3>3. row.live => Grows(v, row)
      BY <1>2, <3>1 DEF Extracting, Grows
    <3>4. Extracting(v, row)
      BY <1>2, <2>1, <3>1, <3>3 DEF Extracting
    <3> QED
      BY <2>3, <3>2, <3>4, ExtractionMoves
  <2> QED
    BY <1>8, <2>2, <2>3 DEF StoreEntity
<1>9. CASE AnswerExtraction(x)
  <2> DEFINE v == [w EXCEPT !.pc = "answered"]
             all == w.answer.entities
  <2>1. /\ w.pc = "entities" /\ w.left = <<>> /\ UNCHANGED extracted
        /\ extractions' = [extractions EXCEPT ![x] = v]
    BY <1>3, <1>9 DEF AnswerExtraction
  <2>2. DOMAIN v = DOMAIN w /\ v.pc = "answered" /\ v.answer = w.answer
    BY <1>2
  <2> HIDE DEF v
  <2>3. row.live => Grows(v, row)
    <3> SUFFICES ASSUME row.live PROVE Grows(v, row)
      OBVIOUS
    <3>1. Grows(w, row)
      BY <1>2 DEF Extracting
    <3>2. row.entities \in Seq(ToSet(all)) /\ all = row.entities \o <<>> /\ row.point
      BY <2>1, <3>1 DEF Grows
    <3>3. row.entities = all
      BY <3>2
    <3> QED
      BY <2>2, <3>1, <3>2, <3>3 DEF Grows
  <2>4. Extracting(v, row)
    BY <1>2, <2>1, <2>2, <2>3 DEF Extracting
  <2> QED
    BY <2>1, <2>4, ExtractionMoves
<1>10. CASE Compensate(x)
  <2> DEFINE v == [w EXCEPT !.pc = "drop"]
             r == [row EXCEPT !.point = FALSE]
  <2>1. /\ w.pc = "compensate"
        /\ extractions' = [extractions EXCEPT ![x] = v]
        /\ extracted' = [extracted EXCEPT ![x] = r]
    BY <1>3, <1>10 DEF Compensate
  <2>2. /\ DOMAIN v = DOMAIN w /\ v.pc = "drop" /\ v.answer = w.answer
        /\ DOMAIN r = DOMAIN row /\ r.live = row.live /\ r.people = row.people
        /\ r.topics = row.topics /\ r.entities = row.entities
    BY <1>2
  <2> HIDE DEF v, r
  <2>3. row.live => Grows(v, r)
    BY <1>2, <2>2 DEF Extracting, Grows
  <2>4. Extracting(v, r)
    BY <1>2, <2>1, <2>2, <2>3 DEF Extracting
  <2> QED
    BY <2>1, <2>4, ExtractionMoves
<1>11. CASE DropRow(x)
  <2> DEFINE v == [w EXCEPT !.pc = "refused"]
  <2>1. /\ extractions' = [extractions EXCEPT ![x] = v]
        /\ extracted' = [extracted EXCEPT ![x] = NoRow]
    BY <1>3, <1>11 DEF DropRow
  <2>2. DOMAIN v = DOMAIN w /\ v.pc = "refused" /\ v.answer = w.answer
    BY <1>2
  <2> HIDE DEF v
  <2> QED
    BY <1>4, <2>1, <2>2, ExtractionMoves
<1>12. CASE ExtractionFails(x)
  <2> DEFINE v == [w EXCEPT !.pc = "refused"]
  <2>1. UNCHANGED extracted /\ extractions' = [extractions EXCEPT ![x] = v]
    BY <1>3, <1>12 DEF ExtractionFails
  <2>2. DOMAIN v = DOMAIN w /\ v.pc = "refused" /\ v.answer = w.answer
    BY <1>2
  <2> HIDE DEF v
  <2> QED
    BY <1>4, <2>1, <2>2, ExtractionMoves
<1>13. CASE TakeBack(x)
  <2>1. UNCHANGED extractions /\ extracted' = [extracted EXCEPT ![x] = NoRow]
    BY <1>13 DEF TakeBack
  <2>2. Extracting(w, NoRow)
    BY <1>2, <1>13 DEF Extracting, NoRow, TakeBack
  <2> QED
    BY <2>1, <2>2, ExtractionMoves
<1> QED
  BY <1>5, <1>6, <1>7, <1>8, <1>9, <1>10, <1>11, <1>12, <1>13

(* MemoryExtraction.ExtractionIsWhole: a memory stands for an answer that  *)
(* was acceptable, names nobody and nothing twice, and has all of the      *)
(* answer once its request was answered, however its entities failed to be *)
(* stored or were taken back (ExtractAndIngest, storeExtractedEntities,    *)
(* parseAndValidateExtraction, uniqueValues).                              *)
THEOREM ExtractionIsWholeAlways == ExtractionSpec => []ExtractionIsWhole
<1>1. ExtractionInv => ExtractionIsWhole
  <2> SUFFICES ASSUME ExtractionInv, NEW x \in Extractors, extracted[x].live
               PROVE
    LET row == extracted[x]
    IN \E raw \in RawAnswers :
         /\ raw.wellFormed /\ raw.summary # Blank /\ raw.type \in MemoryTypes
         /\ \A key \in EntityKeys(raw.entities) : key[1] \in EntityTypes
         /\ NameKeys(row.people) = NameKeys(raw.people)
         /\ NameKeys(row.topics) = NameKeys(raw.topics)
         /\ EntityKeys(row.entities) \subseteq EntityKeys(raw.entities)
         /\ extractions[x].pc = "answered" =>
              row.point /\ EntityKeys(row.entities) = EntityKeys(raw.entities)
         /\ OncePerKey(row.people, NameKeys(row.people))
         /\ OncePerKey(row.topics, NameKeys(row.topics))
         /\ OncePerKey(row.entities, EntityKeys(row.entities))
    BY Zenon DEF ExtractionIsWhole
  <2> DEFINE w == extractions[x]
             row == extracted[x]
  <2>1. Useful(w.answer) /\ Grows(w, row)
    BY DEF ExtractionInv, Extracting
  <2>2. PICK raw \in RawAnswers : Acceptable(raw) /\ w.answer = Normalized(raw)
    BY <2>1 DEF Useful
  <2>3. /\ raw.people \in Seq(ToSet(raw.people)) /\ raw.topics \in Seq(ToSet(raw.topics))
        /\ raw.entities \in Seq(ToSet(raw.entities))
    BY <2>2, AnswersAssumption DEF Acceptable
  <2>4. /\ row.people = Unique(raw.people) /\ row.topics = Unique(raw.topics)
        /\ w.answer.entities = Entities(raw.entities)
    BY <2>1, <2>2 DEF Grows, Normalized
  <2>5. \A key \in EntityKeys(raw.entities) : key[1] \in EntityTypes
    BY <2>2 DEF EntityKeys, Acceptable
  <2>6. /\ Entities(raw.entities) \in Seq(ToSet(raw.entities))
        /\ EntityKeys(Entities(raw.entities)) = EntityKeys(raw.entities)
    BY <2>3, EntitiesAreUnique
  <2>7. ToSet(Entities(raw.entities)) \subseteq ToSet(raw.entities)
    BY <2>6 DEF ToSet
  <2>8. PICK rest \in Seq(ToSet(Entities(raw.entities))) :
          row.entities \in Seq(ToSet(Entities(raw.entities))) /\ Entities(raw.entities) = row.entities \o rest
    BY <2>1, <2>4 DEF Grows
  <2>9. row.entities \in Seq(ToSet(raw.entities)) /\ rest \in Seq(ToSet(raw.entities))
    BY <2>7, <2>8
  <2>10. /\ EntityKeys(row.entities) \subseteq EntityKeys(raw.entities)
         /\ OncePerKey(row.entities, EntityKeys(row.entities))
    BY <2>3, <2>8, <2>9, EntitiesAreUnique
  <2>11. w.pc = "answered" => row.point /\ EntityKeys(row.entities) = EntityKeys(raw.entities)
    BY <2>1, <2>4, <2>6 DEF Grows
  <2>12. /\ NameKeys(row.people) = NameKeys(raw.people) /\ NameKeys(row.topics) = NameKeys(raw.topics)
         /\ OncePerKey(row.people, NameKeys(row.people))
         /\ OncePerKey(row.topics, NameKeys(row.topics))
    BY <2>3, <2>4, NamesAreUnique
  <2> QED
    BY <2>2, <2>5, <2>10, <2>11, <2>12 DEF Acceptable
<1> QED
  BY ExtractionStarts, ExtractionStep, <1>1, PTL DEF ExtractionSpec

-----------------------------------------------------------------------------
(* Lists that are merged                                                   *)

(* A name that nobody before it spells otherwise.                          *)
CameFirst(list, e) ==
  \E i \in DOMAIN list :
    /\ e = list[i] /\ list[i] # Blank
    /\ \A j \in 1..i - 1 : list[j] # Blank => LowerCase[list[j]] # LowerCase[list[i]]

LEMMA UniqueIs ==
  ASSUME NEW list, NEW S, list \in Seq(S)
  PROVE  /\ Unique(list) \in Seq(S)
         /\ \A e : e \in ToSet(Unique(list)) <=> CameFirst(list, e)
         /\ \A i, j \in DOMAIN Unique(list) :
              LowerCase[Unique(list)[i]] = LowerCase[Unique(list)[j]] => i = j
         /\ Blank \notin ToSet(Unique(list))
<1> DEFINE key == NameKey(list)
           r == Unique(list)
<1>1. r = FirstOfEach(list, key)
  BY DEF Unique, NameKey
<1>2. DOMAIN key = ToSet(list) \ {Blank} /\ \A n \in DOMAIN key : key[n] = LowerCase[n]
  BY DEF NameKey
<1> HIDE DEF key
<1>3. /\ r \in Seq(S)
      /\ ToSet(r) = {list[i] : i \in {j \in DOMAIN list : IsFirst(list, key, j)}}
      /\ \A i, j \in DOMAIN r : key[r[i]] = key[r[j]] => i = j
  <2> HIDE DEF r
  <2> QED
    BY <1>1, FirstOfEachIs
<1>4. /\ Len(list) \in Nat /\ DOMAIN list = 1..Len(list)
      /\ \A i \in DOMAIN list : list[i] \in ToSet(list)
  BY DEF ToSet
<1>5. \A i \in DOMAIN list : \A j \in 1..i - 1 : j \in DOMAIN list
  BY <1>4
<1>6. \A i \in DOMAIN list : IsFirst(list, key, i) <=>
        /\ list[i] # Blank
        /\ \A j \in 1..i - 1 : list[j] # Blank => LowerCase[list[j]] # LowerCase[list[i]]
  <2> TAKE i \in DOMAIN list
  <2>1. \A j \in 1..i - 1 : list[j] \in DOMAIN key <=> list[j] # Blank
    BY <1>2, <1>4, <1>5
  <2>2. list[i] \in DOMAIN key <=> list[i] # Blank
    BY <1>2, <1>4
  <2> QED
    BY <1>2, <2>1, <2>2 DEF IsFirst
<1> HIDE DEF r
<1>7. ToSet(r) \subseteq DOMAIN key
  BY <1>3 DEF IsFirst
<1>8. \A i \in DOMAIN r : key[r[i]] = LowerCase[r[i]]
  BY <1>2, <1>7 DEF ToSet
<1>9. \A i, j \in DOMAIN r : LowerCase[r[i]] = LowerCase[r[j]] => i = j
  BY <1>3, <1>8
<1> QED
  BY <1>2, <1>3, <1>6, <1>7, <1>9 DEF r, CameFirst

(* A sequence of some items is one of every set that has them.             *)
LEMMA SeqOfItems ==
  ASSUME NEW S, NEW T, NEW list \in Seq(S), \A i \in 1..Len(list) : list[i] \in T
  PROVE  list \in Seq(T)
OBVIOUS

(* Names that come first are kept when others are merged in behind them.   *)
LEMMA MergeKeeps ==
  ASSUME NEW left, NEW right, left \in Seq(ToSet(left)), right \in Seq(ToSet(right))
  PROVE  /\ Merge(left, right) \in Seq(ToSet(left) \cup ToSet(right))
         /\ ToSet(Unique(left)) \subseteq ToSet(Merge(left, right))
<1> DEFINE S == ToSet(left) \cup ToSet(right)
           list == left \o right
<1>1. /\ left \in Seq(S) /\ list \in Seq(S)
      /\ DOMAIN left \subseteq DOMAIN list /\ DOMAIN left = 1..Len(left) /\ Len(left) \in Nat
      /\ \A i \in DOMAIN left : list[i] = left[i]
  <2>1. left \in Seq(S) /\ right \in Seq(S)
    <3> HIDE DEF S
    <3>1. ToSet(left) \subseteq S /\ ToSet(right) \subseteq S
      BY DEF S
    <3>2. /\ \A i \in 1..Len(left) : left[i] \in S
          /\ \A i \in 1..Len(right) : right[i] \in S
      BY <3>1 DEF ToSet
    <3> QED
      BY <3>2, SeqOfItems
  <2> HIDE DEF S
  <2> QED
    BY <2>1
<1> HIDE DEF S, list
<1>2. Merge(left, right) = Unique(list)
  BY DEF Merge, list
<1>3. ASSUME NEW e \in ToSet(Unique(left)) PROVE e \in ToSet(Unique(list))
  <2>1. PICK i \in DOMAIN left :
          /\ e = left[i] /\ left[i] # Blank
          /\ \A j \in 1..i - 1 : left[j] # Blank => LowerCase[left[j]] # LowerCase[left[i]]
    <3>1. \A d : d \in ToSet(Unique(left)) <=> CameFirst(left, d)
      BY <1>1, UniqueIs
    <3> QED
      BY <1>3, <3>1 DEF CameFirst
  <2>2. \A j \in 1..i - 1 : j \in DOMAIN left /\ list[j] = left[j]
    BY <1>1
  <2>3. CameFirst(list, e)
    BY <1>1, <2>1, <2>2 DEF CameFirst
  <2> QED
    BY <1>1, <2>3, UniqueIs
<1> QED
  BY <1>1, <1>2, <1>3, UniqueIs DEF S

(* A list that names nobody twice, as Unique leaves it.                    *)
NamesOnce(list) ==
  /\ list \in Seq(ToSet(list)) /\ Blank \notin ToSet(list)
  /\ \A i, j \in DOMAIN list : LowerCase[list[i]] = LowerCase[list[j]] => i = j

LEMMA UniqueIsNamed ==
  ASSUME NEW S, NEW list \in Seq(S)
  PROVE  NamesOnce(Unique(list))
<1> DEFINE r == Unique(list)
<1>1. /\ r \in Seq(S) /\ Blank \notin ToSet(r)
      /\ \A i, j \in DOMAIN r : LowerCase[r[i]] = LowerCase[r[j]] => i = j
  BY UniqueIs
<1> HIDE DEF r
<1>2. \A i \in 1..Len(r) : r[i] \in ToSet(r)
  BY <1>1 DEF ToSet
<1>3. r \in Seq(ToSet(r))
  BY <1>1, <1>2, SeqOfItems
<1> QED
  BY <1>1, <1>3 DEF NamesOnce, r

LEMMA MergeIsNamed ==
  ASSUME NEW left, NEW right, left \in Seq(ToSet(left)), right \in Seq(ToSet(right))
  PROVE  NamesOnce(Merge(left, right))
<1> DEFINE S == ToSet(left) \cup ToSet(right)
<1>1. ToSet(left) \subseteq S /\ ToSet(right) \subseteq S
  OBVIOUS
<1> HIDE DEF S
<1>2. left \in Seq(S) /\ right \in Seq(S)
  BY <1>1, SeqMonotonic
<1>3. left \o right \in Seq(S)
  BY <1>2
<1> QED
  BY <1>3, UniqueIsNamed DEF Merge

(* Nothing that was merged gets lost when it is merged again.              *)
LEMMA MergeKeepsAll ==
  ASSUME NEW left, NamesOnce(left), NEW right, right \in Seq(ToSet(right))
  PROVE  ToSet(left) \subseteq ToSet(Merge(left, right)) /\ NamesOnce(Merge(left, right))
<1>1. /\ left \in Seq(ToSet(left)) /\ Blank \notin ToSet(left)
      /\ \A i, j \in DOMAIN left : LowerCase[left[i]] = LowerCase[left[j]] => i = j
  BY DEF NamesOnce
<1>2. ToSet(left) \subseteq ToSet(Unique(left))
  <2> SUFFICES ASSUME NEW i \in DOMAIN left PROVE left[i] \in ToSet(Unique(left))
    BY DEF ToSet
  <2>1. left[i] # Blank
    BY <1>1 DEF ToSet
  <2>2. \A j \in 1..i - 1 : j \in DOMAIN left /\ j # i
    BY <1>1
  <2>3. \A j \in 1..i - 1 : LowerCase[left[j]] # LowerCase[left[i]]
    BY <1>1, <2>2
  <2>4. CameFirst(left, left[i])
    BY <2>1, <2>3 DEF CameFirst
  <2> QED
    BY <1>1, <2>4, UniqueIs
<1>3. NamesOnce(Merge(left, right))
  BY <1>1, MergeIsNamed
<1> QED
  BY <1>1, <1>2, <1>3, MergeKeeps

-----------------------------------------------------------------------------
(* What a report is about                                                  *)

(* The latest answer, of which there is at least none.                     *)
LEMMA LatestIs ==
  ASSUME posts \in Seq(Posts), NEW s
  PROVE  /\ LatestAnswered(s) \in 0..Len(posts)
         /\ LatestAnswered(s) # 0 => posts[LatestAnswered(s)].session = s
<1> DEFINE answers == {i \in Scanned(s) : posts[i].role = "assistant"}
           planned == {i \in answers : posts[i].plan # <<>>}
           candidates == IF planned # {} THEN planned ELSE answers
<1>1. Len(posts) \in Nat /\ DOMAIN posts = 1..Len(posts)
  OBVIOUS
<1>2. candidates \subseteq 1..Len(posts) /\ \A i \in candidates : posts[i].session = s
  BY <1>1 DEF Scanned
<1>3. LatestAnswered(s) = IF candidates = {} THEN 0 ELSE Max(candidates)
  BY DEF LatestAnswered
<1> HIDE DEF candidates
<1>4. candidates \subseteq 0..Len(posts)
  BY <1>1, <1>2
<1>5. candidates # {} => Max(candidates) \in candidates
  BY <1>1, <1>4, GreatestNumber
<1>6. CASE candidates = {}
  BY <1>1, <1>3, <1>6
<1>7. CASE candidates # {}
  BY <1>2, <1>3, <1>4, <1>5, <1>7
<1> QED
  BY <1>6, <1>7

(* It never moves back: the oldest messages are read, and one with a plan  *)
(* that follows answers without one is later than all of them.             *)
LEMMA LatestGrows ==
  ASSUME posts \in Seq(Posts), NEW post \in Posts, posts' = Append(posts, post), NEW s
  PROVE  LatestAnswered(s) <= LatestAnswered(s)' /\ LatestAnswered(s)' \in 0..Len(posts) + 1
<1> DEFINE n == Len(posts)
           answers == {i \in Scanned(s) : posts[i].role = "assistant"}
           planned == {i \in answers : posts[i].plan # <<>>}
           candidates == IF planned # {} THEN planned ELSE answers
           later == {i \in Scanned(s)' : posts'[i].role = "assistant"}
           plannedLater == {i \in later : posts'[i].plan # <<>>}
           candidatesLater == IF plannedLater # {} THEN plannedLater ELSE later
<1>1. /\ n \in Nat /\ DOMAIN posts = 1..n /\ DOMAIN posts' = 1..n + 1
      /\ \A i \in 1..n : posts'[i] = posts[i]
  OBVIOUS
<1>2. Scanned(s)' \cap (1..n) = Scanned(s) /\ Scanned(s)' \subseteq 1..n + 1
  <2> DEFINE own == {i \in DOMAIN posts : posts[i].session = s}
             more == {i \in DOMAIN posts' : posts'[i].session = s}
  <2>1. more \cap (1..n) = own /\ own \subseteq 1..n /\ more \subseteq 1..n + 1
    BY <1>1
  <2>2. /\ Scanned(s) = {i \in own : Cardinality({j \in own : j < i}) < MaxScanned}
        /\ Scanned(s)' = {i \in more : Cardinality({j \in more : j < i}) < MaxScanned}
    BY DEF Scanned
  <2> HIDE DEF own, more
  <2>3. \A i \in 1..n : {j \in more : j < i} = {j \in own : j < i}
    <3> TAKE i \in 1..n
    <3>1. \A j \in 1..n + 1 : j < i => j \in 1..n
      BY <1>1
    <3>2. \A j : j \in more /\ j < i <=> j \in own /\ j < i
      BY <2>1, <3>1
    <3> QED
      BY <3>2
  <2> QED
    BY <2>1, <2>2, <2>3
<1>3. /\ LatestAnswered(s) = IF candidates = {} THEN 0 ELSE Max(candidates)
      /\ LatestAnswered(s)' = IF candidatesLater = {} THEN 0 ELSE Max(candidatesLater)
  BY DEF LatestAnswered
<1>4. /\ candidates \subseteq 0..n /\ candidatesLater \subseteq 0..n + 1
      /\ candidates \subseteq candidatesLater \/ n + 1 \in candidatesLater
  <2>1. Scanned(s) \subseteq 1..n
    BY <1>2
  <2>2. answers = later \cap (1..n) /\ planned = plannedLater \cap (1..n)
    BY <1>1, <1>2, <2>1
  <2>3. later \subseteq 1..n + 1 /\ plannedLater \subseteq 1..n + 1
    BY <1>2
  <2> HIDE DEF answers, later, planned, plannedLater
  <2>4. 1..n + 1 = (1..n) \cup {n + 1}
    BY <1>1
  <2>5. CASE planned # {}
    BY <1>1, <2>2, <2>3, <2>5
  <2>6. CASE planned = {} /\ plannedLater # {}
    <3>1. n + 1 \in plannedLater
      BY <2>2, <2>3, <2>4, <2>6
    <3> QED
      BY <1>1, <2>2, <2>3, <2>6, <3>1
  <2>7. CASE planned = {} /\ plannedLater = {}
    BY <1>1, <2>2, <2>3, <2>7
  <2> QED
    BY <2>5, <2>6, <2>7
<1> HIDE DEF candidates, candidatesLater
<1>5. candidates # {} => Max(candidates) \in candidates
  BY <1>1, <1>4, GreatestNumber
<1>6. candidatesLater # {} =>
        Max(candidatesLater) \in candidatesLater /\ \A y \in candidatesLater : y <= Max(candidatesLater)
  <2>1. n + 1 \in Nat
    BY <1>1
  <2> QED
    BY <1>4, <2>1, GreatestNumber
<1>7. LatestAnswered(s)' \in 0..n + 1
  <2>1. 0 \in 0..n + 1
    BY <1>1
  <2> QED
    BY <1>3, <1>4, <1>6, <2>1
<1>8. LatestAnswered(s) <= LatestAnswered(s)'
  <2>1. CASE candidates = {}
    BY <1>1, <1>3, <1>7, <2>1
  <2>2. CASE candidates # {} /\ candidates \subseteq candidatesLater
    BY <1>3, <1>5, <1>6, <2>2
  <2>3. CASE candidates # {} /\ n + 1 \in candidatesLater
    <3>1. Max(candidates) \in 0..n
      BY <1>4, <1>5, <2>3
    <3>2. Max(candidatesLater) \in 0..n + 1 /\ n + 1 <= Max(candidatesLater)
      BY <1>4, <1>6, <2>3
    <3>3. candidatesLater # {}
      BY <2>3
    <3> QED
      BY <1>1, <1>3, <2>3, <3>1, <3>2, <3>3
  <2> QED
    BY <1>4, <2>1, <2>2, <2>3
<1> QED
  BY <1>7, <1>8
(* What may be said of what was found for a report: c is the context of an *)
(* attempt, or a row.                                                      *)
Cites(p, c) ==
  /\ p.message \in 0..Len(posts) /\ c.message \in 0..Len(posts)
  /\ c.session = SessionOf(p)
  /\ p.user # Unnamed => c.user = p.user
  /\ c.session # Unnamed => SessionOwner[c.session] = c.user
  /\ c.message # 0 =>
       /\ posts[c.message].session = c.session
       /\ c.predicted = Predicted(posts[c.message].plan)
       /\ c.goal \in {posts[c.message].goal, p.goal}
  /\ p.message # 0 => c.message = p.message
  /\ p.message = 0 => c.message <= IF p.session = Unnamed THEN 0 ELSE LatestAnswered(p.session)

SameReport(o, r) ==
  /\ o.user = r.context.user /\ o.key = KeyOfReport(r)
  /\ o.hash = RequestHash(r.context.user, r.of)

Reads(list) == list \in Seq(ToSet(list))

ContextNames == {"user", "session", "message", "goal", "predicted", "people", "topics"}

Resolved(r) == r.pc \in {"look", "reserve", "record"}

(* What a handler has found, by how far it is.                             *)
Reporting(r) ==
  /\ r.pc \in {"idle", "resolve", "look", "reserve", "record"}
  /\ r.pc # "idle" => r.of \in Payloads
  /\ Resolved(r) =>
       /\ DOMAIN r.context = ContextNames /\ Cites(r.of, r.context)
       /\ ToSet(Unique(r.of.people)) \subseteq ToSet(r.context.people)
       /\ NamesOnce(r.context.people)
  /\ r.pc = "look" => DOMAIN r = {"pc", "of", "context"}
  /\ r.pc \in {"reserve", "record"} => DOMAIN r = {"pc", "of", "context", "analysis"}
  /\ r.pc = "reserve" => Reads(r.analysis.people)
  /\ r.pc = "record" => \E o \in reported : SameReport(o, r)

(* A row is of one report, and the only one with its key.                  *)
Reported(o) ==
  /\ o.by \in Payloads /\ Cites(o.by, o) /\ Reads(o.analysis.people)
  /\ o.hash = RequestHash(o.user, o.by)
  /\ \A q \in reported : q.user = o.user /\ q.key = o.key => q = o

(* The memory of an outcome is of its conversation.                        *)
Recorded(m, o) ==
  /\ m.session = o.session
  /\ ToSet(Unique(o.by.people)) \subseteq ToSet(m.people)
  /\ apart => m.message >= o.message
  /\ o.by.message # 0 => m.message = o.message

(* Behind the fence a subject has one report at a time, which has seen the *)
(* answers that the rows there are were made for.                          *)
OneByOne ==
  apart => \A a \in Reporters :
    /\ reports[a].pc # "idle" => reports[a].of.user # Unnamed
    /\ \A b \in Reporters :
         reports[a].pc # "idle" /\ reports[b].pc # "idle" /\ reports[a].of.user = reports[b].of.user
           => a = b
    /\ Resolved(reports[a]) =>
         \A o \in reported : SameReport(o, reports[a]) => o.message <= reports[a].context.message

RowsInv ==
  /\ posts \in Seq(Posts) /\ apart \in BOOLEAN
  /\ \A o \in reported : Reported(o)

ReportersInv ==
  /\ DOMAIN reports = Reporters /\ \A a \in Reporters : Reporting(reports[a])
  /\ OneByOne

MemoriesInv ==
  /\ \A m \in recorded : \E o \in reported : o.user = m.user /\ o.key = m.outcome
  /\ \A o \in reported, m \in recorded : m.user = o.user /\ m.outcome = o.key => Recorded(m, o)

ReportsInv == RowsInv /\ ReportersInv /\ MemoriesInv

LEMMA ReportsStart == ReportsInit => ReportsInv
<1> SUFFICES ASSUME ReportsInit PROVE ReportsInv
  OBVIOUS
<1>1. posts = <<>> /\ apart \in BOOLEAN /\ reported = {} /\ recorded = {}
  BY DEF ReportsInit
<1>2. reports = [a \in Reporters |-> NoReport]
  BY DEF ReportsInit
<1>3. \A a \in Reporters : reports[a].pc = "idle"
  BY <1>2 DEF NoReport
<1>4. RowsInv
  BY <1>1 DEF RowsInv
<1>5. ReportersInv
  BY <1>2, <1>3 DEF ReportersInv, Reporting, Resolved, OneByOne
<1> QED
  BY <1>1, <1>4, <1>5 DEF ReportsInv, MemoriesInv

(* What was said stays true while the conversations go on.                 *)
LEMMA CitesGrows ==
  ASSUME posts \in Seq(Posts), NEW post \in Posts, posts' = Append(posts, post), NEW p, NEW c,
         Cites(p, c)
  PROVE  Cites(p, c)'
<1>1. /\ Len(posts) \in Nat /\ Len(posts') = Len(posts) + 1
      /\ \A i \in 1..Len(posts) : posts'[i] = posts[i]
  OBVIOUS
<1>2. p.message \in 0..Len(posts) /\ c.message \in 0..Len(posts)
  BY DEF Cites
<1>3. p.message \in 0..Len(posts') /\ c.message \in 0..Len(posts')
  BY <1>1, <1>2
<1>4. p.message # 0 => posts'[p.message] = posts[p.message]
  BY <1>1, <1>2
<1>5. c.message # 0 => posts'[c.message] = posts[c.message]
  BY <1>1, <1>2
<1>6. SessionOf(p)' = SessionOf(p)
  BY <1>4 DEF SessionOf
<1>7. ASSUME p.message = 0, p.session # Unnamed PROVE c.message <= LatestAnswered(p.session)'
  <2>1. c.message <= LatestAnswered(p.session) /\ LatestAnswered(p.session) \in 0..Len(posts)
    BY <1>7, LatestIs DEF Cites
  <2>2. /\ LatestAnswered(p.session) <= LatestAnswered(p.session)'
        /\ LatestAnswered(p.session)' \in 0..Len(posts) + 1
    BY LatestGrows
  <2> QED
    BY <1>1, <1>2, <2>1, <2>2
<1> QED
  BY <1>3, <1>4, <1>5, <1>6, <1>7 DEF Cites

LEMMA CitesStays ==
  ASSUME posts' = posts, NEW p, NEW c, Cites(p, c)
  PROVE  Cites(p, c)'
<1>1. \A s : LatestAnswered(s)' = LatestAnswered(s)
  BY DEF LatestAnswered, Scanned
<1>2. SessionOf(p)' = SessionOf(p)
  BY DEF SessionOf
<1> QED
  BY <1>1, <1>2 DEF Cites

LEMMA CitesSame ==
  ASSUME NEW p, NEW c, NEW d, Cites(p, c),
         d.user = c.user, d.session = c.session, d.message = c.message,
         d.goal = c.goal, d.predicted = c.predicted
  PROVE  Cites(p, d)
BY DEF Cites

LEMMA SameReportSame ==
  ASSUME NEW r, NEW q, q.of = r.of, q.context.user = r.context.user
  PROVE  KeyOfReport(q) = KeyOfReport(r) /\ \A o : SameReport(o, q) <=> SameReport(o, r)
BY DEF KeyOfReport, SameReport

(* What a resolved report is about.                                        *)
LEMMA ContextIs ==
  ASSUME posts \in Seq(Posts), NEW p \in Payloads, Found(p)
  PROVE  /\ DOMAIN ContextOf(p) = ContextNames /\ Cites(p, ContextOf(p))
         /\ ToSet(Unique(p.people)) \subseteq ToSet(ContextOf(p).people)
         /\ NamesOnce(ContextOf(p).people)
         /\ p.message = 0 => ContextOf(p).message =
              IF p.session = Unnamed THEN 0 ELSE LatestAnswered(p.session)
<1> DEFINE s == SessionOf(p)
           message == IF p.message # 0 THEN p.message
                      ELSE IF s # Unnamed THEN LatestAnswered(s) ELSE 0
           meta == IF message # 0 THEN posts[message]
                   ELSE [plan |-> <<>>, goal |-> Unnamed, people |-> <<>>, topics |-> <<>>]
           user == IF s # Unnamed THEN SessionOwner[s] ELSE FirstNamed(p.user, DefaultOwner)
           made == [user |-> user, session |-> s, message |-> message,
                    goal |-> FirstNamed(p.goal, meta.goal), predicted |-> Predicted(meta.plan),
                    people |-> Merge(p.people, meta.people), topics |-> Merge(p.topics, meta.topics)]
<1>1. ContextOf(p) = made
  BY DEF ContextOf
<1>2. /\ p.message \in Nat /\ p.message <= Len(posts) /\ Len(posts) \in Nat
      /\ \A i \in 1..Len(posts) : posts[i] \in Posts
  BY ReportsAssumption DEF Found
<1>3. /\ message \in 0..Len(posts)
      /\ message # 0 => posts[message].session = s
      /\ message # 0 => posts[message] \in Posts
  <2>1. CASE p.message # 0
    BY <1>2, <2>1 DEF SessionOf
  <2>2. CASE p.message = 0
    BY <1>2, <2>2, LatestIs
  <2> QED
    BY <2>1, <2>2
<1>4. s # Unnamed /\ p.user # Unnamed => SessionOwner[s] = p.user
  BY DEF Found
<1>5. s = Unnamed /\ p.user # Unnamed => user = p.user
  BY DEF FirstNamed
<1>6. p.message = 0 => message = IF p.session = Unnamed THEN 0 ELSE LatestAnswered(p.session)
  BY DEF SessionOf
<1>7. message # 0 => meta = posts[message]
  OBVIOUS
<1>8. /\ meta.people \in Seq(ToSet(meta.people)) /\ p.people \in Seq(ToSet(p.people))
  <2>1. CASE message # 0
    BY <1>3, <1>7, <2>1, ReportsAssumption
  <2>2. CASE message = 0
    <3>1. meta.people = <<>>
      BY <2>2
    <3>2. <<>> \in Seq(ToSet(<<>>))
      OBVIOUS
    <3> QED
      BY <3>1, <3>2, ReportsAssumption
  <2> QED
    BY <2>1, <2>2
<1>9. FirstNamed(p.goal, meta.goal) \in {meta.goal, p.goal}
  BY DEF FirstNamed
<1>10. user = IF s # Unnamed THEN SessionOwner[s] ELSE FirstNamed(p.user, DefaultOwner)
  OBVIOUS
<1>11. p.message # 0 => message = p.message
  OBVIOUS
<1> HIDE DEF message, meta, user
<1>12. Cites(p, made)
  BY <1>2, <1>3, <1>4, <1>5, <1>6, <1>7, <1>9, <1>10, <1>11, LatestIs DEF Cites
<1>13. /\ ToSet(Unique(p.people)) \subseteq ToSet(made.people) /\ NamesOnce(made.people)
  BY <1>8, MergeKeeps, MergeIsNamed
<1>14. DOMAIN made = ContextNames
  BY DEF ContextNames
<1>15. made.message = message
  OBVIOUS
<1> HIDE DEF made
<1> QED
  BY <1>1, <1>6, <1>12, <1>13, <1>14, <1>15

(* A handler's step that writes no row.                                    *)
OnItsOwn(a, r) ==
  apart =>
    /\ r.pc # "idle" => /\ r.of.user # Unnamed
                        /\ \A b \in Reporters \ {a} :
                             reports[b].pc # "idle" => reports[b].of.user # r.of.user
    /\ Resolved(r) => \A o \in reported : SameReport(o, r) => o.message <= r.context.message

LEMMA ReporterMoves ==
  ASSUME RowsInv, ReportersInv, NEW a \in Reporters, NEW r,
         UNCHANGED <<apart, posts, reported>>, reports' = [reports EXCEPT ![a] = r],
         Reporting(r), OnItsOwn(a, r)
  PROVE  RowsInv' /\ ReportersInv'
<1>1. /\ apart' = apart /\ posts' = posts /\ reported' = reported
      /\ DOMAIN reports = Reporters /\ DOMAIN reports' = Reporters /\ reports'[a] = r
      /\ \A b \in Reporters \ {a} : reports'[b] = reports[b]
  BY DEF ReportersInv
<1>2. RowsInv'
  <2>1. \A o \in reported : Cites(o.by, o) => Cites(o.by, o)'
    BY <1>1, CitesStays
  <2>2. ASSUME NEW o \in reported, Reported(o) PROVE Reported(o)'
    BY <1>1, <2>1, <2>2 DEF Reported
  <2> QED
    BY <1>1, <2>2 DEF RowsInv
<1>3. ASSUME NEW q, Reporting(q) PROVE Reporting(q)'
  <2>1. Cites(q.of, q.context) => Cites(q.of, q.context)'
    BY <1>1, CitesStays
  <2>2. q.pc = "record" => \E o \in reported' : SameReport(o, q)
    BY <1>1, <1>3 DEF Reporting
  <2> QED
    BY <1>3, <2>1, <2>2 DEF Reporting
<1>4. \A b \in Reporters : Reporting(reports'[b])
  BY <1>1 DEF ReportersInv
<1>5. \A b \in Reporters : Reporting(reports[b])'
  BY <1>3, <1>4
<1>6. OneByOne'
  <2> SUFFICES ASSUME apart', NEW b \in Reporters
               PROVE
        /\ reports'[b].pc # "idle" => reports'[b].of.user # Unnamed
        /\ \A d \in Reporters :
             reports'[b].pc # "idle" /\ reports'[d].pc # "idle" /\ reports'[b].of.user = reports'[d].of.user
               => b = d
        /\ Resolved(reports'[b]) =>
             \A o \in reported : SameReport(o, reports'[b]) => o.message <= reports'[b].context.message
    BY <1>1 DEF OneByOne, Resolved, SameReport, KeyOfReport, RequestHash
  <2>1. OneByOne /\ apart
    BY <1>1 DEF ReportersInv
  <2>2. CASE b = a
    BY <1>1, <2>1, <2>2 DEF OnItsOwn
  <2>3. CASE b # a
    <3>1. reports'[b] = reports[b]
      BY <1>1, <2>3
    <3> QED
      BY <1>1, <2>1, <2>3, <3>1 DEF OneByOne, OnItsOwn
  <2> QED
    BY <2>2, <2>3
<1> QED
  BY <1>1, <1>2, <1>5, <1>6 DEF ReportersInv

LEMMA MemoriesStay ==
  ASSUME MemoriesInv, UNCHANGED <<apart, reported, recorded>>
  PROVE  MemoriesInv'
BY DEF MemoriesInv, Recorded

LEMMA ReportEndsKeeps ==
  ASSUME RowsInv, ReportersInv, NEW a \in Reporters,
         UNCHANGED <<apart, posts, reported>>, ReportEnds(a)
  PROVE  RowsInv' /\ ReportersInv'
<1>1. Reporting(NoReport) /\ OnItsOwn(a, NoReport)
  BY DEF Reporting, OnItsOwn, NoReport, Resolved
<1> QED
  BY <1>1, ReporterMoves DEF ReportEnds

LEMMA PostKeeps ==
  ASSUME ReportsInv, NEW post \in Posts, Post(post)
  PROVE  ReportsInv'
<1>1. /\ posts \in Seq(Posts) /\ posts' = Append(posts, post)
      /\ apart' = apart /\ reports' = reports /\ reported' = reported /\ recorded' = recorded
  BY DEF Post, ReportsInv, RowsInv
<1>2. \A p, c : Cites(p, c) => Cites(p, c)'
  BY <1>1, CitesGrows
<1>3. RowsInv'
  <2>1. ASSUME NEW o \in reported, Reported(o) PROVE Reported(o)'
    BY <1>1, <1>2, <2>1 DEF Reported
  <2>2. posts' \in Seq(Posts)
    BY <1>1
  <2> QED
    BY <1>1, <2>1, <2>2 DEF ReportsInv, RowsInv
<1>4. ReportersInv'
  <2>1. ASSUME NEW q, Reporting(q) PROVE Reporting(q)'
    BY <1>1, <1>2, <2>1 DEF Reporting
  <2>2. OneByOne'
    BY <1>1 DEF ReportsInv, ReportersInv, OneByOne
  <2>3. \A a \in Reporters : Reporting(reports[a])'
    BY <1>1, <2>1 DEF ReportsInv, ReportersInv
  <2> QED
    BY <1>1, <2>2, <2>3 DEF ReportsInv, ReportersInv
<1> QED
  BY <1>1, <1>3, <1>4, MemoriesStay DEF ReportsInv

LEMMA SendKeeps ==
  ASSUME ReportsInv, NEW a \in Reporters, NEW p \in Payloads, SendReport(a, p)
  PROVE  ReportsInv'
<1> DEFINE r == [pc |-> "resolve", of |-> p]
<1>1. /\ UNCHANGED <<apart, posts, reported, recorded>>
      /\ reports' = [reports EXCEPT ![a] = r]
      /\ apart => p.user # Unnamed /\ Working(p.user) = {}
  BY DEF SendReport
<1>2. Reporting(r)
  BY DEF Reporting, Resolved
<1>3. r.pc = "resolve" /\ r.of = p
  OBVIOUS
<1> HIDE DEF r
<1>4. OnItsOwn(a, r)
  BY <1>1, <1>3 DEF OnItsOwn, Working, Resolved
<1> QED
  BY <1>1, <1>2, <1>4, ReporterMoves, MemoriesStay DEF ReportsInv

LEMMA ResolveKeeps ==
  ASSUME ReportsInv, NEW a \in Reporters, ResolveReport(a)
  PROVE  ReportsInv'
<1> DEFINE p == reports[a].of
           c == ContextOf(p)
           r == [pc |-> "look", of |-> p, context |-> c]
<1>1. UNCHANGED <<apart, posts, reported, recorded>> /\ reports[a].pc = "resolve"
  BY DEF ResolveReport
<1>2. RowsInv /\ ReportersInv /\ p \in Payloads
  BY <1>1 DEF ReportsInv, ReportersInv, Reporting
<1>3. CASE Found(p)
  <2>1. reports' = [reports EXCEPT ![a] = r]
    BY <1>3 DEF ResolveReport
  <2>2. /\ DOMAIN c = ContextNames /\ Cites(p, c) /\ ToSet(Unique(p.people)) \subseteq ToSet(c.people)
        /\ NamesOnce(c.people)
        /\ p.message = 0 => c.message = IF p.session = Unnamed THEN 0 ELSE LatestAnswered(p.session)
    BY <1>2, <1>3, ContextIs DEF RowsInv
  <2>3. r.pc = "look" /\ r.of = p /\ r.context = c /\ DOMAIN r = {"pc", "of", "context"}
    OBVIOUS
  <2> HIDE DEF r, c
  <2>4. Reporting(r)
    BY <1>2, <2>2, <2>3 DEF Reporting
  <2>5. ASSUME NEW o \in reported, SameReport(o, r) PROVE o.message <= c.message
    <3>1. Cites(o.by, o) /\ o.hash = RequestHash(o.user, o.by) /\ o.hash = RequestHash(c.user, p)
      BY <1>2, <2>3, <2>5 DEF RowsInv, Reported, SameReport
    <3>2. o.by.message = p.message /\ o.by.session = p.session
      BY <3>1 DEF RequestHash
    <3>3. CASE p.message # 0
      <4>1. o.message = c.message /\ o.message \in Nat
        BY <2>2, <3>1, <3>2, <3>3 DEF Cites
      <4> QED
        BY <4>1
    <3>4. CASE p.message = 0
      BY <2>2, <3>1, <3>2, <3>4 DEF Cites
    <3> QED
      BY <3>3, <3>4
  <2>6. OnItsOwn(a, r)
    BY <1>1, <1>2, <2>3, <2>5 DEF ReportersInv, OneByOne, OnItsOwn
  <2> QED
    BY <1>1, <1>2, <2>1, <2>4, <2>6, ReporterMoves, MemoriesStay DEF ReportsInv
<1>4. CASE ~Found(p)
  <2>1. ReportEnds(a)
    BY <1>4 DEF ResolveReport
  <2> QED
    BY <1>1, <1>2, <2>1, ReportEndsKeeps, MemoriesStay DEF ReportsInv
<1> QED
  BY <1>3, <1>4

LEMMA LookUpKeeps ==
  ASSUME ReportsInv, NEW a \in Reporters, LookUpReport(a)
  PROVE  ReportsInv'
<1> DEFINE r == reports[a]
           earlier == RowsFor(r.context.user, KeyOfReport(r))
           Goes(pc, analysis) ==
             [pc |-> pc, of |-> r.of, analysis |-> analysis,
              context |-> [r.context EXCEPT !.people = Merge(@, analysis.people),
                                            !.topics = Merge(@, analysis.topics)]]
<1>1. UNCHANGED <<apart, posts, reported, recorded>> /\ r.pc = "look"
  BY DEF LookUpReport
<1>2. RowsInv /\ ReportersInv /\ Reporting(r) /\ r.of \in Payloads
  BY <1>1 DEF ReportsInv, ReportersInv, Reporting
<1>3. /\ DOMAIN r.context = ContextNames /\ Cites(r.of, r.context) /\ NamesOnce(r.context.people)
      /\ ToSet(Unique(r.of.people)) \subseteq ToSet(r.context.people)
  BY <1>1, <1>2 DEF Reporting, Resolved
<1>4. \/ \E o \in earlier :
           IF o.hash = RequestHash(r.context.user, r.of)
           THEN reports' = [reports EXCEPT ![a] = Goes("record", o.analysis)] ELSE ReportEnds(a)
      \/ \E first, repaired \in RawAnalyses :
           LET raw == IF HasSummary(first) THEN first ELSE repaired
           IN IF HasSummary(raw)
              THEN reports' = [reports EXCEPT ![a] =
                     Goes("reserve", [people |-> Unique(raw.people), topics |-> Unique(raw.topics)])]
              ELSE ReportEnds(a)
  BY DEF LookUpReport
<1>5. ASSUME NEW pc \in {"reserve", "record"}, NEW analysis, Reads(analysis.people),
             reports' = [reports EXCEPT ![a] = Goes(pc, analysis)],
             pc = "record" => \E o \in reported : SameReport(o, r)
      PROVE  RowsInv' /\ ReportersInv'
  <2> DEFINE q == Goes(pc, analysis)
  <2>1. /\ q.pc = pc /\ q.of = r.of /\ q.analysis = analysis
        /\ DOMAIN q = {"pc", "of", "context", "analysis"}
    OBVIOUS
  <2>2. /\ DOMAIN q.context = ContextNames
        /\ q.context.people = Merge(r.context.people, analysis.people)
        /\ q.context.user = r.context.user /\ q.context.session = r.context.session
        /\ q.context.message = r.context.message /\ q.context.goal = r.context.goal
        /\ q.context.predicted = r.context.predicted
    BY <1>3 DEF ContextNames
  <2> HIDE DEF q
  <2>3. Cites(q.of, q.context)
    BY <1>3, <2>1, <2>2, CitesSame
  <2>4. /\ ToSet(r.context.people) \subseteq ToSet(q.context.people)
        /\ NamesOnce(q.context.people)
    BY <1>3, <1>5, <2>2, MergeKeepsAll DEF Reads
  <2>5. \A o : SameReport(o, q) <=> SameReport(o, r)
    BY <2>1, <2>2, SameReportSame
  <2>6. Reporting(q)
    BY <1>2, <1>3, <1>5, <2>1, <2>2, <2>3, <2>4, <2>5 DEF Reporting
  <2>7. OnItsOwn(a, q)
    BY <1>1, <1>2, <2>1, <2>2, <2>5 DEF ReportersInv, OneByOne, OnItsOwn, Resolved
  <2> QED
    BY <1>1, <1>2, <1>5, <2>6, <2>7, ReporterMoves DEF q
<1>6. ASSUME ReportEnds(a) PROVE RowsInv' /\ ReportersInv'
  BY <1>1, <1>2, <1>6, ReportEndsKeeps
<1> HIDE DEF Goes
<1>7. ASSUME NEW o \in earlier, o.hash = RequestHash(r.context.user, r.of),
             reports' = [reports EXCEPT ![a] = Goes("record", o.analysis)]
      PROVE  RowsInv' /\ ReportersInv'
  <2>1. o \in reported /\ SameReport(o, r)
    BY <1>7 DEF RowsFor, SameReport
  <2>2. Reads(o.analysis.people)
    BY <1>2, <2>1 DEF RowsInv, Reported
  <2> QED
    BY <1>5, <1>7, <2>1, <2>2
<1>8. ASSUME NEW raw \in RawAnalyses, HasSummary(raw),
             reports' = [reports EXCEPT ![a] =
               Goes("reserve", [people |-> Unique(raw.people), topics |-> Unique(raw.topics)])]
      PROVE  RowsInv' /\ ReportersInv'
  <2>1. Reads(raw.people)
    BY <1>8, ReportsAssumption DEF HasSummary, Reads
  <2>2. Reads(Unique(raw.people))
    BY <2>1, UniqueIsNamed DEF Reads, NamesOnce
  <2> DEFINE analysis == [people |-> Unique(raw.people), topics |-> Unique(raw.topics)]
  <2>3. analysis.people = Unique(raw.people)
    OBVIOUS
  <2> QED
    BY <1>5, <1>8, <2>2, <2>3
<1>9. RowsInv' /\ ReportersInv'
  BY <1>4, <1>6, <1>7, <1>8
<1> QED
  BY <1>1, <1>9, MemoriesStay DEF ReportsInv

LEMMA ReserveKeeps ==
  ASSUME ReportsInv, NEW a \in Reporters, ReserveReport(a)
  PROVE  ReportsInv'
<1> DEFINE r == reports[a]
           earlier == RowsFor(r.context.user, KeyOfReport(r))
<1>1. PICK n, q : n = NewOutcome(r) /\ q = [r EXCEPT !.pc = "record"]
  OBVIOUS
<1>2. /\ UNCHANGED <<apart, posts, recorded>> /\ r.pc = "reserve"
      /\ reported' = IF earlier = {} THEN reported \cup {n} ELSE reported
      /\ IF \A o \in earlier : o.hash = RequestHash(r.context.user, r.of)
         THEN reports' = [reports EXCEPT ![a].pc = "record"] ELSE ReportEnds(a)
  BY <1>1 DEF ReserveReport
<1>3. /\ RowsInv /\ ReportersInv /\ MemoriesInv /\ Reporting(r) /\ r.of \in Payloads
      /\ DOMAIN reports = Reporters
  BY <1>2 DEF ReportsInv, ReportersInv, Reporting
<1>4. /\ DOMAIN r.context = ContextNames /\ Cites(r.of, r.context) /\ NamesOnce(r.context.people)
      /\ ToSet(Unique(r.of.people)) \subseteq ToSet(r.context.people)
      /\ Reads(r.analysis.people) /\ DOMAIN r = {"pc", "of", "context", "analysis"}
  BY <1>2, <1>3 DEF Reporting, Resolved
<1>5. /\ q.pc = "record" /\ q.of = r.of /\ q.context = r.context
      /\ DOMAIN q = {"pc", "of", "context", "analysis"}
  BY <1>1, <1>4
<1>6. KeyOfReport(q) = KeyOfReport(r) /\ \A o : SameReport(o, q) <=> SameReport(o, r)
  BY <1>5, SameReportSame
<1>7. /\ n.user = r.context.user /\ n.key = KeyOfReport(r) /\ n.by = r.of
      /\ n.hash = RequestHash(r.context.user, r.of) /\ n.analysis = r.analysis
      /\ n.session = r.context.session /\ n.message = r.context.message
      /\ n.goal = r.context.goal /\ n.predicted = r.context.predicted
  BY <1>1 DEF NewOutcome
<1>8. CASE earlier = {}
  <2>1. reported' = reported \cup {n} /\ reports' = [reports EXCEPT ![a] = q]
    BY <1>1, <1>2, <1>8
  <2>2. /\ reports'[a] = q /\ DOMAIN reports' = Reporters
        /\ \A b \in Reporters \ {a} : reports'[b] = reports[b]
    BY <1>3, <2>1
  <2>3. \A o \in reported : ~(o.user = n.user /\ o.key = n.key)
    BY <1>7, <1>8 DEF RowsFor
  <2>4. SameReport(n, r) /\ SameReport(n, q)
    BY <1>6, <1>7 DEF SameReport
  <2>5. Cites(n.by, n)
    BY <1>4, <1>7, CitesSame
  <2>6. RowsInv'
    <3>1. ASSUME NEW o \in reported PROVE Reported(o)'
      <4>1. Reported(o)
        BY <1>3 DEF RowsInv
      <4>2. Cites(o.by, o)'
        BY <1>2, <4>1, CitesStays DEF Reported
      <4> QED
        BY <2>1, <2>3, <4>1, <4>2 DEF Reported
    <3>2. Reported(n)'
      <4>1. Cites(n.by, n)'
        BY <1>2, <2>5, CitesStays
      <4> QED
        BY <1>3, <1>4, <1>7, <2>1, <2>3, <4>1 DEF Reported
    <3> QED
      BY <1>2, <1>3, <2>1, <3>1, <3>2 DEF RowsInv
  <2>7. \A b \in Reporters : Reporting(reports[b])'
    <3>1. ASSUME NEW w, Reporting(w), w.pc = "record" => \E o \in reported' : SameReport(o, w)
          PROVE  Reporting(w)'
      <4>1. Cites(w.of, w.context) => Cites(w.of, w.context)'
        BY <1>2, CitesStays
      <4> QED
        BY <3>1, <4>1 DEF Reporting
    <3>2. Reporting(q)'
      <4>1. Cites(q.of, q.context)'
        BY <1>2, <1>4, <1>5, CitesStays
      <4> QED
        BY <1>3, <1>4, <1>5, <2>1, <2>4, <4>1 DEF Reporting
    <3>3. \A b \in Reporters : Reporting(reports[b])
      BY <1>3 DEF ReportersInv
    <3>4. ASSUME NEW b \in Reporters \ {a} PROVE Reporting(reports[b])'
      <4>1. reports[b].pc = "record" => \E o \in reported' : SameReport(o, reports[b])
        BY <2>1, <3>3 DEF Reporting
      <4> QED
        BY <2>2, <3>1, <3>3, <4>1
    <3> QED
      BY <2>2, <3>2, <3>4
  <2>8. OneByOne'
    <3> SUFFICES ASSUME apart', NEW b \in Reporters
                 PROVE
          /\ reports'[b].pc # "idle" => reports'[b].of.user # Unnamed
          /\ \A d \in Reporters :
               reports'[b].pc # "idle" /\ reports'[d].pc # "idle" /\ reports'[b].of.user = reports'[d].of.user
                 => b = d
          /\ Resolved(reports'[b]) =>
               \A o \in reported' : SameReport(o, reports'[b]) => o.message <= reports'[b].context.message
      BY DEF OneByOne, Resolved, SameReport, KeyOfReport, RequestHash
    <3>1. OneByOne /\ apart
      BY <1>2, <1>3 DEF ReportersInv
    <3>2. \A d \in Reporters : /\ reports'[d].pc # "idle" <=> reports[d].pc # "idle"
                               /\ reports'[d].of = reports[d].of /\ reports'[d].context = reports[d].context
                               /\ Resolved(reports'[d]) => Resolved(reports[d])
                               /\ \A o : SameReport(o, reports'[d]) => SameReport(o, reports[d])
      BY <1>2, <1>5, <1>6, <2>2 DEF Resolved
    <3>3. ASSUME Resolved(reports[b]), SameReport(n, reports[b])
          PROVE  n.message <= reports[b].context.message
      <4>1. Cites(reports[b].of, reports[b].context)
        BY <1>3, <3>3 DEF ReportersInv, Reporting
      <4>2. reports[b].of.user # Unnamed /\ r.of.user # Unnamed
        BY <1>2, <3>1, <3>3 DEF OneByOne, Resolved
      <4>3. reports[b].of.user = r.of.user
        BY <1>4, <1>7, <3>3, <4>1, <4>2 DEF SameReport, Cites
      <4>4. a = b
        BY <1>2, <3>1, <3>3, <4>3 DEF OneByOne, Resolved
      <4>5. n.message \in Nat
        BY <1>4, <1>7 DEF Cites
      <4> QED
        BY <1>7, <4>4, <4>5
    <3> QED
      BY <2>1, <3>1, <3>2, <3>3 DEF OneByOne
  <2>9. MemoriesInv'
    <3>1. \A m \in recorded : ~(m.user = n.user /\ m.outcome = n.key)
      BY <1>3, <2>3 DEF MemoriesInv
    <3>2. \A o, m : Recorded(m, o)' <=> Recorded(m, o)
      BY <1>2 DEF Recorded
    <3> QED
      BY <1>2, <1>3, <2>1, <3>1, <3>2 DEF MemoriesInv
  <2> QED
    BY <2>2, <2>6, <2>7, <2>8, <2>9 DEF ReportsInv, ReportersInv
<1>9. CASE earlier # {} /\ \A o \in earlier : o.hash = RequestHash(r.context.user, r.of)
  <2>1. UNCHANGED reported /\ reports' = [reports EXCEPT ![a] = q]
    BY <1>1, <1>2, <1>9
  <2>2. \E o \in reported : SameReport(o, r)
    BY <1>9 DEF RowsFor, SameReport
  <2>3. Reporting(q)
    BY <1>3, <1>4, <1>5, <1>6, <2>2 DEF Reporting
  <2>4. OnItsOwn(a, q)
    BY <1>2, <1>3, <1>5, <1>6 DEF ReportersInv, OneByOne, OnItsOwn, Resolved
  <2> QED
    BY <1>2, <1>3, <2>1, <2>3, <2>4, ReporterMoves, MemoriesStay DEF ReportsInv
<1>10. CASE earlier # {} /\ ~ \A o \in earlier : o.hash = RequestHash(r.context.user, r.of)
  <2>1. UNCHANGED reported /\ ReportEnds(a)
    BY <1>2, <1>10
  <2> QED
    BY <1>2, <1>3, <2>1, ReportEndsKeeps, MemoriesStay DEF ReportsInv
<1> QED
  BY <1>8, <1>9, <1>10

LEMMA RecordKeeps ==
  ASSUME ReportsInv, NEW a \in Reporters, RecordReport(a)
  PROVE  ReportsInv'
<1> DEFINE r == reports[a]
           known == {m \in recorded : m.user = r.context.user /\ m.outcome = KeyOfReport(r)}
           n == [user |-> r.context.user, outcome |-> KeyOfReport(r),
                 session |-> r.context.session, message |-> r.context.message,
                 people |-> r.context.people, topics |-> r.context.topics]
<1>1. /\ UNCHANGED <<apart, posts, reported>> /\ r.pc = "record" /\ ReportEnds(a)
      /\ recorded' = IF known # {} THEN recorded ELSE recorded \cup {n}
  BY DEF RecordReport
<1>2. RowsInv /\ ReportersInv /\ MemoriesInv /\ Reporting(r)
  BY DEF ReportsInv, ReportersInv
<1>3. RowsInv' /\ ReportersInv'
  BY <1>1, <1>2, ReportEndsKeeps
<1>4. PICK o \in reported : SameReport(o, r)
  BY <1>1, <1>2 DEF Reporting
<1>5. /\ Reported(o) /\ Cites(r.of, r.context)
      /\ ToSet(Unique(r.of.people)) \subseteq ToSet(r.context.people)
  BY <1>1, <1>2 DEF RowsInv, Reporting, Resolved
<1>6. /\ o.by.session = r.of.session /\ o.by.message = r.of.message
      /\ Unique(o.by.people) = Unique(r.of.people)
  BY <1>4, <1>5 DEF Reported, SameReport, RequestHash
<1>7. apart => o.message <= r.context.message
  BY <1>1, <1>2, <1>4 DEF ReportersInv, OneByOne, Resolved
<1>8. o.session = r.context.session /\ o.by.message # 0 => o.message = r.context.message
  BY <1>5, <1>6 DEF Reported, Cites, SessionOf
<1>9. /\ n.user = r.context.user /\ n.outcome = KeyOfReport(r) /\ n.session = r.context.session
      /\ n.message = r.context.message /\ n.people = r.context.people
  OBVIOUS
<1> HIDE DEF n
<1>10. Recorded(n, o)
  <2>1. o.session = r.context.session
    BY <1>5, <1>6 DEF Reported, Cites, SessionOf
  <2>2. o.message \in Nat /\ r.context.message \in Nat
    BY <1>5 DEF Reported, Cites
  <2> QED
    BY <1>5, <1>6, <1>7, <1>8, <1>9, <2>1, <2>2 DEF Recorded
<1>11. \A p \in reported : p.user = n.user /\ p.key = n.outcome => p = o
  BY <1>4, <1>5, <1>9 DEF Reported, SameReport
<1>12. MemoriesInv'
  <2>1. CASE known # {}
    BY <1>1, <1>2, <2>1 DEF MemoriesInv, Recorded
  <2>2. CASE known = {}
    <3>1. recorded' = recorded \cup {n}
      BY <1>1, <2>2
    <3>2. o.user = n.user /\ o.key = n.outcome
      BY <1>4, <1>9 DEF SameReport
    <3>3. \A p, m : Recorded(m, p)' <=> Recorded(m, p)
      BY <1>1 DEF Recorded
    <3> QED
      BY <1>1, <1>2, <1>10, <1>11, <3>1, <3>2, <3>3 DEF MemoriesInv
  <2> QED
    BY <2>1, <2>2
<1> QED
  BY <1>3, <1>12 DEF ReportsInv

LEMMA ReportsStep == ReportsInv /\ [ReportsNext]_reportVars => ReportsInv'
<1> SUFFICES ASSUME ReportsInv, [ReportsNext]_reportVars PROVE ReportsInv'
  OBVIOUS
<1>1. CASE UNCHANGED reportVars
  <2>1. /\ apart' = apart /\ posts' = posts /\ reports' = reports
        /\ reported' = reported /\ recorded' = recorded
    BY <1>1 DEF reportVars
  <2>2. \A p, c : Cites(p, c) => Cites(p, c)'
    BY <2>1, CitesStays
  <2>3. ASSUME NEW o \in reported, Reported(o) PROVE Reported(o)'
    BY <2>1, <2>2, <2>3 DEF Reported
  <2>4. ASSUME NEW q, Reporting(q) PROVE Reporting(q)'
    BY <2>1, <2>2, <2>4 DEF Reporting
  <2>5. OneByOne'
    BY <2>1 DEF ReportsInv, ReportersInv, OneByOne
  <2>6. \A a \in Reporters : Reporting(reports[a])'
    BY <2>1, <2>4 DEF ReportsInv, ReportersInv
  <2>7. RowsInv' /\ ReportersInv'
    BY <2>1, <2>3, <2>5, <2>6 DEF ReportsInv, RowsInv, ReportersInv
  <2> QED
    BY <2>1, <2>7, MemoriesStay DEF ReportsInv
<1>2. CASE \E post \in Posts : Post(post)
  BY <1>2, PostKeeps
<1>3. ASSUME NEW a \in Reporters,
             \/ \E p \in Payloads : SendReport(a, p)
             \/ ResolveReport(a) \/ LookUpReport(a) \/ ReserveReport(a)
             \/ RecordReport(a) \/ ReportFails(a)
      PROVE  ReportsInv'
  <2>1. ASSUME ReportFails(a) PROVE ReportsInv'
    BY <2>1, ReportEndsKeeps, MemoriesStay DEF ReportFails, ReportsInv
  <2> QED
    BY <1>3, <2>1, SendKeeps, ResolveKeeps, LookUpKeeps, ReserveKeeps, RecordKeeps
<1> QED
  BY <1>1, <1>2, <1>3 DEF ReportsNext

(* OutcomeContext.OutcomesKeepTheirContext: a row is of its subject, its   *)
(* conversation and its message, whatever else is reported and written in  *)
(* the meantime; what a later attempt records for it is of the same        *)
(* conversation, about an answer that is not an earlier one behind the     *)
(* fence (resolveContext, lookupOutcome, reserveOutcome, recordOutcome).   *)
THEOREM OutcomesKeepTheirContextAlways == ReportsSpec => []OutcomesKeepTheirContext
<1>1. ReportsInv => OutcomesKeepTheirContext
  BY DEF ReportsInv, RowsInv, MemoriesInv, Reported, Recorded, Cites, OutcomesKeepTheirContext
<1> QED
  BY ReportsStart, ReportsStep, <1>1, PTL DEF ReportsSpec

-----------------------------------------------------------------------------
(* Recursion along a list                                                  *)

(* A value per part of a list, each made of the one before.                *)
Grown(f, X, base, l, step) ==
  f \in [0..l -> X] /\ f[0] = base /\ \A n \in 1..l : f[n] = step[n][f[n - 1]]

LEMMA GrownExists ==
  ASSUME NEW X, NEW base \in X, NEW l \in Nat, NEW step \in [1..l -> [X -> X]]
  PROVE  \E f : Grown(f, X, base, l, step)
<1> DEFINE Some(m) == \E f : Grown(f, X, base, m, step)
           W == {m \in 0..l : Some(m)}
<1>1. 0 \in W
  <2> DEFINE f == [n \in 0..0 |-> base]
  <2>1. f \in [0..0 -> X] /\ f[0] = base /\ 1..0 = {}
    OBVIOUS
  <2> HIDE DEF f
  <2> QED
    BY <2>1 DEF Grown
<1>2. ASSUME NEW m \in 1..l, m - 1 \in W PROVE m \in W
  <2>1. PICK f \in [0..m - 1 -> X] :
          f[0] = base /\ \A n \in 1..m - 1 : f[n] = step[n][f[n - 1]]
    BY <1>2 DEF Grown
  <2> DEFINE g == [n \in 0..m |-> IF n = m THEN step[m][f[m - 1]] ELSE f[n]]
  <2>2. \A n \in 0..m : n = m \/ n \in 0..m - 1
    OBVIOUS
  <2>3. g \in [0..m -> X]
    BY <2>2
  <2>4. g[0] = base
    BY <2>1
  <2>5. \A n \in 1..m : g[n] = step[n][g[n - 1]]
    <3> TAKE n \in 1..m
    <3>1. n - 1 \in 0..m - 1 /\ n - 1 # m /\ n \in 0..m /\ n - 1 \in 0..m
      OBVIOUS
    <3>2. g[n - 1] = f[n - 1]
      BY <3>1
    <3>3. CASE n = m
      BY <3>1, <3>2, <3>3
    <3>4. CASE n # m
      <4>1. n \in 1..m - 1 /\ n \in 0..m - 1
        BY <3>4
      <4>2. g[n] = f[n]
        BY <3>1, <3>4
      <4> QED
        BY <2>1, <3>2, <4>1, <4>2
    <3> QED
      BY <3>3, <3>4
  <2>6. Some(m)
    <3> HIDE DEF g
    <3> QED
      BY <2>3, <2>4, <2>5 DEF Grown
  <2> HIDE DEF Some
  <2> QED
    BY <2>6
<1> HIDE DEF W
<1>3. \A n \in 1..l : n - 1 \in W => n \in W
  BY <1>2
<1>4. \A n \in 0..l : n \in W
  BY <1>1, <1>3, EveryPart
<1>5. l \in W
  BY <1>4
<1> QED
  BY <1>5 DEF W

-----------------------------------------------------------------------------
(* The selection                                                           *)

(* What Select keeps of the first n candidates: at says where they were.   *)
SelectedUpTo(sorted, limit, chosen, n) ==
  \E at \in [DOMAIN chosen -> 1..n] :
    /\ \A i, j \in DOMAIN chosen : i < j => at[i] < at[j]
    /\ \A i \in DOMAIN chosen : chosen[i] = sorted[at[i]]
    /\ \A i, j \in DOMAIN chosen : i < j => ~Repeats(chosen[j], chosen[i])
    /\ \A k \in 1..n :
         \/ \E i \in DOMAIN chosen : at[i] = k
         \/ \E i \in DOMAIN chosen : at[i] < k /\ Repeats(sorted[k], chosen[i])
         \/ Len(chosen) = limit /\ \A i \in DOMAIN chosen : at[i] < k

LEMMA SelectIs ==
  ASSUME NEW S, NEW sorted \in Seq(S), NEW limit \in Nat
  PROVE  /\ Select(sorted, limit) \in Seq(S)
         /\ Len(Select(sorted, limit)) <= limit
         /\ SelectedUpTo(sorted, limit, Select(sorted, limit), Len(sorted))
<1> DEFINE l == Len(sorted)
           X == Seq(S)
           Takes(chosen, n) ==
             IF Len(chosen) = limit \/ \E m \in ToSet(chosen) : Repeats(sorted[n], m)
             THEN chosen ELSE Append(chosen, sorted[n])
           step == [n \in 1..l |-> [chosen \in X |-> Takes(chosen, n)]]
           selected == CHOOSE f : f = [n \in 0..l |-> IF n = 0 THEN <<>> ELSE Takes(f[n - 1], n)]
<1>1. l \in Nat /\ DOMAIN sorted = 1..l /\ \A n \in 1..l : sorted[n] \in S
  OBVIOUS
<1>2. <<>> \in X /\ step \in [1..l -> [X -> X]]
  BY <1>1
<1>3. Select(sorted, limit) = selected[l]
  BY DEF Select
<1>4. selected = [n \in 0..l |-> IF n = 0 THEN <<>> ELSE Takes(selected[n - 1], n)]
  <2> HIDE DEF step, X, l
  <2>1. PICK f \in [0..l -> X] : f[0] = <<>> /\ \A n \in 1..l : f[n] = step[n][f[n - 1]]
    <3>1. l \in Nat /\ <<>> \in X /\ step \in [1..l -> [X -> X]]
      BY <1>1, <1>2
    <3>2. \E f : Grown(f, X, <<>>, l, step)
      BY <3>1, GrownExists
    <3> QED
      BY <3>2 DEF Grown
  <2>2. \A n \in 1..l : step[n][f[n - 1]] = Takes(f[n - 1], n)
    <3> TAKE n \in 1..l
    <3>1. f[n - 1] \in X
      BY <1>1, <2>1
    <3> QED
      BY <3>1 DEF step
  <2>3. f = [n \in 0..l |-> IF n = 0 THEN <<>> ELSE Takes(f[n - 1], n)]
    <3> HIDE DEF Takes
    <3>1. \A n \in 0..l : f[n] = IF n = 0 THEN <<>> ELSE Takes(f[n - 1], n)
      <4> TAKE n \in 0..l
      <4>1. n = 0 \/ n \in 1..l
        BY <1>1
      <4> QED
        BY <2>1, <2>2, <4>1
    <3> QED
      BY <2>1, <3>1
  <2> QED
    BY <2>3, Zenon
<1> HIDE DEF selected, step
<1> DEFINE Right(n) == /\ selected[n] \in X
                       /\ Len(selected[n]) <= limit
                       /\ SelectedUpTo(sorted, limit, selected[n], n)
           W == {n \in 0..l : Right(n)}
<1>5. 0 \in W
  <2>1. selected[0] = <<>>
    BY <1>1, <1>4
  <2>2. SelectedUpTo(sorted, limit, <<>>, 0)
    <3> DEFINE at == [i \in DOMAIN <<>> |-> 1]
    <3>1. at \in [DOMAIN <<>> -> 1..0] /\ DOMAIN <<>> = {} /\ 1..0 = {}
      OBVIOUS
    <3> HIDE DEF at
    <3> QED
      BY <3>1 DEF SelectedUpTo
  <2>3. Len(<<>>) = 0 /\ 0 \in 0..l
    BY <1>1
  <2>4. Right(0)
    BY <2>1, <2>2, <2>3, <1>2
  <2> HIDE DEF Right
  <2> QED
    BY <2>3, <2>4
<1>6. ASSUME NEW n \in 1..l, n - 1 \in W PROVE n \in W
  <2> DEFINE chosen == selected[n - 1]
  <2>1. n \in Nat /\ n \in 0..l /\ n # 0 /\ sorted[n] \in S
    BY <1>1
  <2>2. /\ chosen \in X /\ Len(chosen) <= limit
        /\ SelectedUpTo(sorted, limit, chosen, n - 1)
    BY <1>6
  <2>3. selected[n] = Takes(chosen, n)
    BY <1>4, <2>1
  <2>4. PICK at \in [DOMAIN chosen -> 1..n - 1] :
          /\ \A i, j \in DOMAIN chosen : i < j => at[i] < at[j]
          /\ \A i \in DOMAIN chosen : chosen[i] = sorted[at[i]]
          /\ \A i, j \in DOMAIN chosen : i < j => ~Repeats(chosen[j], chosen[i])
          /\ \A k \in 1..n - 1 :
               \/ \E i \in DOMAIN chosen : at[i] = k
               \/ \E i \in DOMAIN chosen : at[i] < k /\ Repeats(sorted[k], chosen[i])
               \/ Len(chosen) = limit /\ \A i \in DOMAIN chosen : at[i] < k
    BY <2>2 DEF SelectedUpTo
  <2> HIDE DEF chosen
  <2>5. /\ DOMAIN chosen = 1..Len(chosen) /\ Len(chosen) \in Nat
        /\ at \in [DOMAIN chosen -> 1..n]
        /\ \A i \in DOMAIN chosen : at[i] \in Nat /\ at[i] < n
        /\ \A k \in 1..n : k = n \/ k \in 1..n - 1
    BY <2>1, <2>2
  <2>6. CASE Len(chosen) = limit \/ \E m \in ToSet(chosen) : Repeats(sorted[n], m)
    <3>1. selected[n] = chosen
      BY <2>3, <2>6
    <3>2. \/ \E i \in DOMAIN chosen : at[i] < n /\ Repeats(sorted[n], chosen[i])
          \/ Len(chosen) = limit /\ \A i \in DOMAIN chosen : at[i] < n
      BY <2>5, <2>6, Zenon DEF ToSet
    <3>3. SelectedUpTo(sorted, limit, chosen, n)
      BY <2>4, <2>5, <3>2, Zenon DEF SelectedUpTo
    <3> QED
      BY <2>1, <2>2, <3>1, <3>3
  <2>7. CASE ~(Len(chosen) = limit \/ \E m \in ToSet(chosen) : Repeats(sorted[n], m))
    <3> DEFINE more == Append(chosen, sorted[n])
               k == Len(chosen) + 1
               there == [i \in DOMAIN more |-> IF i = k THEN n ELSE at[i]]
    <3>1. selected[n] = more
      BY <2>3, <2>7
    <3>2. /\ more \in X /\ Len(more) = k /\ DOMAIN more = 1..k /\ more[k] = sorted[n]
          /\ \A i \in DOMAIN chosen : more[i] = chosen[i] /\ i \in DOMAIN more /\ i < k
          /\ \A i \in DOMAIN more : i = k \/ i \in DOMAIN chosen
          /\ k \in DOMAIN more /\ k \in Nat
      BY <2>1, <2>2, <2>5, AppendProperties
    <3>3. Len(chosen) + 1 <= limit
      <4>1. Len(chosen) # limit
        BY <2>7
      <4>2. Len(chosen) \in Nat /\ Len(chosen) <= limit
        BY <2>2, <2>5
      <4> QED
        BY <4>1, <4>2
    <3> HIDE DEF more, k
    <3>4. /\ there[k] = n /\ \A i \in DOMAIN chosen : there[i] = at[i]
      BY <3>2
    <3>5. there \in [DOMAIN more -> 1..n]
      BY <2>1, <2>5, <3>2
    <3> HIDE DEF there
    <3>6. \A i, j \in DOMAIN more : i < j => i \in DOMAIN chosen
      BY <2>5, <3>2
    <3>7. \A i, j \in DOMAIN more : i < j => there[i] < there[j]
      BY <2>4, <2>5, <3>2, <3>4, <3>6, Zenon
    <3>8. \A i \in DOMAIN more : more[i] = sorted[there[i]]
      BY <2>4, <3>2, <3>4
    <3>9. \A m \in ToSet(chosen) : ~Repeats(sorted[n], m)
      BY <2>7
    <3>10. \A i \in DOMAIN chosen : ~Repeats(sorted[n], chosen[i])
      BY <3>9 DEF ToSet
    <3>11. \A i, j \in DOMAIN more : i < j => ~Repeats(more[j], more[i])
      BY <2>4, <3>2, <3>6, <3>10
    <3>12. \A m \in 1..n :
             \/ \E i \in DOMAIN more : there[i] = m
             \/ \E i \in DOMAIN more : there[i] < m /\ Repeats(sorted[m], more[i])
             \/ Len(more) = limit /\ \A i \in DOMAIN more : there[i] < m
      <4> TAKE m \in 1..n
      <4>1. CASE m = n
        BY <3>2, <3>4, <4>1
      <4>2. CASE m \in 1..n - 1
        <5>1. Len(chosen) # limit
          BY <2>7
        <5>2. CASE \E i \in DOMAIN chosen : at[i] = m
          BY <3>2, <3>4, <5>2
        <5>3. CASE \E i \in DOMAIN chosen : at[i] < m /\ Repeats(sorted[m], chosen[i])
          <6>1. PICK i \in DOMAIN chosen : at[i] < m /\ Repeats(sorted[m], chosen[i])
            BY <5>3
          <6>2. i \in DOMAIN more /\ there[i] < m /\ Repeats(sorted[m], more[i])
            BY <3>2, <3>4, <6>1
          <6> QED
            BY <6>2
        <5> QED
          BY <2>4, <4>2, <5>1, <5>2, <5>3
      <4> QED
        BY <2>5, <4>1, <4>2
    <3>13. SelectedUpTo(sorted, limit, more, n)
      BY <3>5, <3>7, <3>8, <3>11, <3>12 DEF SelectedUpTo
    <3> QED
      BY <2>1, <3>1, <3>2, <3>13, <3>3 DEF k
  <2> QED
    BY <2>6, <2>7
<1> HIDE DEF W
<1>7. \A n \in 1..l : n - 1 \in W => n \in W
  BY <1>6
<1>8. \A n \in 0..l : n \in W
  <2> HIDE DEF l
  <2> QED
    BY <1>1, <1>5, <1>7, EveryPart
<1>9. l \in W
  BY <1>1, <1>8
<1> QED
  BY <1>3, <1>9 DEF W

LEMMA RepeatsIsMutual == \A m, n : Repeats(m, n) = Repeats(n, m)
BY DEF Repeats

(* An order of candidates has each of them.                                *)
LEMMA OrderHasAll ==
  ASSUME NEW C, IsFiniteSet(C), NEW s \in SetToSeqs(C)
  PROVE  /\ s \in Seq(C)
         /\ \A m \in C : \E i \in DOMAIN s : s[i] = m
         /\ \A i, j \in DOMAIN s : s[i] = s[j] => i = j
<1> DEFINE D == 1..Cardinality(C)
<1>1. /\ s \in [D -> C] /\ \A i, j \in D : i # j => s[i] # s[j]
  BY DEF SetToSeqs
<1>2. Cardinality(C) \in Nat
  BY FS_CardinalityType
<1>3. s \in Injection(D, C)
  BY <1>1 DEF Injection, IsInjective
<1>4. Cardinality(D) = Cardinality(C)
  BY <1>2, FS_Interval
<1>5. s \in Surjection(D, C)
  BY <1>3, <1>4, FS_Injection
<1>6. \A m \in C : \E i \in D : s[i] = m
  BY <1>5 DEF Surjection
<1> QED
  BY <1>1, <1>2, <1>6

(* Points that satisfy a question and were not fetched are still there     *)
(* only if as many as are fetched are as near.                             *)
LeftOut(q, hits) ==
  \A m \in points \ hits : Satisfies(q, m) => CrowdedOut(q, hits, m)

(* A search that reads rows asks a valid question and found what           *)
(* satisfies it; one that came less far has found nothing.                 *)
WantedInv ==
  /\ DOMAIN search = DOMAIN Idle
  /\ points \subseteq Items
  /\ collection \/ points = {}
  /\ search.pc \in {"idle", "user", "embed", "dense", "sparse", "hybrid", "rows", "found", "failed"}
  /\ search.pc \notin {"idle", "failed"} => Valid(search.question)
  /\ search.pc \in {"user", "embed", "dense", "sparse", "hybrid"} => search.hits = {}
  /\ search.pc \in {"user", "embed", "dense", "sparse", "hybrid", "rows"} => search.results = <<>>
  /\ search.pc = "rows" => /\ search.hits \subseteq {m \in Items : Satisfies(search.question, m)}
                          /\ LeftOut(search.question, search.hits)

LEMMA WantedStarts == SearchInit => WantedInv
BY DEF SearchInit, WantedInv, Idle

LEMMA SearchStarts ==
  ASSUME WantedInv, NEW q, StartSearch(q)
  PROVE  WantedInv'
<1> DEFINE s == [Idle EXCEPT !.question = q, !.pc = IF Valid(q) THEN "user" ELSE "failed"]
<1>1. search' = s /\ UNCHANGED <<points, collection>>
  BY DEF StartSearch
<1>2. /\ DOMAIN s = DOMAIN Idle /\ s.question = q /\ s.hits = {} /\ s.results = <<>>
      /\ s.pc = IF Valid(q) THEN "user" ELSE "failed"
  BY DEF Idle
<1> HIDE DEF s
<1>3. /\ DOMAIN search' = DOMAIN Idle /\ search'.question = q
      /\ search'.hits = {} /\ search'.results = <<>>
      /\ search'.pc = IF Valid(q) THEN "user" ELSE "failed"
  BY <1>1, <1>2
<1> QED
  BY <1>1, <1>3 DEF WantedInv, Idle, Valid

(* What the hybrid search fetches, and what it leaves.                     *)
LEMMA HybridFetches ==
  ASSUME WantedInv, SearchHybrid
  PROVE  \E hits \in SUBSET {m \in points : Satisfies(search.question, m)} :
           /\ search' = [search EXCEPT !.hits = hits, !.pc = IF hits = {} THEN "found" ELSE "rows"]
           /\ LeftOut(search.question, hits)
<1> DEFINE q == search.question
           found == {m \in points : Satisfies(q, m)}
           limit == CandidateLimit(ResultLimit(q))
<1>1. PICK hits \in kSubset(Min({Cardinality(found), limit}), found) :
         /\ \A m \in hits, n \in found \ hits : Memory[m].hybrid >= Memory[n].hybrid
         /\ search' = [search EXCEPT !.hits = hits, !.pc = IF hits = {} THEN "found" ELSE "rows"]
  BY Zenon DEF SearchHybrid
<1>2. limit \in Nat
  <2>1. search.question.limit \in Nat
    BY DEF WantedInv, SearchHybrid, Valid
  <2> DEFINE k == ResultLimit(search.question)
  <2>2. k \in Nat
    BY <2>1, SearchAssumption DEF ResultLimit
  <2> HIDE DEF k
  <2>3. k * CandidateFactor \in Nat
    BY <2>2, SearchAssumption
  <2>4. Min({MaxCandidates, k * CandidateFactor}) \in Nat
    BY <2>3, SearchAssumption DEF Min
  <2> DEFINE least == Min({MaxCandidates, k * CandidateFactor})
  <2> HIDE DEF least
  <2>5. Max({MinCandidates, least}) \in Nat
    <3>1. MinCandidates \in Nat /\ least \in Nat
      BY <2>4, SearchAssumption DEF least
    <3> QED
      BY <3>1 DEF Max
  <2> QED
    BY <2>5 DEF CandidateLimit, k, least
<1>3. IsFiniteSet(found) /\ Cardinality(found) \in Nat
  <2>1. found \subseteq Items
    BY DEF WantedInv
  <2> QED
    BY <2>1, SearchAssumption, FS_Subset, FS_CardinalityType
<1> HIDE DEF limit, found
<1>4. hits \in SUBSET found /\ Cardinality(hits) = Min({Cardinality(found), limit})
  BY <1>1, Zenon DEF kSubset
<1>5. Min({Cardinality(found), limit}) \in {Cardinality(found), limit}
  BY <1>2, <1>3 DEF Min
<1>6. ASSUME NEW m \in found \ hits
      PROVE  CrowdedOut(q, hits, m)
  <2>1. Cardinality(hits) # Cardinality(found)
    BY <1>3, <1>4, <1>6, FS_Subset
  <2>2. Cardinality(hits) = limit
    BY <1>4, <1>5, <2>1
  <2> QED
    BY <1>1, <1>6, <2>2 DEF CrowdedOut, limit
<1>7. LeftOut(q, hits)
  BY <1>6 DEF LeftOut, found
<1> QED
  BY <1>1, <1>4, <1>7 DEF found

LEMMA WantedStep ==
  ASSUME WantedInv, SearchStep \/ UNCHANGED searchVars \/ \E m \in Items : LoseRow(m) \/ LosePoint(m)
  PROVE  WantedInv'
<1>1. CASE UNCHANGED searchVars
  BY <1>1 DEF WantedInv, searchVars, Idle, Valid, Satisfies, RequiresPeople, LeftOut, CrowdedOut,
     ResultLimit
<1>2. ASSUME NEW m \in Items, LoseRow(m) \/ LosePoint(m) PROVE WantedInv'
  <2>1. UNCHANGED <<search, collection>> /\ points' \subseteq points
    BY <1>2 DEF LoseRow, LosePoint
  <2>2. LeftOut(search.question, search.hits) => LeftOut(search.question, search.hits)'
    BY <2>1 DEF LeftOut, CrowdedOut, ResultLimit, Satisfies, RequiresPeople
  <2> QED
    BY <2>1, <2>2 DEF WantedInv, Idle, Valid, Satisfies, RequiresPeople
<1>3. ASSUME NEW pc, search' = [search EXCEPT !.pc = pc], UNCHANGED <<points, collection>>,
             \/ pc = "failed"
             \/ search.pc \notin {"idle", "failed", "rows", "found"}
                /\ pc \in {"embed", "dense", "sparse", "hybrid", "found"}
      PROVE  WantedInv'
  <2>1. DOMAIN search' = DOMAIN search /\ search'.pc = pc /\ search'.question = search.question
        /\ search'.hits = search.hits /\ search'.results = search.results
    BY <1>3 DEF WantedInv, Idle
  <2> QED
    BY <1>3, <2>1 DEF WantedInv, Idle, Valid
<1>4. CASE EnsureUser
  BY <1>3, <1>4 DEF EnsureUser
<1>5. CASE Embed
  BY <1>3, <1>5 DEF Embed
<1>6. CASE SearchDense
  BY <1>3, <1>6 DEF SearchDense
<1>7. CASE SearchSparse
  BY <1>3, <1>7 DEF SearchSparse
<1>8. CASE SearchFails
  BY <1>3, <1>8 DEF SearchFails
<1>9. CASE SearchHybrid
  <2> DEFINE q == search.question
  <2>1. PICK hits \in SUBSET {m \in points : Satisfies(q, m)} :
          /\ search' = [search EXCEPT !.hits = hits, !.pc = IF hits = {} THEN "found" ELSE "rows"]
          /\ LeftOut(q, hits)
    BY <1>9, HybridFetches
  <2>2. UNCHANGED <<points, collection>> /\ search.pc = "hybrid"
    BY <1>9 DEF SearchHybrid
  <2>3. /\ DOMAIN search' = DOMAIN search /\ search'.question = q /\ search'.hits = hits
        /\ search'.pc = IF hits = {} THEN "found" ELSE "rows"
        /\ search'.results = search.results
    BY <2>1 DEF WantedInv, Idle
  <2>4. hits \subseteq {m \in Items : Satisfies(q, m)}
    BY DEF WantedInv
  <2>5. Valid(q) /\ search.results = <<>>
    BY <2>2 DEF WantedInv
  <2>6. /\ Valid(search.question)' = Valid(search'.question)
        /\ \A m : Satisfies(search.question, m)' = Satisfies(search'.question, m)
    BY DEF Valid, Satisfies, RequiresPeople
  <2>7. LeftOut(search.question, search.hits)'
    <3> HIDE DEF q
    <3>1. LeftOut(q, hits)
      BY <2>1
    <3> QED
      BY <2>2, <2>3, <3>1, <2>6 DEF LeftOut, CrowdedOut, ResultLimit
  <2> QED
    BY <2>2, <2>3, <2>4, <2>5, <2>6, <2>7 DEF WantedInv, Idle
<1>10. CASE LoadAndRank
  <2>1. PICK results : search' = [search EXCEPT !.pc = "found", !.results = results]
    BY <1>10 DEF LoadAndRank
  <2>2. UNCHANGED <<points, collection>> /\ search.pc = "rows"
    BY <1>10 DEF LoadAndRank
  <2>3. DOMAIN search' = DOMAIN search /\ search'.pc = "found" /\ search'.question = search.question
    BY <2>1 DEF WantedInv, Idle
  <2> QED
    BY <2>2, <2>3 DEF WantedInv, Idle, Valid
<1> QED
  BY <1>1, <1>2, <1>4, <1>5, <1>6, <1>7, <1>8, <1>9, <1>10 DEF SearchStep

IsBest(q, hits, r) ==
  LET Above(m) == {n \in ToSet(r) : ~Before(q, hits, m, n)}
  IN /\ ToSet(r) \subseteq Wanted(q) /\ Len(r) <= ResultLimit(q)
     /\ \A i, j \in DOMAIN r : i < j =>
          ~Before(q, hits, r[j], r[i]) /\ ~Repeats(r[i], r[j])
     /\ \A m \in Wanted(q) \ ToSet(r) :
          \/ \E n \in Above(m) : Repeats(m, n)
          \/ Cardinality(Above(m)) = ResultLimit(q)
          \/ m \notin hits /\ (m \notin points \/ CrowdedOut(q, hits, m))

(* The same of those that were fetched.                                    *)
IsBestOfHits(q, hits, r) ==
  LET Above(m) == {n \in ToSet(r) : ~Before(q, hits, m, n)}
  IN /\ ToSet(r) \subseteq hits \cap Wanted(q) /\ Len(r) <= ResultLimit(q)
     /\ \A i, j \in DOMAIN r : i < j =>
          ~Before(q, hits, r[j], r[i]) /\ ~Repeats(r[i], r[j])
     /\ \A m \in (hits \cap Wanted(q)) \ ToSet(r) :
          (\E n \in Above(m) : Repeats(m, n)) \/ Cardinality(Above(m)) = ResultLimit(q)

LEMMA RestWasLeftOut ==
  ASSUME NEW q, NEW hits, NEW r, IsBestOfHits(q, hits, r), LeftOut(q, hits)
  PROVE  IsBest(q, hits, r)
<1> DEFINE Above(m) == {n \in ToSet(r) : ~Before(q, hits, m, n)}
<1>1. ASSUME NEW m \in Wanted(q) \ ToSet(r)
      PROVE  \/ \E n \in Above(m) : Repeats(m, n)
             \/ Cardinality(Above(m)) = ResultLimit(q)
             \/ m \notin hits /\ (m \notin points \/ CrowdedOut(q, hits, m))
  <2>1. CASE m \in hits
    BY <1>1, <2>1, Zenon DEF IsBestOfHits
  <2>2. CASE m \notin hits
    <3>1. Satisfies(q, m)
      BY <1>1 DEF Wanted
    <3> QED
      BY <2>2, <3>1 DEF LeftOut
  <2> QED
    BY <2>1, <2>2
<1>2. /\ ToSet(r) \subseteq Wanted(q) /\ Len(r) <= ResultLimit(q)
      /\ \A i, j \in DOMAIN r : i < j =>
           ~Before(q, hits, r[j], r[i]) /\ ~Repeats(r[i], r[j])
  BY Zenon DEF IsBestOfHits
<1> QED
  BY <1>1, <1>2, Zenon DEF IsBest

(* What is ranked is the best of what was fetched and is wanted.           *)
LEMMA RankedIsBest ==
  ASSUME NEW q, NEW hits \in SUBSET Items, NEW limit \in Nat, ResultLimit(q) = limit,
         \A m \in hits : Satisfies(q, m),
         NEW r \in Rankings(q, hits)
  PROVE  r \in Seq(Items) /\ IsBestOfHits(q, hits, r)
<1> DEFINE wanted == hits \cap Wanted(q)
           Above(m) == {n \in ToSet(r) : ~Before(q, hits, m, n)}
<1>1. {m \in hits : IsCandidate(q, m)} = wanted
  BY DEF IsCandidate, Satisfies, Wanted
<1>2. PICK sorted \in Orders(q, hits, wanted) : r = Select(sorted, limit)
  BY <1>1 DEF Rankings
<1>3. IsFiniteSet(wanted)
  <2>1. wanted \subseteq Items
    OBVIOUS
  <2> QED
    BY <2>1, SearchAssumption, FS_Subset
<1>4. wanted \subseteq Items
  OBVIOUS
<1>5. /\ sorted \in SetToSeqs(wanted)
      /\ \A i, j \in DOMAIN sorted : i < j => ~Before(q, hits, sorted[j], sorted[i])
  BY <1>2 DEF Orders
<1> HIDE DEF wanted
<1>6. /\ sorted \in Seq(wanted)
      /\ \A m \in wanted : \E i \in DOMAIN sorted : sorted[i] = m
      /\ \A i, j \in DOMAIN sorted : sorted[i] = sorted[j] => i = j
  BY <1>3, <1>5, OrderHasAll
<1> DEFINE l == Len(sorted)
<1>7. l \in Nat /\ DOMAIN sorted = 1..l
  BY <1>6
<1>8. r \in Seq(wanted) /\ Len(r) <= limit /\ SelectedUpTo(sorted, limit, r, l)
  BY <1>2, <1>6, SelectIs
<1>9. DOMAIN r = 1..Len(r) /\ Len(r) \in Nat /\ \A i \in DOMAIN r : r[i] \in wanted
  BY <1>8
<1>10. PICK at \in [DOMAIN r -> 1..l] :
        /\ \A i, j \in DOMAIN r : i < j => at[i] < at[j]
        /\ \A i \in DOMAIN r : r[i] = sorted[at[i]]
        /\ \A i, j \in DOMAIN r : i < j => ~Repeats(r[j], r[i])
        /\ \A k \in 1..l :
             \/ \E i \in DOMAIN r : at[i] = k
             \/ \E i \in DOMAIN r : at[i] < k /\ Repeats(sorted[k], r[i])
             \/ Len(r) = limit /\ \A i \in DOMAIN r : at[i] < k
  BY <1>8 DEF SelectedUpTo
<1> HIDE DEF l
<1>11. \A i \in DOMAIN r : at[i] \in DOMAIN sorted /\ at[i] \in Nat
  BY <1>7
<1>12. \A i, j \in DOMAIN r : i < j => ~Before(q, hits, r[j], r[i])
  <2> TAKE i, j \in DOMAIN r
  <2>1. i < j => ~Before(q, hits, sorted[at[j]], sorted[at[i]])
    BY <1>5, <1>10, <1>11
  <2> QED
    BY <1>10, <2>1
<1>13. \A i, j \in DOMAIN r : i < j => ~Repeats(r[i], r[j])
  BY <1>10, RepeatsIsMutual
<1>14. ToSet(r) \subseteq wanted
  BY <1>9 DEF ToSet
<1>15. Cardinality(ToSet(r)) = Len(r)
  <2>1. \A i, j \in DOMAIN r : r[i] = r[j] => i = j
    <3> TAKE i, j \in DOMAIN r
    <3>1. r[i] = r[j] => at[i] = at[j]
      BY <1>6, <1>10, <1>11
    <3>2. i \in Nat /\ j \in Nat
      BY <1>9
    <3>3. i = j \/ at[i] # at[j]
      BY <1>10, <1>11, <3>2
    <3> QED
      BY <3>1, <3>3
  <2>2. r \in Injection(1..Len(r), ToSet(r)) /\ r \in Surjection(1..Len(r), ToSet(r))
    <3>1. r \in [1..Len(r) -> ToSet(r)]
      BY <1>8, <1>9 DEF ToSet
    <3>2. \A m \in ToSet(r) : \E i \in 1..Len(r) : r[i] = m
      BY <1>9 DEF ToSet
    <3> QED
      BY <1>9, <2>1, <3>1, <3>2 DEF Injection, IsInjective, Surjection
  <2>3. IsFiniteSet(1..Len(r)) /\ Cardinality(1..Len(r)) = Len(r)
    <3> DEFINE k == Len(r)
    <3>1. k \in Nat
      BY <1>9
    <3> HIDE DEF k
    <3>2. IsFiniteSet(1..k) /\ Cardinality(1..k) = k
      BY <3>1, FS_Interval
    <3> QED
      BY <3>2 DEF k
  <2> QED
    BY <2>2, <2>3, FS_Surjection
<1>16. ASSUME NEW m \in wanted \ ToSet(r)
       PROVE  (\E n \in Above(m) : Repeats(m, n)) \/ Cardinality(Above(m)) = limit
  <2>1. PICK k \in DOMAIN sorted : sorted[k] = m
    BY <1>6, <1>16
  <2>2. k \in 1..l /\ k \in Nat
    BY <1>7
  <2>3. ASSUME NEW i \in DOMAIN r, at[i] < k PROVE r[i] \in Above(m)
    <3>1. ~Before(q, hits, sorted[k], sorted[at[i]])
      BY <1>5, <1>11, <2>3
    <3>2. r[i] \in ToSet(r)
      BY DEF ToSet
    <3> QED
      BY <1>10, <2>1, <3>1, <3>2
  <2>4. CASE \E i \in DOMAIN r : at[i] = k
    <3>1. m \in ToSet(r)
      BY <1>10, <2>1, <2>4 DEF ToSet
    <3> QED
      BY <1>16, <3>1
  <2>5. CASE \E i \in DOMAIN r : at[i] < k /\ Repeats(sorted[k], r[i])
    <3> HIDE DEF Above
    <3> QED
      BY <2>1, <2>3, <2>5
  <2>6. CASE Len(r) = limit /\ \A i \in DOMAIN r : at[i] < k
    <3>1. \A i \in DOMAIN r : r[i] \in Above(m)
      <4> HIDE DEF Above
      <4> QED
        BY <2>3, <2>6
    <3>2. Above(m) = ToSet(r)
      <4>1. Above(m) \subseteq ToSet(r)
        OBVIOUS
      <4> HIDE DEF Above
      <4>2. ToSet(r) \subseteq Above(m)
        BY <3>1 DEF ToSet
      <4> QED
        BY <4>1, <4>2
    <3> HIDE DEF Above
    <3> QED
      BY <1>15, <2>6, <3>2
  <2> HIDE DEF Above
  <2> QED
    BY <1>10, <2>2, <2>4, <2>5, <2>6
<1> HIDE DEF Above
<1>17. r \in Seq(Items)
  BY <1>8, <1>4, SeqMonotonic
<1>18. /\ ToSet(r) \subseteq wanted /\ Len(r) <= limit
       /\ \A i, j \in DOMAIN r : i < j =>
                 ~Before(q, hits, r[j], r[i]) /\ ~Repeats(r[i], r[j])
       /\ \A m \in wanted \ ToSet(r) :
                 (\E n \in Above(m) : Repeats(m, n)) \/ Cardinality(Above(m)) = limit
  BY <1>8, <1>12, <1>13, <1>14, <1>16
<1> QED
  BY <1>17, <1>18, Zenon DEF wanted, Above, IsBestOfHits

(* MemorySearch.BestOfWanted: whatever the index still finds, and however  *)
(* equals are ordered, what a search returns are the best of all memories  *)
(* of the subject that have a row and satisfy the question, none of which  *)
(* repeats another; one is left out only because it repeats a better one,  *)
(* the limit was reached, it has no point, or as many points as are        *)
(* fetched were as near (RetrieveMemories, RankMemories, ApplyDiversity).  *)
THEOREM BestOfWantedAlways == ContextSpec => BestOfWanted
<1>1. ContextInit => WantedInv
  BY WantedStarts DEF ContextInit
<1>2. WantedInv /\ [ContextNext]_contextVars => WantedInv'
  <2> SUFFICES ASSUME WantedInv, [ContextNext]_contextVars PROVE WantedInv'
    OBVIOUS
  <2>1. \/ \E q : StartSearch(q)
        \/ SearchStep \/ UNCHANGED searchVars
        \/ \E m \in Items : LoseRow(m) \/ LosePoint(m)
    BY DEF ContextNext, contextVars, SearchEndpoint, Start, MemoryFails, AssembleMemory,
           KnowledgeAnswered, KnowledgeFails, Join
  <2> QED
    BY <2>1, SearchStarts, WantedStep
<1>3. WantedInv /\ [ContextNext]_contextVars =>
        [search.pc # "found" /\ search'.pc = "found" =>
           LET q == search.question
               hits == search'.hits
               r == search'.results
               Above(m) == {n \in ToSet(r) : ~Before(q, hits, m, n)}
           IN /\ ToSet(r) \subseteq Wanted(q) /\ Len(r) <= ResultLimit(q)
              /\ \A i, j \in DOMAIN r : i < j =>
                   ~Before(q, hits, r[j], r[i]) /\ ~Repeats(r[i], r[j])
              /\ \A m \in Wanted(q) \ ToSet(r) :
                   \/ \E n \in Above(m) : Repeats(m, n)
                   \/ Cardinality(Above(m)) = ResultLimit(q)
                   \/ m \notin hits /\ (m \notin points \/ CrowdedOut(q, hits, m))]_searchVars
  <2> SUFFICES ASSUME WantedInv, [ContextNext]_contextVars,
                      search.pc # "found", search'.pc = "found"
               PROVE  IsBest(search.question, search'.hits, search'.results)
    BY Zenon DEF IsBest
  <2> DEFINE q == search.question
             r == search'.results
  <2>1. SearchDense \/ SearchHybrid \/ LoadAndRank
    <3>1. ~UNCHANGED search
      OBVIOUS
    <3>2. \/ \E question : StartSearch(question)
          \/ SearchStep
      BY <3>1 DEF ContextNext, contextVars, searchVars, SearchEndpoint, Start, MemoryFails,
         AssembleMemory, KnowledgeAnswered, KnowledgeFails, Join, LoseRow, LosePoint
    <3>3. ~\E question : StartSearch(question)
      BY DEF StartSearch, Idle
    <3>4. ~SearchFails /\ ~EnsureUser /\ ~Embed /\ ~SearchSparse
      BY DEF SearchFails, EnsureUser, Embed, SearchSparse, WantedInv, Idle
    <3> QED
      BY <3>2, <3>3, <3>4 DEF SearchStep
  <2>2. ASSUME search'.hits = {}, r = <<>>, LeftOut(q, {}), Valid(q)
        PROVE  IsBest(q, search'.hits, r)
    <3>1. ResultLimit(q) \in Nat
      BY <2>2, SearchAssumption DEF Valid, ResultLimit
    <3>2. ToSet(<<>>) = {} /\ Len(<<>>) = 0 /\ DOMAIN <<>> = {}
      BY DEF ToSet
    <3>3. IsBestOfHits(q, {}, <<>>)
      BY <3>1, <3>2 DEF IsBestOfHits
    <3> QED
      BY <2>2, <3>3, RestWasLeftOut
  <2>3. CASE SearchDense
    <3>1. /\ search.pc = "dense" /\ ~collection
          /\ search' = [search EXCEPT !.pc = "found"]
      BY <2>3 DEF SearchDense, WantedInv, Idle
    <3>2. search'.hits = {} /\ r = <<>> /\ Valid(q) /\ points = {}
      BY <3>1 DEF WantedInv, Idle
    <3>3. LeftOut(q, {})
      BY <3>2 DEF LeftOut
    <3> QED
      BY <2>2, <3>2, <3>3
  <2>4. CASE SearchHybrid
    <3>1. PICK hits \in SUBSET {m \in points : Satisfies(q, m)} :
            /\ search' = [search EXCEPT !.hits = hits, !.pc = IF hits = {} THEN "found" ELSE "rows"]
            /\ LeftOut(q, hits)
      BY <2>4, HybridFetches
    <3>2. search.pc = "hybrid"
      BY <2>4 DEF SearchHybrid
    <3>3. /\ search'.pc = IF hits = {} THEN "found" ELSE "rows"
          /\ search'.hits = hits /\ r = search.results
      BY <3>1 DEF WantedInv, Idle
    <3>4. hits = {} /\ search.results = <<>> /\ Valid(q)
      BY <3>2, <3>3 DEF WantedInv
    <3> QED
      BY <2>2, <3>1, <3>3, <3>4
  <2>5. CASE LoadAndRank
    <3>1. PICK results \in Rankings(q, search.hits) :
            search' = [search EXCEPT !.pc = "found", !.results = results]
      BY <2>5 DEF LoadAndRank
    <3>2. r = results /\ search'.hits = search.hits
      BY <3>1 DEF WantedInv, Idle
    <3>3. search.pc = "rows"
      BY <2>5 DEF LoadAndRank
    <3>4. /\ Valid(q) /\ search.hits \subseteq {m \in Items : Satisfies(q, m)}
          /\ LeftOut(q, search.hits)
      BY <3>3 DEF WantedInv
    <3>5. ResultLimit(q) \in Nat
      BY <3>4, SearchAssumption DEF Valid, ResultLimit
    <3>6. /\ search.hits \in SUBSET Items /\ \A m \in search.hits : Satisfies(q, m)
          /\ r \in Rankings(q, search.hits)
      BY <3>1, <3>2, <3>4
    <3> HIDE DEF r, q
    <3>7. IsBestOfHits(q, search.hits, r)
      BY <3>5, <3>6, RankedIsBest
    <3> QED
      BY <3>2, <3>4, <3>7, RestWasLeftOut DEF r, q
  <2> QED
    BY <2>1, <2>3, <2>4, <2>5
<1> QED
  BY <1>1, <1>2, <1>3, PTL DEF ContextSpec, BestOfWanted


-----------------------------------------------------------------------------
(* Lists made of lists, and sums                                           *)

LEMMA FlattenIsSeq ==
  ASSUME NEW T, NEW seqs \in Seq(Seq(T))
  PROVE  FlattenSeq(seqs) \in Seq(T)
<1> DEFINE l == Len(seqs)
           X == Seq(T)
           Adds(x, n) == IF n = 1 THEN seqs[n] ELSE x \o seqs[n]
           step == [n \in 1..l |-> [x \in X |-> Adds(x, n)]]
           flat == CHOOSE f : f = [n \in 1..l |-> Adds(f[n - 1], n)]
<1>1. l \in Nat /\ DOMAIN seqs = 1..l /\ \A n \in 1..l : seqs[n] \in X
  OBVIOUS
<1>2. <<>> \in X /\ step \in [1..l -> [X -> X]]
  BY <1>1
<1>3. CASE l = 0
  <2>1. FlattenSeq(seqs) = seqs /\ seqs = <<>>
    BY <1>1, <1>3 DEF FlattenSeq
  <2> QED
    BY <2>1
<1>4. CASE l # 0
  <2>1. FlattenSeq(seqs) = flat[l]
    BY <1>4 DEF FlattenSeq
  <2>2. flat = [n \in 1..l |-> Adds(flat[n - 1], n)]
    <3> HIDE DEF step, X, l
    <3>1. PICK f \in [0..l -> X] : f[0] = <<>> /\ \A n \in 1..l : f[n] = step[n][f[n - 1]]
      <4>1. l \in Nat /\ <<>> \in X /\ step \in [1..l -> [X -> X]]
        BY <1>1, <1>2
      <4>2. \E f : Grown(f, X, <<>>, l, step)
        BY <4>1, GrownExists
      <4> QED
        BY <4>2 DEF Grown
    <3> DEFINE g == [n \in 1..l |-> f[n]]
    <3>2. \A n \in 1..l : g[n] = Adds(g[n - 1], n)
      <4> TAKE n \in 1..l
      <4>1. f[n - 1] \in X
        BY <1>1, <3>1
      <4>2. g[n] = Adds(f[n - 1], n)
        BY <3>1, <4>1 DEF step
      <4>3. n = 1 \/ g[n - 1] = f[n - 1]
        BY <1>1
      <4> QED
        BY <4>2, <4>3
    <3>3. g = [n \in 1..l |-> Adds(g[n - 1], n)]
      <4> HIDE DEF Adds
      <4> QED
        BY <3>2
    <3> HIDE DEF g
    <3> QED
      BY <3>3, Zenon
  <2> HIDE DEF flat, step
  <2> DEFINE W == {n \in 0..l : n = 0 \/ flat[n] \in X}
  <2>3. \A n \in 1..l : n - 1 \in W => n \in W
    <3> SUFFICES ASSUME NEW n \in 1..l, n - 1 \in W PROVE n \in W
      OBVIOUS
    <3>1. n \in 0..l /\ seqs[n] \in X
      BY <1>1
    <3>2. flat[n] = Adds(flat[n - 1], n)
      <4> HIDE DEF Adds, W, X, l
      <4> QED
        BY <2>2
    <3>3. n = 1 \/ flat[n - 1] \in X
      OBVIOUS
    <3>4. flat[n] \in X
      <4>1. CASE n = 1
        BY <3>1, <3>2, <4>1
      <4>2. CASE n # 1
        BY <3>1, <3>3, <3>2, <4>2, ConcatProperties
      <4> QED
        BY <4>1, <4>2
    <3> QED
      BY <3>1, <3>4
  <2>4. 0 \in W
    BY <1>1
  <2> HIDE DEF W, l, X
  <2>5. \A n \in 0..l : n \in W
    BY <1>1, <2>3, <2>4, EveryPart
  <2>6. l \in W
    BY <1>1, <2>5
  <2> QED
    BY <1>4, <2>1, <2>6 DEF W, X
<1> QED
  BY <1>3, <1>4

LEMMA LinesIs ==
  ASSUME NEW T, NEW groups \in Seq(Seq(T))
  PROVE  Lines(groups) \in Seq(T)
<1> DEFINE l == Len(groups)
           X == Seq(T)
           New(so, n) == {i \in DOMAIN groups[n] : groups[n][i] \notin ToSet(so)}
           Adds(so, n) == IF New(so, n) = {} \/ Len(so) = LineLimit THEN so
                          ELSE Append(so, groups[n][Min(New(so, n))])
           step == [n \in 1..l |-> [so \in X |-> Adds(so, n)]]
           lines == CHOOSE f : f = [n \in 0..l |-> IF n = 0 THEN <<>> ELSE Adds(f[n - 1], n)]
<1>1. l \in Nat /\ DOMAIN groups = 1..l /\ \A n \in 1..l : groups[n] \in X
  OBVIOUS
<1>2. \A n \in 1..l : \A so \in X : Adds(so, n) \in X
  <2> SUFFICES ASSUME NEW n \in 1..l, NEW so \in X, New(so, n) # {}
               PROVE  groups[n][Min(New(so, n))] \in T
    <3> HIDE DEF New
    <3> QED
      OBVIOUS
  <2>1. groups[n] \in X /\ New(so, n) \subseteq Nat
    BY <1>1
  <2> HIDE DEF New
  <2>2. \E i \in New(so, n) : \A j \in New(so, n) : i <= j
    BY <2>1, LeastNumber
  <2>3. Min(New(so, n)) \in New(so, n)
    BY <2>2 DEF Min
  <2>4. Min(New(so, n)) \in DOMAIN groups[n]
    BY <2>3 DEF New
  <2> QED
    BY <2>1, <2>4
<1>3. <<>> \in X /\ step \in [1..l -> [X -> X]]
  <2> HIDE DEF Adds
  <2> QED
    BY <1>2
<1>4. Lines(groups) = lines[l]
  BY DEF Lines
<1> HIDE DEF Adds
<1>5. lines = [n \in 0..l |-> IF n = 0 THEN <<>> ELSE Adds(lines[n - 1], n)]
  <2> HIDE DEF step, X, l
  <2>1. PICK f \in [0..l -> X] : f[0] = <<>> /\ \A n \in 1..l : f[n] = step[n][f[n - 1]]
    <3>1. l \in Nat /\ <<>> \in X /\ step \in [1..l -> [X -> X]]
      BY <1>1, <1>3
    <3>2. \E f : Grown(f, X, <<>>, l, step)
      BY <3>1, GrownExists
    <3> QED
      BY <3>2 DEF Grown
  <2>2. \A n \in 0..l : f[n] = IF n = 0 THEN <<>> ELSE Adds(f[n - 1], n)
    <3> TAKE n \in 0..l
    <3>1. CASE n \in 1..l
      <4>1. f[n - 1] \in X
        BY <1>1, <2>1, <3>1
      <4> QED
        BY <2>1, <3>1, <4>1 DEF step
    <3> QED
      BY <1>1, <2>1, <3>1
  <2>3. f = [n \in 0..l |-> IF n = 0 THEN <<>> ELSE Adds(f[n - 1], n)]
    BY <2>1, <2>2
  <2> QED
    BY <2>3
<1> HIDE DEF lines, step
<1> DEFINE W == {n \in 0..l : lines[n] \in X}
<1>6. 0 \in W
  BY <1>1, <1>3, <1>5
<1>7. \A n \in 1..l : n - 1 \in W => n \in W
  <2> SUFFICES ASSUME NEW n \in 1..l, lines[n - 1] \in X PROVE n \in W
    OBVIOUS
  <2>1. n \in 0..l /\ n # 0
    BY <1>1
  <2>2. lines[n] = Adds(lines[n - 1], n)
    <3> HIDE DEF l, W, X
    <3> QED
      BY <1>5, <2>1
  <2>3. Adds(lines[n - 1], n) \in X
    BY <1>2
  <2> QED
    BY <2>1, <2>3, <2>2
<1>8. \A n \in 0..l : n \in W
  <2> HIDE DEF W, l
  <2> QED
    BY <1>1, <1>6, <1>7, EveryPart
<1> QED
  BY <1>1, <1>4, <1>8

(* The sum of the first n sizes. *)
LEMMA SumIs ==
  ASSUME NEW sizes \in Seq(Nat)
  PROVE  \E sum \in [0..Len(sizes) -> Nat] :
           /\ sum[0] = 0 /\ \A n \in 1..Len(sizes) : sum[n] = sum[n - 1] + sizes[n]
           /\ Sum(sizes) = sum[Len(sizes)]
<1> DEFINE l == Len(sizes)
           step == [n \in 1..l |-> [x \in Nat |-> x + sizes[n]]]
           sum == CHOOSE f : f = [n \in 0..l |-> IF n = 0 THEN 0 ELSE f[n - 1] + sizes[n]]
<1>1. l \in Nat /\ DOMAIN sizes = 1..l /\ \A n \in 1..l : sizes[n] \in Nat
  OBVIOUS
<1>2. step \in [1..l -> [Nat -> Nat]]
  BY <1>1
<1>3. Sum(sizes) = sum[l]
  BY DEF Sum
<1> HIDE DEF l
<1>4. sum = [n \in 0..l |-> IF n = 0 THEN 0 ELSE sum[n - 1] + sizes[n]]
  <2> HIDE DEF step
  <2>1. PICK f \in [0..l -> Nat] : f[0] = 0 /\ \A n \in 1..l : f[n] = step[n][f[n - 1]]
    <3>1. l \in Nat /\ 0 \in Nat /\ step \in [1..l -> [Nat -> Nat]]
      BY <1>1, <1>2
    <3>2. \E f : Grown(f, Nat, 0, l, step)
      BY <3>1, GrownExists
    <3> QED
      BY <3>2 DEF Grown
  <2>2. \A n \in 0..l : f[n] = IF n = 0 THEN 0 ELSE f[n - 1] + sizes[n]
    <3> TAKE n \in 0..l
    <3>1. CASE n \in 1..l
      <4>1. f[n - 1] \in Nat
        BY <1>1, <2>1, <3>1
      <4> QED
        BY <2>1, <3>1, <4>1 DEF step
    <3> QED
      BY <1>1, <2>1, <3>1
  <2>3. f = [n \in 0..l |-> IF n = 0 THEN 0 ELSE f[n - 1] + sizes[n]]
    BY <2>1, <2>2
  <2> QED
    BY <2>3
<1> HIDE DEF sum, step
<1> DEFINE W == {n \in 0..l : sum[n] \in Nat}
<1>5. 0 \in W
  BY <1>1, <1>4
<1>6. \A n \in 1..l : n - 1 \in W => n \in W
  BY <1>1, <1>4
<1>7. \A n \in 0..l : n \in W
  <2> HIDE DEF W
  <2> QED
    BY <1>1, <1>5, <1>6, EveryPart
<1>8. sum \in [0..l -> Nat]
  BY <1>4, <1>7
<1>9. sum[0] = 0 /\ \A n \in 1..l : sum[n] = sum[n - 1] + sizes[n]
  BY <1>1, <1>4
<1> QED
  BY <1>3, <1>8, <1>9 DEF l

(* Two lists of sizes that are the same but for the last.                  *)
LEMMA SumOfTwo ==
  ASSUME NEW a \in Seq(Nat), NEW b \in Seq(Nat), Len(a) = Len(b), Len(a) > 0,
         \A i \in 1..Len(a) - 1 : a[i] = b[i]
  PROVE  Sum(a) - a[Len(a)] = Sum(b) - b[Len(b)] /\ Sum(a) \in Nat /\ Sum(b) \in Nat
<1> DEFINE l == Len(a)
<1>1. l \in Nat /\ l > 0 /\ l \in 1..l /\ l - 1 \in 0..l /\ Len(b) = l
  OBVIOUS
<1>2. /\ \A i \in 1..l : a[i] \in Nat /\ b[i] \in Nat
      /\ \A i \in 1..l : i # l => i \in 1..l - 1
  OBVIOUS
<1>3. PICK s \in [0..l -> Nat] : /\ s[0] = 0 /\ \A n \in 1..l : s[n] = s[n - 1] + a[n]
                                 /\ Sum(a) = s[l]
  BY SumIs
<1>4. PICK t \in [0..l -> Nat] : /\ t[0] = 0 /\ \A n \in 1..l : t[n] = t[n - 1] + b[n]
                                 /\ Sum(b) = t[l]
  BY <1>1, SumIs
<1> HIDE DEF l
<1> DEFINE W == {n \in 0..l : n = l \/ s[n] = t[n]}
<1>5. 0 \in W
  BY <1>1, <1>3, <1>4
<1>6. \A n \in 1..l : n - 1 \in W => n \in W
  <2> SUFFICES ASSUME NEW n \in 1..l, n - 1 \in W, n # l PROVE s[n] = t[n]
    BY <1>1
  <2>1. n - 1 # l /\ n \in 1..l - 1
    BY <1>1, <1>2
  <2>2. s[n - 1] = t[n - 1] /\ a[n] = b[n]
    BY <2>1 DEF l
  <2> QED
    BY <1>3, <1>4, <2>2
<1>7. \A n \in 0..l : n \in W
  <2> HIDE DEF W
  <2> QED
    BY <1>1, <1>5, <1>6, EveryPart
<1>8. l - 1 \in W /\ l - 1 # l
  BY <1>1, <1>7
<1>9. s[l - 1] = t[l - 1] /\ s[l - 1] \in Nat
  BY <1>1, <1>8
<1>10. Sum(a) = s[l - 1] + a[l] /\ Sum(b) = t[l - 1] + b[l] /\ Sum(a) \in Nat /\ Sum(b) \in Nat
  BY <1>1, <1>2, <1>3, <1>4
<1>11. a[l] \in Nat /\ b[l] \in Nat
  BY <1>1, <1>2
<1>12. Sum(a) - a[l] = Sum(b) - b[l] /\ Sum(a) \in Nat /\ Sum(b) \in Nat
  <2> DEFINE x == s[l - 1]
             y == t[l - 1]
  <2>1. x = y /\ x \in Nat
    BY <1>9
  <2>2. Sum(a) = x + a[l] /\ Sum(b) = y + b[l]
    BY <1>10
  <2> HIDE DEF x, y
  <2> QED
    <3>1. \A u, v, w \in Nat : u = v + w => u - w = v
      OBVIOUS
    <3>2. Sum(a) - a[l] = x
      BY <1>10, <1>11, <2>1, <2>2, <3>1
    <3>3. Sum(b) - b[l] = y
      BY <1>10, <1>11, <2>1, <2>2, <3>1
    <3> QED
      BY <1>10, <2>1, <3>2, <3>3
<1> QED
  BY <1>1, <1>12 DEF l

LEMMA SumOfNone == Sum(<<>>) = 0
<1>1. <<>> \in Seq(Nat) /\ Len(<<>>) = 0
  OBVIOUS
<1> QED
  BY <1>1, SumIs


-----------------------------------------------------------------------------
(* The section of memories                                                 *)

LEMMA SectionIs ==
  ASSUME NEW results \in Seq(Items)
  PROVE  /\ MemorySection(results).memories \in Seq(Items)
         /\ MemorySection(results).omitted \in Nat
         /\ Len(MemorySection(results).memories) + MemorySection(results).omitted
              = Cardinality({Memory[m].words : m \in ToSet(results)})
<1> DEFINE l == Len(results)
           X == [memories : Seq(Items), omitted : Nat]
           none == [memories |-> <<>>, omitted |-> 0]
           Again(n) == \E i \in 1..n - 1 : Memory[results[i]].words = Memory[results[n]].words
           Full(so, n) == \/ Len(so.memories) = MemoryLimit
                          \/ SummariesSize(so.memories) + Size[results[n]] > MemoryChars
           Adds(so, n) ==
             IF Again(n) THEN so
             ELSE IF Full(so, n)
             THEN [so EXCEPT !.omitted = @ + 1]
             ELSE [so EXCEPT !.memories = Append(@, results[n])]
           step == [n \in 1..l |-> [so \in X |-> Adds(so, n)]]
           section == CHOOSE f : f = [n \in 0..l |-> IF n = 0 THEN none ELSE Adds(f[n - 1], n)]
           Words(n) == {Memory[results[i]].words : i \in 1..n}
<1>1. l \in Nat /\ DOMAIN results = 1..l /\ \A n \in 1..l : results[n] \in Items
  OBVIOUS
<1>2. \A n \in 1..l : \A so \in X :
        /\ Adds(so, n) \in X
        /\ Again(n) => Adds(so, n) = so
        /\ ~Again(n) => Len(Adds(so, n).memories) + Adds(so, n).omitted
                          = Len(so.memories) + so.omitted + 1
  <2> TAKE n \in 1..l
  <2> TAKE so \in X
  <2> HIDE DEF Again, Full
  <2>1. results[n] \in Items
    BY <1>1
  <2>2. CASE Again(n)
    BY <2>2
  <2>3. CASE ~Again(n) /\ Full(so, n)
    <3>1. Adds(so, n) = [so EXCEPT !.omitted = @ + 1]
      BY <2>3
    <3> HIDE DEF Adds
    <3>2. /\ Adds(so, n) \in X
          /\ Adds(so, n).memories = so.memories /\ Adds(so, n).omitted = so.omitted + 1
      BY <3>1
    <3>3. Len(so.memories) \in Nat /\ so.omitted \in Nat
      OBVIOUS
    <3> HIDE DEF X
    <3> QED
      BY <2>3, <3>2, <3>3
  <2>4. CASE ~Again(n) /\ ~Full(so, n)
    <3>1. Adds(so, n) = [so EXCEPT !.memories = Append(@, results[n])]
      BY <2>4
    <3>2. /\ Append(so.memories, results[n]) \in Seq(Items)
          /\ Len(Append(so.memories, results[n])) = Len(so.memories) + 1
          /\ Len(so.memories) \in Nat /\ so.omitted \in Nat
      BY <2>1
    <3> HIDE DEF Adds
    <3>3. /\ Adds(so, n) \in X
          /\ Adds(so, n).memories = Append(so.memories, results[n])
          /\ Adds(so, n).omitted = so.omitted
      BY <3>1, <3>2
    <3> HIDE DEF X
    <3> QED
      BY <2>4, <3>2, <3>3
  <2> QED
    BY <2>2, <2>3, <2>4
<1>3. none \in X
  OBVIOUS
<1>4. MemorySection(results) = section[l]
  BY DEF MemorySection
<1> HIDE DEF Adds, Again
<1>5. section = [n \in 0..l |-> IF n = 0 THEN none ELSE Adds(section[n - 1], n)]
  <2> HIDE DEF X, l, none
  <2>1. PICK f \in [0..l -> X] : f[0] = none /\ \A n \in 1..l : f[n] = step[n][f[n - 1]]
    <3>1. l \in Nat /\ none \in X /\ step \in [1..l -> [X -> X]]
      BY <1>1, <1>2, <1>3
    <3> HIDE DEF step
    <3>2. \E f : Grown(f, X, none, l, step)
      BY <3>1, GrownExists
    <3> QED
      BY <3>2 DEF Grown
  <2>2. \A n \in 0..l : f[n] = IF n = 0 THEN none ELSE Adds(f[n - 1], n)
    <3> TAKE n \in 0..l
    <3>1. CASE n \in 1..l
      <4>1. f[n - 1] \in X
        BY <1>1, <2>1, <3>1
      <4> QED
        BY <1>1, <2>1, <3>1, <4>1
    <3> QED
      BY <1>1, <2>1, <3>1
  <2>3. f = [n \in 0..l |-> IF n = 0 THEN none ELSE Adds(f[n - 1], n)]
    BY <2>1, <2>2
  <2> QED
    BY <2>3
<1> HIDE DEF section, step
<1> DEFINE Right(n) == /\ section[n] \in X /\ IsFiniteSet(Words(n))
                       /\ Len(section[n].memories) + section[n].omitted = Cardinality(Words(n))
           W == {n \in 0..l : Right(n)}
<1>6. 0 \in W
  <2>1. section[0] = none
    BY <1>1, <1>5
  <2>2. Words(0) = {}
    OBVIOUS
  <2> HIDE DEF Words
  <2>3. IsFiniteSet(Words(0)) /\ Cardinality(Words(0)) = 0
    BY <2>2, FS_EmptySet
  <2>4. Right(0)
    BY <2>1, <2>3
  <2> HIDE DEF Right
  <2> QED
    BY <1>1, <2>4
<1>7. ASSUME NEW n \in 1..l, n - 1 \in W PROVE n \in W
  <2> DEFINE so == section[n - 1]
             w == Memory[results[n]].words
  <2>1. n \in 0..l /\ n # 0
    BY <1>1
  <2>2. section[n] = Adds(so, n)
    <3> HIDE DEF W, l, none
    <3> QED
      BY <1>5, <2>1
  <2>3. /\ so \in X /\ IsFiniteSet(Words(n - 1))
        /\ Len(so.memories) + so.omitted = Cardinality(Words(n - 1))
    BY <1>7
  <2>4. Words(n) = Words(n - 1) \cup {w}
    <3>1. \A i : i \in 1..n <=> i \in 1..n - 1 \/ i = n
      BY <1>1
    <3> QED
      BY <3>1
  <2>5. Again(n) <=> w \in Words(n - 1)
    BY DEF Again
  <2>6. /\ IsFiniteSet(Words(n))
        /\ Cardinality(Words(n)) = IF w \in Words(n - 1) THEN Cardinality(Words(n - 1))
                                   ELSE Cardinality(Words(n - 1)) + 1
    <3> HIDE DEF Words, w
    <3> QED
      BY <2>3, <2>4, FS_AddElement
  <2>7. section[n] \in X
    <3> HIDE DEF X
    <3> QED
      BY <1>2, <2>2, <2>3
  <2>8. Len(section[n].memories) + section[n].omitted = Cardinality(Words(n))
    <3> HIDE DEF Words, w
    <3>1. CASE Again(n)
      BY <1>2, <2>2, <2>3, <2>5, <2>6, <3>1
    <3>2. CASE ~Again(n)
      BY <1>2, <2>2, <2>3, <2>5, <2>6, <3>2
    <3> QED
      BY <3>1, <3>2
  <2> HIDE DEF X, Words, so, w
  <2> QED
    BY <2>1, <2>6, <2>7, <2>8
<1>8. \A n \in 1..l : n - 1 \in W => n \in W
  BY <1>7
<1>9. \A n \in 0..l : n \in W
  <2> HIDE DEF W, l
  <2> QED
    BY <1>1, <1>6, <1>8, EveryPart
<1>10. Words(l) = {Memory[m].words : m \in ToSet(results)}
  BY <1>1 DEF ToSet
<1>11. l \in W
  <2> HIDE DEF W
  <2> QED
    BY <1>1, <1>9
<1> HIDE DEF Words
<1> QED
  BY <1>4, <1>10, <1>11

LEMMA SizeOfNone == SummariesSize(<<>>) = 0
<1>1. [i \in DOMAIN <<>> |-> Size[<<>>[i]]] = <<>>
  OBVIOUS
<1> QED
  BY <1>1, SumOfNone DEF SummariesSize

(* Memories that fit, and how many are left out; a second time changes     *)
(* nothing.                                                                *)
LEMMA TrimMemoriesIs ==
  ASSUME NEW memories \in Seq(Items), NEW omitted \in Nat
  PROVE  LET t == TrimMemories(memories, omitted)
         IN /\ t.memories \in Seq(Items) /\ t.omitted \in Nat
            /\ Len(t.memories) + t.omitted = Len(memories) + omitted
            /\ IsPrefix(t.memories, memories)
            /\ MemorySize(t.memories, t.omitted) <= Budget.memory
            /\ TrimMemories(t.memories, t.omitted) = t
<1> DEFINE n == Len(memories)
           Fits(s, o, k) == MemorySize(SubSeq(s, 1, k), o + Len(s) - k) <= Budget.memory
           fits == {k \in 1..n : Fits(memories, omitted, k)}
           kept == IF fits = {} THEN 0 ELSE Max(fits)
           some == SubSeq(memories, 1, kept)
           rest == omitted + n - kept
           t == TrimMemories(memories, omitted)
<1>1. t = [memories |-> some, omitted |-> rest]
  BY DEF TrimMemories
<1>2. n \in Nat
  OBVIOUS
<1>3. kept \in 0..n /\ (kept # 0 => Fits(memories, omitted, kept))
  <2> HIDE DEF Fits
  <2>1. fits \subseteq 0..n
    BY <1>2
  <2>2. fits # {} => Max(fits) \in fits
    <3> HIDE DEF fits
    <3> QED
      BY <1>2, <2>1, GreatestNumber
  <2> QED
    BY <1>2, <2>1, <2>2
<1> HIDE DEF kept, fits
<1>4. /\ some \in Seq(Items) /\ Len(some) = kept /\ rest \in Nat
      /\ \A i \in 1..kept : some[i] = memories[i]
  <2>1. kept \in Nat /\ kept <= n
    BY <1>2, <1>3
  <2>2. rest \in Nat
    BY <1>2, <2>1
  <2>3. \A i \in 1..kept : memories[i] \in Items
    BY <1>2, <2>1
  <2> QED
    BY <1>2, <2>1, <2>2, <2>3, SubSeqProperties
<1>5. Len(some) + rest = n + omitted
  BY <1>2, <1>3, <1>4
<1>6. IsPrefix(some, memories)
  <2>1. SubSeq(some, 1, kept) = some
    BY <1>3, <1>4, SubSeqFull
  <2> QED
    BY <1>2, <1>3, <1>4, <2>1 DEF IsPrefix
<1>7. kept = 0 => some = <<>>
  BY <1>4
<1>8. MemorySize(some, rest) <= Budget.memory
  <2>1. CASE kept = 0
    <3>1. MemorySize(<<>>, rest) = HeadingSize
      BY SizeOfNone, ContextAssumption DEF MemorySize
    <3> QED
      BY <1>7, <2>1, <3>1, ContextAssumption
  <2>2. CASE kept # 0
    BY <1>3, <2>2
  <2> QED
    BY <2>1, <2>2
<1> HIDE DEF rest, some
<1>9. TrimMemories(some, rest) = [memories |-> some, omitted |-> rest]
  <2> DEFINE F == {k \in 1..Len(some) : Fits(some, rest, k)}
             K == IF F = {} THEN 0 ELSE Max(F)
  <2>1. TrimMemories(some, rest) = [memories |-> SubSeq(some, 1, K), omitted |-> rest + Len(some) - K]
    BY DEF TrimMemories
  <2>2. K = kept
    <3>1. CASE kept = 0
      <4>1. F = {}
        BY <1>4, <3>1
      <4> QED
        BY <3>1, <4>1
    <3>2. CASE kept # 0
      <4>1. SubSeq(some, 1, kept) = some /\ rest + Len(some) - kept = rest /\ kept \in 1..Len(some)
        BY <1>2, <1>3, <1>4, <3>2, SubSeqFull
      <4>2. kept \in F
        BY <1>8, <4>1
      <4>3. F \subseteq 0..kept /\ kept \in Nat
        BY <1>3, <1>4, <1>2
      <4> HIDE DEF F
      <4>4. Max(F) \in F /\ \A k \in F : k <= Max(F)
        BY <4>2, <4>3, GreatestNumber
      <4>5. Max(F) \in 0..kept /\ kept <= Max(F)
        BY <4>2, <4>3, <4>4
      <4>6. Max(F) = kept
        BY <4>3, <4>5
      <4> QED
        BY <4>2, <4>6
    <3> QED
      BY <3>1, <3>2
  <2>3. SubSeq(some, 1, kept) = some /\ rest + Len(some) - kept = rest
    BY <1>2, <1>3, <1>4, SubSeqFull
  <2> HIDE DEF K
  <2> QED
    BY <2>1, <2>2, <2>3
<1> HIDE DEF n, t
<1> QED
  BY <1>1, <1>4, <1>5, <1>6, <1>8, <1>9 DEF n, t


-----------------------------------------------------------------------------
(* Evidence                                                                *)

LEMMA ClipIs ==
  ASSUME NEW size \in Nat, NEW limit \in Nat
  PROVE  /\ Clip(size, limit) \in Nat /\ Clip(size, limit) <= size
         /\ limit <= size => Clip(size, limit) <= limit
<1>1. RuneWidth \in Nat \ {0}
  BY ContextAssumption
<1> DEFINE d == limit \div RuneWidth
<1>2. d * RuneWidth \in Nat /\ d * RuneWidth <= limit
  BY <1>1
<1>3. Clip(size, limit) = IF size <= limit THEN size ELSE d * RuneWidth
  BY DEF Clip
<1> HIDE DEF d
<1> QED
  BY <1>2, <1>3

Fields == {"chunk", "provenance", "text", "truncated"}

IsEvidence(e) == DOMAIN e = Fields /\ e.provenance \in Nat /\ e.text \in Nat

PartOf(e, given) ==
  /\ e.chunk = given.chunk /\ e.provenance = given.provenance
  /\ e.text > 0 /\ e.text <= given.text
  /\ e.text < given.text => e.truncated

FitsAll(items) == \A j \in 0..Len(items) : EvidenceSize(SubSeq(items, 1, j)) <= Budget.knowledge

(* The next item, as TrimEvidence takes it.                                *)
Trims(evidence, so, n) ==
  LET Fits(items) == EvidenceSize(items) <= Budget.knowledge
      e == evidence[n]
      fitting == {k \in 0..e.text : Fits(Append(so.kept, CutTo(e, k)))}
  IN IF Fits(Append(so.kept, e)) THEN [so EXCEPT !.kept = Append(@, e)]
     ELSE IF fitting = {} \/ Clip(e.text, Max(fitting)) = 0
     THEN [so EXCEPT !.omitted = @ + 1]
     ELSE [so EXCEPT !.kept = Append(@, CutTo(e, Max(fitting)))]

LEMMA FitsOneMore ==
  ASSUME NEW T, NEW items \in Seq(T), NEW e \in T, FitsAll(items),
         EvidenceSize(Append(items, e)) <= Budget.knowledge
  PROVE  FitsAll(Append(items, e))
<1> DEFINE k == Len(items)
<1>1. k \in Nat /\ Len(Append(items, e)) = k + 1 /\ Append(items, e) \in Seq(T)
  OBVIOUS
<1>2. SubSeq(Append(items, e), 1, k + 1) = Append(items, e)
  BY <1>1, SubSeqFull
<1>3. ASSUME NEW j \in 0..k PROVE SubSeq(Append(items, e), 1, j) = SubSeq(items, 1, j)
  BY <1>3
<1>4. \A j \in 0..k + 1 : j = k + 1 \/ j \in 0..k
  BY <1>1
<1> HIDE DEF k
<1> SUFFICES ASSUME NEW j \in 0..k + 1
             PROVE  EvidenceSize(SubSeq(Append(items, e), 1, j)) <= Budget.knowledge
  BY <1>1 DEF FitsAll
<1>5. CASE j = k + 1
  BY <1>2, <1>5
<1>6. CASE j \in 0..k
  BY <1>3, <1>6 DEF FitsAll, k
<1> QED
  BY <1>4, <1>5, <1>6

OneMore(T, e, so, t) ==
  \/ t.kept = so.kept /\ t.omitted = so.omitted + 1
  \/ \E x \in T :
       /\ t.kept = Append(so.kept, x) /\ t.omitted = so.omitted
       /\ EvidenceSize(t.kept) <= Budget.knowledge
       /\ e.text > 0 => PartOf(x, e)

(* One more item: kept whole, left out, or cut to what fits.               *)
LEMMA TrimOne ==
  ASSUME NEW T, \A e \in T : IsEvidence(e), \A e \in T, k \in Nat : CutTo(e, k) \in T,
         NEW evidence \in Seq(T), NEW n \in 1..Len(evidence),
         NEW so \in [kept : Seq(T), omitted : Nat]
  PROVE  /\ Trims(evidence, so, n) \in [kept : Seq(T), omitted : Nat]
         /\ OneMore(T, evidence[n], so, Trims(evidence, so, n))
<1> DEFINE e == evidence[n]
           t == Trims(evidence, so, n)
           Fits(items) == EvidenceSize(items) <= Budget.knowledge
           fitting == {k \in 0..e.text : Fits(Append(so.kept, CutTo(e, k)))}
<1>1. e \in T /\ IsEvidence(e)
  OBVIOUS
<1>2. \A x \in T : Append(so.kept, x) \in Seq(T)
  OBVIOUS
<1>3. CASE Fits(Append(so.kept, e))
  <2>1. t = [so EXCEPT !.kept = Append(@, e)]
    BY <1>3 DEF Trims
  <2>2. t \in [kept : Seq(T), omitted : Nat] /\ t.kept = Append(so.kept, e) /\ t.omitted = so.omitted
    BY <1>1, <1>2, <2>1
  <2>3. e.text > 0 => PartOf(e, e)
    <3> HIDE DEF e
    <3>1. e.text <= e.text /\ ~(e.text < e.text)
      <4>1. e.text \in Nat
        BY <1>1 DEF IsEvidence
      <4>2. \A v \in Nat : v <= v /\ ~(v < v)
        OBVIOUS
      <4> QED
        BY <4>1, <4>2
    <3> QED
      BY <3>1 DEF PartOf
  <2> HIDE DEF t, e
  <2> QED
    BY <1>1, <1>3, <2>2, <2>3 DEF OneMore, t, e
<1>4. CASE ~Fits(Append(so.kept, e)) /\ (fitting = {} \/ Clip(e.text, Max(fitting)) = 0)
  <2>1. t = [so EXCEPT !.omitted = @ + 1]
    BY <1>4 DEF Trims
  <2>2. t \in [kept : Seq(T), omitted : Nat] /\ t.kept = so.kept /\ t.omitted = so.omitted + 1
    BY <2>1
  <2> QED
    BY <2>2 DEF OneMore
<1>5. CASE ~Fits(Append(so.kept, e)) /\ ~(fitting = {} \/ Clip(e.text, Max(fitting)) = 0)
  <2> DEFINE k == Max(fitting)
             x == CutTo(e, k)
  <2>1. t = [so EXCEPT !.kept = Append(@, x)]
    BY <1>5 DEF Trims
  <2>2. k \in fitting
    <3>1. fitting # {} /\ fitting \subseteq 0..e.text /\ e.text \in Nat
      BY <1>1, <1>5 DEF IsEvidence
    <3> HIDE DEF fitting
    <3> QED
      BY <3>1, GreatestNumber
  <2>3. k \in Nat /\ Fits(Append(so.kept, x)) /\ Clip(e.text, k) # 0
    BY <1>1, <1>5, <2>2 DEF IsEvidence
  <2> HIDE DEF k
  <2>4. x \in T
    BY <1>1, <2>3
  <2>5. t \in [kept : Seq(T), omitted : Nat] /\ t.kept = Append(so.kept, x) /\ t.omitted = so.omitted
    <3> HIDE DEF x
    <3> QED
      BY <1>2, <2>1, <2>4
  <2>6. PartOf(x, e)
    <3>1. Clip(e.text, k) \in Nat /\ Clip(e.text, k) <= e.text
      BY <1>1, <2>3, ClipIs DEF IsEvidence
    <3>2. x.chunk = e.chunk /\ x.provenance = e.provenance /\ x.text = Clip(e.text, k) /\ x.truncated
      BY <1>1 DEF CutTo, IsEvidence, Fields
    <3> QED
      BY <2>3, <3>1, <3>2 DEF PartOf
  <2> HIDE DEF t, e, x
  <2> QED
    BY <2>3, <2>4, <2>5, <2>6 DEF OneMore, t, e
<1> QED
  BY <1>3, <1>4, <1>5

(* All evidence is kept, cut or counted; what fits is kept as it is.       *)
TrimmedTo(T, evidence, omitted, t) ==
  /\ t.kept \in Seq(T) /\ t.omitted \in Nat
  /\ Len(t.kept) + t.omitted = Len(evidence) + omitted
  /\ FitsAll(t.kept)
  /\ (\A e \in ToSet(evidence) : e.text > 0) =>
       \A e \in ToSet(t.kept) : \E given \in ToSet(evidence) : PartOf(e, given)
  /\ FitsAll(evidence) => t.kept = evidence /\ t.omitted = omitted

LEMMA TrimEvidenceIs ==
  ASSUME NEW T, \A e \in T : IsEvidence(e), \A e \in T, k \in Nat : CutTo(e, k) \in T,
         NEW evidence \in Seq(T), NEW omitted \in Nat
  PROVE  TrimmedTo(T, evidence, omitted, TrimEvidence(evidence, omitted))
<1> DEFINE l == Len(evidence)
           X == [kept : Seq(T), omitted : Nat]
           none == [kept |-> <<>>, omitted |-> omitted]
           step == [n \in 1..l |-> [so \in X |-> Trims(evidence, so, n)]]
           trimmed == CHOOSE f : f = [n \in 0..l |-> IF n = 0 THEN none
                                                     ELSE Trims(evidence, f[n - 1], n)]
<1>1. l \in Nat /\ DOMAIN evidence = 1..l /\ \A n \in 1..l : evidence[n] \in T
  OBVIOUS
<1>2. none \in X
  OBVIOUS
<1>3. \A n \in 1..l : \A so \in X : Trims(evidence, so, n) \in X
  BY TrimOne
<1>4. TrimEvidence(evidence, omitted) = trimmed[l]
  BY DEF TrimEvidence, Trims
<1>5. trimmed = [n \in 0..l |-> IF n = 0 THEN none ELSE Trims(evidence, trimmed[n - 1], n)]
  <2> HIDE DEF X, l, none
  <2>1. PICK f \in [0..l -> X] : f[0] = none /\ \A n \in 1..l : f[n] = step[n][f[n - 1]]
    <3>1. l \in Nat /\ none \in X /\ step \in [1..l -> [X -> X]]
      BY <1>1, <1>2, <1>3
    <3> HIDE DEF step
    <3>2. \E f : Grown(f, X, none, l, step)
      BY <3>1, GrownExists
    <3> QED
      BY <3>2 DEF Grown
  <2>2. \A n \in 0..l : f[n] = IF n = 0 THEN none ELSE Trims(evidence, f[n - 1], n)
    <3> TAKE n \in 0..l
    <3>1. CASE n \in 1..l
      <4>1. f[n - 1] \in X
        BY <1>1, <2>1, <3>1
      <4> QED
        BY <1>1, <2>1, <3>1, <4>1
    <3> QED
      BY <1>1, <2>1, <3>1
  <2>3. f = [n \in 0..l |-> IF n = 0 THEN none ELSE Trims(evidence, f[n - 1], n)]
    BY <2>1, <2>2
  <2> QED
    BY <2>3
<1> HIDE DEF trimmed, step
<1> DEFINE Good == \A e \in ToSet(evidence) : e.text > 0
           Right(n) == LET so == trimmed[n]
                       IN /\ so \in X /\ Len(so.kept) + so.omitted = n + omitted
                          /\ FitsAll(so.kept)
                          /\ Good => \A e \in ToSet(so.kept) :
                                       \E given \in ToSet(evidence) : PartOf(e, given)
                          /\ FitsAll(evidence) =>
                               so.kept = SubSeq(evidence, 1, n) /\ so.omitted = omitted
           W == {n \in 0..l : Right(n)}
<1>6. 0 \in W
  <2>1. trimmed[0] = none
    BY <1>1, <1>5
  <2>2. FitsAll(<<>>)
    <3>1. \A j \in 0..0 : SubSeq(<<>>, 1, j) = <<>>
      OBVIOUS
    <3>2. EvidenceSize(<<>>) = 0 /\ Budget.knowledge \in Nat /\ Len(<<>>) = 0
      BY ContextAssumption DEF EvidenceSize
    <3>3. 0 <= Budget.knowledge
      BY <3>2
    <3>4. \A j \in 0..Len(<<>>) : EvidenceSize(SubSeq(<<>>, 1, j)) = 0
      BY <3>1, <3>2
    <3> QED
      BY <3>3, <3>4 DEF FitsAll
  <2>3. ToSet(<<>>) = {}
    BY DEF ToSet
  <2>4. SubSeq(evidence, 1, 0) = <<>> /\ Len(<<>>) = 0
    OBVIOUS
  <2> HIDE DEF Good
  <2>5. Right(0)
    BY <1>2, <2>1, <2>2, <2>3, <2>4
  <2> HIDE DEF Right
  <2> QED
    BY <1>1, <2>5
<1>7. \A a, b, n \in Nat : a + b = n - 1 + omitted =>
         a + (b + 1) = n + omitted /\ (a + 1) + b = n + omitted
  OBVIOUS
<1>8. ASSUME NEW n \in 1..l, n - 1 \in W PROVE n \in W
  <2> DEFINE so == trimmed[n - 1]
             t == trimmed[n]
             e == evidence[n]
  <2>1. n \in 0..l /\ n # 0 /\ n \in Nat
    BY <1>1
  <2>2. t = Trims(evidence, so, n)
    <3> HIDE DEF W, l, none
    <3> QED
      BY <1>5, <2>1
  <2>3. /\ so \in X /\ Len(so.kept) + so.omitted = n - 1 + omitted
        /\ FitsAll(so.kept)
        /\ Good => \A x \in ToSet(so.kept) : \E given \in ToSet(evidence) : PartOf(x, given)
        /\ FitsAll(evidence) => so.kept = SubSeq(evidence, 1, n - 1) /\ so.omitted = omitted
    BY <1>8
  <2>4. Len(so.kept) + so.omitted = n - 1 + omitted
    BY <2>3
  <2>5. e \in T /\ e \in ToSet(evidence)
    BY <1>1 DEF ToSet
  <2> HIDE DEF W, Right
  <2>6. /\ t \in X
        /\ \/ t.kept = so.kept /\ t.omitted = so.omitted + 1
           \/ \E x \in T :
                /\ t.kept = Append(so.kept, x) /\ t.omitted = so.omitted
                /\ EvidenceSize(t.kept) <= Budget.knowledge
                /\ e.text > 0 => PartOf(x, e)
    <3>1. n \in 1..Len(evidence) /\ so \in [kept : Seq(T), omitted : Nat]
      BY <2>3
    <3>2. t \in [kept : Seq(T), omitted : Nat] /\ OneMore(T, e, so, t)
      <4> HIDE DEF so, t
      <4> QED
        BY <2>2, <3>1, TrimOne
    <3> HIDE DEF so, t, e
    <3> QED
      BY <3>2 DEF OneMore
  <2>7. ASSUME FitsAll(evidence)
        PROVE  t.kept = SubSeq(evidence, 1, n) /\ t.omitted = omitted
    <3>1. so.kept = SubSeq(evidence, 1, n - 1) /\ so.omitted = omitted
      BY <2>3, <2>7
    <3>2. Append(so.kept, e) = SubSeq(evidence, 1, n)
      BY <1>1, <2>1, <3>1
    <3>3. EvidenceSize(Append(so.kept, e)) <= Budget.knowledge
      BY <2>1, <2>7, <3>2 DEF FitsAll
    <3>4. t = [so EXCEPT !.kept = Append(@, e)]
      BY <2>2, <3>3 DEF Trims
    <3>5. t.kept = Append(so.kept, e) /\ t.omitted = so.omitted
      <4> HIDE DEF so, t, e
      <4> QED
        BY <2>3, <3>4
    <3> QED
      BY <3>1, <3>2, <3>5
  <2>8. CASE t.kept = so.kept /\ t.omitted = so.omitted + 1
    <3>1. Len(t.kept) + t.omitted = n + omitted
      <4> HIDE DEF so, t
      <4>1. Len(so.kept) \in Nat /\ so.omitted \in Nat
        BY <2>3
      <4> QED
        BY <1>7, <2>1, <2>8, <2>4, <4>1
    <3>2. Right(n)
      <4> HIDE DEF X, Good, so, l, e
      <4> QED
        BY <2>3, <2>6, <2>7, <2>8, <3>1, Zenon DEF Right
    <3> QED
      BY <2>1, <3>2 DEF W
  <2>9. CASE \E x \in T :
                /\ t.kept = Append(so.kept, x) /\ t.omitted = so.omitted
                /\ EvidenceSize(t.kept) <= Budget.knowledge
                /\ e.text > 0 => PartOf(x, e)
    <3> PICK x \in T :
                /\ t.kept = Append(so.kept, x) /\ t.omitted = so.omitted
                /\ EvidenceSize(t.kept) <= Budget.knowledge
                /\ e.text > 0 => PartOf(x, e)
      BY <2>9
    <3> HIDE DEF so, t, e
    <3>1. Len(t.kept) + t.omitted = n + omitted
      <4>1. Len(so.kept) \in Nat /\ so.omitted \in Nat /\ Len(t.kept) = Len(so.kept) + 1
        BY <2>3
      <4> QED
        BY <1>7, <2>1, <2>4, <4>1
    <3>2. FitsAll(t.kept)
      BY <2>3, FitsOneMore
    <3>3. ASSUME Good, NEW y \in ToSet(t.kept)
          PROVE  \E given \in ToSet(evidence) : PartOf(y, given)
      <4>1. y = x \/ y \in ToSet(so.kept)
        <5>1. /\ DOMAIN t.kept = 1..Len(so.kept) + 1 /\ DOMAIN so.kept = 1..Len(so.kept)
              /\ \A i \in 1..Len(so.kept) : t.kept[i] = so.kept[i]
              /\ t.kept[Len(so.kept) + 1] = x /\ Len(so.kept) \in Nat
          BY <2>3
        <5> QED
          BY <3>3, <5>1 DEF ToSet
      <4>2. e.text > 0
        BY <2>5, <3>3
      <4> QED
        BY <2>3, <2>5, <3>3, <4>1, <4>2
    <3>4. Right(n)
      <4> HIDE DEF X, Good, l
      <4> QED
        BY <2>6, <2>7, <3>1, <3>2, <3>3, Zenon DEF Right, t
    <3> QED
      BY <2>1, <3>4 DEF W
  <2> QED
    BY <2>6, <2>8, <2>9
<1>9. \A n \in 1..l : n - 1 \in W => n \in W
  BY <1>8
<1>10. l \in W
  <2> HIDE DEF W, l
  <2>1. \A n \in 0..l : n \in W
    BY <1>1, <1>6, <1>9, EveryPart
  <2> QED
    BY <1>1, <2>1
<1>11. SubSeq(evidence, 1, l) = evidence
  BY SubSeqFull
<1>12. Right(l)
  <2> HIDE DEF Right
  <2> QED
    BY <1>10
<1> QED
  BY <1>4, <1>11, <1>12 DEF TrimmedTo


-----------------------------------------------------------------------------
(* Lines                                                                   *)

Sizes(lines) == [i \in DOMAIN lines |-> lines[i].size]

(* Lines have a size, and stay lines with another.                         *)
HaveSizes(L) ==
  \A x \in L : /\ "size" \in DOMAIN x /\ x.size \in Nat
              /\ \A s \in Nat : [x EXCEPT !.size = s] \in L

LEMMA LinesSizeIs ==
  ASSUME NEW L, HaveSizes(L), NEW lines \in Seq(L)
  PROVE  /\ Sizes(lines) \in Seq(Nat) /\ Len(Sizes(lines)) = Len(lines)
         /\ \A i \in 1..Len(lines) : Sizes(lines)[i] = lines[i].size
         /\ Sum(Sizes(lines)) \in Nat
         /\ LinesSize(lines) = HeadingSize + Sum(Sizes(lines))
         /\ LinesSize(lines) \in Nat
<1>1. /\ Len(lines) \in Nat /\ DOMAIN lines = 1..Len(lines)
      /\ \A i \in 1..Len(lines) : lines[i] \in L
  OBVIOUS
<1>2. \A i \in 1..Len(lines) : lines[i].size \in Nat
  BY <1>1 DEF HaveSizes
<1>3. /\ Sizes(lines) \in Seq(Nat) /\ Len(Sizes(lines)) = Len(lines)
      /\ \A i \in 1..Len(lines) : Sizes(lines)[i] = lines[i].size
  BY <1>1, <1>2 DEF Sizes
<1>4. Sum(Sizes(lines)) \in Nat
  <2> DEFINE l == Len(Sizes(lines))
  <2>1. PICK sum \in [0..l -> Nat] : Sum(Sizes(lines)) = sum[l]
    BY <1>3, SumIs
  <2>2. l \in 0..l
    BY <1>1, <1>3
  <2> HIDE DEF l
  <2> QED
    BY <2>1, <2>2
<1>5. LinesSize(lines) = HeadingSize + Sum(Sizes(lines))
  BY DEF LinesSize, Sizes
<1>6. HeadingSize \in Nat
  BY ContextAssumption
<1> QED
  BY <1>3, <1>4, <1>5, <1>6

Cuts(lines, budget, before, n) ==
  LET some == SubSeq(lines, 1, n)
      excess == LinesSize(some) - budget
  IN IF n = 0 \/ excess <= 0 THEN some
     ELSE IF lines[n].size <= excess THEN before
     ELSE [some EXCEPT ![n].size = Clip(@, @ - excess)]

(* The first n lines: as they are, without the last, or with less of it.   *)
LEMMA CutOne ==
  ASSUME NEW L, HaveSizes(L), NEW lines \in Seq(L),
         NEW budget \in Nat, NEW n \in 1..Len(lines), NEW before \in Seq(L)
  PROVE  /\ Cuts(lines, budget, before, n) \in Seq(L)
         /\ LinesSize(before) <= budget => LinesSize(Cuts(lines, budget, before, n)) <= budget
<1> DEFINE some == SubSeq(lines, 1, n)
           excess == LinesSize(some) - budget
           z == lines[n].size
           c == Clip(z, z - excess)
           cut == [some EXCEPT ![n].size = Clip(@, @ - excess)]
<1>1. /\ some \in Seq(L) /\ Len(some) = n /\ n \in Nat /\ n > 0 /\ some[n] = lines[n]
      /\ lines[n] \in L /\ DOMAIN some = 1..n
  <2>1. Len(lines) \in Nat /\ n \in Nat /\ 1 <= n /\ n <= Len(lines) /\ lines[n] \in L
    OBVIOUS
  <2> QED
    BY <2>1, SubSeqProperties
<1>2. LinesSize(some) \in Nat /\ z \in Nat /\ excess \in Int
  <2>1. LinesSize(some) \in Nat
    BY <1>1, LinesSizeIs
  <2>2. z \in Nat
    BY <1>1 DEF HaveSizes
  <2> QED
    BY <2>1, <2>2
<1>3. CASE excess <= 0
  <2>1. Cuts(lines, budget, before, n) = some
    BY <1>3 DEF Cuts
  <2>2. LinesSize(some) <= budget
    <3> DEFINE s == LinesSize(some)
    <3>1. s \in Nat /\ s - budget <= 0
      BY <1>2, <1>3
    <3> HIDE DEF s
    <3>2. s <= budget
      BY <3>1
    <3> QED
      BY <3>2 DEF s
  <2> QED
    BY <1>1, <2>1, <2>2
<1>4. CASE ~(excess <= 0) /\ z <= excess
  <2>1. Cuts(lines, budget, before, n) = before
    BY <1>1, <1>4 DEF Cuts
  <2> QED
    BY <2>1
<1>5. CASE ~(excess <= 0) /\ ~(z <= excess)
  <2>1. Cuts(lines, budget, before, n) = cut
    <3>1. n # 0
      BY <1>1
    <3> QED
      BY <1>5, <3>1, Zenon DEF Cuts
  <2>2. z - excess \in Nat /\ z - excess <= z
    <3> HIDE DEF z, excess
    <3> QED
      BY <1>2, <1>5
  <2>3. c \in Nat /\ c <= z - excess
    <3> HIDE DEF z, excess
    <3> QED
      BY <1>2, <2>2, ClipIs
  <2>4. cut = [some EXCEPT ![n] = [lines[n] EXCEPT !.size = c]]
    BY <1>1
  <2> DEFINE line == [lines[n] EXCEPT !.size = c]
  <2>5. line \in L /\ line.size = c
    <3> HIDE DEF c
    <3> QED
      BY <1>1, <2>3 DEF HaveSizes
  <2> HIDE DEF line, cut, some, c, excess, z
  <2>6. /\ cut \in Seq(L) /\ Len(cut) = n /\ cut[n] = line
        /\ \A i \in 1..n - 1 : cut[i] = some[i]
    <3>1. cut = [some EXCEPT ![n] = line]
      BY <2>4 DEF line
    <3> QED
      BY <1>1, <2>5, <3>1
  <2>7. /\ Sizes(some) \in Seq(Nat) /\ Len(Sizes(some)) = n /\ Sizes(some)[n] = z
        /\ LinesSize(some) = HeadingSize + Sum(Sizes(some))
        /\ \A i \in 1..n : Sizes(some)[i] = some[i].size
    <3>1. /\ Sizes(some) \in Seq(Nat) /\ Len(Sizes(some)) = Len(some)
          /\ LinesSize(some) = HeadingSize + Sum(Sizes(some))
          /\ \A i \in 1..Len(some) : Sizes(some)[i] = some[i].size
      BY <1>1, LinesSizeIs
    <3> QED
      BY <1>1, <3>1 DEF z
  <2>8. /\ Sizes(cut) \in Seq(Nat) /\ Len(Sizes(cut)) = n /\ Sizes(cut)[n] = c
        /\ LinesSize(cut) = HeadingSize + Sum(Sizes(cut))
        /\ \A i \in 1..n : Sizes(cut)[i] = cut[i].size
    <3>1. /\ Sizes(cut) \in Seq(Nat) /\ Len(Sizes(cut)) = Len(cut)
          /\ LinesSize(cut) = HeadingSize + Sum(Sizes(cut))
          /\ \A i \in 1..Len(cut) : Sizes(cut)[i] = cut[i].size
      BY <2>6, LinesSizeIs
    <3> QED
      BY <1>1, <2>5, <2>6, <3>1
  <2>9. \A i \in 1..n - 1 : Sizes(cut)[i] = Sizes(some)[i]
    <3> TAKE i \in 1..n - 1
    <3>1. i \in 1..n
      BY <1>1
    <3> QED
      BY <2>6, <2>7, <2>8, <3>1
  <2>10. /\ Sum(Sizes(cut)) - c = Sum(Sizes(some)) - z
         /\ Sum(Sizes(cut)) \in Nat /\ Sum(Sizes(some)) \in Nat
    <3>1. Len(Sizes(cut)) = Len(Sizes(some)) /\ Len(Sizes(cut)) > 0
      BY <1>1, <2>7, <2>8
    <3>2. \A i \in 1..Len(Sizes(cut)) - 1 : Sizes(cut)[i] = Sizes(some)[i]
      BY <2>8, <2>9
    <3> QED
      BY <2>7, <2>8, <3>1, <3>2, SumOfTwo
  <2>11. LinesSize(cut) <= budget
    <3>1. \A a, b, v, w, h, s, t \in Int :
            a - v = b - w /\ s = h + b /\ t = h + a /\ v <= w - (s - budget) => t <= budget
      OBVIOUS
    <3>2. c <= z - (LinesSize(some) - budget)
      BY <2>3 DEF excess
    <3>3. LinesSize(some) \in Int /\ LinesSize(cut) \in Int /\ HeadingSize \in Int
      BY <1>2, <2>6, LinesSizeIs, ContextAssumption
    <3>4. Sum(Sizes(cut)) \in Int /\ Sum(Sizes(some)) \in Int /\ c \in Int /\ z \in Int
      BY <1>2, <2>3, <2>10
    <3> QED
      BY <2>7, <2>8, <2>10, <3>1, <3>2, <3>3, <3>4
  <2> QED
    BY <2>1, <2>6, <2>11
<1> QED
  BY <1>3, <1>4, <1>5

(* Lines that fit; those that do are left as they are.                     *)
LEMMA TrimLinesIs ==
  ASSUME NEW L, HaveSizes(L), NEW lines \in Seq(L), NEW budget \in Nat, HeadingSize <= budget
  PROVE  /\ TrimLines(lines, budget) \in Seq(L)
         /\ LinesSize(TrimLines(lines, budget)) <= budget
         /\ LinesSize(lines) <= budget => TrimLines(lines, budget) = lines
<1> DEFINE l == Len(lines)
           X == Seq(L)
           step == [n \in 1..l |-> [before \in X |-> Cuts(lines, budget, before, n)]]
           trimmed == CHOOSE f : f = [n \in 0..l |-> Cuts(lines, budget, f[n - 1], n)]
<1>1. l \in Nat /\ DOMAIN lines = 1..l /\ lines \in X /\ <<>> \in X
  OBVIOUS
<1>2. \A n \in 1..l : \A before \in X : Cuts(lines, budget, before, n) \in X
  BY CutOne
<1>3. \A before : Cuts(lines, budget, before, 0) = <<>>
  BY DEF Cuts
<1>4. TrimLines(lines, budget) = trimmed[l]
  BY DEF TrimLines, Cuts
<1>5. trimmed = [n \in 0..l |-> Cuts(lines, budget, trimmed[n - 1], n)]
  <2> HIDE DEF X, l
  <2>1. PICK f \in [0..l -> X] : f[0] = <<>> /\ \A n \in 1..l : f[n] = step[n][f[n - 1]]
    <3>1. l \in Nat /\ <<>> \in X /\ step \in [1..l -> [X -> X]]
      BY <1>1, <1>2
    <3> HIDE DEF step
    <3>2. \E f : Grown(f, X, <<>>, l, step)
      BY <3>1, GrownExists
    <3> QED
      BY <3>2 DEF Grown
  <2>2. \A n \in 0..l : f[n] = Cuts(lines, budget, f[n - 1], n)
    <3> TAKE n \in 0..l
    <3>1. CASE n \in 1..l
      <4>1. f[n - 1] \in X
        BY <1>1, <2>1, <3>1
      <4> QED
        BY <1>1, <2>1, <3>1, <4>1
    <3>2. CASE n = 0
      BY <1>3, <2>1, <3>2
    <3> QED
      BY <1>1, <3>1, <3>2
  <2>3. f = [n \in 0..l |-> Cuts(lines, budget, f[n - 1], n)]
    BY <2>1, <2>2
  <2> QED
    BY <2>3
<1> HIDE DEF trimmed, step
<1> DEFINE W == {n \in 0..l : trimmed[n] \in X /\ LinesSize(trimmed[n]) <= budget}
<1>6. 0 \in W
  <2>1. trimmed[0] = <<>>
    BY <1>1, <1>3, <1>5
  <2>2. LinesSize(<<>>) = HeadingSize
    <3>1. [i \in DOMAIN <<>> |-> <<>>[i].size] = <<>>
      OBVIOUS
    <3> QED
      BY <3>1, SumOfNone, ContextAssumption DEF LinesSize
  <2>3. LinesSize(trimmed[0]) <= budget /\ trimmed[0] \in X /\ 0 \in 0..l
    BY <1>1, <2>1, <2>2
  <2> QED
    BY <2>3
<1>7. \A n \in 1..l : n - 1 \in W => n \in W
  <2> SUFFICES ASSUME NEW n \in 1..l, n - 1 \in W PROVE n \in W
    OBVIOUS
  <2> DEFINE before == trimmed[n - 1]
  <2>1. n \in 0..l /\ before \in X /\ LinesSize(before) <= budget
    BY <1>1
  <2>2. trimmed[n] = Cuts(lines, budget, before, n)
    <3> HIDE DEF W, l, X
    <3> QED
      BY <1>5, <2>1
  <2> HIDE DEF before
  <2>3. trimmed[n] \in X /\ LinesSize(trimmed[n]) <= budget
    <3> HIDE DEF W
    <3> QED
      BY <2>1, <2>2, CutOne
  <2> QED
    BY <2>1, <2>3
<1>8. \A n \in 0..l : n \in W
  <2> HIDE DEF W, l
  <2> QED
    BY <1>1, <1>6, <1>7, EveryPart
<1>9. l \in W
  <2> HIDE DEF W
  <2> QED
    BY <1>1, <1>8
<1>10. ASSUME LinesSize(lines) <= budget PROVE trimmed[l] = lines
  <2>1. SubSeq(lines, 1, l) = lines
    BY SubSeqFull
  <2>2. LinesSize(lines) - budget <= 0
    <3> DEFINE s == LinesSize(lines)
    <3>1. s \in Nat /\ s <= budget
      BY <1>10, LinesSizeIs
    <3> HIDE DEF s
    <3>2. s - budget <= 0
      BY <3>1
    <3> QED
      BY <3>2 DEF s
  <2>3. l \in 0..l
    BY <1>1
  <2>4. trimmed[l] = Cuts(lines, budget, trimmed[l - 1], l)
    <3> HIDE DEF l
    <3> QED
      BY <1>5, <2>3
  <2> QED
    BY <2>1, <2>2, <2>4 DEF Cuts
<1> QED
  BY <1>4, <1>9, <1>10


-----------------------------------------------------------------------------
(* The lists of lines                                                      *)

LEMMA SinglesIs ==
  ASSUME NEW T, NEW lines \in Seq(T)
  PROVE  Singles(lines) \in Seq(Seq(T))
<1>1. Len(lines) \in Nat /\ DOMAIN lines = 1..Len(lines) /\ \A i \in 1..Len(lines) : lines[i] \in T
  OBVIOUS
<1>2. \A i \in 1..Len(lines) : <<lines[i]>> \in Seq(T)
  BY <1>1
<1> QED
  BY <1>1, <1>2 DEF Singles

(* A list per item of a list.                                              *)
LEMMA EachIs ==
  ASSUME NEW S, NEW seq \in Seq(S), NEW T, NEW of, \A i \in DOMAIN seq : of[i] \in Seq(T),
         DOMAIN of = DOMAIN seq, of = [i \in DOMAIN seq |-> of[i]]
  PROVE  FlattenSeq(of) \in Seq(T)
<1>1. Len(seq) \in Nat /\ DOMAIN seq = 1..Len(seq)
  OBVIOUS
<1>2. of \in Seq(Seq(T))
  BY <1>1
<1> QED
  BY <1>2, FlattenIsSeq

LEMMA NamesMentionedIs ==
  ASSUME NEW N, NEW asked \in Seq(N), NEW results \in Seq(Items), NEW kind,
         \A m \in Items : Memory[m][kind] \in Seq(N)
  PROVE  NamesMentioned(asked, results, kind) \in Seq(N)
<1> DEFINE f == [i \in DOMAIN results |-> Memory[results[i]][kind]]
<1>1. \A i \in DOMAIN results : f[i] \in Seq(N)
  OBVIOUS
<1>2. FlattenSeq(f) \in Seq(N)
  BY <1>1, EachIs
<1>3. NamesMentioned(asked, results, kind) = Lines(Singles(asked \o FlattenSeq(f)))
  BY DEF NamesMentioned, Each
<1>4. asked \o FlattenSeq(f) \in Seq(N)
  BY <1>2, ConcatProperties
<1> HIDE DEF f
<1> QED
  BY <1>3, <1>4, SinglesIs, LinesIs

LEMMA IfIs ==
  ASSUME NEW T, NEW item \in T, NEW c
  PROVE  If(c, item) \in Seq(T)
<1>1. <<>> \in Seq(T) /\ <<item>> \in Seq(T)
  OBVIOUS
<1> QED
  BY <1>1 DEF If

LEMMA NameLinesIs ==
  ASSUME NEW L, NEW N, NEW known \in Seq(L), NEW asked \in Seq(N), NEW results \in Seq(Items),
         NEW kind, \A m \in Items : Memory[m][kind] \in Seq(N),
         \A n \in N, m \in Items : Line(n, m) \in L
  PROVE  NameLines(known, asked, results, kind) \in Seq(L)
<1> DEFINE mentions(n) ==
             [i \in DOMAIN results |-> If(n \in ToSet(Memory[results[i]][kind]), Line(n, results[i]))]
           asks == [i \in DOMAIN asked |-> FlattenSeq(mentions(asked[i]))]
           lists(m) == [i \in DOMAIN Memory[m][kind] |-> <<Line(Memory[m][kind][i], m)>>]
           others == [i \in DOMAIN results |-> FlattenSeq(lists(results[i]))]
<1>1. \A i \in DOMAIN results : results[i] \in Items
  OBVIOUS
<1>2. ASSUME NEW n \in N PROVE FlattenSeq(mentions(n)) \in Seq(L)
  <2>1. \A i \in DOMAIN results : mentions(n)[i] \in Seq(L)
    BY <1>1, IfIs
  <2> QED
    BY <2>1, EachIs
<1>3. ASSUME NEW m \in Items PROVE FlattenSeq(lists(m)) \in Seq(L)
  <2>1. \A i \in DOMAIN Memory[m][kind] : lists(m)[i] \in Seq(L)
    <3> TAKE i \in DOMAIN Memory[m][kind]
    <3>1. Line(Memory[m][kind][i], m) \in L
      OBVIOUS
    <3> QED
      BY <3>1
  <2> QED
    BY <2>1, EachIs
<1> HIDE DEF mentions, lists
<1>4. asks \in Seq(Seq(L))
  <2>1. Len(asked) \in Nat /\ DOMAIN asked = 1..Len(asked) /\ \A i \in 1..Len(asked) : asked[i] \in N
    OBVIOUS
  <2>2. \A i \in 1..Len(asked) : FlattenSeq(mentions(asked[i])) \in Seq(L)
    BY <1>2, <2>1
  <2> QED
    BY <2>1, <2>2
<1>5. FlattenSeq(others) \in Seq(L)
  <2>1. \A i \in DOMAIN results : others[i] \in Seq(L)
    BY <1>1, <1>3
  <2> QED
    BY <2>1, EachIs
<1>6. NameLines(known, asked, results, kind)
        = Lines(Singles(known) \o asks \o Singles(FlattenSeq(others)))
  BY DEF NameLines, Each, mentions, lists
<1> HIDE DEF asks, others
<1>7. Singles(known) \in Seq(Seq(L)) /\ Singles(FlattenSeq(others)) \in Seq(Seq(L))
  BY <1>5, SinglesIs
<1>8. Singles(known) \o asks \o Singles(FlattenSeq(others)) \in Seq(Seq(L))
  BY <1>4, <1>7, ConcatProperties
<1> QED
  BY <1>6, <1>8, LinesIs

LEMMA ModelLinesIs ==
  ASSUME NEW L, NEW N, NEW people \in Seq(N), NEW topics,
         \A p \in N : IsList(Estimates[p]),
         \A p \in N : \A t \in ToSet(Estimates[p]) : Line(p, t) \in L
  PROVE  ModelLines(people, topics) \in Seq(L)
<1> DEFINE of(p) == [i \in DOMAIN Estimates[p] |->
                       If(topics = <<>> \/ Estimates[p][i] \in ToSet(topics), Line(p, Estimates[p][i]))]
           all == [i \in DOMAIN people |-> FlattenSeq(of(people[i]))]
<1>1. ASSUME NEW p \in N PROVE FlattenSeq(of(p)) \in Seq(L)
  <2>1. Estimates[p] \in Seq(ToSet(Estimates[p]))
    BY DEF IsList
  <2>2. \A i \in DOMAIN Estimates[p] : Line(p, Estimates[p][i]) \in L
    BY DEF ToSet
  <2>3. \A i \in DOMAIN Estimates[p] : of(p)[i] \in Seq(L)
    BY <2>2, IfIs
  <2> QED
    BY <2>1, <2>3, EachIs
<1> HIDE DEF of
<1>2. FlattenSeq(all) \in Seq(L)
  <2>1. \A i \in DOMAIN people : all[i] \in Seq(L)
    BY <1>1
  <2> QED
    BY <2>1, EachIs
<1>3. ModelLines(people, topics) = Lines(Singles(FlattenSeq(all)))
  BY DEF ModelLines, Each, of
<1> HIDE DEF all
<1> QED
  BY <1>2, <1>3, SinglesIs, LinesIs

LEMMA BeliefLinesIs ==
  ASSUME NEW L, NEW N, NEW B, NEW topics \in Seq(N),
         \A t \in N : BeliefsAbout[t] \in Seq(B), AllBeliefs \in Seq(B),
         \A b \in B : Line(b, "belief") \in L
  PROVE  BeliefLines(topics) \in Seq(L)
<1> DEFINE lines(s) == [i \in DOMAIN s |-> <<Line(s[i], "belief")>>]
           first(t) == SubSeq(BeliefsAbout[t], 1, Min({Len(BeliefsAbout[t]), LineLimit}))
           per == [i \in DOMAIN topics |-> FlattenSeq(lines(first(topics[i])))]
           about == Lines(Singles(FlattenSeq(per)))
           all == Lines(Singles(FlattenSeq(lines(AllBeliefs))))
<1>1. ASSUME NEW s \in Seq(B) PROVE FlattenSeq(lines(s)) \in Seq(L)
  <2>1. \A i \in DOMAIN s : Line(s[i], "belief") \in L
    OBVIOUS
  <2>2. \A i \in DOMAIN s : lines(s)[i] \in Seq(L)
    BY <2>1
  <2> QED
    BY <2>2, EachIs
<1>2. ASSUME NEW t \in N PROVE first(t) \in Seq(B)
  <2> DEFINE n == Len(BeliefsAbout[t])
             k == Min({n, LineLimit})
  <2>1. n \in Nat /\ LineLimit \in Nat
    BY ContextAssumption
  <2>2. k \in Nat /\ k <= n
    <3> HIDE DEF n
    <3>1. \E x \in {n, LineLimit} : \A y \in {n, LineLimit} : x <= y
      BY <2>1
    <3>2. k \in {n, LineLimit} /\ \A y \in {n, LineLimit} : k <= y
      BY <3>1 DEF Min
    <3> QED
      BY <2>1, <3>2
  <2> HIDE DEF k
  <2>3. SubSeq(BeliefsAbout[t], 1, k) \in Seq(B)
    <3>1. \A i \in 1..k : BeliefsAbout[t][i] \in B
      BY <2>1, <2>2
    <3> QED
      BY <2>2, <3>1, SubSeqProperties
  <2> QED
    BY <2>3 DEF k
<1> HIDE DEF lines, first
<1>3. FlattenSeq(per) \in Seq(L)
  <2>1. \A i \in DOMAIN topics : per[i] \in Seq(L)
    BY <1>1, <1>2
  <2> QED
    BY <2>1, EachIs
<1>4. FlattenSeq(lines(AllBeliefs)) \in Seq(L)
  BY <1>1
<1> HIDE DEF per
<1>5. about \in Seq(L) /\ all \in Seq(L)
  BY <1>3, <1>4, SinglesIs, LinesIs
<1>6. BeliefLines(topics) = IF about # <<>> THEN about ELSE all
  BY DEF BeliefLines, Each, per, lines, first
<1> HIDE DEF about, all
<1> QED
  BY <1>5, <1>6


-----------------------------------------------------------------------------
(* The packet                                                              *)

Believed == ToSet(AllBeliefs) \cup UNION {ToSet(BeliefsAbout[t]) : t \in TopicsNamed}

AnyLine == [name : PeopleNamed \cup TopicsNamed \cup Believed,
            of : Items \cup {"belief"} \cup UNION {ToSet(Estimates[p]) : p \in PeopleNamed},
            size : Nat]

Given == UNION {ToSet(evidence) : evidence \in KnowledgeAnswers}

Shortened(e, n) == [e EXCEPT !.text = n, !.truncated = TRUE]

AnyEvidence == Given \cup {Shortened(e, n) : e \in Given, n \in Nat}

LEMMA AnyLineHasSize == HaveSizes(AnyLine)
BY DEF HaveSizes, AnyLine

LEMMA AnyEvidenceIs ==
  /\ \A e \in AnyEvidence : IsEvidence(e)
  /\ \A e \in AnyEvidence, k \in Nat : CutTo(e, k) \in AnyEvidence
<1>1. \A e \in Given : IsEvidence(e)
  BY ContextAssumption DEF Given, IsEvidence, Fields
<1>2. ASSUME NEW e \in Given, NEW n \in Nat
      PROVE  IsEvidence(Shortened(e, n)) /\ Shortened(e, n).text = n
  <2>1. IsEvidence(e)
    BY <1>1
  <2> QED
    BY <2>1 DEF IsEvidence, Shortened, Fields
<1>3. \A e \in AnyEvidence : IsEvidence(e)
  BY <1>1, <1>2 DEF AnyEvidence
<1>4. ASSUME NEW e \in AnyEvidence, NEW k \in Nat PROVE CutTo(e, k) \in AnyEvidence
  <2> DEFINE n == Clip(e.text, k)
  <2>1. n \in Nat
    <3>1. e.text \in Nat
      BY <1>3 DEF IsEvidence
    <3> QED
      BY <3>1, ClipIs
  <2>2. CutTo(e, k) = Shortened(e, n)
    BY DEF CutTo, Shortened
  <2> HIDE DEF n
  <2>3. CASE e \in Given
    BY <2>1, <2>2, <2>3 DEF AnyEvidence
  <2>4. ASSUME NEW given \in Given, NEW m \in Nat, e = Shortened(given, m)
        PROVE  CutTo(e, k) \in AnyEvidence
    <3>1. DOMAIN given = Fields
      BY <1>1 DEF IsEvidence
    <3>2. Shortened(e, n) = Shortened(given, n)
      BY <2>4, <3>1 DEF Shortened, Fields
    <3> QED
      BY <2>1, <2>2, <3>2 DEF AnyEvidence
  <2> QED
    BY <2>3, <2>4 DEF AnyEvidence
<1> QED
  BY <1>3, <1>4

(* What the branches found.                                                *)
IsMemoryPart(m) ==
  /\ m.memories \in Seq(Items) /\ m.omitted \in Nat
  /\ m.people \in Seq(AnyLine) /\ m.topics \in Seq(AnyLine) /\ m.beliefs \in Seq(AnyLine)

IsKnowledge(k) ==
  k.evidence \in Seq(AnyEvidence) /\ \A e \in ToSet(k.evidence) : e.text > 0

Parts == {"mode", "memories", "omitted", "people", "topics", "beliefs", "status", "evidence",
          "omittedEvidence"}

(* What the budgets make of a packet with these memories and this evidence.*)
LEMMA BudgetedFields ==
  ASSUME NEW p, DOMAIN p = Parts, p = [f \in Parts |-> p[f]]
  PROVE  /\ DOMAIN ApplyContextBudgets(p) = Parts
         /\ ApplyContextBudgets(p) = [f \in Parts |-> ApplyContextBudgets(p)[f]]
         /\ ApplyContextBudgets(p).mode = p.mode /\ ApplyContextBudgets(p).status = p.status
         /\ ApplyContextBudgets(p).evidence = TrimEvidence(p.evidence, p.omittedEvidence).kept
         /\ ApplyContextBudgets(p).omittedEvidence
              = TrimEvidence(p.evidence, p.omittedEvidence).omitted
         /\ ApplyContextBudgets(p).memories = TrimMemories(p.memories, p.omitted).memories
         /\ ApplyContextBudgets(p).omitted = TrimMemories(p.memories, p.omitted).omitted
         /\ ApplyContextBudgets(p).people = TrimLines(p.people, Budget.people)
         /\ ApplyContextBudgets(p).topics = TrimLines(p.topics, Budget.topics)
         /\ ApplyContextBudgets(p).beliefs = TrimLines(p.beliefs, Budget.beliefs)
<1> DEFINE evidence == TrimEvidence(p.evidence, p.omittedEvidence)
           memories == TrimMemories(p.memories, p.omitted)
           people == TrimLines(p.people, Budget.people)
           topics == TrimLines(p.topics, Budget.topics)
           believed == TrimLines(p.beliefs, Budget.beliefs)
           b == [p EXCEPT !.evidence = evidence.kept, !.omittedEvidence = evidence.omitted,
                          !.memories = memories.memories, !.omitted = memories.omitted,
                          !.people = people, !.topics = topics, !.beliefs = believed]
<1>1. ApplyContextBudgets(p) = b
  BY DEF ApplyContextBudgets
<1> HIDE DEF evidence, memories, people, topics, believed
<1>2. /\ DOMAIN b = Parts /\ b = [f \in Parts |-> b[f]]
      /\ b.mode = p.mode /\ b.status = p.status
      /\ b.evidence = evidence.kept /\ b.omittedEvidence = evidence.omitted
      /\ b.memories = memories.memories /\ b.omitted = memories.omitted
      /\ b.people = people /\ b.topics = topics /\ b.beliefs = believed
  BY DEF Parts
<1> HIDE DEF b
<1> QED
  BY <1>1, <1>2 DEF evidence, memories, people, topics, believed

Fit(b) ==
  /\ FitsAll(b.evidence) /\ EvidenceSize(b.evidence) <= Budget.knowledge
  /\ MemorySize(b.memories, b.omitted) <= Budget.memory
  /\ LinesSize(b.people) <= Budget.people
  /\ LinesSize(b.topics) <= Budget.topics
  /\ LinesSize(b.beliefs) <= Budget.beliefs
  /\ TrimMemories(b.memories, b.omitted) = [memories |-> b.memories, omitted |-> b.omitted]

LEMMA BudgetsFit ==
  ASSUME NEW p, DOMAIN p = Parts, p = [f \in Parts |-> p[f]],
         IsMemoryPart(p), IsKnowledge(p), p.omittedEvidence \in Nat
  PROVE  /\ Fit(ApplyContextBudgets(p))
         /\ IsMemoryPart(ApplyContextBudgets(p)) /\ ApplyContextBudgets(p).evidence \in Seq(AnyEvidence)
         /\ ApplyContextBudgets(p).omittedEvidence \in Nat
         /\ Len(ApplyContextBudgets(p).evidence) + ApplyContextBudgets(p).omittedEvidence
              = Len(p.evidence) + p.omittedEvidence
         /\ Len(ApplyContextBudgets(p).memories) + ApplyContextBudgets(p).omitted
              = Len(p.memories) + p.omitted
         /\ IsPrefix(ApplyContextBudgets(p).memories, p.memories)
         /\ \A e \in ToSet(ApplyContextBudgets(p).evidence) :
              \E given \in ToSet(p.evidence) : PartOf(e, given)
<1> DEFINE b == ApplyContextBudgets(p)
           t == TrimEvidence(p.evidence, p.omittedEvidence)
           m == TrimMemories(p.memories, p.omitted)
<1>1. /\ b.evidence = t.kept /\ b.omittedEvidence = t.omitted
      /\ b.memories = m.memories /\ b.omitted = m.omitted
      /\ b.people = TrimLines(p.people, Budget.people)
      /\ b.topics = TrimLines(p.topics, Budget.topics)
      /\ b.beliefs = TrimLines(p.beliefs, Budget.beliefs)
  BY BudgetedFields
<1>2. /\ t.kept \in Seq(AnyEvidence) /\ t.omitted \in Nat
      /\ Len(t.kept) + t.omitted = Len(p.evidence) + p.omittedEvidence
      /\ FitsAll(t.kept)
      /\ \A e \in ToSet(t.kept) : \E given \in ToSet(p.evidence) : PartOf(e, given)
  <2>1. p.evidence \in Seq(AnyEvidence) /\ \A e \in ToSet(p.evidence) : e.text > 0
    BY DEF IsKnowledge
  <2>2. /\ t.kept \in Seq(AnyEvidence) /\ t.omitted \in Nat
        /\ Len(t.kept) + t.omitted = Len(p.evidence) + p.omittedEvidence
        /\ FitsAll(t.kept)
        /\ (\A e \in ToSet(p.evidence) : e.text > 0) =>
             \A e \in ToSet(t.kept) : \E given \in ToSet(p.evidence) : PartOf(e, given)
    <3>1. TrimmedTo(AnyEvidence, p.evidence, p.omittedEvidence, t)
      BY <2>1, AnyEvidenceIs, TrimEvidenceIs
    <3> HIDE DEF t
    <3> QED
      BY <3>1 DEF TrimmedTo
  <2> QED
    BY <2>1, <2>2
<1>3. EvidenceSize(t.kept) <= Budget.knowledge
  <2>1. SubSeq(t.kept, 1, Len(t.kept)) = t.kept /\ Len(t.kept) \in 0..Len(t.kept)
    BY <1>2, SubSeqFull
  <2> QED
    BY <1>2, <2>1 DEF FitsAll
<1>4. /\ m.memories \in Seq(Items) /\ m.omitted \in Nat
      /\ Len(m.memories) + m.omitted = Len(p.memories) + p.omitted
      /\ IsPrefix(m.memories, p.memories)
      /\ MemorySize(m.memories, m.omitted) <= Budget.memory
      /\ TrimMemories(m.memories, m.omitted) = m
  BY TrimMemoriesIs DEF IsMemoryPart
<1>5. m = [memories |-> m.memories, omitted |-> m.omitted]
  BY DEF TrimMemories
<1>6. \A budget \in Nat, lines \in Seq(AnyLine) : HeadingSize <= budget =>
        /\ TrimLines(lines, budget) \in Seq(AnyLine)
        /\ LinesSize(TrimLines(lines, budget)) <= budget
  BY AnyLineHasSize, TrimLinesIs
<1>7. /\ Budget.people \in Nat /\ HeadingSize <= Budget.people
      /\ Budget.topics \in Nat /\ HeadingSize <= Budget.topics
      /\ Budget.beliefs \in Nat /\ HeadingSize <= Budget.beliefs
  BY ContextAssumption
<1>8. \A list \in {"people", "topics", "beliefs"} :
        b[list] \in Seq(AnyLine) /\ LinesSize(b[list]) <= Budget[list]
  BY <1>1, <1>6, <1>7 DEF IsMemoryPart
<1> HIDE DEF b, m, t
<1>9. Fit(b)
  BY <1>1, <1>2, <1>3, <1>4, <1>5, <1>8 DEF Fit
<1>10. IsMemoryPart(b)
  BY <1>1, <1>4, <1>8 DEF IsMemoryPart
<1> QED
  BY <1>1, <1>2, <1>4, <1>9, <1>10 DEF b

(* What fits is left as it is.                                             *)
LEMMA FitsTwice ==
  ASSUME NEW b, DOMAIN b = Parts, b = [f \in Parts |-> b[f]], Fit(b), IsMemoryPart(b),
         b.evidence \in Seq(AnyEvidence), b.omittedEvidence \in Nat
  PROVE  ApplyContextBudgets(b) = b
<1> DEFINE c == ApplyContextBudgets(b)
           t == TrimEvidence(b.evidence, b.omittedEvidence)
<1>1. /\ DOMAIN c = Parts /\ c = [f \in Parts |-> c[f]]
      /\ c.mode = b.mode /\ c.status = b.status
      /\ c.evidence = t.kept /\ c.omittedEvidence = t.omitted
      /\ c.memories = TrimMemories(b.memories, b.omitted).memories
      /\ c.omitted = TrimMemories(b.memories, b.omitted).omitted
      /\ c.people = TrimLines(b.people, Budget.people)
      /\ c.topics = TrimLines(b.topics, Budget.topics)
      /\ c.beliefs = TrimLines(b.beliefs, Budget.beliefs)
  BY BudgetedFields
<1>2. t.kept = b.evidence /\ t.omitted = b.omittedEvidence
  <2>1. TrimmedTo(AnyEvidence, b.evidence, b.omittedEvidence, t)
    BY AnyEvidenceIs, TrimEvidenceIs
  <2> HIDE DEF t
  <2> QED
    BY <2>1 DEF TrimmedTo, Fit
<1>3. \A budget \in Nat, lines \in Seq(AnyLine) :
        HeadingSize <= budget /\ LinesSize(lines) <= budget => TrimLines(lines, budget) = lines
  BY AnyLineHasSize, TrimLinesIs
<1>4. /\ Budget.people \in Nat /\ HeadingSize <= Budget.people
      /\ Budget.topics \in Nat /\ HeadingSize <= Budget.topics
      /\ Budget.beliefs \in Nat /\ HeadingSize <= Budget.beliefs
  BY ContextAssumption
<1> HIDE DEF c, t
<1>5. c.people = b.people /\ c.topics = b.topics /\ c.beliefs = b.beliefs
  BY <1>1, <1>3, <1>4 DEF Fit, IsMemoryPart
<1>6. c.memories = b.memories /\ c.omitted = b.omitted
  BY <1>1 DEF Fit
<1>7. \A f \in Parts : c[f] = b[f]
  BY <1>1, <1>2, <1>5, <1>6 DEF Parts
<1>8. c = b
  BY <1>1, <1>7
<1> QED
  BY <1>8 DEF c


-----------------------------------------------------------------------------
(* The branches and their join                                             *)

NothingFound == [NoMemory EXCEPT !.pc = "done"]

Assembled(m, results) ==
  /\ IsMemoryPart(m)
  /\ Len(m.memories) + m.omitted = Cardinality({Memory[x].words : x \in ToSet(results)})

ContextInv ==
  /\ request = NoQuestion => memoryPart.pc = "off" /\ knowledge.pc = "off" /\ packet = <<>>
  /\ request # NoQuestion =>
       request \in Requests /\ (request.memoryOff => search.pc = "idle" /\ memoryPart.pc = "done")
  /\ search.results \in Seq(Items)
  /\ memoryPart.pc = "done" =>
       \/ search.pc \in {"idle", "failed"} /\ memoryPart = NothingFound
       \/ search.pc = "found" /\ Assembled(memoryPart, search.results)
  /\ knowledge.pc = "done" => IsKnowledge(knowledge)
  /\ packet # <<>> =>
       /\ memoryPart.pc = "done" /\ knowledge.pc = "done"
       /\ packet = ApplyContextBudgets(Merged(memoryPart, knowledge))

(* What is assembled are lists of lines, and each summary is told or       *)
(* counted.                                                                *)
LEMMA AssembledIs ==
  ASSUME WantedInv, ContextInv, NEW modelsRead, NEW beliefsRead,
         AssembleMemory(modelsRead, beliefsRead)
  PROVE  memoryPart'.pc = "done" /\ Assembled(memoryPart', search.results)
<1> DEFINE results == search.results
           people == NamesMentioned(request.people, results, "people")
           topics == NamesMentioned(request.topics, results, "topics")
           known == IF modelsRead THEN ModelLines(people, topics) ELSE <<>>
           believed == IF beliefsRead THEN BeliefLines(topics) ELSE <<>>
           section == MemorySection(results)
<1>1. memoryPart' = [pc |-> "done", memories |-> section.memories, omitted |-> section.omitted,
                     people |-> PeopleContext(known, results), topics |-> TopicContext(results),
                     beliefs |-> believed]
  BY DEF AssembleMemory
<1>2. request \in Requests /\ results \in Seq(Items)
  BY DEF AssembleMemory, ContextInv
<1> HIDE DEF results
<1>3. \A x \in Requests \cup {Memory[m] : m \in Items} :
        x.people \in Seq(PeopleNamed) /\ x.topics \in Seq(TopicsNamed)
  <2> SUFFICES ASSUME NEW x \in Requests \cup {Memory[m] : m \in Items}
               PROVE  x.people \in Seq(PeopleNamed) /\ x.topics \in Seq(TopicsNamed)
    OBVIOUS
  <2>1. x.people \in Seq(ToSet(x.people)) /\ x.topics \in Seq(ToSet(x.topics))
    BY ContextAssumption DEF IsList
  <2>2. ToSet(x.people) \subseteq PeopleNamed /\ ToSet(x.topics) \subseteq TopicsNamed
    BY DEF PeopleNamed, TopicsNamed
  <2> QED
    BY <2>1, <2>2, SeqMonotonic
<1>4. /\ request.people \in Seq(PeopleNamed) /\ request.topics \in Seq(TopicsNamed)
      /\ \A m \in Items : Memory[m]["people"] \in Seq(PeopleNamed)
      /\ \A m \in Items : Memory[m]["topics"] \in Seq(TopicsNamed)
  BY <1>2, <1>3
<1>5. people \in Seq(PeopleNamed) /\ topics \in Seq(TopicsNamed)
  BY <1>2, <1>4, NamesMentionedIs
<1>6. /\ \A n \in PeopleNamed \cup TopicsNamed, m \in Items : Line(n, m) \in AnyLine
      /\ \A p \in PeopleNamed : \A t \in ToSet(Estimates[p]) : Line(p, t) \in AnyLine
      /\ \A b \in Believed : Line(b, "belief") \in AnyLine
  <2> DEFINE called == PeopleNamed \cup TopicsNamed \cup Believed
             sources == Items \cup {"belief"} \cup UNION {ToSet(Estimates[p]) : p \in PeopleNamed}
  <2>1. \A n \in called, o \in sources : Line(n, o) \in AnyLine
    <3>1. LineSize \in Nat
      BY ContextAssumption
    <3> HIDE DEF called, sources
    <3> QED
      BY <3>1 DEF Line, AnyLine, called, sources
  <2>2. /\ \A m \in Items : m \in sources
        /\ \A p \in PeopleNamed : \A t \in ToSet(Estimates[p]) : t \in sources
        /\ "belief" \in sources
    OBVIOUS
  <2> HIDE DEF sources
  <2> QED
    BY <2>1, <2>2
<1>7. /\ \A t \in TopicsNamed : BeliefsAbout[t] \in Seq(Believed)
      /\ AllBeliefs \in Seq(Believed)
  <2>1. \A t \in TopicsNamed : /\ BeliefsAbout[t] \in Seq(ToSet(BeliefsAbout[t]))
                               /\ ToSet(BeliefsAbout[t]) \subseteq Believed
    BY ContextAssumption DEF IsList, Believed
  <2>2. AllBeliefs \in Seq(ToSet(AllBeliefs)) /\ ToSet(AllBeliefs) \subseteq Believed
    BY ContextAssumption DEF IsList, Believed
  <2> QED
    BY <2>1, <2>2, SeqMonotonic
<1> HIDE DEF people, topics
<1>8. known \in Seq(AnyLine)
  <2>1. ModelLines(people, topics) \in Seq(AnyLine)
    BY <1>5, <1>6, ModelLinesIs, ContextAssumption
  <2>2. <<>> \in Seq(AnyLine)
    OBVIOUS
  <2> QED
    BY <2>1, <2>2
<1>9. believed \in Seq(AnyLine)
  <2>1. BeliefLines(topics) \in Seq(AnyLine)
    BY <1>5, <1>6, <1>7, BeliefLinesIs
  <2>2. <<>> \in Seq(AnyLine)
    OBVIOUS
  <2> QED
    BY <2>1, <2>2
<1> HIDE DEF known, believed
<1>10. PeopleContext(known, results) \in Seq(AnyLine)
  BY <1>2, <1>4, <1>6, <1>8, NameLinesIs DEF PeopleContext
<1>11. TopicContext(results) \in Seq(AnyLine)
  <2>1. <<>> \in Seq(AnyLine)
    OBVIOUS
  <2> QED
    BY <1>2, <1>4, <1>6, <2>1, NameLinesIs DEF TopicContext
<1>12. /\ section.memories \in Seq(Items) /\ section.omitted \in Nat
       /\ Len(section.memories) + section.omitted = Cardinality({Memory[x].words : x \in ToSet(results)})
  BY <1>2, SectionIs
<1> HIDE DEF section
<1> QED
  BY <1>1, <1>9, <1>10, <1>11, <1>12 DEF Assembled, IsMemoryPart, results

LEMMA ContextStarts == ContextInit => ContextInv
<1> SUFFICES ASSUME ContextInit PROVE ContextInv
  OBVIOUS
<1>1. search.results = <<>> /\ <<>> \in Seq(Items)
  BY DEF ContextInit, SearchInit, Idle
<1> QED
  BY <1>1 DEF ContextInit, ContextInv, NoMemory, NoKnowledge

LEMMA KnowledgeAnsweredIs ==
  ASSUME NEW evidence \in KnowledgeAnswers, KnowledgeAnswered(evidence)
  PROVE  IsKnowledge(knowledge')
<1>1. CASE WellFormed(evidence)
  <2>1. knowledge'.evidence = evidence
    BY <1>1 DEF KnowledgeAnswered
  <2>2. evidence \in Seq(ToSet(evidence))
    BY ContextAssumption DEF IsList
  <2>3. ToSet(evidence) \subseteq AnyEvidence
    BY DEF AnyEvidence, Given
  <2>4. \A e \in ToSet(evidence) : e.text > 0
    BY <1>1 DEF WellFormed, ToSet
  <2> QED
    BY <2>1, <2>2, <2>3, <2>4, SeqMonotonic DEF IsKnowledge
<1>2. CASE ~WellFormed(evidence)
  <2>1. knowledge'.evidence = <<>>
    BY <1>2 DEF KnowledgeAnswered, NoKnowledge
  <2>2. <<>> \in Seq(AnyEvidence) /\ ToSet(<<>>) = {}
    BY DEF ToSet
  <2> QED
    BY <2>1, <2>2 DEF IsKnowledge
<1> QED
  BY <1>1, <1>2

LEMMA NoEvidence == ASSUME NEW k, k.evidence = <<>> PROVE IsKnowledge(k)
<1>1. <<>> \in Seq(AnyEvidence) /\ ToSet(<<>>) = {}
  BY DEF ToSet
<1> QED
  BY <1>1 DEF IsKnowledge

LEMMA ContextStep ==
  ASSUME WantedInv, ContextInv, [ContextNext]_contextVars
  PROVE  ContextInv'
<1>1. CASE UNCHANGED <<search, request, memoryPart, knowledge, packet>>
  BY <1>1 DEF ContextInv, Assembled, IsMemoryPart, IsKnowledge, Merged, Mode
<1>2. ASSUME NEW q, SearchEndpoint(q) PROVE ContextInv'
  <2>1. UNCHANGED <<request, memoryPart, knowledge, packet>> /\ request = NoQuestion
    BY <1>2 DEF SearchEndpoint
  <2>2. search'.results = <<>> /\ <<>> \in Seq(Items)
    BY <1>2 DEF SearchEndpoint, StartSearch, Idle
  <2> QED
    BY <2>1, <2>2 DEF ContextInv
<1>3. ASSUME NEW r \in Requests, Start(r) PROVE ContextInv'
  <2>1. /\ request = NoQuestion /\ request' = r /\ UNCHANGED packet /\ search.pc = "idle"
        /\ packet' = <<>> /\ r # NoQuestion
    BY <1>3, ContextAssumption DEF Start, ContextInv
  <2>2. CASE r.memoryOff \/ Query(r) = {}
    <3>1. UNCHANGED search /\ memoryPart' = NothingFound
      BY <1>3, <2>2 DEF Start, searchVars, NothingFound
    <3>2. knowledge'.pc = "done" => knowledge'.evidence = <<>>
      BY <1>3 DEF Start, NoKnowledge
    <3>3. memoryPart'.pc = "done"
      BY <3>1 DEF NothingFound, NoMemory
    <3> QED
      BY <2>1, <3>1, <3>2, <3>3, NoEvidence DEF ContextInv
  <2>3. CASE ~(r.memoryOff \/ Query(r) = {})
    <3>1. memoryPart'.pc = "search" /\ search'.results = <<>>
      BY <1>3, <2>3 DEF Start, NoMemory, StartSearch, Idle
    <3>2. knowledge'.pc = "done" => knowledge'.evidence = <<>>
      BY <1>3 DEF Start, NoKnowledge
    <3>3. <<>> \in Seq(Items)
      OBVIOUS
    <3> QED
      BY <2>1, <2>3, <3>1, <3>2, <3>3, NoEvidence DEF ContextInv
  <2> QED
    BY <2>2, <2>3
<1>4. CASE SearchStep /\ UNCHANGED <<request, memoryPart, knowledge, packet>>
  <2>1. search.pc \notin {"idle", "found", "failed"}
    BY <1>4 DEF SearchStep, EnsureUser, Embed, SearchDense, SearchSparse, SearchHybrid,
                LoadAndRank, SearchFails
  <2>2. search'.results \in Seq(Items)
    <3>1. CASE LoadAndRank
      <4> DEFINE q == search.question
      <4>1. PICK r \in Rankings(q, search.hits) :
              search' = [search EXCEPT !.pc = "found", !.results = r]
        BY <3>1 DEF LoadAndRank
      <4>2. search'.results = r
        BY <4>1 DEF WantedInv, Idle
      <4>3. Valid(q) /\ search.hits \subseteq {m \in Items : Satisfies(q, m)}
        BY <3>1 DEF LoadAndRank, WantedInv
      <4>4. ResultLimit(q) \in Nat
        BY <4>3, SearchAssumption DEF Valid, ResultLimit
      <4>5. search.hits \in SUBSET Items /\ \A m \in search.hits : Satisfies(q, m)
        BY <4>3
      <4> HIDE DEF q
      <4> QED
        BY <4>1, <4>2, <4>4, <4>5, RankedIsBest
    <3>2. CASE ~LoadAndRank
      <4>1. search'.results = search.results
        BY <1>4, <3>2 DEF SearchStep, EnsureUser, Embed, SearchDense, SearchSparse, SearchHybrid,
                          SearchFails, WantedInv, Idle
      <4> QED
        BY <4>1 DEF ContextInv
    <3> QED
      BY <3>1, <3>2
  <2>3. memoryPart.pc # "done" /\ packet = <<>>
    BY <2>1 DEF ContextInv
  <2> QED
    BY <1>4, <2>1, <2>2, <2>3 DEF ContextInv, IsKnowledge
<1>5. CASE MemoryFails
  <2>1. UNCHANGED <<search, request, knowledge, packet>> /\ memoryPart' = NothingFound
    BY <1>5 DEF MemoryFails, searchVars, NothingFound
  <2>2. memoryPart.pc = "search" /\ search.pc = "failed" /\ memoryPart'.pc = "done"
    BY <1>5, <2>1 DEF MemoryFails, NothingFound, NoMemory
  <2> QED
    BY <2>1, <2>2 DEF ContextInv, IsKnowledge
<1>6. ASSUME NEW modelsRead, NEW beliefsRead, AssembleMemory(modelsRead, beliefsRead)
      PROVE  ContextInv'
  <2>1. UNCHANGED <<search, request, knowledge, packet>>
    BY <1>6 DEF AssembleMemory, searchVars
  <2>2. memoryPart.pc = "search" /\ search.pc = "found"
    BY <1>6 DEF AssembleMemory
  <2>3. memoryPart'.pc = "done" /\ Assembled(memoryPart', search.results)
    BY <1>6, AssembledIs
  <2>4. Assembled(memoryPart, search.results)' = Assembled(memoryPart', search.results)
    BY <2>1 DEF Assembled, IsMemoryPart
  <2> QED
    BY <2>1, <2>2, <2>3, <2>4 DEF ContextInv, IsKnowledge
<1>7. ASSUME knowledge.pc = "asked", IsKnowledge(knowledge'),
             UNCHANGED <<search, request, memoryPart, packet>>
      PROVE  ContextInv'
  <2>1. packet = <<>> /\ request # NoQuestion
    BY <1>7 DEF ContextInv
  <2>2. IsKnowledge(knowledge)' = IsKnowledge(knowledge')
    BY DEF IsKnowledge
  <2> QED
    BY <1>7, <2>1, <2>2 DEF ContextInv, Assembled, IsMemoryPart
<1>8. ASSUME NEW evidence \in KnowledgeAnswers, KnowledgeAnswered(evidence) PROVE ContextInv'
  BY <1>7, <1>8, KnowledgeAnsweredIs DEF KnowledgeAnswered, searchVars
<1>9. CASE KnowledgeFails
  <2>1. knowledge'.evidence = <<>>
    BY <1>9 DEF KnowledgeFails, NoKnowledge
  <2> QED
    BY <1>7, <1>9, <2>1, NoEvidence DEF KnowledgeFails, searchVars
<1>10. CASE Join
  <2>1. /\ UNCHANGED <<search, request, memoryPart, knowledge>>
        /\ memoryPart.pc = "done" /\ knowledge.pc = "done"
        /\ packet' = ApplyContextBudgets(Merged(memoryPart, knowledge))
    BY <1>10 DEF Join, searchVars
  <2>2. request # NoQuestion
    BY <2>1 DEF ContextInv
  <2>3. ApplyContextBudgets(Merged(memoryPart, knowledge))'
          = ApplyContextBudgets(Merged(memoryPart, knowledge))
    BY <2>1 DEF Merged, Mode
  <2> QED
    BY <2>1, <2>2, <2>3 DEF ContextInv, Assembled, IsMemoryPart, IsKnowledge
<1> QED
  BY <1>1, <1>2, <1>3, <1>4, <1>5, <1>6, <1>8, <1>9, <1>10
     DEF ContextNext, contextVars, searchVars, LoseRow, LosePoint


-----------------------------------------------------------------------------
(* What was merged, and what is told of it                                 *)

LEMMA MergedIs ==
  ASSUME NEW m, NEW k, IsMemoryPart(m), IsKnowledge(k)
  PROVE  /\ DOMAIN Merged(m, k) = Parts /\ Merged(m, k) = [f \in Parts |-> Merged(m, k)[f]]
         /\ IsMemoryPart(Merged(m, k)) /\ IsKnowledge(Merged(m, k))
         /\ Merged(m, k).omittedEvidence = 0 /\ Merged(m, k).mode = Mode(request)
         /\ Merged(m, k).status = k.status /\ Merged(m, k).evidence = k.evidence
         /\ Merged(m, k).memories = m.memories /\ Merged(m, k).omitted = m.omitted
         /\ Merged(m, k).people = m.people /\ Merged(m, k).topics = m.topics
         /\ Merged(m, k).beliefs = m.beliefs
BY DEF Merged, Parts, IsMemoryPart, IsKnowledge

LEMMA NothingFoundIs == IsMemoryPart(NothingFound)
<1>1. <<>> \in Seq(Items) /\ <<>> \in Seq(AnyLine)
  OBVIOUS
<1> QED
  BY <1>1 DEF NothingFound, NoMemory, IsMemoryPart

LEMMA NoLinesStay ==
  ASSUME NEW budget \in Nat, HeadingSize <= budget
  PROVE  TrimLines(<<>>, budget) = <<>>
<1>1. LinesSize(<<>>) = HeadingSize
  <2>1. [i \in DOMAIN <<>> |-> <<>>[i].size] = <<>>
    OBVIOUS
  <2> QED
    BY <2>1, SumOfNone, ContextAssumption DEF LinesSize
<1>2. <<>> \in Seq(AnyLine)
  OBVIOUS
<1> QED
  BY <1>1, <1>2, AnyLineHasSize, TrimLinesIs

(* A packet is what the budgets make of what the branches found.           *)
LEMMA PacketIs ==
  ASSUME ContextInv, packet # <<>>
  PROVE  /\ IsMemoryPart(memoryPart) /\ IsKnowledge(knowledge)
         /\ DOMAIN packet = Parts /\ packet = [f \in Parts |-> packet[f]]
         /\ Fit(packet) /\ IsMemoryPart(packet) /\ packet.evidence \in Seq(AnyEvidence)
         /\ packet.omittedEvidence \in Nat
         /\ Len(packet.evidence) + packet.omittedEvidence = Len(knowledge.evidence)
         /\ Len(packet.memories) + packet.omitted = Len(memoryPart.memories) + memoryPart.omitted
         /\ IsPrefix(packet.memories, memoryPart.memories)
         /\ \A e \in ToSet(packet.evidence) :
              \E given \in ToSet(knowledge.evidence) : PartOf(e, given)
         /\ packet.mode = Mode(request) /\ packet.status = knowledge.status
         /\ packet.people = TrimLines(memoryPart.people, Budget.people)
         /\ packet.topics = TrimLines(memoryPart.topics, Budget.topics)
         /\ packet.beliefs = TrimLines(memoryPart.beliefs, Budget.beliefs)
<1> DEFINE p == Merged(memoryPart, knowledge)
<1>1. packet = ApplyContextBudgets(p)
  BY DEF ContextInv
<1>2. IsMemoryPart(memoryPart) /\ IsKnowledge(knowledge)
  BY NothingFoundIs DEF ContextInv, Assembled
<1>3. /\ DOMAIN p = Parts /\ p = [f \in Parts |-> p[f]]
      /\ IsMemoryPart(p) /\ IsKnowledge(p) /\ p.omittedEvidence = 0 /\ p.mode = Mode(request)
      /\ p.status = knowledge.status /\ p.evidence = knowledge.evidence
      /\ p.memories = memoryPart.memories /\ p.omitted = memoryPart.omitted
      /\ p.people = memoryPart.people /\ p.topics = memoryPart.topics
      /\ p.beliefs = memoryPart.beliefs
  BY <1>2, MergedIs
<1> HIDE DEF p
<1>4. Len(p.evidence) + p.omittedEvidence = Len(knowledge.evidence)
  <2>1. Len(knowledge.evidence) \in Nat
    BY <1>2 DEF IsKnowledge
  <2> QED
    BY <1>3, <2>1
<1>5. p.omittedEvidence \in Nat
  BY <1>3
<1>6. /\ Fit(packet) /\ IsMemoryPart(packet) /\ packet.evidence \in Seq(AnyEvidence)
      /\ packet.omittedEvidence \in Nat
      /\ Len(packet.evidence) + packet.omittedEvidence = Len(p.evidence) + p.omittedEvidence
      /\ Len(packet.memories) + packet.omitted = Len(p.memories) + p.omitted
      /\ IsPrefix(packet.memories, p.memories)
      /\ \A e \in ToSet(packet.evidence) : \E given \in ToSet(p.evidence) : PartOf(e, given)
  BY <1>1, <1>3, <1>5, BudgetsFit
<1>7. /\ DOMAIN packet = Parts /\ packet = [f \in Parts |-> packet[f]]
      /\ packet.mode = p.mode /\ packet.status = p.status
      /\ packet.people = TrimLines(p.people, Budget.people)
      /\ packet.topics = TrimLines(p.topics, Budget.topics)
      /\ packet.beliefs = TrimLines(p.beliefs, Budget.beliefs)
  BY <1>1, <1>3, BudgetedFields
<1> QED
  BY <1>2, <1>3, <1>4, <1>6, <1>7

LEMMA ContextInvAlways == ContextSpec => [](WantedInv /\ ContextInv)
<1>1. ContextInit => WantedInv /\ ContextInv
  BY WantedStarts, ContextStarts DEF ContextInit
<1>2. WantedInv /\ ContextInv /\ [ContextNext]_contextVars => WantedInv' /\ ContextInv'
  <2> SUFFICES ASSUME WantedInv, ContextInv, [ContextNext]_contextVars
               PROVE  WantedInv' /\ ContextInv'
    OBVIOUS
  <2>1. \/ \E q : StartSearch(q)
        \/ SearchStep \/ UNCHANGED searchVars
        \/ \E m \in Items : LoseRow(m) \/ LosePoint(m)
    BY DEF ContextNext, contextVars, SearchEndpoint, Start, MemoryFails, AssembleMemory,
           KnowledgeAnswered, KnowledgeFails, Join
  <2> QED
    BY <2>1, SearchStarts, WantedStep, ContextStep
<1> QED
  BY <1>1, <1>2, PTL DEF ContextSpec

(* ContextAssembly.BranchesAreIndependent: whatever became of the search,  *)
(* the evidence the knowledge service gave is told or counted, and         *)
(* whatever the service said, so are the memories found (the two branches  *)
(* of the request context service and their join).                         *)
THEOREM BranchesAreIndependentAlways == ContextSpec => []BranchesAreIndependent
<1>1. WantedInv /\ ContextInv => BranchesAreIndependent
  <2> SUFFICES ASSUME ContextInv, packet # <<>> PROVE BranchesAreIndependent
    BY DEF BranchesAreIndependent
  <2>1. /\ packet.status = knowledge.status /\ packet.mode = Mode(request)
        /\ Len(packet.evidence) + packet.omittedEvidence = Len(knowledge.evidence)
        /\ Len(packet.memories) + packet.omitted = Len(memoryPart.memories) + memoryPart.omitted
    BY PacketIs
  <2>2. request # NoQuestion /\ memoryPart.pc = "done"
    BY DEF ContextInv
  <2>3. request.memoryOff => search.pc = "idle" /\ packet.mode = "answer"
    BY <2>1, <2>2 DEF ContextInv, Mode
  <2>4. CASE search.pc = "found"
    <3>1. Assembled(memoryPart, search.results)
      BY <2>2, <2>4 DEF ContextInv
    <3>2. Len(packet.memories) + packet.omitted
            = Cardinality({Memory[m].words : m \in ToSet(search.results)})
      BY <2>1, <3>1 DEF Assembled
    <3> QED
      BY <2>1, <2>3, <2>4, <3>2 DEF BranchesAreIndependent
  <2>5. CASE search.pc # "found"
    <3>1. memoryPart = NothingFound
      BY <2>2, <2>5 DEF ContextInv
    <3>2. /\ Len(memoryPart.memories) + memoryPart.omitted = 0
          /\ memoryPart.people = <<>> /\ memoryPart.topics = <<>> /\ memoryPart.beliefs = <<>>
      BY <3>1 DEF NothingFound, NoMemory
    <3>3. /\ packet.people = TrimLines(<<>>, Budget.people)
          /\ packet.topics = TrimLines(<<>>, Budget.topics)
          /\ packet.beliefs = TrimLines(<<>>, Budget.beliefs)
      BY <3>2, PacketIs
    <3>4. /\ Budget.people \in Nat /\ HeadingSize <= Budget.people
          /\ Budget.topics \in Nat /\ HeadingSize <= Budget.topics
          /\ Budget.beliefs \in Nat /\ HeadingSize <= Budget.beliefs
      BY ContextAssumption
    <3>5. packet.people = <<>> /\ packet.topics = <<>> /\ packet.beliefs = <<>>
      BY <3>3, <3>4, NoLinesStay
    <3>6. packet.people \o packet.topics \o packet.beliefs = <<>>
      BY <3>5
    <3> QED
      BY <2>1, <2>3, <2>5, <3>2, <3>6 DEF BranchesAreIndependent
  <2> QED
    BY <2>4, <2>5
<1> QED
  BY <1>1, ContextInvAlways, PTL

(* ContextAssembly.BudgetsHold: every section of a packet fits what is     *)
(* reserved for it, evidence is cut only at its end, and to apply the      *)
(* budgets again, as the debug endpoint does, changes nothing              *)
(* (ApplyContextBudgets).                                                  *)
THEOREM BudgetsHoldAlways == ContextSpec => []BudgetsHold
<1>1. WantedInv /\ ContextInv => BudgetsHold
  <2> SUFFICES ASSUME ContextInv, packet # <<>> PROVE BudgetsHold
    BY DEF BudgetsHold
  <2>1. /\ DOMAIN packet = Parts /\ packet = [f \in Parts |-> packet[f]]
        /\ Fit(packet) /\ IsMemoryPart(packet) /\ packet.evidence \in Seq(AnyEvidence)
        /\ packet.omittedEvidence \in Nat
        /\ IsPrefix(packet.memories, memoryPart.memories)
        /\ \A e \in ToSet(packet.evidence) :
             \E given \in ToSet(knowledge.evidence) : PartOf(e, given)
    BY PacketIs
  <2>2. ApplyContextBudgets(packet) = packet
    BY <2>1, FitsTwice
  <2>3. DebugPacket(FALSE) = packet
    BY <2>2 DEF DebugPacket
  <2>4. DebugPacket(TRUE).evidence = packet.evidence
    <3> DEFINE p == [packet EXCEPT !.memories = <<>>, !.omitted = 0, !.people = <<>>,
                                   !.topics = <<>>, !.beliefs = <<>>, !.omittedEvidence = 0]
    <3>1. /\ DOMAIN p = Parts /\ p = [f \in Parts |-> p[f]]
          /\ p.evidence = packet.evidence /\ p.omittedEvidence = 0
      BY <2>1 DEF Parts
    <3>2. DebugPacket(TRUE) = ApplyContextBudgets(p)
      BY DEF DebugPacket
    <3> HIDE DEF p
    <3>3. ApplyContextBudgets(p).evidence = TrimEvidence(packet.evidence, 0).kept
      BY <3>1, BudgetedFields
    <3>4. TrimmedTo(AnyEvidence, packet.evidence, 0, TrimEvidence(packet.evidence, 0))
      BY <2>1, AnyEvidenceIs, TrimEvidenceIs
    <3>5. FitsAll(packet.evidence)
      BY <2>1 DEF Fit
    <3> QED
      BY <3>2, <3>3, <3>4, <3>5 DEF TrimmedTo
  <2> QED
    BY <2>1, <2>3, <2>4 DEF BudgetsHold, Fit, PartOf
<1> QED
  BY <1>1, ContextInvAlways, PTL
=============================================================================
