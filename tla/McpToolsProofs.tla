--------------------------- MODULE McpToolsProofs ---------------------------
(***************************************************************************)
(* What is proved about module McpTools, for any calls, scopes and         *)
(* capacity: the store keeps the names that it promised to keep, what the  *)
(* service settled is what the client is told, a call continues the        *)
(* conversation that it names, and a plan hears every answer that it asked *)
(* for.                                                                    *)
(***************************************************************************)
EXTENDS McpTools, FiniteSetTheorems, NaturalsInduction, TLAPS

(***************************************************************************)
(* Sequences                                                               *)
(***************************************************************************)

Increasing(q) == \A j, k \in DOMAIN q : j < k => q[j] < q[k]

\* A list that grows.
LEMMA SeqFacts ==
  ASSUME NEW S, NEW q \in Seq(S)
  PROVE  /\ Len(q) \in Nat /\ DOMAIN q = 1..Len(q)
         /\ \A k \in 1..Len(q) : q[k] \in S
OBVIOUS

\* A sequence over its own elements.
LEMMA AppendOwn ==
  ASSUME NEW q, q \in Seq(Range(q)), NEW x
  PROVE  /\ Len(q) \in Nat /\ DOMAIN q = 1..Len(q)
         /\ Append(q, x) \in Seq(Range(Append(q, x)))
         /\ Len(Append(q, x)) = Len(q) + 1
         /\ DOMAIN Append(q, x) = 1..(Len(q) + 1)
         /\ \A k \in 1..Len(q) : Append(q, x)[k] = q[k]
         /\ Append(q, x)[Len(q) + 1] = x
<1> DEFINE S == Range(q) \cup {x}
<1>1. Len(q) \in Nat /\ DOMAIN q = 1..Len(q)
  OBVIOUS
<1>2. q \in Seq(S) /\ x \in S
  <2>1. \A k \in 1..Len(q) : q[k] \in S
    BY <1>1 DEF Range
  <2>2. QED
    BY <1>1, <2>1
<1>3. /\ Append(q, x) \in Seq(S)
      /\ Len(Append(q, x)) = Len(q) + 1
      /\ DOMAIN Append(q, x) = 1..(Len(q) + 1)
      /\ \A k \in 1..Len(q) : Append(q, x)[k] = q[k]
      /\ Append(q, x)[Len(q) + 1] = x
  BY <1>1, <1>2
<1>4. Append(q, x) \in Seq(Range(Append(q, x)))
  <2> DEFINE r == Append(q, x)
  <2> HIDE DEF r
  <2>1. r \in Seq(S)
    BY <1>3 DEF r
  <2>2. Len(r) \in Nat /\ DOMAIN r = 1..Len(r) /\ r = [k \in 1..Len(r) |-> r[k]]
    BY <2>1
  <2>3. \A k \in 1..Len(r) : r[k] \in Range(r)
    BY <2>2 DEF Range
  <2>4. r \in [1..Len(r) -> Range(r)]
    BY <2>2, <2>3
  <2>5. r \in Seq(Range(r))
    BY <2>2, <2>4
  <2>6. QED
    BY <2>5 DEF r
<1>5. QED
  BY <1>1, <1>3, <1>4

\* Distinct numbers between a and b.
LEMMA IncreasingCount ==
  ASSUME NEW a \in Nat, NEW b \in Nat, a <= b, NEW n \in Nat,
         NEW f \in [1..n -> (a + 1)..b], Increasing(f)
  PROVE  n <= b - a
<1>1. IsFiniteSet((a + 1)..b) /\ Cardinality((a + 1)..b) = b - a
  <2>1. a + 1 \in Int /\ b \in Int
    OBVIOUS
  <2>2. /\ IsFiniteSet((a + 1)..b)
        /\ Cardinality((a + 1)..b) =
             IF a + 1 > b THEN 0 ELSE b - (a + 1) + 1
    BY <2>1, FS_Interval
  <2>3. (IF a + 1 > b THEN 0 ELSE b - (a + 1) + 1) = b - a
    OBVIOUS
  <2>4. QED
    BY <2>2, <2>3
<1>2. IsFiniteSet(1..n) /\ Cardinality(1..n) = n
  BY FS_Interval
<1>3. f \in Injection(1..n, (a + 1)..b)
  <2>1. \A j, k \in 1..n : f[j] = f[k] => j = k
    BY DEF Increasing
  <2>2. QED
    BY <2>1 DEF Injection, IsInjective
<1>4. QED
  BY <1>1, <1>2, <1>3, FS_Injection

\* What `retain` leaves of a queue.
LEMMA RetentionFacts ==
  ASSUME NEW q \in Seq(Nat), Increasing(q), NEW kept,
         NEW rest \in Retentions(q, kept)
  PROVE  /\ rest \in Seq(Nat) /\ Increasing(rest)
         /\ Range(rest) = Range(q) \cap kept
         /\ Len(rest) <= Len(q)
<1> DEFINE places == {k \in DOMAIN q : q[k] \in kept}
           n == Cardinality(places)
<1>1. Len(q) \in Nat /\ DOMAIN q = 1..Len(q) /\ \A k \in 1..Len(q) : q[k] \in Nat
  OBVIOUS
<1>2. IsFiniteSet(places) /\ n \in Nat /\ n <= Len(q)
  <2>1. IsFiniteSet(1..Len(q)) /\ Cardinality(1..Len(q)) = Len(q)
    <3>1. /\ IsFiniteSet(1..Len(q))
          /\ Cardinality(1..Len(q)) = IF 1 > Len(q) THEN 0 ELSE Len(q) - 1 + 1
      <4> DEFINE m == Len(q)
      <4>1. 1 \in Int /\ m \in Int
        BY <1>1
      <4> HIDE DEF m
      <4>2. /\ IsFiniteSet(1..m)
            /\ Cardinality(1..m) = IF 1 > m THEN 0 ELSE m - 1 + 1
        BY <4>1, FS_Interval
      <4>3. QED
        BY <4>2 DEF m
    <3>2. QED
      BY <1>1, <3>1
  <2>2. places \in SUBSET (1..Len(q))
    BY <1>1
  <2>3. QED
    BY <2>1, <2>2, FS_Subset, FS_CardinalityType
<1>3. PICK at \in [1..n -> places] :
        /\ \A j, k \in DOMAIN at : j < k => at[j] < at[k]
        /\ rest = [k \in DOMAIN at |-> q[at[k]]]
  BY Zenon DEF Retentions
<1> HIDE DEF n
<1>4. \A k \in 1..n : at[k] \in 1..Len(q) /\ q[at[k]] \in kept
  BY <1>1, <1>3
<1>5. rest = [k \in 1..n |-> q[at[k]]]
  BY <1>3
<1>6. rest \in [1..n -> Nat]
  BY <1>1, <1>4, <1>5
<1>7. rest \in Seq(Nat) /\ Len(rest) = n /\ DOMAIN rest = 1..n
  BY <1>2, <1>6
<1>8. Increasing(rest)
  BY <1>1, <1>3, <1>4, <1>5, <1>7 DEF Increasing
<1>9. \A k \in places : \E j \in 1..n : at[j] = k
  <2>1. at \in Injection(1..n, places)
    <3>1. \A j, k \in 1..n : at[j] = at[k] => j = k
      BY <1>1, <1>2, <1>3, <1>4
    <3>2. QED
      BY <1>3, <3>1 DEF Injection, IsInjective
  <2>2. IsFiniteSet(1..n) /\ Cardinality(1..n) = Cardinality(places)
    BY <1>2, FS_Interval DEF n
  <2>3. at \in Surjection(1..n, places)
    BY <1>2, <2>1, <2>2, FS_Injection
  <2>4. QED
    BY <2>3 DEF Surjection
<1>10. Range(rest) = Range(q) \cap kept
  <2>1. Range(rest) = {q[at[k]] : k \in 1..n}
    BY <1>5, <1>7 DEF Range
  <2>2. Range(q) \cap kept = {q[k] : k \in places}
    BY DEF Range
  <2>3. QED
    BY <1>3, <1>9, <2>1, <2>2
<1>11. QED
  BY <1>2, <1>7, <1>8, <1>10

\* What the eviction loop leaves of a queue and a younger id.
LEMMA RetainedFacts ==
  ASSUME NEW q \in Seq(Nat), Increasing(q), Len(q) <= Capacity,
         NEW id \in Nat, \A k \in DOMAIN q : q[k] < id
  PROVE  LET kept == Retained(Append(q, id))
         IN /\ kept \in Seq(Nat) /\ Increasing(kept)
            /\ Len(kept) <= Capacity
            /\ id \in Range(kept) /\ Range(kept) \subseteq Range(q) \cup {id}
            /\ \A i \in Range(q) : i \in Range(kept) \/ id - i >= Capacity
<1> DEFINE ids == Append(q, id)
           kept == Retained(ids)
<1>1. /\ Len(q) \in Nat /\ DOMAIN q = 1..Len(q)
      /\ \A k \in 1..Len(q) : q[k] \in Nat /\ q[k] < id
      /\ Capacity \in Nat /\ Capacity >= 1
  BY CapacityAssumption
<1>2. /\ ids \in Seq(Nat) /\ Len(ids) = Len(q) + 1
      /\ DOMAIN ids = 1..(Len(q) + 1)
      /\ \A k \in 1..Len(q) : ids[k] = q[k]
      /\ ids[Len(q) + 1] = id
  BY <1>1
<1> HIDE DEF ids
<1>3. Increasing(ids)
  <2>1. SUFFICES ASSUME NEW j \in 1..(Len(q) + 1), NEW k \in 1..(Len(q) + 1), j < k
                 PROVE  ids[j] < ids[k]
    BY <1>2 DEF Increasing
  <2>2. j \in 1..Len(q)
    BY <1>1, <2>1
  <2>3. CASE k = Len(q) + 1
    BY <1>1, <1>2, <2>2, <2>3
  <2>4. CASE k \in 1..Len(q)
    BY <1>1, <1>2, <2>1, <2>2, <2>4 DEF Increasing
  <2>5. QED
    BY <1>1, <2>1, <2>3, <2>4
<1>4. Range(ids) = Range(q) \cup {id}
  <2>1. 1..(Len(q) + 1) = 1..Len(q) \cup {Len(q) + 1}
    BY <1>1
  <2>2. QED
    BY <1>1, <1>2, <2>1 DEF Range
<1>5. CASE Len(ids) <= Capacity
  <2>1. kept = ids
    BY <1>1, <1>2, <1>5 DEF Retained
  <2>2. QED
    BY <1>2, <1>3, <1>4, <1>5, <2>1 DEF ids
<1>6. CASE Len(ids) > Capacity
  <2>1. Len(q) = Capacity /\ Len(ids) - Capacity = 1
    <3>1. Len(ids) = Len(q) + 1
      BY <1>2
    <3>2. Len(q) \in Nat /\ Capacity \in Nat
      BY <1>1
    <3>3. QED
      BY <1>6, <3>1, <3>2
  <2>2. kept = SubSeq(ids, 2, Len(ids))
    BY <2>1 DEF Retained
  <2>3. /\ kept \in Seq(Nat) /\ Len(kept) = Len(q)
        /\ DOMAIN kept = 1..Len(q)
        /\ \A k \in 1..Len(q) : kept[k] = ids[k + 1]
    BY <1>1, <1>2, <2>2, SMTT(30)
  <2> HIDE DEF kept
  <2>4. \A k \in 1..Len(q) : k + 1 \in 1..(Len(q) + 1)
    BY <1>1
  <2>5. Increasing(kept)
    <3>1. SUFFICES ASSUME NEW j \in 1..Len(q), NEW k \in 1..Len(q), j < k
                   PROVE  kept[j] < kept[k]
      BY <2>3 DEF Increasing
    <3>2. j + 1 < k + 1
      BY <3>1
    <3>3. j + 1 \in DOMAIN ids /\ k + 1 \in DOMAIN ids
      BY <1>2, <2>4
    <3>4. ids[j + 1] < ids[k + 1]
      BY <1>3, <3>2, <3>3 DEF Increasing
    <3>5. QED
      BY <2>3, <3>4
  <2>6. Range(kept) = {ids[k + 1] : k \in 1..Len(q)}
    BY <2>3 DEF Range
  <2>7. Range(kept) \subseteq Range(ids)
    BY <1>2, <2>4, <2>6 DEF Range
  <2>8. id \in Range(kept)
    <3>1. Len(q) \in 1..Len(q)
      BY <1>1, <2>1
    <3>2. QED
      BY <1>2, <2>6, <3>1
  <2>9. \A i \in Range(ids) : i = ids[1] \/ i \in Range(kept)
    <3>1. \A k \in 1..(Len(q) + 1) : k = 1 \/ (k - 1 \in 1..Len(q) /\ (k - 1) + 1 = k)
      BY <1>1
    <3>2. TAKE i \in Range(ids)
    <3>3. PICK k \in 1..(Len(q) + 1) : i = ids[k]
      BY <1>2 DEF Range
    <3>4. CASE k = 1
      BY <3>3, <3>4
    <3>5. CASE k # 1
      <4>1. k - 1 \in 1..Len(q) /\ (k - 1) + 1 = k
        BY <3>1, <3>5
      <4>2. ids[(k - 1) + 1] \in Range(kept)
        BY <2>6, <4>1
      <4>3. QED
        BY <3>3, <4>1, <4>2
    <3>6. QED
      BY <3>4, <3>5
  <2>10. id - ids[1] >= Capacity
    <3>1. ids[1] = q[1] /\ q[1] \in Nat /\ q[1] < id
      BY <1>1, <1>2, <2>1
    <3>2. \A k \in 1..Len(q) : kept[k] \in (q[1] + 1)..id
      <4>1. TAKE k \in 1..Len(q)
      <4>2. kept[k] = ids[k + 1] /\ k + 1 \in 1..(Len(q) + 1) /\ 1 < k + 1
        BY <1>1, <2>3, <4>1
      <4>3. ids[1] < ids[k + 1]
        <5>1. 1 \in DOMAIN ids /\ k + 1 \in DOMAIN ids
          BY <1>1, <1>2, <4>2
        <5>2. QED
          BY <1>3, <4>2, <5>1 DEF Increasing
      <4>4. ids[k + 1] <= id /\ ids[k + 1] \in Nat
        <5>1. k + 1 = Len(q) + 1 \/ k + 1 \in 1..Len(q)
          BY <1>1, <4>2
        <5>2. CASE k + 1 = Len(q) + 1
          BY <1>1, <1>2, <5>2
        <5>3. CASE k + 1 \in 1..Len(q)
          <6>1. ids[k + 1] = q[k + 1]
            BY <1>2, <5>3
          <6>2. q[k + 1] \in Nat /\ q[k + 1] < id
            BY <1>1, <5>3
          <6>3. QED
            BY <1>1, <6>1, <6>2
        <5>4. QED
          BY <5>1, <5>2, <5>3
      <4>5. QED
        BY <3>1, <4>2, <4>3, <4>4
    <3>3. kept \in [1..Len(q) -> (q[1] + 1)..id]
      BY <2>3, <3>2
    <3>4. Len(q) <= id - q[1]
      <4>1. q[1] <= id
        BY <3>1
      <4>2. QED
        BY <1>1, <2>5, <3>1, <3>3, <4>1, IncreasingCount
    <3>5. QED
      BY <2>1, <3>1, <3>4
  <2>11. \A i \in Range(q) : i \in Range(kept) \/ id - i >= Capacity
    BY <1>4, <2>9, <2>10
  <2>12. QED
    BY <1>4, <2>1, <2>3, <2>5, <2>7, <2>8, <2>11 DEF kept, ids
<1>7. QED
  BY <1>1, <1>2, <1>5, <1>6

(***************************************************************************)
(* The store                                                               *)
(***************************************************************************)

\* The history of mints only grows.
MintsGrow ==
  \A i \in DOMAIN mints : i \in DOMAIN mints' /\ mints'[i] = mints[i]

\* Mint, Forget, and everything else, on the store.
LEMMA MintStore ==
  ASSUME StoreInv, NEW session, NEW scope, Mint(session, scope),
         forgotten' = forgotten
  PROVE  /\ StoreInv' /\ MintsGrow
         /\ Len(mints) + 1 \in DOMAIN mints'
         /\ mints'[Len(mints) + 1] = [scope |-> scope, session |-> session]
<1> DEFINE id == Len(mints) + 1
           named == [scope |-> scope, session |-> session]
           kept == Retained(Append(order, id))
<1>1. /\ mints' = Append(mints, named)
      /\ order' = kept
      /\ entries' = [i \in Range(kept) |-> IF i = id THEN named
                                                  ELSE entries[i]]
  BY DEF Mint
<1>2. /\ order \in Seq(Nat) /\ Increasing(order)
      /\ Range(order) = DOMAIN entries /\ Len(order) <= Capacity
      /\ mints \in Seq(Range(mints))
      /\ \A i \in DOMAIN entries : i \in DOMAIN mints /\ entries[i] = mints[i]
      /\ forgotten \subseteq DOMAIN mints
      /\ forgotten \cap DOMAIN entries = {}
      /\ \A i \in DOMAIN mints \ forgotten :
           Len(mints) - i < Capacity => i \in DOMAIN entries
  BY DEF StoreInv, Increasing
<1> HIDE DEF named
<1>3. /\ Len(mints) \in Nat /\ DOMAIN mints = 1..Len(mints)
      /\ mints' \in Seq(Range(mints'))
      /\ Len(mints') = Len(mints) + 1
      /\ DOMAIN mints' = 1..(Len(mints) + 1)
      /\ \A i \in 1..Len(mints) : mints'[i] = mints[i]
      /\ mints'[Len(mints) + 1] = named
  BY <1>1, <1>2, AppendOwn
<1>4. id \in Nat /\ id \notin DOMAIN mints /\ id \in DOMAIN mints'
      /\ DOMAIN mints' = DOMAIN mints \cup {id}
      /\ DOMAIN mints \subseteq Nat
  BY <1>3
<1>5. \A k \in DOMAIN order : order[k] < id
  <2>1. TAKE k \in DOMAIN order
  <2>2. order[k] \in DOMAIN mints
    BY <1>2 DEF Range
  <2>3. QED
    BY <1>3, <2>2
<1>6. /\ kept \in Seq(Nat) /\ Increasing(kept)
      /\ Len(kept) <= Capacity
      /\ id \in Range(kept) /\ Range(kept) \subseteq Range(order) \cup {id}
      /\ \A i \in Range(order) : i \in Range(kept) \/ id - i >= Capacity
  BY <1>2, <1>4, <1>5, RetainedFacts
<1> HIDE DEF kept, id
<1>7. /\ DOMAIN entries' = Range(kept)
      /\ \A i \in Range(kept) :
           entries'[i] = IF i = id THEN named ELSE entries[i]
  BY <1>1
<1>8. ASSUME NEW i \in Range(kept)
      PROVE  i \in DOMAIN mints' /\ entries'[i] = mints'[i]
  <2>1. CASE i = id
    BY <1>3, <1>4, <1>7, <1>8, <2>1 DEF id
  <2>2. CASE i # id
    <3>1. i \in DOMAIN entries /\ i \in DOMAIN mints /\ entries[i] = mints[i]
      BY <1>2, <1>6, <1>8, <2>2
    <3>2. mints'[i] = mints[i] /\ i \in DOMAIN mints'
      BY <1>3, <1>4, <3>1
    <3>3. QED
      BY <1>7, <1>8, <2>2, <3>1, <3>2
  <2>3. QED
    BY <2>1, <2>2
<1>9. ASSUME NEW i \in DOMAIN mints' \ forgotten, Len(mints') - i < Capacity
       PROVE  i \in Range(kept)
  <2>1. CASE i = id
    BY <1>6, <2>1
  <2>2. CASE i # id
    <3>1. i \in DOMAIN mints /\ i \in Nat
      BY <1>4, <1>9, <2>2
    <3>2. Len(mints') = id /\ Len(mints) = id - 1
      BY <1>3 DEF id
    <3>3. Len(mints) - i < Capacity /\ ~(id - i >= Capacity)
      BY <1>4, <1>9, <3>1, <3>2, CapacityAssumption
    <3>4. i \in Range(order)
      BY <1>2, <1>9, <3>1, <3>3
    <3>5. QED
      BY <1>6, <3>3, <3>4
  <2>3. QED
    BY <2>1, <2>2
<1>10. forgotten \subseteq DOMAIN mints' /\ forgotten \cap Range(kept) = {}
  BY <1>2, <1>4, <1>6
<1>11. StoreInv'
  <2>1. Range(order)' = Range(kept)
    BY <1>1
  <2>2. Increasing(kept) => \A j, k \in DOMAIN order' : j < k => order'[j] < order'[k]
    BY <1>1 DEF Increasing
  <2>3. QED
    BY <1>1, <1>3, <1>6, <1>7, <1>8, <1>9, <1>10, <2>1, <2>2 DEF StoreInv
<1>12. MintsGrow
  BY <1>3, <1>4 DEF MintsGrow
<1>13. QED
  BY <1>3, <1>4, <1>11, <1>12 DEF id, named

LEMMA ForgetStore ==
  ASSUME StoreInv, NEW scope, ForgetScope(scope)
  PROVE  StoreInv'
<1> DEFINE kept == {i \in DOMAIN entries : entries[i].scope # scope}
           gone == {i \in DOMAIN mints : mints[i].scope = scope}
<1>1. /\ entries' = [i \in kept |-> entries[i]]
      /\ order' \in Retentions(order, kept)
      /\ forgotten' = forgotten \cup gone
      /\ mints' = mints
  BY DEF ForgetScope
<1>2. /\ order \in Seq(Nat) /\ Increasing(order)
      /\ Range(order) = DOMAIN entries /\ Len(order) <= Capacity
      /\ \A i \in DOMAIN entries : i \in DOMAIN mints /\ entries[i] = mints[i]
  BY DEF StoreInv, Increasing
<1>3. /\ order' \in Seq(Nat) /\ Increasing(order')
      /\ Range(order') = Range(order) \cap kept
      /\ Len(order') <= Len(order)
  BY <1>1, <1>2, RetentionFacts
<1>4. Range(order') = DOMAIN entries' /\ DOMAIN entries' = kept
  BY <1>1, <1>2, <1>3
<1>5. Len(order') <= Capacity
  BY <1>2, <1>3, CapacityAssumption, SeqFacts
<1>6. \A i \in kept : entries'[i] = mints[i] /\ i \in DOMAIN mints
  BY <1>1, <1>2
<1>7. (forgotten \cup gone) \cap kept = {}
  BY <1>2 DEF StoreInv
<1>8. \A i \in DOMAIN mints \ (forgotten \cup gone) :
        Len(mints) - i < Capacity => i \in kept
  BY <1>2 DEF StoreInv
<1>9. QED
  BY <1>1, <1>3, <1>4, <1>5, <1>6, <1>7, <1>8 DEF StoreInv, Increasing

LEMMA KeepStore ==
  ASSUME StoreInv, UNCHANGED <<store, history>>
  PROVE  StoreInv' /\ MintsGrow
BY DEF StoreInv, MintsGrow, store, history, Range

(***************************************************************************)
(* The calls                                                               *)
(***************************************************************************)

\* AnswerInv and SettlementAnswered of one call, given what was minted.
Told(v, minted) ==
  /\ DOMAIN v = DOMAIN NewCall
  /\ v.settled # None => v.pc \in {"settled", "done"}
  /\ v.response # None => v.pc = "done"
  /\ v.settled # None /\ v.response # None =>
       /\ v.response.continuation \in {None} \cup DOMAIN minted
       /\ v.response.kind = v.settled.kind
       /\ v.response.replaySafe <=> v.settled.effects = "none"
       /\ v.response.present <=> v.settled.session # None
       /\ v.response.continuation # None =>
            minted[v.response.continuation] =
              [scope |-> v.scope, session |-> v.settled.session]

CallsAnswered == DOMAIN call = Calls /\ \A c \in Calls : Told(call[c], mints)

LEMMA AnsweredAll == AnswerInv /\ SettlementAnswered <=> CallsAnswered
BY DEF AnswerInv, SettlementAnswered, CallsAnswered, Told

LEMMA AnsweredAllNext ==
  CallsAnswered' => AnswerInv' /\ SettlementAnswered'
BY DEF AnswerInv, SettlementAnswered, CallsAnswered, Told

\* A call that has not heard from the service, after a step of its own.
Unsettled(v) ==
  /\ DOMAIN v = DOMAIN NewCall
  /\ v.settled = None
  /\ v.response # None => v.pc = "done"

\* A step of one call leaves the others as they were.
LEMMA CallStep ==
  ASSUME CallsAnswered, MintsGrow, NEW c \in Calls, NEW v,
         call' = [call EXCEPT ![c] = v], Told(v, mints')
  PROVE  AnswerInv' /\ SettlementAnswered'
<1>1. DOMAIN call' = Calls /\ call'[c] = v
  BY DEF CallsAnswered
<1>2. ASSUME NEW d \in Calls
      PROVE  Told(call'[d], mints')
  <2>1. CASE d = c
    BY <1>1, <2>1
  <2>2. CASE d # c
    <3>1. call'[d] = call[d] /\ Told(call[d], mints)
      BY <2>2 DEF CallsAnswered
    <3>2. QED
      BY <3>1 DEF Told, MintsGrow
  <2>3. QED
    BY <2>1, <2>2
<1>3. QED
  BY <1>1, <1>2, AnsweredAllNext DEF CallsAnswered

LEMMA UnsettledStep ==
  ASSUME CallsAnswered, MintsGrow, NEW c \in Calls, NEW v,
         call' = [call EXCEPT ![c] = v], Unsettled(v)
  PROVE  AnswerInv' /\ SettlementAnswered'
BY CallStep DEF Unsettled, Told

LEMMA CallsKept ==
  ASSUME CallsAnswered, MintsGrow, call' = call
  PROVE  AnswerInv' /\ SettlementAnswered'
BY AnsweredAllNext DEF CallsAnswered, Told, MintsGrow

\* Where a call is that the service has not settled.
LEMMA BeforeSettlement ==
  ASSUME CallsAnswered, NEW c \in Calls,
         call[c].pc \in {"new", "planning", "asking", "running"}
  PROVE  /\ DOMAIN call[c] = DOMAIN NewCall
         /\ call[c].settled = None /\ call[c].response = None
BY DEF CallsAnswered, Told

LEMMA DoneFacts ==
  ASSUME NEW r, DOMAIN r = DOMAIN NewCall, NEW x
  PROVE  /\ DOMAIN Done(r, x) = DOMAIN NewCall
         /\ Done(r, x).pc = "done" /\ Done(r, x).response = x
         /\ Done(r, x).settled = r.settled /\ Done(r, x).scope = r.scope
BY DEF Done, NewCall

\* What a step does to its own call.
LEMMA StartFacts ==
  ASSUME NEW r, DOMAIN r = DOMAIN NewCall, NEW turn
  PROVE  /\ DOMAIN Start(r, turn) = DOMAIN NewCall
         /\ Start(r, turn).settled = r.settled
         /\ Start(r, turn).response = r.response
BY DEF Start, NewCall

LEMMA EnterFacts ==
  ASSUME NEW c, NEW r, DOMAIN r = DOMAIN NewCall, r.settled = None,
         r.response = None, NEW session
  PROVE  Unsettled(Enter(c, r, session))
<1>1. CASE Tool[c] # "plan"
  BY <1>1, StartFacts DEF Enter, Unsettled
<1>2. CASE /\ Tool[c] = "plan"
           /\ session # None /\ session.provider \notin ProviderIds
  BY <1>2, DoneFacts DEF Enter, Unsettled
<1>3. CASE /\ Tool[c] = "plan"
           /\ ~(session # None /\ session.provider \notin ProviderIds)
  <2>1. Enter(c, r, session) = [r EXCEPT !.pc = "planning"]
    BY <1>3 DEF Enter
  <2>2. QED
    BY <2>1 DEF Unsettled, NewCall
<1>4. QED
  BY <1>1, <1>2, <1>3

\* The answer invariant, action by action.
LEMMA ArriveStep ==
  ASSUME CallsAnswered, NEW c \in Calls, Arrive(c)
  PROVE  \E v : call' = [call EXCEPT ![c] = v] /\ Unsettled(v)
<1>1. /\ DOMAIN call[c] = DOMAIN NewCall
      /\ call[c].settled = None /\ call[c].response = None
  BY BeforeSettlement DEF Arrive
<1>2. PICK scope \in Scopes[c], prompt \in Prompts, named \in Named,
           id \in {None, Stranger} \cup DOMAIN mints :
       LET request == [call[c] EXCEPT !.scope = scope, !.continuation = id]
       IN /\ Tool[c] # "plan" => prompt = "text" /\ named = None
          /\ \/ /\ scope = None
                /\ call' = [call EXCEPT ![c] =
                     Done(request, Refusal("InvalidRequest"))]
             \/ /\ scope # None /\ id = None
                /\ call' = [call EXCEPT ![c] =
                     Enter(c, [request EXCEPT
                                 !.explicit = Explicit(prompt, named, None)],
                           None)]
             \/ /\ scope # None /\ id # None
                /\ \E answer \in ContinuationAnswers(id, scope)
                                   \cup {StoreFails} :
                     call' = [call EXCEPT ![c] =
                       IF answer.error # None
                         THEN Done(request, Refusal(answer.error))
                         ELSE Enter(c, [request EXCEPT !.explicit =
                                Explicit(prompt, None, answer.session)],
                                answer.session)]
  BY DEF Arrive
<1> DEFINE request == [call[c] EXCEPT !.scope = scope, !.continuation = id]
           with(explicit) == [request EXCEPT !.explicit = explicit]
<1>3. /\ DOMAIN request = DOMAIN NewCall
      /\ request.settled = None /\ request.response = None
  BY <1>1 DEF NewCall
<1> HIDE DEF request
<1>4. ASSUME NEW explicit
      PROVE  /\ DOMAIN with(explicit) = DOMAIN NewCall
             /\ with(explicit).settled = None /\ with(explicit).response = None
  BY <1>3 DEF NewCall
<1> HIDE DEF with
<1>5. \A x : Unsettled(Done(request, x))
  BY <1>3, DoneFacts DEF Unsettled
<1>6. \A explicit, session : Unsettled(Enter(c, with(explicit), session))
  BY <1>4, EnterFacts
<1>7. CASE call' = [call EXCEPT ![c] = Done(request, Refusal("InvalidRequest"))]
  BY <1>5, <1>7
<1>8. CASE call' = [call EXCEPT ![c] =
                      Enter(c, with(Explicit(prompt, named, None)), None)]
  BY <1>6, <1>8
<1>9. CASE \E answer \in ContinuationAnswers(id, scope) \cup {StoreFails} :
             call' = [call EXCEPT ![c] =
               IF answer.error # None
                 THEN Done(request, Refusal(answer.error))
                 ELSE Enter(c, with(Explicit(prompt, None, answer.session)),
                            answer.session)]
  <2>1. PICK answer :
          call' = [call EXCEPT ![c] =
            IF answer.error # None
              THEN Done(request, Refusal(answer.error))
              ELSE Enter(c, with(Explicit(prompt, None, answer.session)),
                         answer.session)]
    BY <1>9
  <2>2. Unsettled(IF answer.error # None
              THEN Done(request, Refusal(answer.error))
              ELSE Enter(c, with(Explicit(prompt, None, answer.session)),
                         answer.session))
    BY <1>5, <1>6
  <2>3. QED
    BY <2>1, <2>2
<1>10. QED
  BY <1>2, <1>7, <1>8, <1>9 DEF request, with

\* Planning has one of three verdicts.
LEMMA PrepareTag ==
  ASSUME NEW layers
  PROVE  Prepare(layers).tag \in {"ready", "invalid", "missing"}
BY DEF Prepare, Resolve

LEMMA PlanRoundStep ==
  ASSUME CallsAnswered, NEW c \in Calls, PlanRound(c)
  PROVE  \E v : call' = [call EXCEPT ![c] = v] /\ Unsettled(v)
<1>1. /\ DOMAIN call[c] = DOMAIN NewCall
      /\ call[c].settled = None /\ call[c].response = None
  BY BeforeSettlement DEF PlanRound
<1> DEFINE plan == Prepare(LayersOf(c))
<1>2. call' = [call EXCEPT ![c] =
        CASE plan.tag = "ready" ->
               Start(@, [provider |-> plan.turn["provider"],
                         resume |-> TurnOf(plan.turn)["resume"]])
          [] plan.tag = "invalid" -> Done(@, Refusal("InvalidRequest"))
          [] plan.tag = "missing" ->
               [@ EXCEPT !.pc = "asking", !.asks = plan.asks]]
  BY DEF PlanRound
<1>3. plan.tag \in {"ready", "invalid", "missing"}
  BY PrepareTag
<1> HIDE DEF plan
<1>4. \A turn : Unsettled(Start(call[c], turn))
  BY <1>1, StartFacts DEF Unsettled
<1>5. \A x : Unsettled(Done(call[c], x))
  BY <1>1, DoneFacts DEF Unsettled
<1>6. Unsettled([call[c] EXCEPT !.pc = "asking", !.asks = plan.asks])
  BY <1>1 DEF Unsettled, NewCall
<1>7. CASE plan.tag = "ready"
  BY <1>2, <1>4, <1>7
<1>8. CASE plan.tag = "invalid"
  BY <1>2, <1>5, <1>8
<1>9. CASE plan.tag = "missing"
  BY <1>2, <1>6, <1>9
<1>10. QED
  BY <1>3, <1>7, <1>8, <1>9

LEMMA ElicitStep ==
  ASSUME CallsAnswered, NEW c \in Calls, ElicitRefused(c) \/ ElicitAccepted(c)
  PROVE  \E v : call' = [call EXCEPT ![c] = v] /\ Unsettled(v)
<1>1. /\ DOMAIN call[c] = DOMAIN NewCall
      /\ call[c].settled = None /\ call[c].response = None
  BY BeforeSettlement DEF ElicitRefused, ElicitAccepted
<1>2. \A x : Unsettled(Done(call[c], x))
  BY <1>1, DoneFacts DEF Unsettled
<1>3. CASE ElicitRefused(c)
  BY <1>2, <1>3 DEF ElicitRefused
<1>4. CASE ElicitAccepted(c)
  <2> DEFINE answered(form) == [call[c] EXCEPT !.round = @ + 1,
                                               !.answers = @ \o form]
  <2>1. PICK form \in FormContents(call[c].asks) :
          call' = [call EXCEPT ![c] =
            IF form = <<>> THEN Done(call[c], Refusal("InvalidRequest"))
            ELSE IF answered(form).round < Rounds
              THEN [answered(form) EXCEPT !.pc = "planning"]
            ELSE [answered(form) EXCEPT !.pc = "done",
                                  !.response = Refusal("InvalidRequest")]]
    BY <1>4 DEF ElicitAccepted
  <2>2. /\ DOMAIN answered(form) = DOMAIN NewCall
        /\ answered(form).settled = None /\ answered(form).response = None
    BY <1>1 DEF NewCall
  <2> HIDE DEF answered
  <2>3. /\ Unsettled([answered(form) EXCEPT !.pc = "planning"])
        /\ Unsettled([answered(form) EXCEPT !.pc = "done",
                                    !.response = Refusal("InvalidRequest")])
    BY <2>2 DEF Unsettled, NewCall
  <2>4. CASE form = <<>>
    BY <1>2, <2>1, <2>4
  <2>5. CASE form # <<>> /\ answered(form).round < Rounds
    BY <2>1, <2>3, <2>5
  <2>6. CASE form # <<>> /\ ~(answered(form).round < Rounds)
    BY <2>1, <2>3, <2>6
  <2>7. QED
    BY <2>4, <2>5, <2>6
<1>5. QED
  BY <1>3, <1>4

LEMMA CancelStep ==
  ASSUME CallsAnswered, NEW c \in Calls, Cancel(c) \/ Forward(c)
  PROVE  \E v : call' = [call EXCEPT ![c] = v] /\ Unsettled(v)
<1>1. /\ DOMAIN call[c] = DOMAIN NewCall
      /\ call[c].settled = None /\ call[c].response = None
  BY BeforeSettlement DEF Cancel, Forward
<1> DEFINE heard == [call[c] EXCEPT !.incoming = TRUE]
           forwarded == [call[c] EXCEPT !.outgoing = TRUE]
<1>2. Unsettled(heard) /\ Unsettled(forwarded)
  BY <1>1 DEF Unsettled, NewCall
<1>3. \/ call' = [call EXCEPT ![c] = heard]
      \/ call' = [call EXCEPT ![c] = forwarded]
  BY DEF Cancel, Forward
<1> HIDE DEF heard, forwarded
<1>4. QED
  BY <1>2, <1>3

LEMMA SettleStep ==
  ASSUME CallsAnswered, MintsGrow, NEW c \in Calls, Settle(c)
  PROVE  AnswerInv' /\ SettlementAnswered'
<1>1. /\ DOMAIN call[c] = DOMAIN NewCall
      /\ call[c].settled = None /\ call[c].response = None
  BY BeforeSettlement DEF Settle
<1>2. PICK settled \in Settlements(c) :
        call' = [call EXCEPT ![c] =
          [@ EXCEPT !.pc = "settled", !.settled = settled, !.incoming = FALSE,
                    !.outgoing = FALSE]]
  BY DEF Settle
<1> DEFINE v == [call[c] EXCEPT !.pc = "settled", !.settled = settled,
                                !.incoming = FALSE, !.outgoing = FALSE]
<1>3. call' = [call EXCEPT ![c] = v]
  BY <1>2
<1>4. Told(v, mints')
  BY <1>1 DEF Told, NewCall
<1> HIDE DEF v
<1>5. QED
  BY <1>3, <1>4, CallStep

LEMMA FinishStep ==
  ASSUME StoreInv, CallsAnswered, NEW c \in Calls, Finish(c)
  PROVE  /\ StoreInv' /\ AnswerInv' /\ SettlementAnswered'
         /\ progress' = progress
<1> DEFINE settled == call[c].settled
           named == Projected(settled, Len(mints) + 1)
<1>1. DOMAIN call[c] = DOMAIN NewCall
  BY DEF CallsAnswered, Told
<1>2. CASE /\ Mint(settled.session, call[c].scope)
           /\ call' = [call EXCEPT ![c] = Done(@, named)]
           /\ UNCHANGED <<progress, forgotten>>
  <2>1. /\ StoreInv' /\ MintsGrow
        /\ Len(mints) + 1 \in DOMAIN mints'
        /\ mints'[Len(mints) + 1] =
             [scope |-> call[c].scope, session |-> settled.session]
    BY <1>2, MintStore
  <2>2. /\ named.kind = settled.kind
        /\ named.replaySafe = (settled.effects = "none")
        /\ named.present = (settled.session # None)
        /\ named.continuation = Len(mints) + 1
    BY DEF Projected
  <2> HIDE DEF named
  <2> DEFINE v == Done(call[c], named)
  <2> HIDE DEF v
  <2>3. /\ DOMAIN v = DOMAIN NewCall /\ v.pc = "done" /\ v.response = named
        /\ v.settled = settled /\ v.scope = call[c].scope
    BY <1>1, DoneFacts DEF v
  <2>4. Told(v, mints')
    BY <2>1, <2>2, <2>3 DEF Told
  <2>5. Told(Done(call[c], named), mints')
    BY <2>4 DEF v
  <2>6. call' = [call EXCEPT ![c] = Done(call[c], named)]
    BY <1>2
  <2>7. AnswerInv' /\ SettlementAnswered'
    BY <2>1, <2>5, <2>6, CallStep
  <2>8. QED
    BY <1>2, <2>1, <2>7
<1>3. CASE /\ call' = [call EXCEPT ![c] = Done(@, Unnamed(settled))]
           /\ UNCHANGED <<store, progress, history>>
  <2>1. StoreInv' /\ MintsGrow
    BY <1>3, KeepStore
  <2>2. /\ Unnamed(settled).kind = settled.kind
        /\ Unnamed(settled).replaySafe = (settled.effects = "none")
        /\ Unnamed(settled).present = (settled.session # None)
        /\ Unnamed(settled).continuation = None
    BY DEF Unnamed, Projected
  <2> DEFINE v == Done(call[c], Unnamed(settled))
  <2> HIDE DEF v
  <2>3. /\ DOMAIN v = DOMAIN NewCall /\ v.pc = "done"
        /\ v.response = Unnamed(settled) /\ v.settled = settled
    BY <1>1, DoneFacts DEF v
  <2>4. Told(v, mints')
    BY <2>2, <2>3 DEF Told
  <2>5. Told(Done(call[c], Unnamed(settled)), mints')
    BY <2>4 DEF v
  <2>6. call' = [call EXCEPT ![c] = Done(call[c], Unnamed(settled))]
    BY <1>3
  <2>7. AnswerInv' /\ SettlementAnswered'
    BY <2>1, <2>5, <2>6, CallStep
  <2>8. QED
    BY <1>3, <2>1, <2>7
<1>4. QED
  BY <1>2, <1>3 DEF Finish

(***************************************************************************)
(* The invariant                                                           *)
(***************************************************************************)

\* The first state satisfies the invariant.
LEMMA InitIInv == Init => IInv
<1> SUFFICES ASSUME Init PROVE IInv
  OBVIOUS
<1>1. StoreInv
  <2>1. /\ order = <<>> /\ mints = <<>> /\ forgotten = {} /\ DOMAIN entries = {}
    BY DEF Init, Unbound
  <2>2. Range(<<>>) = {} /\ <<>> \in Seq(Nat) /\ <<>> \in Seq({})
        /\ Len(<<>>) = 0 /\ DOMAIN <<>> = {}
    BY DEF Range
  <2>3. 0 <= Capacity
    BY CapacityAssumption
  <2>4. QED
    BY <2>1, <2>2, <2>3 DEF StoreInv
<1>2. AnswerInv /\ SettlementAnswered
  BY DEF Init, NewCall, AnswerInv, SettlementAnswered
<1>3. QED
  BY <1>1, <1>2 DEF IInv

\* Every step keeps the invariant.
LEMMA NextIInv == IInv /\ [Next]_vars => IInv'
<1> SUFFICES ASSUME IInv, [Next]_vars PROVE IInv'
  OBVIOUS
<1>1. StoreInv /\ CallsAnswered
  BY AnsweredAll DEF IInv
<1>2. ASSUME NEW c \in Calls,
             \E v : call' = [call EXCEPT ![c] = v] /\ Unsettled(v),
             UNCHANGED <<store, progress, history>>
      PROVE  IInv'
  <2>1. StoreInv' /\ MintsGrow
    BY <1>1, <1>2, KeepStore
  <2>2. AnswerInv' /\ SettlementAnswered'
    BY <1>1, <1>2, <2>1, UnsettledStep
  <2>3. QED
    BY <2>1, <2>2 DEF IInv
<1>3. ASSUME NEW c \in Calls, Arrive(c)
      PROVE  IInv'
  <2>1. UNCHANGED <<store, progress, history>>
    BY <1>3 DEF Arrive
  <2>2. QED
    BY <1>1, <1>2, <1>3, <2>1, ArriveStep
<1>4. ASSUME NEW c \in Calls, PlanRound(c)
      PROVE  IInv'
  <2>1. UNCHANGED <<store, progress, history>>
    BY <1>4 DEF PlanRound
  <2>2. QED
    BY <1>1, <1>2, <1>4, <2>1, PlanRoundStep
<1>5. ASSUME NEW c \in Calls, ElicitRefused(c) \/ ElicitAccepted(c)
      PROVE  IInv'
  <2>1. UNCHANGED <<store, progress, history>>
    BY <1>5 DEF ElicitRefused, ElicitAccepted
  <2>2. QED
    BY <1>1, <1>2, <1>5, <2>1, ElicitStep
<1>6. ASSUME NEW c \in Calls, Cancel(c) \/ Forward(c)
      PROVE  IInv'
  <2>1. UNCHANGED <<store, progress, history>>
    BY <1>6 DEF Cancel, Forward
  <2>2. QED
    BY <1>1, <1>2, <1>6, <2>1, CancelStep
<1>7. ASSUME NEW c \in Calls, Settle(c)
      PROVE  IInv'
  <2>1. UNCHANGED <<store, history>>
    BY <1>7 DEF Settle
  <2>2. StoreInv' /\ MintsGrow
    BY <1>1, <2>1, KeepStore
  <2>3. AnswerInv' /\ SettlementAnswered'
    BY <1>1, <1>7, <2>2, SettleStep
  <2>4. QED
    BY <2>2, <2>3 DEF IInv
<1>8. ASSUME NEW c \in Calls, Finish(c)
      PROVE  IInv'
  <2>1. StoreInv' /\ AnswerInv' /\ SettlementAnswered'
    BY <1>1, <1>8, FinishStep
  <2>2. QED
    BY <2>1 DEF IInv
<1>9. ASSUME NEW c \in Calls, Count(c) \/ Report(c)
      PROVE  IInv'
  <2>1. UNCHANGED <<store, call, history>>
    BY <1>9 DEF Count, Report
  <2>2. StoreInv' /\ MintsGrow
    BY <1>1, <2>1, KeepStore
  <2>3. AnswerInv' /\ SettlementAnswered'
    BY <1>1, <2>1, <2>2, CallsKept
  <2>4. QED
    BY <2>2, <2>3 DEF IInv
<1>10. ASSUME NEW scope, ForgetScope(scope)
       PROVE  IInv'
  <2>1. UNCHANGED <<call, progress, mints>>
    BY <1>10 DEF ForgetScope
  <2>2. StoreInv'
    BY <1>1, <1>10, ForgetStore
  <2>3. MintsGrow
    BY <2>1 DEF MintsGrow
  <2>4. AnswerInv' /\ SettlementAnswered'
    BY <1>1, <2>1, <2>3, CallsKept
  <2>5. QED
    BY <2>2, <2>4 DEF IInv
<1>11. CASE UNCHANGED vars
  <2>1. UNCHANGED <<store, history>> /\ call' = call
    BY <1>11 DEF vars, store, history
  <2>2. StoreInv' /\ MintsGrow
    BY <1>1, <2>1, KeepStore
  <2>3. AnswerInv' /\ SettlementAnswered'
    BY <1>1, <2>1, <2>2, CallsKept
  <2>4. QED
    BY <2>2, <2>3 DEF IInv
<1>12. QED
  BY <1>3, <1>4, <1>5, <1>6, <1>7, <1>8, <1>9, <1>10, <1>11 DEF Next

\* In every reachable state the store is in order and answers agree with
\* settlements: the shape that a mint, a settlement and a forgotten scope
\* each find and leave (continuation.rs and tool.rs of
\* crates/tower-agent-mcp).
THEOREM Invariance == Spec => []IInv
<1>1. Init => IInv
  BY InitIInv
<1>2. IInv /\ [Next]_vars => IInv'
  BY NextIInv
<1>3. QED
  BY <1>1, <1>2, PTL DEF Spec

\* The store keeps the names that it has not given up.
LEMMA StoreNames == StoreInv => NameResolves
<1> SUFFICES ASSUME StoreInv PROVE NameResolves
  OBVIOUS
<1>1. /\ order \in Seq(Nat) /\ Increasing(order)
      /\ Range(order) = DOMAIN entries /\ Len(order) <= Capacity
      /\ \A i \in DOMAIN entries : i \in DOMAIN mints /\ entries[i] = mints[i]
      /\ forgotten \cap DOMAIN entries = {}
      /\ \A i \in DOMAIN mints \ forgotten :
           Len(mints) - i < Capacity => i \in DOMAIN entries
  BY DEF StoreInv, Increasing
<1>2. ASSUME NEW i \in DOMAIN mints, i \notin forgotten,
             Len(mints) - i < Capacity
      PROVE  Resolve_(i, mints[i].scope) = mints[i].session
  BY <1>1, <1>2 DEF Resolve_
<1>3. {order[k] : k \in DOMAIN order} = DOMAIN entries
  BY <1>1 DEF Range
<1>4. Len(order) = Cardinality(DOMAIN entries)
  <2> DEFINE n == Len(order)
  <2>1. n \in Nat /\ DOMAIN order = 1..n /\ \A k \in 1..n : order[k] \in Nat
    BY <1>1
  <2>2. ASSUME NEW j \in 1..n, NEW k \in 1..n, order[j] = order[k]
        PROVE  j = k
    <3>1. order[j] \in Nat /\ ~(order[j] < order[k]) /\ ~(order[k] < order[j])
      BY <2>1, <2>2
    <3>2. ~(j < k) /\ ~(k < j)
      BY <1>1, <2>1, <3>1 DEF Increasing
    <3>3. QED
      BY <2>1, <3>2
  <2>3. order = [k \in 1..n |-> order[k]]
    BY <1>1
  <2> HIDE DEF n
  <2>4. order \in [1..n -> DOMAIN entries]
    BY <1>3, <2>1, <2>3
  <2>5. order \in Bijection(1..n, DOMAIN entries)
    BY <1>3, <2>1, <2>2, <2>4 DEF Bijection, Injection, Surjection, IsInjective
  <2>6. IsFiniteSet(1..n) /\ Cardinality(1..n) = n
    BY <2>1, FS_Interval
  <2>7. Cardinality(DOMAIN entries) = n
    BY <2>5, <2>6, FS_Bijection DEF ExistsBijection
  <2>8. QED
    BY <2>7 DEF n
<1>5. QED
  BY <1>1, <1>2, <1>3, <1>4 DEF NameResolves

\* A name that was handed out is found for its scope until the scope is
\* forgotten or Capacity later names were minted, whatever the order of mints
\* and forgotten scopes; a forgotten one is never found, and the queue and
\* the map hold the same names (InMemoryContinuationStore).
THEOREM NamesResolve == Spec => []NameResolves
<1>1. IInv => NameResolves
  BY StoreNames DEF IInv
<1>2. QED
  BY Invariance, <1>1, PTL

\* What the service settled is what the client is told: no failure of the
\* store, eviction, cancellation or other call changes the kind, the word on
\* a repetition or the session of an answer (run, execute, mint, Projection).
THEOREM SettlementsAnswered == Spec => []SettlementAnswered
<1>1. IInv => SettlementAnswered
  BY DEF IInv
<1>2. QED
  BY Invariance, <1>1, PTL

(***************************************************************************)
(* Plans                                                                   *)
(***************************************************************************)

\* A list has a first element of any kind that it has.
LEMMA LeastIn ==
  ASSUME NEW S \in SUBSET Nat, S # {}
  PROVE  Least(S) \in S
<1>1. PICK n \in S : \A m \in S : ~(m < n)
  <2>1. IsWellFoundedOn(OpToRel(<, Nat), Nat)
    BY NatLessThanWellFounded
  <2>2. PICK n \in S : \A m \in S : <<m, n>> \notin OpToRel(<, Nat)
    BY <2>1, WFMin
  <2>3. QED
    BY <2>2 DEF OpToRel
<1>2. \A m \in S : n <= m
  BY <1>1
<1>3. QED
  BY <1>2 DEF Least

FormAnswer == [id : Askable \cup {"model"},
               value : ProviderIds \cup {"text", "blank"}]

IdsOf(a) == {a[i].id : i \in DOMAIN a}

\* What a client puts into a form answers something that was asked, or is
\* about what nobody can be asked.
LEMMA FormFacts ==
  ASSUME NEW asks \in SUBSET Askable, NEW form \in FormContents(asks),
         form # <<>>
  PROVE  /\ form \in Seq(FormAnswer)
         /\ \E i \in DOMAIN form : form[i].id \in asks \cup {"model"}
<1> DEFINE value(id) == IF id = "provider" THEN ProviderIds ELSE {"text", "blank"}
           one(id) == {<<[id |-> id, value |-> v]>> : v \in value(id)}
<1>1. ASSUME NEW id \in Askable, NEW f \in one(id)
      PROVE  f \in Seq(FormAnswer) /\ Len(f) = 1 /\ f[1].id = id
  <2>1. PICK v \in value(id) : f = <<[id |-> id, value |-> v]>>
    BY <1>1
  <2>2. [id |-> id, value |-> v] \in FormAnswer
    BY <1>1 DEF FormAnswer
  <2> DEFINE answer == [id |-> id, value |-> v]
  <2>3. answer.id = id
    OBVIOUS
  <2> HIDE DEF answer
  <2>4. f = <<answer>> /\ answer \in FormAnswer
    BY <2>1, <2>2 DEF answer
  <2>5. QED
    BY <2>3, <2>4
<1>2. \/ \E id \in asks : form \in one(id)
      \/ /\ asks = {"provider", "prompt"}
         /\ \E a \in one("provider"), b \in one("prompt") : form = a \o b
      \/ form = <<[id |-> "model", value |-> "text"]>>
  BY DEF FormContents
<1> HIDE DEF one
<1>3. CASE \E id \in asks : form \in one(id)
  <2>1. PICK id \in asks : form \in one(id)
    BY <1>3
  <2>2. form \in Seq(FormAnswer) /\ Len(form) = 1 /\ form[1].id = id
    BY <1>1, <2>1
  <2>3. 1 \in DOMAIN form
    BY <2>2
  <2>4. QED
    BY <2>1, <2>2, <2>3
<1>4. CASE /\ asks = {"provider", "prompt"}
           /\ \E a \in one("provider"), b \in one("prompt") : form = a \o b
  <2>1. PICK a \in one("provider"), b \in one("prompt") : form = a \o b
    BY <1>4
  <2>2. /\ a \in Seq(FormAnswer) /\ Len(a) = 1 /\ a[1].id = "provider"
        /\ b \in Seq(FormAnswer) /\ Len(b) = 1
    BY <1>1, <2>1 DEF Askable
  <2>3. form \in Seq(FormAnswer) /\ 1 \in DOMAIN form /\ form[1] = a[1]
    BY <2>1, <2>2
  <2>4. QED
    BY <1>4, <2>2, <2>3
<1>5. CASE form = <<[id |-> "model", value |-> "text"]>>
  <2>1. [id |-> "model", value |-> "text"] \in FormAnswer
    BY DEF FormAnswer
  <2>2. form \in Seq(FormAnswer) /\ 1 \in DOMAIN form /\ form[1].id = "model"
    BY <1>5, <2>1
  <2>3. QED
    BY <2>2
<1>6. QED
  BY <1>2, <1>3, <1>4, <1>5

\* Answers are collected.
LEMMA IdsGrow ==
  ASSUME NEW a \in Seq(FormAnswer), NEW b \in Seq(FormAnswer)
  PROVE  /\ a \o b \in Seq(FormAnswer)
         /\ IdsOf(a) \cup IdsOf(b) \subseteq IdsOf(a \o b)
<1> DEFINE c == a \o b
<1>1. /\ Len(a) \in Nat /\ DOMAIN a = 1..Len(a)
      /\ Len(b) \in Nat /\ DOMAIN b = 1..Len(b)
      /\ c \in Seq(FormAnswer) /\ DOMAIN c = 1..(Len(a) + Len(b))
      /\ \A i \in 1..Len(a) : c[i] = a[i]
      /\ \A i \in 1..Len(b) : c[Len(a) + i] = b[i]
  OBVIOUS
<1> HIDE DEF c
<1>2. \A i \in DOMAIN a : i \in DOMAIN c
  BY <1>1
<1>3. \A i \in DOMAIN b : Len(a) + i \in DOMAIN c
  BY <1>1
<1>4. IdsOf(a) \subseteq IdsOf(c)
  BY <1>1, <1>2 DEF IdsOf
<1>5. IdsOf(b) \subseteq IdsOf(c)
  BY <1>1, <1>3 DEF IdsOf
<1>6. QED
  BY <1>1, <1>4, <1>5 DEF c

\* A plan that asks has used its answers, and asks for something else.
LEMMA MissingFacts ==
  ASSUME NEW l, Prepare(l).tag = "missing"
  PROVE  /\ Prepare(l).asks # {}
         /\ IdsOf(l.answers) \subseteq Askable
         /\ Prepare(l).asks \subseteq Askable \ IdsOf(l.answers)
<1> DEFINE m == Merge(Baseline(l), Upper(l))
           a == l.answers
           t == Answered(m, a)
           asks == Requirements(t)
<1>1. /\ AnswerCodes(m, a) = {} /\ asks # {} /\ Prepare(l).asks = asks
  <2>1. Resolve(l).tag = "missing" /\ Prepare(l) = Resolve(l)
    <3>1. DOMAIN Resolve(l) = {"tag", "turn", "codes", "asks"}
      BY DEF Resolve
    <3>2. QED
      BY <3>1 DEF Prepare
  <2> DEFINE codes == LayerCodes(l) \cup AnswerCodes(m, a) \cup ValueCodes(t)
  <2>2. /\ Resolve(l).tag = IF codes # {} THEN "invalid"
                            ELSE IF asks # {} THEN "missing" ELSE "complete"
        /\ Resolve(l).asks = asks
    BY DEF Resolve
  <2>3. AnswerCodes(m, a) \subseteq codes
    OBVIOUS
  <2> HIDE DEF codes, m, a, t, asks
  <2>4. codes = {} /\ asks # {}
    BY <2>1, <2>2
  <2>5. QED
    BY <2>1, <2>2, <2>3, <2>4
<1> DEFINE bound(i) == \/ Bound(m, a[i].id)
                       \/ \E j \in UsableFor(a, a[i].id) : j < i
           unknown(i) == When(a[i].id \notin Askable, "unknown-requirement")
           twice(i) == When(a[i].id \in Askable /\ bound(i),
                            "answer-overrides-bound-path")
           wrong(i) == When(/\ a[i].id = "provider" /\ ~bound(i)
                            /\ a[i].value \notin ProviderIds,
                            "invalid-provider-answer")
           codes(i) == unknown(i) \cup twice(i) \cup wrong(i)
<1>2. AnswerCodes(m, a) = UNION {codes(i) : i \in DOMAIN a}
  BY DEF AnswerCodes
<1>7. {q \in Askable : UsableFor(a, q) # {}} \subseteq DOMAIN t
  BY DEF Answered
<1>3. ASSUME NEW i \in DOMAIN a
      PROVE  a[i].id \in Askable /\ a[i].id \in DOMAIN t
  <2>1. codes(i) \subseteq AnswerCodes(m, a)
    <3> HIDE DEF codes, m, a
    <3>1. QED
      BY <1>2
  <2>2. unknown(i) = {} /\ twice(i) = {} /\ wrong(i) = {}
    BY <1>1, <2>1
  <2>3. a[i].id \in Askable
    BY <2>2 DEF When
  <2>4. ~bound(i)
    BY <2>2, <2>3 DEF When
  <2>5. a[i].id = "provider" => a[i].value \in ProviderIds
    BY <2>2, <2>4 DEF When
  <2>6. i \in UsableFor(a, a[i].id)
    BY <2>3, <2>5 DEF UsableFor, Usable
  <2>7. QED
    <3> HIDE DEF m, a, t
    <3>1. QED
      BY <1>7, <2>3, <2>6
<1> HIDE DEF m, a, t
<1>4. IdsOf(a) \subseteq Askable /\ IdsOf(a) \subseteq DOMAIN t
  BY <1>3 DEF IdsOf
<1>5. asks \subseteq Askable \ DOMAIN t
  BY DEF Requirements, Askable
<1>6. QED
  BY <1>1, <1>4, <1>5 DEF a

\* No answer changes the session that the layers name.
LEMMA ResumeKept ==
  ASSUME NEW l, l.profile = Unbound,
         l.baseline = [p \in ProviderIds |-> Unbound],
         Bound(l.explicit, "provider") => l.explicit["provider"] \in ProviderIds,
         Bound(l.defaults, "provider") => l.defaults["provider"] \in ProviderIds,
         l.answers \in Seq(FormAnswer)
  PROVE  TurnOf(Prepare(l).turn)["resume"] =
           IF Bound(l.explicit, "resume") THEN l.explicit["resume"]
           ELSE IF Bound(l.defaults, "resume") THEN l.defaults["resume"]
           ELSE None
<1> DEFINE u == Upper(l)
           b == Baseline(l)
           m == Merge(b, u)
           a == l.answers
           t == Answered(m, a)
<1>1. /\ Bound(u, "provider") => u["provider"] \in ProviderIds
      /\ Bound(u, "resume") <=>
           Bound(l.explicit, "resume") \/ Bound(l.defaults, "resume")
      /\ Bound(u, "resume") =>
           u["resume"] = IF Bound(l.explicit, "resume") THEN l.explicit["resume"]
                         ELSE l.defaults["resume"]
  BY DEF Upper, Merge, Bound, Unbound
<1>2. Selected(l) \in ProviderIds \cup {None}
  <2>1. CASE Bound(u, "provider")
    BY <1>1, <2>1 DEF Selected
  <2>2. CASE ~Bound(u, "provider") /\ UsableFor(a, "provider") # {}
    <3>1. UsableFor(a, "provider") \subseteq Nat
      BY DEF UsableFor
    <3>2. Least(UsableFor(a, "provider")) \in UsableFor(a, "provider")
      BY <2>2, <3>1, LeastIn
    <3>3. AnswerTo(a, "provider") \in ProviderIds
      BY <3>2 DEF AnswerTo, UsableFor, Usable
    <3>4. QED
      BY <2>2, <3>3 DEF Selected
  <2>3. CASE ~Bound(u, "provider") /\ UsableFor(a, "provider") = {}
    BY <2>3 DEF Selected
  <2>4. QED
    BY <2>1, <2>2, <2>3
<1>3. ~Bound(b, "resume")
  <2>1. CASE Selected(l) = None
    BY <2>1 DEF Baseline, Bound, Unbound
  <2>2. CASE Selected(l) # None
    <3>1. l.baseline[Selected(l)] = Unbound
      BY <1>2, <2>2
    <3>2. QED
      BY <2>2, <3>1 DEF Baseline, Bound, Unbound
  <2>3. QED
    BY <2>1, <2>2
<1>11. Resolve(l).turn = t
  BY DEF Resolve
<1> HIDE DEF u, b
<1>4. /\ Bound(m, "resume") <=> Bound(u, "resume")
      /\ Bound(m, "resume") => m["resume"] = u["resume"]
  BY <1>3 DEF Merge, Bound
<1> HIDE DEF m
<1>5. /\ Bound(t, "resume") <=> Bound(m, "resume")
      /\ Bound(t, "resume") => t["resume"] = m["resume"]
  <2>1. DOMAIN t = DOMAIN m \cup {q \in Askable : UsableFor(a, q) # {}}
    BY DEF Answered
  <2>2. \A q \in DOMAIN t : Bound(m, q) => t[q] = m[q]
    BY DEF Answered
  <2>3. "resume" \notin Askable
    BY DEF Askable
  <2> HIDE DEF t, a
  <2>4. QED
    BY <2>1, <2>2, <2>3 DEF Bound
<1>6. Prepare(l).turn = t
  <2>2. DOMAIN Resolve(l) = {"tag", "turn", "codes", "asks"}
    BY DEF Resolve
  <2>3. QED
    BY <1>11, <2>2 DEF Prepare
<1> HIDE DEF t
<1>7. "resume" \in TurnPaths("claude") /\ "resume" \in TurnPaths("codex")
  BY DEF TurnPaths, SharedPaths
<1>8. DefaultOf("resume") = None
  BY DEF DefaultOf, ClaudeDefaults, CodexDefaults
<1>9. TurnOf(t)["resume"] = IF Bound(t, "resume") THEN t["resume"] ELSE None
  BY <1>7, <1>8 DEF TurnOf, ClaudeTurn, CodexTurn, Filled
<1>10. QED
  BY <1>1, <1>4, <1>5, <1>6, <1>9

\* ConversationInv and ResumesWhatItNames of one call, given what was minted.
Minted(v, minted) == v.continuation \in DOMAIN minted

Underway(c, v, minted) ==
  /\ Tool[c] = "plan"
  /\ Bound(v.explicit, "provider") => v.explicit["provider"] \in ProviderIds
  /\ IF v.continuation = None THEN ~Bound(v.explicit, "resume")
     ELSE /\ Minted(v, minted)
          /\ BoundTo(v.explicit, "resume", minted[v.continuation].session)
          /\ v.scope = minted[v.continuation].scope

Resumed(c, v, minted) ==
  IF v.continuation = None
    THEN v.turn.resume = IF Tool[c] = "plan" THEN HostSession ELSE None
  ELSE /\ Minted(v, minted)
       /\ v.turn.resume = minted[v.continuation].session
       /\ v.scope = minted[v.continuation].scope

Conversed(c, v, minted) ==
  /\ v.pc = "new" => v.turn = None
  /\ v.pc \in {"planning", "asking"} => Underway(c, v, minted)
  /\ v.turn # None => Resumed(c, v, minted)

\* RoundsInv of one call.
Rounded(v) ==
  /\ v.round \in 0..2
  /\ v.answers \in Seq(FormAnswer)
  /\ v.pc = "new" => v.round = 0 /\ v.answers = <<>>
  /\ v.pc \in {"planning", "asking"} /\ v.round # 0 => IdsOf(v.answers) # {}
  /\ v.pc = "planning" /\ v.round = 2 =>
       Askable \subseteq IdsOf(v.answers) \/ ~(IdsOf(v.answers) \subseteq Askable)
  /\ v.pc = "asking" =>
       /\ v.round # 2
       /\ v.asks # {} /\ v.asks \subseteq Askable \ IdsOf(v.answers)
       /\ IdsOf(v.answers) \subseteq Askable

CallsPlanned == \A c \in Calls : Conversed(c, call[c], mints) /\ Rounded(call[c])

LEMMA PlannedAll == PlanInv <=> CallsPlanned
BY DEF PlanInv, ConversationInv, ResumesWhatItNames, RoundsInv, CallsPlanned,
   Conversed, Underway, Resumed, Minted, Rounded, IdsOf, AnsweredPaths,
   FormAnswer, Started

LEMMA PlannedAllNext == CallsPlanned' => PlanInv'
BY DEF PlanInv, ConversationInv, ResumesWhatItNames, RoundsInv, CallsPlanned,
   Conversed, Underway, Resumed, Minted, Rounded, IdsOf, AnsweredPaths,
   FormAnswer, Started

\* Later mints change nothing of it.
LEMMA ConversedKept ==
  ASSUME MintsGrow, NEW c, NEW v, Conversed(c, v, mints)
  PROVE  Conversed(c, v, mints')
BY DEF MintsGrow, Conversed, Underway, Resumed, Minted

LEMMA PlansKept ==
  ASSUME CallsPlanned, MintsGrow, call' = call
  PROVE  PlanInv'
BY ConversedKept, PlannedAllNext DEF CallsPlanned

\* A step of one call leaves the others as they were.
LEMMA PlanStep ==
  ASSUME DOMAIN call = Calls, CallsPlanned, MintsGrow, NEW c \in Calls, NEW v,
         call' = [call EXCEPT ![c] = v], Conversed(c, v, mints), Rounded(v)
  PROVE  PlanInv'
<1>1. ASSUME NEW d \in Calls
      PROVE  Conversed(d, call'[d], mints') /\ Rounded(call'[d])
  <2>1. CASE d = c
    BY <2>1, ConversedKept
  <2>2. CASE d # c
    <3>1. call'[d] = call[d] /\ Conversed(d, call[d], mints) /\ Rounded(call[d])
      BY <2>2 DEF CallsPlanned
    <3>2. QED
      BY <3>1, ConversedKept
  <2>3. QED
    BY <2>1, <2>2
<1>2. QED
  BY <1>1, PlannedAllNext DEF CallsPlanned

LEMMA NoAnswers == <<>> \in Seq(FormAnswer)
<1> HIDE DEF FormAnswer
<1>1. QED
  OBVIOUS

\* A call that leaves its plan keeps what it ran.
LEMMA PlanLeft ==
  ASSUME NEW c, NEW r, Conversed(c, r, mints), Rounded(r), NEW v,
         v.turn = r.turn, v.continuation = r.continuation, v.scope = r.scope,
         v.round = r.round, v.answers \in {r.answers, <<>>},
         v.pc \in {"running", "settled", "done"}
  PROVE  Conversed(c, v, mints) /\ Rounded(v)
<1>1. v.pc \notin {"new", "planning", "asking"}
  OBVIOUS
<1>2. Conversed(c, v, mints)
  BY <1>1 DEF Conversed, Resumed, Minted
<1>3. v.round \in 0..2 /\ v.answers \in Seq(FormAnswer)
  BY NoAnswers DEF Rounded
<1>4. Rounded(v)
  BY <1>1, <1>3 DEF Rounded
<1>5. QED
  BY <1>2, <1>4

LEMMA DoneKeeps ==
  ASSUME NEW r, DOMAIN r = DOMAIN NewCall, NEW x
  PROVE  /\ Done(r, x).turn = r.turn /\ Done(r, x).scope = r.scope
         /\ Done(r, x).continuation = r.continuation
         /\ Done(r, x).round = r.round /\ Done(r, x).answers = <<>>
         /\ Done(r, x).pc = "done"
BY DEF Done, NewCall

\* A call that is over.
LEMMA PlanDone ==
  ASSUME NEW c, NEW r, DOMAIN r = DOMAIN NewCall, Conversed(c, r, mints),
         Rounded(r), NEW x
  PROVE  Conversed(c, Done(r, x), mints) /\ Rounded(Done(r, x))
<1> DEFINE v == Done(r, x)
<1>1. /\ v.turn = r.turn /\ v.scope = r.scope
      /\ v.continuation = r.continuation /\ v.round = r.round
      /\ v.answers = <<>> /\ v.pc = "done"
  BY DoneKeeps
<1> HIDE DEF v
<1>2. QED
  BY <1>1, PlanLeft DEF v

\* A call that starts its turn.
LEMMA PlanStarts ==
  ASSUME NEW c, NEW r, DOMAIN r = DOMAIN NewCall, NEW turn,
         IF r.continuation = None
           THEN turn.resume = IF Tool[c] = "plan" THEN HostSession ELSE None
         ELSE /\ Minted(r, mints)
              /\ turn.resume = mints[r.continuation].session
              /\ r.scope = mints[r.continuation].scope
  PROVE  Conversed(c, Start(r, turn), mints) /\ Rounded(Start(r, turn))
<1> DEFINE v == Start(r, turn)
<1>1. /\ v.turn = turn /\ v.scope = r.scope /\ v.pc = "running"
      /\ v.continuation = r.continuation /\ v.round = 0 /\ v.answers = <<>>
  BY DEF Start, NewCall
<1> HIDE DEF v
<1>2. Conversed(c, v, mints)
  BY <1>1 DEF Conversed, Resumed, Minted
<1>3. Rounded(v)
  BY <1>1 DEF Rounded
<1>4. QED
  BY <1>2, <1>3 DEF v

\* The explicit layer of a call.
LEMMA ExplicitFacts ==
  ASSUME NEW prompt, NEW named, NEW session,
         session # None => session.provider \in ProviderIds
  PROVE  LET e == Explicit(prompt, named, session)
         IN /\ Bound(e, "provider") => e["provider"] \in ProviderIds
            /\ IF session = None THEN ~Bound(e, "resume")
               ELSE BoundTo(e, "resume", session)
BY DEF Explicit, Bound, BoundTo

\* A call arrives with a conversation that was minted in its scope, with
\* none, or not at all.
LEMMA EnterPlan ==
  ASSUME NEW c, NEW r, DOMAIN r = DOMAIN NewCall, r.turn = None, r.round = 0,
         r.answers = <<>>, NEW prompt, NEW named, NEW session,
         r.explicit = Explicit(prompt, named, session),
         IF r.continuation = None THEN session = None
         ELSE /\ session # None /\ Minted(r, mints)
              /\ session = mints[r.continuation].session
              /\ r.scope = mints[r.continuation].scope
  PROVE  LET v == Enter(c, r, session)
         IN Conversed(c, v, mints) /\ Rounded(v)
<1>1. CASE Tool[c] # "plan"
  <2> DEFINE turn == [provider |-> Tool[c], resume |-> session]
  <2>1. turn.resume = session
    OBVIOUS
  <2>2. Enter(c, r, session) = Start(r, turn)
    BY <1>1 DEF Enter
  <2> HIDE DEF turn
  <2>3. QED
    BY <1>1, <2>1, <2>2, PlanStarts
<1>2. CASE Tool[c] = "plan" /\ session # None /\ session.provider \notin ProviderIds
  <2> DEFINE v == Done(r, Refusal("Unsupported"))
  <2>1. v.turn = None /\ v.round = 0 /\ v.answers = <<>> /\ v.pc = "done"
    BY DoneKeeps
  <2>2. Enter(c, r, session) = v
    BY <1>2 DEF Enter
  <2> HIDE DEF v
  <2>3. Conversed(c, v, mints)
    BY <2>1 DEF Conversed
  <2>4. Rounded(v)
    BY <2>1 DEF Rounded
  <2>5. QED
    BY <2>2, <2>3, <2>4
<1>3. CASE Tool[c] = "plan" /\ (session # None => session.provider \in ProviderIds)
  <2> DEFINE v == [r EXCEPT !.pc = "planning"]
  <2>1. Enter(c, r, session) = v
    BY <1>3 DEF Enter
  <2>2. /\ v.pc = "planning" /\ v.turn = None /\ v.round = 0 /\ v.answers = <<>>
        /\ v.explicit = r.explicit /\ v.continuation = r.continuation
        /\ v.scope = r.scope
    BY DEF NewCall
  <2> HIDE DEF v
  <2>3. /\ Bound(v.explicit, "provider") => v.explicit["provider"] \in ProviderIds
        /\ IF session = None THEN ~Bound(v.explicit, "resume")
           ELSE BoundTo(v.explicit, "resume", session)
    BY <1>3, <2>2, ExplicitFacts
  <2>4. Underway(c, v, mints)
    BY <1>3, <2>2, <2>3 DEF Underway, Minted
  <2>5. QED
    BY <2>1, <2>2, <2>4 DEF Conversed, Rounded
<1>4. QED
  BY <1>1, <1>2, <1>3

\* The plan invariant, action by action.
LEMMA ArrivePlan ==
  ASSUME StoreInv, CallsAnswered, CallsPlanned, NEW c \in Calls, Arrive(c)
  PROVE  \E v : /\ call' = [call EXCEPT ![c] = v]
                /\ Conversed(c, v, mints) /\ Rounded(v)
<1>1. /\ DOMAIN call[c] = DOMAIN NewCall /\ call[c].turn = None
      /\ call[c].round = 0 /\ call[c].pc = "new"
  BY BeforeSettlement DEF Arrive, CallsPlanned, Conversed, Rounded
<1>2. call[c].answers = <<>>
  BY <1>1 DEF CallsPlanned, Rounded
<1>3. PICK scope \in Scopes[c], prompt \in Prompts, named \in Named,
           id \in {None, Stranger} \cup DOMAIN mints :
       LET request == [call[c] EXCEPT !.scope = scope, !.continuation = id]
       IN /\ Tool[c] # "plan" => prompt = "text" /\ named = None
          /\ \/ /\ scope = None
                /\ call' = [call EXCEPT ![c] =
                     Done(request, Refusal("InvalidRequest"))]
             \/ /\ scope # None /\ id = None
                /\ call' = [call EXCEPT ![c] =
                     Enter(c, [request EXCEPT
                                 !.explicit = Explicit(prompt, named, None)],
                           None)]
             \/ /\ scope # None /\ id # None
                /\ \E answer \in ContinuationAnswers(id, scope)
                                   \cup {StoreFails} :
                     call' = [call EXCEPT ![c] =
                       IF answer.error # None
                         THEN Done(request, Refusal(answer.error))
                         ELSE Enter(c, [request EXCEPT !.explicit =
                                Explicit(prompt, None, answer.session)],
                                answer.session)]
  BY DEF Arrive
<1> DEFINE request == [call[c] EXCEPT !.scope = scope, !.continuation = id]
           with(explicit) == [request EXCEPT !.explicit = explicit]
<1>4. /\ DOMAIN request = DOMAIN NewCall /\ request.turn = None
      /\ request.round = 0 /\ request.answers = <<>>
      /\ request.scope = scope /\ request.continuation = id
  BY <1>1, <1>2 DEF NewCall
<1> HIDE DEF request
<1>5. ASSUME NEW e
      PROVE  /\ DOMAIN with(e) = DOMAIN NewCall /\ with(e).turn = None
             /\ with(e).round = 0 /\ with(e).answers = <<>>
             /\ with(e).scope = scope /\ with(e).continuation = id
             /\ with(e).explicit = e
  BY <1>4 DEF NewCall
<1> HIDE DEF with
<1>6. ASSUME NEW x
      PROVE  Conversed(c, Done(request, x), mints) /\ Rounded(Done(request, x))
  <2> DEFINE v == Done(request, x)
  <2>1. v.turn = None /\ v.round = 0 /\ v.answers = <<>> /\ v.pc = "done"
    BY <1>4, DoneKeeps
  <2> HIDE DEF v
  <2>2. Conversed(c, v, mints) /\ Rounded(v)
    BY <2>1 DEF Conversed, Rounded
  <2>3. QED
    BY <2>2 DEF v
<1>7. CASE call' = [call EXCEPT ![c] = Done(request, Refusal("InvalidRequest"))]
  BY <1>6, <1>7
<1>8. CASE /\ id = None
           /\ call' = [call EXCEPT ![c] =
                         Enter(c, with(Explicit(prompt, named, None)), None)]
  <2> DEFINE e == Explicit(prompt, named, None)
             v == Enter(c, with(e), None)
  <2>1. Conversed(c, v, mints) /\ Rounded(v)
    BY <1>5, <1>8, EnterPlan
  <2>2. call' = [call EXCEPT ![c] = v]
    BY <1>8
  <2> HIDE DEF v
  <2>3. QED
    BY <2>1, <2>2
<1>9. CASE /\ id # None
           /\ \E answer \in ContinuationAnswers(id, scope) \cup {StoreFails} :
                call' = [call EXCEPT ![c] =
                  IF answer.error # None
                    THEN Done(request, Refusal(answer.error))
                    ELSE Enter(c, with(Explicit(prompt, None, answer.session)),
                               answer.session)]
  <2>1. PICK answer \in ContinuationAnswers(id, scope) \cup {StoreFails} :
          call' = [call EXCEPT ![c] =
            IF answer.error # None
              THEN Done(request, Refusal(answer.error))
              ELSE Enter(c, with(Explicit(prompt, None, answer.session)),
                         answer.session)]
    BY <1>9
  <2>2. CASE answer.error # None
    BY <1>6, <2>1, <2>2
  <2>3. CASE answer.error = None
    <3> DEFINE session == answer.session
               e == Explicit(prompt, None, session)
               v == Enter(c, with(e), session)
    <3>1. call' = [call EXCEPT ![c] = v]
      BY <2>1, <2>3
    <3>2. answer.session = Resolve_(id, scope) /\ Resolve_(id, scope) # None
      BY <2>1, <2>3, NoneAssumption DEF ContinuationAnswers, StoreFails
    <3>3. id \in DOMAIN entries /\ entries[id].scope = scope
          /\ session = entries[id].session /\ session # None
      BY <3>2 DEF Resolve_
    <3>4. id \in DOMAIN mints /\ entries[id] = mints[id]
      BY <3>3 DEF StoreInv
    <3>5. Minted(with(e), mints)
      BY <1>5, <3>4 DEF Minted
    <3> HIDE DEF session
    <3>6. Conversed(c, v, mints) /\ Rounded(v)
      BY <1>5, <1>9, <3>3, <3>4, <3>5, EnterPlan
    <3> HIDE DEF v
    <3>7. QED
      BY <3>1, <3>6
  <2>4. QED
    BY <2>2, <2>3
<1>10. QED
  BY <1>3, <1>7, <1>8, <1>9 DEF request, with

\* A ready plan runs in the conversation that its explicit layer names; one
\* that asks has used its answers.
LEMMA PlanRoundPlan ==
  ASSUME CallsAnswered, CallsPlanned, NEW c \in Calls, PlanRound(c)
  PROVE  \E v : /\ call' = [call EXCEPT ![c] = v]
                /\ Conversed(c, v, mints) /\ Rounded(v)
<1> DEFINE r == call[c]
           l == LayersOf(c)
           plan == Prepare(l)
           turn == [provider |-> plan.turn["provider"],
                    resume |-> TurnOf(plan.turn)["resume"]]
           asking == [r EXCEPT !.pc = "asking", !.asks = plan.asks]
<1>1. /\ DOMAIN r = DOMAIN NewCall /\ r.pc = "planning"
      /\ Conversed(c, r, mints) /\ Rounded(r) /\ Underway(c, r, mints)
  BY BeforeSettlement DEF PlanRound, CallsPlanned, Conversed
<1>2. call' = [call EXCEPT ![c] =
        CASE plan.tag = "ready" -> Start(r, turn)
          [] plan.tag = "invalid" -> Done(r, Refusal("InvalidRequest"))
          [] plan.tag = "missing" -> asking]
  BY DEF PlanRound
<1>3. plan.tag \in {"ready", "invalid", "missing"}
  BY PrepareTag
<1>4. /\ l.profile = Unbound /\ l.baseline = [p \in ProviderIds |-> Unbound]
      /\ l.explicit = r.explicit /\ l.defaults = Defaults
      /\ l.answers = r.answers
  BY DEF LayersOf
<1> HIDE DEF l, r
<1>5. turn.resume = IF Bound(r.explicit, "resume") THEN r.explicit["resume"]
                    ELSE HostSession
  <2>1. TurnOf(plan.turn)["resume"] =
          IF Bound(l.explicit, "resume") THEN l.explicit["resume"]
          ELSE IF Bound(l.defaults, "resume") THEN l.defaults["resume"]
          ELSE None
    BY <1>1, <1>4, DefaultsAssumption, ResumeKept DEF Underway, Rounded
  <2>2. QED
    BY <1>4, <2>1 DEF HostSession
<1>6. plan.tag = "missing" =>
        /\ plan.asks # {} /\ IdsOf(r.answers) \subseteq Askable
        /\ plan.asks \subseteq Askable \ IdsOf(r.answers)
  BY <1>4, MissingFacts
<1> HIDE DEF plan, turn
<1>7. CASE plan.tag = "ready"
  <2>1. Conversed(c, Start(r, turn), mints) /\ Rounded(Start(r, turn))
    <3>1. CASE r.continuation = None
      BY <1>1, <1>5, <3>1, PlanStarts DEF Underway
    <3>2. CASE r.continuation # None
      BY <1>1, <1>5, <3>2, PlanStarts DEF Underway, BoundTo
    <3>3. QED
      BY <3>1, <3>2
  <2>2. call' = [call EXCEPT ![c] = Start(r, turn)]
    BY <1>2, <1>7
  <2>3. QED
    BY <2>1, <2>2
<1>8. CASE plan.tag = "invalid"
  <2> DEFINE v == Done(r, Refusal("InvalidRequest"))
  <2>1. Conversed(c, v, mints) /\ Rounded(v)
    BY <1>1, PlanDone
  <2>2. call' = [call EXCEPT ![c] = v]
    BY <1>2, <1>8
  <2> HIDE DEF v
  <2>3. QED
    BY <2>1, <2>2
<1>9. CASE plan.tag = "missing"
  <2>1. call' = [call EXCEPT ![c] = asking]
    BY <1>2, <1>9
  <2>2. /\ asking.pc = "asking" /\ asking.asks = plan.asks
        /\ asking.turn = r.turn /\ asking.explicit = r.explicit
        /\ asking.continuation = r.continuation /\ asking.scope = r.scope
        /\ asking.round = r.round /\ asking.answers = r.answers
    BY <1>1 DEF NewCall
  <2> HIDE DEF asking
  <2>3. Conversed(c, asking, mints)
    BY <1>1, <2>2 DEF Conversed, Underway, Resumed, Minted
  <2>4. Rounded(asking)
    <3>1. asking.round # 2
      BY <1>1, <1>6, <1>9, <2>2 DEF Rounded
    <3>2. QED
      BY <1>1, <1>6, <1>9, <2>2, <3>1 DEF Rounded
  <2>5. QED
    BY <2>1, <2>3, <2>4
<1>10. QED
  BY <1>3, <1>7, <1>8, <1>9

\* An answer counts, and two of them leave nothing to ask.
LEMMA ElicitPlan ==
  ASSUME CallsAnswered, CallsPlanned, NEW c \in Calls,
         ElicitRefused(c) \/ ElicitAccepted(c)
  PROVE  \E v : /\ call' = [call EXCEPT ![c] = v]
                /\ Conversed(c, v, mints) /\ Rounded(v)
<1> DEFINE r == call[c]
<1>1. /\ DOMAIN r = DOMAIN NewCall /\ r.pc = "asking"
      /\ Conversed(c, r, mints) /\ Rounded(r) /\ Underway(c, r, mints)
  BY BeforeSettlement DEF ElicitRefused, ElicitAccepted, CallsPlanned, Conversed
<1>2. \A x : Conversed(c, Done(r, x), mints) /\ Rounded(Done(r, x))
  BY <1>1, PlanDone
<1>3. CASE ElicitRefused(c)
  BY <1>2, <1>3 DEF ElicitRefused
<1>4. CASE ElicitAccepted(c)
  <2> DEFINE answered(form) == [r EXCEPT !.round = @ + 1, !.answers = @ \o form]
             again(form) == [answered(form) EXCEPT !.pc = "planning"]
             over(form) == [answered(form) EXCEPT !.pc = "done",
                              !.response = Refusal("InvalidRequest")]
  <2>1. PICK form \in FormContents(r.asks) :
          call' = [call EXCEPT ![c] =
            IF form = <<>> THEN Done(r, Refusal("InvalidRequest"))
            ELSE IF answered(form).round < Rounds THEN again(form)
            ELSE over(form)]
    BY <1>4 DEF ElicitAccepted
  <2>2. CASE form = <<>>
    BY <1>2, <2>1, <2>2
  <2>3. CASE form # <<>>
    <3> DEFINE v == again(form)
               w == over(form)
    <3>1. /\ DOMAIN answered(form) = DOMAIN NewCall
          /\ answered(form).round = r.round + 1
          /\ answered(form).answers = r.answers \o form
          /\ answered(form).turn = r.turn
          /\ answered(form).explicit = r.explicit
          /\ answered(form).continuation = r.continuation
          /\ answered(form).scope = r.scope
      BY <1>1 DEF NewCall
    <3> HIDE DEF answered
    <3>2. /\ v.pc = "planning" /\ v.round = r.round + 1
          /\ v.answers = r.answers \o form /\ v.turn = r.turn
          /\ v.explicit = r.explicit /\ v.continuation = r.continuation
          /\ v.scope = r.scope
          /\ w.pc = "done" /\ w.round = r.round + 1
          /\ w.answers = r.answers \o form /\ w.turn = r.turn
          /\ w.continuation = r.continuation /\ w.scope = r.scope
      BY <3>1 DEF NewCall
    <3>3. call' = [call EXCEPT ![c] = v] \/ call' = [call EXCEPT ![c] = w]
      BY <2>1, <2>3
    <3> HIDE DEF v, w, r
    <3> DEFINE old == IdsOf(r.answers)
               all == IdsOf(r.answers \o form)
    <3>4. /\ r.round \in 0..2 /\ r.round # 2 /\ r.answers \in Seq(FormAnswer)
          /\ r.round # 0 => old # {}
          /\ r.asks \subseteq Askable \ old /\ old \subseteq Askable
      BY <1>1 DEF Rounded
    <3>5. /\ form \in Seq(FormAnswer)
          /\ \E i \in DOMAIN form : form[i].id \in r.asks \cup {"model"}
      BY <2>3, <3>4, FormFacts
    <3>6. /\ r.answers \o form \in Seq(FormAnswer)
          /\ old \cup IdsOf(form) \subseteq all
      BY <3>4, <3>5, IdsGrow
    <3>7. PICK x \in IdsOf(form) : x \in r.asks \cup {"model"}
      BY <3>5 DEF IdsOf
    <3> HIDE DEF old, all
    <3>8. r.round # 0 => Askable \subseteq all \/ ~(all \subseteq Askable)
      BY <3>4, <3>6, <3>7 DEF Askable
    <3>9. r.round \in 0..1
      BY <3>4
    <3>10. Rounded(v)
      BY <3>2, <3>6, <3>7, <3>8, <3>9 DEF Rounded, all
    <3>11. Rounded(w)
      BY <3>2, <3>6, <3>9 DEF Rounded
    <3>12. Conversed(c, v, mints) /\ Conversed(c, w, mints)
      BY <1>1, <3>2 DEF Conversed, Underway, Resumed, Minted, r
    <3>13. QED
      BY <3>3, <3>10, <3>11, <3>12
  <2>4. QED
    BY <2>2, <2>3
<1>5. QED
  BY <1>3, <1>4

\* The other steps of a call keep what it ran.
LEMMA RunningPlan ==
  ASSUME CallsAnswered, CallsPlanned, NEW c \in Calls,
         Cancel(c) \/ Forward(c) \/ Settle(c) \/ Finish(c)
  PROVE  \E v : /\ call' = [call EXCEPT ![c] = v]
                /\ Conversed(c, v, mints) /\ Rounded(v)
<1> DEFINE r == call[c]
<1>1. /\ DOMAIN r = DOMAIN NewCall
      /\ Conversed(c, r, mints) /\ Rounded(r)
  BY DEF CallsAnswered, Told, CallsPlanned
<1>2. CASE Cancel(c)
  <2> DEFINE v == [r EXCEPT !.incoming = TRUE]
  <2>1. call' = [call EXCEPT ![c] = v]
    BY <1>2 DEF Cancel
  <2>2. /\ v.pc = r.pc /\ v.turn = r.turn /\ v.explicit = r.explicit
        /\ v.continuation = r.continuation /\ v.scope = r.scope
        /\ v.round = r.round /\ v.answers = r.answers /\ v.asks = r.asks
    BY <1>1 DEF NewCall
  <2> HIDE DEF v, r
  <2>3. Conversed(c, v, mints)
    BY <1>1, <2>2 DEF Conversed, Underway, Resumed, Minted
  <2>4. Rounded(v)
    BY <1>1, <2>2 DEF Rounded
  <2>5. QED
    BY <2>1, <2>3, <2>4
<1>3. CASE Forward(c)
  <2> DEFINE v == [r EXCEPT !.outgoing = TRUE]
  <2>1. call' = [call EXCEPT ![c] = v] /\ r.pc = "running"
    BY <1>3 DEF Forward
  <2>2. /\ v.pc = r.pc /\ v.turn = r.turn
        /\ v.continuation = r.continuation /\ v.scope = r.scope
        /\ v.round = r.round /\ v.answers = r.answers
    BY <1>1 DEF NewCall
  <2> HIDE DEF v, r
  <2>3. QED
    BY <1>1, <2>1, <2>2, PlanLeft
<1>4. CASE Settle(c)
  <2>1. PICK settled :
          call' = [call EXCEPT ![c] =
            [r EXCEPT !.pc = "settled", !.settled = settled,
                      !.incoming = FALSE, !.outgoing = FALSE]]
    BY <1>4 DEF Settle
  <2> DEFINE v == [r EXCEPT !.pc = "settled", !.settled = settled,
                            !.incoming = FALSE, !.outgoing = FALSE]
  <2>2. /\ v.pc = "settled" /\ v.turn = r.turn
        /\ v.continuation = r.continuation /\ v.scope = r.scope
        /\ v.round = r.round /\ v.answers = r.answers
    BY <1>1 DEF NewCall
  <2>3. call' = [call EXCEPT ![c] = v]
    BY <2>1
  <2> HIDE DEF v, r
  <2>4. QED
    BY <1>1, <2>2, <2>3, PlanLeft
<1>5. CASE Finish(c)
  <2>1. PICK x : call' = [call EXCEPT ![c] = Done(r, x)]
    BY <1>5 DEF Finish
  <2>2. Conversed(c, Done(r, x), mints) /\ Rounded(Done(r, x))
    BY <1>1, PlanDone
  <2>3. QED
    BY <2>1, <2>2
<1>6. QED
  BY <1>2, <1>3, <1>4, <1>5

\* Mints only grow.
LEMMA MintsKept == StoreInv /\ Next => MintsGrow
<1> SUFFICES ASSUME StoreInv, Next PROVE MintsGrow
  OBVIOUS
<1>1. ASSUME mints' = mints
      PROVE  MintsGrow
  BY <1>1 DEF MintsGrow
<1>2. ASSUME NEW c \in Calls,
             \/ Arrive(c) \/ PlanRound(c) \/ ElicitRefused(c)
             \/ ElicitAccepted(c) \/ Cancel(c) \/ Forward(c) \/ Settle(c)
             \/ Count(c) \/ Report(c)
      PROVE  MintsGrow
  BY <1>1, <1>2 DEF Arrive, PlanRound, ElicitRefused, ElicitAccepted, Cancel,
     Forward, Settle, Count, Report, history
<1>3. ASSUME NEW c \in Calls, Finish(c)
      PROVE  MintsGrow
  <2>1. CASE /\ Mint(call[c].settled.session, call[c].scope)
             /\ forgotten' = forgotten
    BY <2>1, MintStore
  <2>2. CASE UNCHANGED history
    BY <1>1, <2>2 DEF history
  <2>3. QED
    BY <1>3, <2>1, <2>2 DEF Finish
<1>4. ASSUME NEW scope, ForgetScope(scope)
      PROVE  MintsGrow
  BY <1>1, <1>4 DEF ForgetScope
<1>5. QED
  BY <1>2, <1>3, <1>4 DEF Next

LEMMA InitPlanInv == Init => PlanInv
<1> SUFFICES ASSUME Init PROVE PlanInv
  OBVIOUS
<1>1. \A c \in Calls : call[c] = NewCall
  BY DEF Init
<1>2. /\ NewCall.pc = "new" /\ NewCall.turn = None /\ NewCall.round = 0
      /\ NewCall.answers = <<>>
  BY DEF NewCall
<1>3. \A c \in Calls : Conversed(c, call[c], mints)
  BY <1>1, <1>2 DEF Conversed
<1>4. \A c \in Calls : Rounded(call[c])
  <2>1. Rounded(NewCall)
    BY <1>2, NoAnswers DEF Rounded
  <2>2. QED
    BY <1>1, <2>1
<1>5. QED
  BY <1>3, <1>4, PlannedAll DEF CallsPlanned

LEMMA NextPlanInv == IInv /\ PlanInv /\ [Next]_vars => PlanInv'
<1> SUFFICES ASSUME IInv, PlanInv, [Next]_vars PROVE PlanInv'
  OBVIOUS
<1>1. StoreInv /\ CallsAnswered /\ CallsPlanned /\ DOMAIN call = Calls
  BY AnsweredAll, PlannedAll DEF IInv, CallsAnswered
<1>2. CASE UNCHANGED vars
  <2>1. UNCHANGED <<call, mints>>
    BY <1>2 DEF vars
  <2>2. MintsGrow
    BY <2>1 DEF MintsGrow
  <2>3. QED
    BY <1>1, <2>1, <2>2, PlansKept
<1>3. CASE Next
  <2>1. MintsGrow
    BY <1>1, <1>3, MintsKept
  <2>2. ASSUME NEW c \in Calls,
               \E v : /\ call' = [call EXCEPT ![c] = v]
                      /\ Conversed(c, v, mints) /\ Rounded(v)
        PROVE  PlanInv'
    BY <1>1, <2>1, <2>2, PlanStep
  <2>3. ASSUME NEW c \in Calls, Arrive(c)
        PROVE  PlanInv'
    BY <1>1, <2>2, <2>3, ArrivePlan
  <2>4. ASSUME NEW c \in Calls, PlanRound(c)
        PROVE  PlanInv'
    BY <1>1, <2>2, <2>4, PlanRoundPlan
  <2>5. ASSUME NEW c \in Calls, ElicitRefused(c) \/ ElicitAccepted(c)
        PROVE  PlanInv'
    BY <1>1, <2>2, <2>5, ElicitPlan
  <2>6. ASSUME NEW c \in Calls, Cancel(c) \/ Forward(c) \/ Settle(c) \/ Finish(c)
        PROVE  PlanInv'
    BY <1>1, <2>2, <2>6, RunningPlan
  <2>7. ASSUME NEW c \in Calls, Count(c) \/ Report(c)
        PROVE  PlanInv'
    <3>1. call' = call
      BY <2>7 DEF Count, Report
    <3>2. QED
      BY <1>1, <2>1, <3>1, PlansKept
  <2>8. ASSUME NEW scope, ForgetScope(scope)
        PROVE  PlanInv'
    <3>1. call' = call
      BY <2>8 DEF ForgetScope
    <3>2. QED
      BY <1>1, <2>1, <3>1, PlansKept
  <2>9. QED
    BY <1>3, <2>3, <2>4, <2>5, <2>6, <2>7, <2>8 DEF Next
<1>4. QED
  BY <1>2, <1>3

\* In every reachable state a plan on its way says what its call named, and
\* each of its rounds was of use (plan.rs of crates/tower-agent-mcp).
THEOREM PlanInvariance == Spec => []PlanInv
<1>1. Init => PlanInv
  BY InitPlanInv
<1>2. IInv /\ PlanInv /\ [Next]_vars => PlanInv'
  BY NextPlanInv
<1>3. QED
  BY Invariance, <1>1, <1>2, PTL DEF Spec

\* A call runs the conversation that it names, in the scope that minted it,
\* or does not run, however many names are minted, evicted and forgotten
\* while it is planned (resolve_continuation, run of the plan tool).
THEOREM CallsResumeWhatTheyName == Spec => []ResumesWhatItNames
<1>1. PlanInv => ResumesWhatItNames
  BY DEF PlanInv
<1>2. QED
  BY PlanInvariance, <1>1, PTL

\* With three rounds or more (DEFAULT_MAX_ELICITATION_ROUNDS is 4) no question
\* is asked twice and no plan is given up that could have run (run of the
\* plan tool).
THEOREM AnswersAreHeard ==
  ASSUME MaxRounds >= 3
  PROVE  Spec => []AnswersConverge
<1>1. Rounds >= 3
  BY RoundsAssumption DEF Rounds
<1>2. PlanInv => AnswersConverge
  <2> SUFFICES ASSUME PlanInv, NEW c \in Calls
               PROVE  /\ call[c].pc = "asking" =>
                           call[c].asks \cap AnsweredPaths(call[c]) = {}
                      /\ call[c].round # Rounds
    BY DEF AnswersConverge
  <2>1. RoundsInv
    BY DEF PlanInv
  <2>2. call[c].round \in 0..2
    BY <2>1 DEF RoundsInv
  <2>3. call[c].pc = "asking" => call[c].asks \cap AnsweredPaths(call[c]) = {}
    BY <2>1 DEF RoundsInv
  <2>4. Rounds \in Nat
    BY RoundsAssumption DEF Rounds
  <2>5. QED
    BY <1>1, <2>2, <2>3, <2>4
<1>3. QED
  BY PlanInvariance, <1>2, PTL

=============================================================================
