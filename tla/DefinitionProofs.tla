-------------------------- MODULE DefinitionProofs --------------------------
(***************************************************************************)
(* What is proved about module Definition, for every finite set of         *)
(* identifiers and all authored workflows: Kahn's loop keeps its in-degrees *)
(* exact, so its verdict decides acyclicity, its order is the canonical    *)
(* one, and an accepted definition is what was authored.                   *)
(***************************************************************************)
EXTENDS Definition, FiniteSetTheorems, NaturalsInduction, TLAPS

(***************************************************************************)
(* Sequences and counts                                                    *)
(***************************************************************************)

\* The elements of a list that grows.
LEMMA AppendElements ==
  ASSUME NEW S, NEW q \in Seq(S), NEW x \in S
  PROVE  ElementsOf(Append(q, x)) = ElementsOf(q) \cup {x}
<1>1. /\ DOMAIN q = 1..Len(q)
      /\ Len(q) \in Nat
      /\ DOMAIN Append(q, x) = 1..(Len(q) + 1)
      /\ \A i \in 1..Len(q) : Append(q, x)[i] = q[i]
      /\ Append(q, x)[Len(q) + 1] = x
  OBVIOUS
<1>2. 1..(Len(q) + 1) = 1..Len(q) \cup {Len(q) + 1}
  BY <1>1
<1>3. QED
  BY <1>1, <1>2, ZenonT(30) DEF ElementsOf

LEMMA ElementsIn ==
  ASSUME NEW S, NEW q \in Seq(S)
  PROVE  ElementsOf(q) \subseteq S
BY DEF ElementsOf

LEMMA NoElements == ElementsOf(<<>>) = {}
BY DEF ElementsOf

\* Sets of identifiers have a cardinality.
LEMMA FiniteIds ==
  ASSUME NEW T \in SUBSET Ids
  PROVE  IsFiniteSet(T) /\ Cardinality(T) \in Nat
BY IdsAssumption, FS_Subset, FS_CardinalityType

\* One dependency less.
LEMMA CountDown ==
  ASSUME NEW T \in SUBSET Ids, NEW R, NEW s \in T \ R
  PROVE  /\ Cardinality(T \ R) \in Nat \ {0}
         /\ Cardinality(T \ (R \cup {s})) = Cardinality(T \ R) - 1
         /\ Cardinality(T \ R) - 1 = 0 <=> T \subseteq R \cup {s}
<1>1. /\ IsFiniteSet(T \ R)
      /\ Cardinality(T \ R) \in Nat
      /\ IsFiniteSet(T \ (R \cup {s}))
  BY FiniteIds
<1>2. T \ (R \cup {s}) = (T \ R) \ {s}
  OBVIOUS
<1>3. Cardinality(T \ (R \cup {s})) = Cardinality(T \ R) - 1
  <2>1. s \in T \ R
    OBVIOUS
  <2>2. Cardinality((T \ R) \ {s}) = Cardinality(T \ R) - 1
    BY <1>1, <2>1, FS_RemoveElement
  <2>3. QED
    BY <1>2, <2>2
<1>4. Cardinality(T \ R) # 0
  BY <1>1, FS_EmptySet
<1>5. Cardinality(T \ (R \cup {s})) = 0 <=> T \ (R \cup {s}) = {}
  BY <1>1, FS_EmptySet
<1>6. QED
  BY <1>1, <1>3, <1>4, <1>5

(***************************************************************************)
(* The initial state and the rejections                                    *)
(***************************************************************************)

\* The first state satisfies the invariant; then one lemma per action.
LEMMA InitIInv == Init => IInv
<1> SUFFICES ASSUME Init
             PROVE  IInv
  OBVIOUS
<1>1. /\ builder \in Builder
      /\ name \in Ids
      /\ specs \in Seq(StepSpec)
  BY InputsAssumption DEF Init
<1>2. Len(specs) \in Nat
  BY <1>1
<1>3. TypeOK
  BY <1>1 DEF Init, TypeOK
<1>4. Stages
  BY DEF Init, Stages, Linked
<1>5. Inserted
  <2>1. 1..(next - 1) = {}
    BY DEF Init
  <2>2. steps = {specs[i].id : i \in 1..(next - 1)}
    BY <2>1 DEF Init
  <2>3. Cardinality(steps) = next - 1
    BY FS_EmptySet DEF Init
  <2>4. next \in 1..(Len(specs) + 1)
    BY <1>2 DEF Init
  <2>5. QED
    BY <2>1, <2>2, <2>3, <2>4 DEF Inserted
<1>6. Chained /\ SortExact /\ Verdicts /\ OrderIsCanonical
  BY DEF Init, Chained, SortExact, Verdicts, OrderIsCanonical, Linked
<1>7. QED
  BY <1>3, <1>4, <1>5, <1>6 DEF IInv, BuildInv

Errors == {"no_steps", "invalid_identifier", "single_step_has_dependencies",
           "pipeline_step_has_dependencies", "duplicate_step",
           "duplicate_dependency", "self_dependency", "missing_dependency"}

\* Whatever is refused before the sort, with an error that a chain may get.
LEMMA RejectIInv ==
  ASSUME IInv, NEW error \in Errors, Reject(error),
         pc \in {"build", "check", "insert", "link"},
         builder = "pipeline" =>
           IF pc = "build" THEN error = "pipeline_step_has_dependencies"
           ELSE error \notin {"self_dependency", "missing_dependency",
                              "duplicate_dependency"}
  PROVE  IInv'
<1> USE DEF Reject, input, kahn
<1>1. result = "pending" /\ ~Linked /\ order = <<>>
  BY DEF IInv, BuildInv, Stages, Linked
<1>2. ~Linked'
  BY DEF Linked, Errors
<1>3. TypeOK'
  BY DEF IInv, TypeOK, Errors
<1>4. Stages'
  BY <1>1, <1>2 DEF IInv, BuildInv, Stages, Errors
<1>5. Inserted'
  BY DEF IInv, BuildInv, Inserted
<1>6. Chained'
  BY <1>1 DEF IInv, BuildInv, Chained, Errors
<1>7. SortExact' /\ Verdicts' /\ OrderIsCanonical'
  BY <1>1, <1>2 DEF SortExact, Verdicts, OrderIsCanonical, Errors
<1>8. QED
  BY <1>3, <1>4, <1>5, <1>6, <1>7 DEF IInv, BuildInv

(***************************************************************************)
(* The builders and the checks                                             *)
(***************************************************************************)

\* A stage before the insertions that passes, with the specs it hands on.
LEMMA AdvanceIInv ==
  ASSUME IInv, pc \in {"build", "check"}, pc' \in {"check", "insert"},
         specs' \in Seq(StepSpec),
         pc' = "insert" => Len(specs') # 0,
         builder = "pipeline" =>
           \A i \in DOMAIN specs' :
             specs'[i].needs = IF i = 1 THEN <<>> ELSE <<specs'[i - 1].id>>,
         UNCHANGED <<builder, name, next, steps, needs, kahn, result>>
  PROVE  IInv'
<1>1. /\ next = 1 /\ next' = 1
      /\ result = "pending" /\ order = <<>> /\ ~Linked
      /\ UNCHANGED <<builder, name, steps, needs, kahn, result>>
  BY DEF IInv, BuildInv, Stages, Linked
<1>2. ~Linked' /\ order' = <<>> /\ Len(specs') \in Nat
  BY <1>1 DEF Linked, kahn
<1>3. TypeOK'
  BY <1>1 DEF IInv, TypeOK, kahn
<1>4. Stages'
  BY <1>1, <1>2 DEF Stages
<1>5. Inserted'
  <2>1. 1..(next - 1) = {} /\ 1..(next' - 1) = {}
    BY <1>1
  <2>2. steps = {} /\ steps' = {} /\ Cardinality(steps') = next' - 1
    BY <1>1, <2>1, FS_EmptySet DEF IInv, BuildInv, Inserted
  <2>3. steps' = {specs'[i].id : i \in 1..(next' - 1)}
    BY <2>1, <2>2
  <2>4. next' \in 1..(Len(specs') + 1)
    BY <1>1, <1>2
  <2>5. QED
    BY <2>1, <2>2, <2>3, <2>4 DEF Inserted
<1>6. Chained'
  BY <1>1, <1>2 DEF Chained
<1>7. SortExact' /\ Verdicts' /\ OrderIsCanonical'
  BY <1>1, <1>2 DEF SortExact, Verdicts, OrderIsCanonical
<1>8. QED
  BY <1>3, <1>4, <1>5, <1>6, <1>7 DEF IInv, BuildInv

\* A chain of dependencies rises in the order.
LEMMA LinearizedChain ==
  ASSUME TypeOK
  PROVE  /\ Linearized \in Seq(StepSpec)
         /\ \A i \in DOMAIN Linearized :
              Linearized[i].needs =
                IF i = 1 THEN <<>> ELSE <<Linearized[i - 1].id>>
<1>1. /\ DOMAIN specs = 1..Len(specs)
      /\ Len(specs) \in Nat
      /\ \A i \in 1..Len(specs) : specs[i].id \in Ids
  <2>1. specs \in Seq(StepSpec)
    BY DEF TypeOK
  <2>2. \A i \in 1..Len(specs) : specs[i] \in StepSpec
    BY <2>1
  <2>3. QED
    BY <2>1, <2>2 DEF StepSpec
<1> DEFINE required(i) == IF i = 1 THEN <<>> ELSE <<specs[i - 1].id>>
<1>2. ASSUME NEW i \in 1..Len(specs)
      PROVE  required(i) \in Seq(Ids)
  <2>1. i # 1 => i - 1 \in 1..Len(specs)
    BY <1>1
  <2>2. QED
    BY <1>1, <2>1
<1>3. \A i \in 1..Len(specs) :
        [id |-> specs[i].id, needs |-> required(i)] \in StepSpec
  BY <1>1, <1>2 DEF StepSpec
<1>4. Linearized =
        [i \in 1..Len(specs) |-> [id |-> specs[i].id, needs |-> required(i)]]
  BY <1>1 DEF Linearized
<1>5. Linearized \in [1..Len(specs) -> StepSpec]
  BY <1>3, <1>4
<1>6. Linearized \in Seq(StepSpec)
  BY <1>1, <1>5
<1>7. ASSUME NEW i \in DOMAIN Linearized
      PROVE  Linearized[i].needs =
               IF i = 1 THEN <<>> ELSE <<Linearized[i - 1].id>>
  <2>1. i \in 1..Len(specs) /\ (i # 1 => i - 1 \in 1..Len(specs))
    BY <1>1, <1>4, <1>7
  <2>2. QED
    BY <1>4, <2>1
<1>8. QED
  BY <1>6, <1>7

LEMMA BuildSingleIInv ==
  ASSUME IInv, BuildSingle
  PROVE  IInv'
<1>1. CASE specs[1].needs # <<>>
  BY <1>1, RejectIInv DEF BuildSingle, Errors
<1>2. CASE specs[1].needs = <<>>
  BY <1>2, AdvanceIInv DEF BuildSingle, IInv, TypeOK, input
<1>3. QED
  BY <1>1, <1>2

LEMMA BuildPipelineIInv ==
  ASSUME IInv, BuildPipeline
  PROVE  IInv'
<1>1. CASE \E i \in DOMAIN specs : specs[i].needs # <<>>
  BY <1>1, RejectIInv DEF BuildPipeline, Errors
<1>2. CASE ~\E i \in DOMAIN specs : specs[i].needs # <<>>
  <2>1. /\ specs' = Linearized /\ pc = "build" /\ pc' = "check"
        /\ UNCHANGED <<builder, name, next, steps, needs, kahn, result>>
    BY <1>2 DEF BuildPipeline
  <2>2. QED
    BY <2>1, LinearizedChain, AdvanceIInv DEF IInv
<1>3. QED
  BY <1>1, <1>2

LEMMA BuildDagIInv ==
  ASSUME IInv, BuildDag
  PROVE  IInv'
BY AdvanceIInv DEF BuildDag, IInv, TypeOK, input

LEMMA CheckWorkflowIInv ==
  ASSUME IInv, CheckWorkflow
  PROVE  IInv'
<1>1. CASE \E error \in {"invalid_identifier", "no_steps"} : Reject(error)
  BY <1>1, RejectIInv DEF CheckWorkflow, Errors
<1>2. CASE /\ specs # <<>> /\ pc = "check" /\ pc' = "insert"
           /\ UNCHANGED <<input, next, steps, needs, kahn, result>>
  <2>1. specs \in Seq(StepSpec) /\ specs' = specs /\ result = "pending"
    BY <1>2 DEF IInv, BuildInv, TypeOK, Stages, input
  <2>2. Len(specs') # 0
    BY <1>2, <2>1
  <2>3. builder = "pipeline" =>
          \A i \in DOMAIN specs' :
            specs'[i].needs = IF i = 1 THEN <<>> ELSE <<specs'[i - 1].id>>
    BY <1>2, <2>1 DEF IInv, BuildInv, Chained
  <2>4. QED
    BY <1>2, <2>1, <2>2, <2>3, AdvanceIInv DEF input
<1>3. QED
  BY <1>1, <1>2 DEF CheckWorkflow

(***************************************************************************)
(* Insertion                                                               *)
(***************************************************************************)

\* The only defect that a single dependency can have is its identifier.
LEMMA MalformedChain ==
  ASSUME NEW spec \in StepSpec, Len(spec.needs) <= 1
  PROVE  Malformed(spec) # "duplicate_dependency"
<1> DEFINE defects == {i \in DOMAIN spec.needs :
                         \/ spec.needs[i] \notin ValidIds
                         \/ \E j \in 1..(i - 1) : spec.needs[j] = spec.needs[i]}
           first == CHOOSE i \in defects : \A j \in defects : i <= j
<1>1. DOMAIN spec.needs \subseteq {1}
  BY DEF StepSpec
<1>2. \A i \in defects : i = 1 /\ spec.needs[1] \notin ValidIds
  BY <1>1
<1>3. defects # {} => first = 1
  <2> HIDE DEF defects
  <2>1. defects # {} => \E i \in defects : \A j \in defects : i <= j
    BY <1>2
  <2>2. QED
    BY <1>2, <2>1
<1>4. defects # {} => spec.needs[first] \notin ValidIds
  BY <1>2, <1>3
<1>5. QED
  BY <1>4, Zenon DEF Malformed

LEMMA MalformedType ==
  ASSUME NEW spec
  PROVE  /\ Malformed(spec) \in {"none", "invalid_identifier",
                                 "duplicate_dependency"}
         /\ Malformed(spec) = "none" => spec.id \in ValidIds
BY DEF Malformed

LEMMA InsertSpecIInv ==
  ASSUME IInv, InsertSpec
  PROVE  IInv'
<1> DEFINE spec == specs[next]
<1>1. /\ pc = "insert" /\ result = "pending" /\ order = <<>> /\ ~Linked
      /\ next \in 1..Len(specs) /\ Len(specs) \in Nat
      /\ DOMAIN specs = 1..Len(specs)
      /\ spec \in StepSpec
  BY DEF IInv, BuildInv, TypeOK, Stages, Inserted, Linked, InsertSpec
<1>a. next \in Nat /\ next >= 1 /\ next <= Len(specs)
  BY <1>1
<1> HIDE DEF spec
<1>2. CASE Malformed(spec) # "none"
  <2>1. builder = "pipeline" => Len(spec.needs) <= 1
    <3>1. builder = "pipeline" =>
            spec.needs = IF next = 1 THEN <<>> ELSE <<specs[next - 1].id>>
      BY <1>1 DEF IInv, BuildInv, Chained, spec
    <3>2. Len(<<>>) <= 1 /\ Len(<<specs[next - 1].id>>) <= 1
      OBVIOUS
    <3>3. CASE next = 1
      BY <3>1, <3>2, <3>3
    <3>4. CASE next # 1
      <4>1. builder = "pipeline" => spec.needs = <<specs[next - 1].id>>
        BY <3>1, <3>4
      <4>2. QED
        BY <3>2, <4>1, Zenon
    <3>5. QED
      BY <3>3, <3>4
  <2>2. builder = "pipeline" => Malformed(spec) # "duplicate_dependency"
    BY <1>1, <2>1, MalformedChain
  <2>3. Malformed(spec) \in {"invalid_identifier", "duplicate_dependency"}
    BY <1>2, MalformedType
  <2>4. Reject(Malformed(spec))
    BY <1>2 DEF InsertSpec, spec
  <2>5. QED
    BY <1>1, <2>2, <2>3, <2>4, RejectIInv DEF Errors
<1>3. CASE Malformed(spec) = "none" /\ DuplicateStep(spec)
  BY <1>1, <1>3, RejectIInv DEF InsertSpec, Errors, spec
<1>4. CASE Malformed(spec) = "none" /\ ~DuplicateStep(spec)
  <2>1. /\ steps' = steps \cup {spec.id}
        /\ needs' = [needs EXCEPT ![spec.id] = ElementsOf(spec.needs)]
    BY <1>4 DEF InsertSpec, spec
  <2>b. /\ next' = next + 1
        /\ pc' = IF next = Len(specs) THEN "link" ELSE "insert"
    BY <1>4 DEF InsertSpec, spec
  <2>c. /\ specs' = specs /\ builder' = builder /\ name' = name
        /\ indegree' = indegree /\ ready' = ready /\ order' = order
        /\ result' = result
    BY <1>4 DEF InsertSpec, input, kahn, spec
  <2>a. /\ next' \in Nat /\ next' - 1 = next
        /\ next' <= Len(specs') + 1
        /\ pc' = "insert" => next' <= Len(specs')
        /\ pc' = "link" => next' = Len(specs') + 1
        /\ pc' \in {"insert", "link"}
    <3>1. Len(specs') = Len(specs) /\ Len(specs) \in Nat
      BY <1>1, <2>c
    <3>2. CASE next = Len(specs)
      BY <1>a, <2>b, <3>1, <3>2
    <3>3. CASE next # Len(specs)
      BY <1>a, <2>b, <3>1, <3>3
    <3>4. QED
      BY <3>2, <3>3
  <2>2. spec.id \in ValidIds /\ spec.id \in Ids /\ spec.needs \in Seq(Ids)
    BY <1>1, <1>4, MalformedType DEF StepSpec
  <2>3. spec.id \notin steps
    BY <1>4 DEF DuplicateStep
  <2>4. ~Linked' /\ order' = <<>>
    BY <1>1, <2>a, <2>c DEF Linked
  <2>5. TypeOK'
    <3>1. ElementsOf(spec.needs) \subseteq Ids
      BY <2>2, ElementsIn
    <3>2. needs' \in [Ids -> SUBSET Ids]
      BY <2>1, <3>1 DEF IInv, TypeOK
    <3>3. order' \in Seq(steps')
      BY <2>4
    <3>4. next' \in Nat /\ steps' \subseteq ValidIds /\ ready' \subseteq steps'
      BY <2>1, <2>2, <2>a, <2>c DEF IInv, TypeOK
    <3>5. QED
      BY <2>a, <2>c, <3>2, <3>3, <3>4 DEF IInv, TypeOK
  <2>6. Stages'
    BY <1>1, <2>a, <2>c, <2>4 DEF Stages
  <2>7. Inserted'
    <3>1. 1..(next' - 1) = 1..(next - 1) \cup {next} /\ next \notin 1..(next - 1)
      <4>1. 1..next = 1..(next - 1) \cup {next} /\ next \notin 1..(next - 1)
        BY <1>a
      <4>2. QED
        BY <2>a, <4>1
    <3>2. \A i \in 1..(next - 1) : specs[i].id \in steps
      BY DEF IInv, BuildInv, Inserted
    <3>3. next' \in 1..(Len(specs') + 1)
      <4>1. Len(specs') \in Nat
        BY <1>1, <2>c
      <4>2. next' >= 1
        <5>1. next' = next + 1
          BY <2>b
        <5>2. QED
          BY <1>a, <5>1
      <4>3. QED
        BY <2>a, <4>1, <4>2
    <3>4. steps' = {specs'[i].id : i \in 1..(next' - 1)}
      BY <2>1, <2>c, <3>1 DEF spec, IInv, BuildInv, Inserted
    <3>5. Cardinality(steps') = next' - 1
      <4>1. IsFiniteSet(steps)
        BY FiniteIds, IdsAssumption DEF IInv, TypeOK
      <4>2. Cardinality(steps') = Cardinality(steps) + 1
        BY <2>1, <2>3, <4>1, FS_AddElement
      <4>3. Cardinality(steps) = next - 1
        BY DEF IInv, BuildInv, Inserted
      <4>4. (next - 1) + 1 = next' - 1
        <5>1. next \in Nat /\ next' - 1 = next
          BY <1>a, <2>a
        <5>2. QED
          BY <5>1
      <4>5. QED
        BY <4>2, <4>3, <4>4
    <3>6. \A i, j \in 1..(next' - 1) : specs'[i].id = specs'[j].id => i = j
      BY <2>c, <2>3, <3>1, <3>2 DEF IInv, BuildInv, Inserted, spec
    <3>7. \A i \in 1..(next' - 1) :
            needs'[specs'[i].id] = ElementsOf(specs'[i].needs)
      <4>1. TAKE i \in 1..(next' - 1)
      <4>2. CASE i = next
        BY <2>1, <2>2, <2>c, <4>2 DEF IInv, TypeOK, spec
      <4>3. CASE i \in 1..(next - 1)
        <5>1. /\ specs[i].id \in steps
              /\ needs[specs[i].id] = ElementsOf(specs[i].needs)
          BY <3>2, <4>3 DEF IInv, BuildInv, Inserted
        <5>2. needs'[specs[i].id] = needs[specs[i].id]
          BY <2>1, <2>3, <5>1 DEF IInv, TypeOK
        <5>3. QED
          BY <2>c, <5>1, <5>2
      <4>4. QED
        BY <3>1, <4>2, <4>3
    <3>8. QED
      BY <3>3, <3>4, <3>5, <3>6, <3>7 DEF Inserted
  <2>8. Chained'
    BY <1>1, <2>a, <2>c DEF IInv, BuildInv, Chained
  <2>9. SortExact' /\ Verdicts' /\ OrderIsCanonical'
    BY <1>1, <2>c, <2>4 DEF SortExact, Verdicts, OrderIsCanonical
  <2>10. QED
    BY <2>5, <2>6, <2>7, <2>8, <2>9 DEF IInv, BuildInv
<1>5. QED
  BY <1>2, <1>3, <1>4

(***************************************************************************)
(* Linking                                                                 *)
(***************************************************************************)

\* When all specs are inserted.
LEMMA AllInserted ==
  ASSUME IInv, pc = "link" \/ Linked
  PROVE  /\ Len(specs) \in Nat
         /\ DOMAIN specs = 1..Len(specs)
         /\ steps = {specs[i].id : i \in 1..Len(specs)}
         /\ Cardinality(steps) = Len(specs)
         /\ \A i, j \in 1..Len(specs) : specs[i].id = specs[j].id => i = j
         /\ \A i \in 1..Len(specs) :
              needs[specs[i].id] = ElementsOf(specs[i].needs)
<1>1. /\ next = Len(specs) + 1
      /\ Len(specs) \in Nat /\ DOMAIN specs = 1..Len(specs)
  BY DEF IInv, BuildInv, Stages, TypeOK
<1>2. next - 1 = Len(specs)
  BY <1>1
<1>3. QED
  BY <1>1, <1>2 DEF IInv, BuildInv, Inserted

\* When all specs of a pipeline are.
LEMMA ChainInserted ==
  ASSUME IInv, pc = "link" \/ Linked, builder = "pipeline"
  PROVE  \A i \in 1..Len(specs) :
           needs[specs[i].id] = IF i = 1 THEN {} ELSE {specs[i - 1].id}
<1>1. pc # "build" /\ result # "pipeline_step_has_dependencies"
  BY DEF IInv, BuildInv, Stages, Linked
<1>2. TAKE i \in 1..Len(specs)
<1>3. /\ needs[specs[i].id] = ElementsOf(specs[i].needs)
      /\ specs[i].needs = IF i = 1 THEN <<>> ELSE <<specs[i - 1].id>>
  BY <1>1, <1>2, AllInserted DEF IInv, BuildInv, Chained
<1>4. ElementsOf(<<specs[i - 1].id>>) = {specs[i - 1].id}
  BY DEF ElementsOf
<1>5. QED
  BY <1>3, <1>4, NoElements

\* The edges of a chain all pass the linking loop.
LEMMA ChainLinks ==
  ASSUME IInv, pc = "link", builder = "pipeline"
  PROVE  RefusedEdges = {}
<1>1. ASSUME NEW e \in RefusedEdges
      PROVE  FALSE
  <2>1. /\ e[1] \in steps /\ e[2] \in needs[e[1]]
        /\ e[2] = e[1] \/ e[2] \notin steps
    BY <1>1 DEF RefusedEdges
  <2>2. PICK i \in 1..Len(specs) : e[1] = specs[i].id
    BY <2>1, AllInserted
  <2>3. i # 1 /\ e[2] = specs[i - 1].id
    <3>1. needs[specs[i].id] = IF i = 1 THEN {} ELSE {specs[i - 1].id}
      BY ChainInserted
    <3>2. e[2] \in needs[specs[i].id]
      BY <2>1, <2>2
    <3>3. QED
      BY <3>1, <3>2
  <2>4. i - 1 \in 1..Len(specs) /\ i - 1 # i
    BY <2>2, <2>3, AllInserted
  <2>5. e[2] \in steps /\ e[2] # specs[i].id
    BY <2>2, <2>3, <2>4, AllInserted
  <2>6. QED
    BY <2>1, <2>2, <2>5
<1>2. QED
  BY <1>1

LEMMA LinkIInv ==
  ASSUME IInv, Link
  PROVE  IInv'
<1>1. /\ pc = "link" /\ result = "pending" /\ order = <<>> /\ ~Linked
      /\ next = Len(specs) + 1
  BY DEF IInv, BuildInv, Stages, Linked, Link
<1>2. CASE RefusedEdges # {}
  <2>1. builder # "pipeline"
    BY <1>1, <1>2, ChainLinks
  <2>2. \E error \in {"self_dependency", "missing_dependency"} : Reject(error)
    BY <1>2, Zenon DEF Link
  <2>3. QED
    BY <1>1, <2>1, <2>2, RejectIInv DEF Errors
<1>3. CASE RefusedEdges = {}
  <2>1. /\ indegree' = [s \in Ids |-> Cardinality(needs[s])]
        /\ ready' = {s \in steps : needs[s] = {}}
        /\ pc' = "sort"
    BY <1>3 DEF Link
  <2>2. /\ builder' = builder /\ name' = name /\ specs' = specs
        /\ next' = next /\ steps' = steps /\ needs' = needs
        /\ order' = order /\ result' = result
    BY <1>3 DEF Link, input
  <2>3. \A s \in Ids : needs[s] \in SUBSET Ids /\ Cardinality(needs[s]) \in Nat
    BY FiniteIds DEF IInv, TypeOK
  <2>4. steps \subseteq Ids
    BY IdsAssumption DEF IInv, TypeOK
  <2>5. TypeOK'
    <3>1. indegree' \in [Ids -> Nat]
      BY <2>1, <2>3
    <3>2. ready' \subseteq steps
      BY <2>1
    <3>3. QED
      BY <2>1, <2>2, <3>1, <3>2 DEF IInv, TypeOK
  <2>6. Stages'
    BY <1>1, <2>1, <2>2 DEF IInv, BuildInv, Stages, Linked
  <2>7. Inserted'
    BY <2>2 DEF IInv, BuildInv, Inserted
  <2>8. Chained'
    BY <1>1, <2>1, <2>2 DEF IInv, BuildInv, Chained
  <2>9. SortExact'
    <3>1. ElementsOf(order) = {} /\ Cardinality({}) = 0 /\ Len(order) = 0
      BY <1>1, NoElements, FS_EmptySet
    <3>2. ASSUME NEW s \in steps
          PROVE  needs[s] \subseteq steps
      <4>1. ASSUME NEW t \in needs[s], t \notin steps
            PROVE  FALSE
        <5>1. <<s, t>> \in RefusedEdges
          BY <2>3, <2>4, <3>2, <4>1 DEF RefusedEdges
        <5>2. QED
          BY <1>3, <5>1
      <4>2. QED
        BY <4>1
    <3>3. \A s \in steps : needs[s] \ {} = needs[s] /\ (needs[s] \subseteq {} <=> needs[s] = {})
      OBVIOUS
    <3>4. \A s \in steps : indegree'[s] = Cardinality(needs[s] \ {})
      BY <2>1, <2>4, <3>3
    <3>5. ready' = {s \in steps \ {} : needs[s] \subseteq {}}
      BY <2>1, <3>3
    <3>6. QED
      BY <2>2, <3>1, <3>2, <3>4, <3>5 DEF SortExact
  <2>10. Verdicts' /\ OrderIsCanonical'
    BY <1>1, <2>2 DEF Verdicts, OrderIsCanonical
  <2>11. QED
    BY <2>5, <2>6, <2>7, <2>8, <2>9, <2>10 DEF IInv, BuildInv
<1>4. QED
  BY <1>2, <1>3

(***************************************************************************)
(* Kahn's loop                                                             *)
(***************************************************************************)

\* What is ordered has its dependencies ordered.
LEMMA OrderedClosed ==
  ASSUME IInv
  PROVE  \A t \in ElementsOf(order) : needs[t] \subseteq ElementsOf(order)
<1>1. SUFFICES ASSUME NEW i \in DOMAIN order
               PROVE  needs[order[i]] \subseteq ElementsOf(order)
  BY DEF ElementsOf
<1>2. needs[order[i]] \subseteq {order[j] : j \in 1..(i - 1)}
  BY DEF IInv, BuildInv, OrderIsCanonical
<1>3. i \in 1..Len(order) /\ DOMAIN order = 1..Len(order) /\ Len(order) \in Nat
  BY DEF IInv, TypeOK
<1>4. 1..(i - 1) \subseteq DOMAIN order
  BY <1>3
<1>5. QED
  BY <1>2, <1>4 DEF ElementsOf

\* What one pop does to the three facts of SortExact.
LEMMA PopSorts ==
  ASSUME IInv, NEW s \in ready, pc = "sort"
  PROVE  /\ s \in steps \ ElementsOf(order)
         /\ needs[s] \subseteq ElementsOf(order)
         /\ \A t \in steps :
              IF t \in Outgoing(s)
                THEN /\ indegree[t] \in Nat \ {0}
                     /\ indegree[t] - 1 =
                          Cardinality(needs[t] \ (ElementsOf(order) \cup {s}))
                     /\ indegree[t] - 1 = 0 <=>
                          needs[t] \subseteq ElementsOf(order) \cup {s}
                ELSE needs[t] \ (ElementsOf(order) \cup {s}) =
                       needs[t] \ ElementsOf(order)
         /\ (ready \ {s}) \cup Completed(s) =
              {t \in steps \ (ElementsOf(order) \cup {s}) :
                 needs[t] \subseteq ElementsOf(order) \cup {s}}
<1> DEFINE R == ElementsOf(order)
<1>1. /\ ready = {t \in steps \ R : needs[t] \subseteq R}
      /\ \A t \in steps : indegree[t] = Cardinality(needs[t] \ R)
  BY DEF IInv, BuildInv, SortExact, Linked
<1>2. \A t \in steps : needs[t] \in SUBSET Ids
  BY IdsAssumption DEF IInv, TypeOK
<1>3. \A t \in R : needs[t] \subseteq R
  BY OrderedClosed
<1> HIDE DEF R
<1>4. s \in steps \ R /\ needs[s] \subseteq R
  BY <1>1
<1>5. ASSUME NEW t \in Outgoing(s)
      PROVE  /\ t \in steps /\ indegree[t] \in Nat \ {0}
             /\ indegree[t] - 1 = Cardinality(needs[t] \ (R \cup {s}))
             /\ indegree[t] - 1 = 0 <=> needs[t] \subseteq R \cup {s}
  <2>1. t \in steps /\ s \in needs[t] \ R
    BY <1>4, <1>5 DEF Outgoing
  <2>2. /\ Cardinality(needs[t] \ R) \in Nat \ {0}
        /\ Cardinality(needs[t] \ (R \cup {s})) = Cardinality(needs[t] \ R) - 1
        /\ Cardinality(needs[t] \ R) - 1 = 0 <=> needs[t] \subseteq R \cup {s}
    BY <1>2, <2>1, CountDown
  <2>3. QED
    BY <1>1, <2>1, <2>2
<1>6. \A t \in steps \ Outgoing(s) : needs[t] \ (R \cup {s}) = needs[t] \ R
  BY DEF Outgoing
<1>7. (ready \ {s}) \cup Completed(s) =
        {t \in steps \ (R \cup {s}) : needs[t] \subseteq R \cup {s}}
  <2>1. ASSUME NEW t \in Completed(s)
        PROVE  t \in steps \ (R \cup {s}) /\ needs[t] \subseteq R \cup {s}
    <3>1. t \in Outgoing(s) /\ indegree[t] - 1 = 0
      BY <2>1 DEF Completed
    <3>2. t \in steps /\ s \in needs[t] /\ needs[t] \subseteq R \cup {s}
      BY <1>5, <3>1 DEF Outgoing
    <3>3. QED
      BY <1>3, <1>4, <3>2
  <2>2. ASSUME NEW t \in ready \ {s}
        PROVE  t \in steps \ (R \cup {s}) /\ needs[t] \subseteq R \cup {s}
    BY <1>1, <2>2
  <2>3. ASSUME NEW t \in steps \ (R \cup {s}), needs[t] \subseteq R \cup {s}
        PROVE  t \in (ready \ {s}) \cup Completed(s)
    <3>1. CASE s \in needs[t]
      <4>1. t \in Outgoing(s)
        BY <2>3, <3>1 DEF Outgoing
      <4>2. indegree[t] - 1 = 0
        BY <1>5, <2>3, <4>1
      <4>3. QED
        BY <4>1, <4>2 DEF Completed
    <3>2. CASE s \notin needs[t]
      BY <1>1, <2>3, <3>2
    <3>3. QED
      BY <3>1, <3>2
  <2>4. QED
    BY <2>1, <2>2, <2>3
<1>8. QED
  BY <1>4, <1>5, <1>6, <1>7 DEF R

\* A chain has one ready step, the next one, until it is ordered.
LEMMA ChainReady ==
  ASSUME IInv, Linked, builder = "pipeline"
  PROVE  /\ Len(order) <= Len(specs)
         /\ ready = IF Len(order) = Len(specs) THEN {}
                                               ELSE {specs[Len(order) + 1].id}
<1> DEFINE n == Len(order)
           R == ElementsOf(order)
<1>1. /\ n \in Nat /\ Len(specs) \in Nat
      /\ DOMAIN order = 1..n
  BY AllInserted DEF IInv, TypeOK
<1>2. \A i \in 1..n : i <= Len(specs) /\ order[i] = specs[i].id
  <2>1. pc # "build" /\ result # "pipeline_step_has_dependencies"
    BY DEF IInv, BuildInv, Stages, Linked
  <2>2. QED
    BY <1>1, <2>1 DEF IInv, BuildInv, Chained
<1>3. n <= Len(specs)
  BY <1>1, <1>2
<1>4. R = {specs[i].id : i \in 1..n}
  BY <1>1, <1>2 DEF ElementsOf
<1>5. ready = {t \in steps \ R : needs[t] \subseteq R}
  BY DEF IInv, BuildInv, SortExact
<1> HIDE DEF n, R
<1>6. ASSUME NEW j \in 1..Len(specs)
      PROVE  specs[j].id \in ready <=> j = n + 1
  <2>1. /\ specs[j].id \in steps
        /\ needs[specs[j].id] = IF j = 1 THEN {} ELSE {specs[j - 1].id}
    BY <1>6, AllInserted, ChainInserted
  <2>2. \A i \in 1..Len(specs) : specs[i].id \in R <=> i <= n
    <3>1. TAKE i \in 1..Len(specs)
    <3>2. i <= n => i \in 1..n
      BY <1>1, <3>1
    <3>3. ASSUME NEW k \in 1..n, specs[i].id = specs[k].id
          PROVE  i <= n
      <4>1. k \in 1..Len(specs) /\ k <= n
        BY <1>1, <1>3, <3>3
      <4>2. i = k
        BY <3>1, <3>3, <4>1, AllInserted
      <4>3. QED
        BY <4>1, <4>2
    <3>4. QED
      BY <1>4, <3>2, <3>3
  <2>3. CASE j = 1
    <3>1. j <= n <=> n # 0
      BY <1>1, <2>3
    <3>2. QED
      BY <1>1, <1>5, <1>6, <2>1, <2>2, <2>3, <3>1
  <2>4. CASE j # 1
    <3>1. j - 1 \in 1..Len(specs)
      BY <1>1, <1>6, <2>4
    <3>2. specs[j].id \in ready <=> ~(j <= n) /\ j - 1 <= n
      BY <1>5, <1>6, <2>1, <2>2, <2>4, <3>1
    <3>3. j \in Nat
      BY <1>1, <1>6
    <3>4. QED
      BY <1>1, <3>2, <3>3
  <2>5. QED
    BY <2>3, <2>4
<1>7. \A t \in ready : \E j \in 1..Len(specs) : t = specs[j].id
  BY <1>5, AllInserted
<1>8. CASE n = Len(specs)
  <2>1. \A j \in 1..Len(specs) : j # n + 1
    BY <1>1, <1>8
  <2>2. QED
    BY <1>3, <1>6, <1>7, <1>8, <2>1 DEF n
<1>9. CASE n # Len(specs)
  <2>1. n + 1 \in 1..Len(specs)
    BY <1>1, <1>3, <1>9
  <2>2. ready = {specs[n + 1].id}
    BY <1>6, <1>7, <2>1
  <2>3. QED
    BY <1>3, <1>9, <2>2 DEF n
<1>10. QED
  BY <1>8, <1>9

LEMMA PopIInv ==
  ASSUME IInv, NEW s \in Ids, Pop(s)
  PROVE  IInv'
<1> DEFINE n == Len(order)
           R == ElementsOf(order)
<1>1. /\ pc = "sort" /\ s \in ready /\ \A t \in ready : s <= t
      /\ order' = Append(order, s)
      /\ indegree' = [t \in Ids |-> IF t \in Outgoing(s) THEN indegree[t] - 1
                                                         ELSE indegree[t]]
      /\ ready' = (ready \ {s}) \cup Completed(s)
  BY DEF Pop, Pops
<1>2. /\ builder' = builder /\ name' = name /\ specs' = specs /\ pc' = pc
      /\ next' = next /\ steps' = steps /\ needs' = needs /\ result' = result
  BY DEF Pop, input
<1>3. Linked /\ Linked' /\ result = "pending"
  BY <1>1, <1>2 DEF Linked, IInv, BuildInv, Stages
<1>4. /\ s \in steps \ R
      /\ needs[s] \subseteq R
      /\ \A t \in steps :
           IF t \in Outgoing(s)
             THEN /\ indegree[t] \in Nat \ {0}
                  /\ indegree[t] - 1 = Cardinality(needs[t] \ (R \cup {s}))
             ELSE needs[t] \ (R \cup {s}) = needs[t] \ R
      /\ ready' = {t \in steps \ (R \cup {s}) : needs[t] \subseteq R \cup {s}}
  BY <1>1, PopSorts
<1>5. /\ order \in Seq(steps) /\ n \in Nat /\ DOMAIN order = 1..n
      /\ Len(order') = n + 1 /\ DOMAIN order' = 1..(n + 1)
      /\ \A i \in 1..n : order'[i] = order[i]
      /\ order'[n + 1] = s
  BY <1>1, <1>4 DEF IInv, TypeOK
<1>6. ElementsOf(order') = R \cup {s} /\ R \subseteq steps
  BY <1>1, <1>4, <1>5, AppendElements, ElementsIn
<1>7. steps \subseteq Ids
  BY IdsAssumption DEF IInv, TypeOK
<1>8. TypeOK'
  <2>1. indegree' \in [Ids -> Nat]
    <3>1. ASSUME NEW t \in Ids
          PROVE  (IF t \in Outgoing(s) THEN indegree[t] - 1 ELSE indegree[t])
                   \in Nat
      <4>1. CASE t \in Outgoing(s)
        <5>1. indegree[t] \in Nat \ {0}
          BY <1>4, <4>1 DEF Outgoing
        <5>2. QED
          BY <4>1, <5>1
      <4>2. CASE t \notin Outgoing(s)
        BY <4>2 DEF IInv, TypeOK
      <4>3. QED
        BY <4>1, <4>2
    <3>2. QED
      BY <1>1, <3>1
  <2>2. order' \in Seq(steps)
    BY <1>1, <1>4, <1>5
  <2>3. ready' \subseteq steps
    BY <1>4
  <2>4. QED
    BY <1>2, <2>1, <2>2, <2>3 DEF IInv, TypeOK
<1>9. Stages'
  BY <1>2, <1>3 DEF IInv, BuildInv, Stages
<1>10. Inserted'
  BY <1>2 DEF IInv, BuildInv, Inserted
<1>11. Chained'
  <2>1. CASE builder = "pipeline"
    <3>1. n # Len(specs) /\ n <= Len(specs) /\ s = specs[n + 1].id
      BY <1>1, <1>3, <2>1, ChainReady
    <3>2. Len(specs) \in Nat /\ n + 1 <= Len(specs)
      <4>1. Len(specs) \in Nat /\ n \in Nat
        BY <1>3, <1>5, AllInserted
      <4>2. n # Len(specs) /\ n <= Len(specs)
        BY <3>1
      <4> HIDE DEF n
      <4>3. QED
        BY <4>1, <4>2
    <3>3. \A i \in 1..n : i <= Len(specs) /\ order[i] = specs[i].id
      BY <1>1, <1>3, <1>5, <2>1 DEF IInv, BuildInv, Chained
    <3>4. \A i \in DOMAIN order' : i <= Len(specs) /\ order'[i] = specs[i].id
      <4>1. TAKE i \in DOMAIN order'
      <4>2. i \in 1..n \/ i = n + 1
        BY <1>5, <4>1
      <4>3. QED
        BY <1>5, <3>1, <3>2, <3>3, <4>2
    <3>5. QED
      BY <1>1, <1>2, <1>3, <3>4 DEF IInv, BuildInv, Chained
  <2>2. CASE builder # "pipeline"
    BY <1>2, <2>2 DEF Chained
  <2>3. QED
    BY <2>1, <2>2
<1>12. SortExact'
  <2>1. \A t \in steps : needs[t] \subseteq steps
    BY <1>3 DEF IInv, BuildInv, SortExact
  <2>2. \A t \in steps : indegree[t] = Cardinality(needs[t] \ R)
    BY <1>3 DEF IInv, BuildInv, SortExact
  <2>3. \A t \in steps : indegree'[t] = Cardinality(needs[t] \ (R \cup {s}))
    <3>1. TAKE t \in steps
    <3>2. t \in Ids
      BY <1>7
    <3>3. CASE t \in Outgoing(s)
      BY <1>1, <1>4, <3>2, <3>3
    <3>4. CASE t \notin Outgoing(s)
      BY <1>1, <1>4, <2>2, <3>2, <3>4
    <3>5. QED
      BY <3>3, <3>4
  <2>4. Cardinality(R \cup {s}) = Len(order')
    <3>1. IsFiniteSet(R)
      BY <1>6, <1>7, FiniteIds
    <3>2. Cardinality(R) = n
      BY <1>3 DEF IInv, BuildInv, SortExact
    <3>3. Cardinality(R \cup {s}) = Cardinality(R) + 1
      BY <1>4, <3>1, FS_AddElement
    <3>4. QED
      BY <1>5, <3>2, <3>3
  <2>5. QED
    BY <1>2, <1>4, <1>6, <2>1, <2>3, <2>4 DEF SortExact
<1>13. Verdicts'
  BY <1>2, <1>3 DEF Verdicts
<1>14. OrderIsCanonical'
  <2> SUFFICES ASSUME NEW i \in DOMAIN order'
               PROVE  LET before == {order'[j] : j \in 1..(i - 1)}
                          available == {t \in steps \ before :
                                          needs[t] \subseteq before}
                      IN order'[i] \in available
                           /\ \A t \in available : order'[i] <= t
    BY <1>2 DEF OrderIsCanonical
  <2> DEFINE before == {order'[j] : j \in 1..(i - 1)}
  <2>0. i \in 1..(n + 1)
    BY <1>5
  <2>1. /\ i \in 1..n \/ i = n + 1
        /\ 1..(i - 1) \subseteq 1..n
    BY <1>5, <2>0
  <2>2. before = {order[j] : j \in 1..(i - 1)}
    BY <1>5, <2>1
  <2>3. CASE i \in 1..n
    BY <1>5, <2>2, <2>3 DEF IInv, BuildInv, OrderIsCanonical
  <2>4. CASE i = n + 1
    <3>1. before = R
      <4>1. 1..(i - 1) = DOMAIN order
        BY <1>5, <2>4
      <4>2. QED
        BY <2>2, <4>1 DEF ElementsOf
    <3>2. ready = {t \in steps \ R : needs[t] \subseteq R}
      BY <1>3 DEF IInv, BuildInv, SortExact
    <3>3. QED
      BY <1>1, <1>5, <2>4, <3>1, <3>2
  <2>5. QED
    BY <2>1, <2>3, <2>4
<1>15. QED
  BY <1>8, <1>9, <1>10, <1>11, <1>12, <1>13, <1>14 DEF IInv, BuildInv

LEMMA FinishIInv ==
  ASSUME IInv, Finish
  PROVE  IInv'
<1>1. /\ pc = "sort" /\ ready = {} /\ pc' = "done"
      /\ result' = IF FullyOrdered THEN "ok" ELSE "cycle"
      /\ Linked /\ Linked' /\ result = "pending"
  BY DEF Finish, Linked, IInv, BuildInv, Stages
<1>2. /\ builder' = builder /\ name' = name /\ specs' = specs
      /\ next' = next /\ steps' = steps /\ needs' = needs
      /\ indegree' = indegree /\ ready' = ready /\ order' = order
  BY DEF Finish, input, kahn
<1>3. TypeOK'
  BY <1>1, <1>2 DEF IInv, TypeOK
<1>4. Stages'
  BY <1>1, <1>2 DEF IInv, BuildInv, Stages
<1>5. Inserted' /\ OrderIsCanonical'
  BY <1>2 DEF IInv, BuildInv, Inserted, OrderIsCanonical
<1>a. SortExact'
  BY <1>1, <1>2 DEF IInv, BuildInv, SortExact
<1>6. Verdicts'
  BY <1>1, <1>2 DEF Verdicts, FullyOrdered
<1>7. Chained'
  <2>1. CASE builder = "pipeline"
    <3>1. Len(order) = Len(specs)
      BY <1>1, <2>1, ChainReady
    <3>2. FullyOrdered
      BY <1>1, <3>1, AllInserted DEF FullyOrdered
    <3>3. QED
      BY <1>1, <1>2, <3>2 DEF IInv, BuildInv, Chained
  <2>2. CASE builder # "pipeline"
    BY <1>2, <2>2 DEF Chained
  <2>3. QED
    BY <2>1, <2>2
<1>8. QED
  BY <1>3, <1>4, <1>5, <1>6, <1>7, <1>a DEF IInv, BuildInv

\* Every step keeps the invariant.
LEMMA NextIInv == IInv /\ [Next]_vars => IInv'
<1> SUFFICES ASSUME IInv, [Next]_vars
             PROVE  IInv'
  OBVIOUS
<1>1. CASE UNCHANGED vars
  <2> USE <1>1 DEF vars, IInv, BuildInv
  <2>1. TypeOK'
    BY DEF TypeOK
  <2>2. Stages' /\ Verdicts'
    BY DEF Stages, Linked, Verdicts, FullyOrdered
  <2>3. Inserted'
    BY DEF Inserted
  <2>4. Chained'
    BY DEF Chained
  <2>5. SortExact'
    BY DEF SortExact, Linked
  <2>6. OrderIsCanonical'
    BY DEF OrderIsCanonical
  <2>7. QED
    BY <2>1, <2>2, <2>3, <2>4, <2>5, <2>6
<1>2. CASE Done
  BY <1>1, <1>2 DEF Done
<1>3. CASE \E s \in Ids : Pop(s)
  BY <1>3, PopIInv
<1>4. QED
  BY <1>1, <1>2, <1>3, BuildSingleIInv, BuildPipelineIInv, BuildDagIInv,
     CheckWorkflowIInv, InsertSpecIInv, LinkIInv, FinishIInv DEF Next

(***************************************************************************)
(* The theorems                                                            *)
(***************************************************************************)

\* The inductive invariant holds at every stage of `compile`.
THEOREM Invariance == Spec => []IInv
BY InitIInv, NextIInv, PTL DEF Spec

\* `topological_order` is the one that always takes the smallest step whose
\* dependencies are ordered, so it does not depend on the authored order.
THEOREM CanonicalOrder == Spec => []OrderIsCanonical
BY Invariance, PTL DEF IInv, BuildInv

\* An order that is complete is one of an acyclic graph: a set of steps that
\* were closed under "needs a member" has a member that was ordered first.
LEMMA OrderedAcyclic ==
  ASSUME IInv, Linked, FullyOrdered
  PROVE  Acyclic
<1>1. /\ order \in Seq(steps) /\ Len(order) \in Nat
      /\ DOMAIN order = 1..Len(order)
      /\ IsFiniteSet(steps) /\ ElementsOf(order) \subseteq steps
  BY FiniteIds, IdsAssumption, ElementsIn DEF IInv, TypeOK
<1>2. ElementsOf(order) = steps
  <2>1. Cardinality(ElementsOf(order)) = Cardinality(steps)
    BY DEF FullyOrdered, IInv, BuildInv, SortExact
  <2>2. QED
    BY <1>1, <2>1, FS_Subset
<1>3. SUFFICES ASSUME NEW T \in SUBSET steps, T # {}
               PROVE  \E s \in T : needs[s] \cap T = {}
  BY DEF Acyclic
<1> DEFINE places == {i \in DOMAIN order : order[i] \in T}
<1>4. places \in SUBSET Nat /\ places # {}
  <2>1. PICK s : s \in T
    BY <1>3
  <2>2. PICK i \in DOMAIN order : order[i] = s
    BY <1>2, <1>3, <2>1 DEF ElementsOf
  <2>3. QED
    BY <1>1, <2>1, <2>2
<1>5. PICK i \in places : \A j \in places : ~(<<j, i>> \in OpToRel(<, Nat))
  BY <1>4, NatLessThanWellFounded, WFMin
<1>6. \A j \in 1..(i - 1) : order[j] \notin T
  <2>1. TAKE j \in 1..(i - 1)
  <2>2. j \in DOMAIN order /\ i \in Nat /\ j \in Nat /\ j < i
    BY <1>1
  <2>3. j \notin places
    BY <1>5, <2>2 DEF OpToRel
  <2>4. QED
    BY <2>2, <2>3
<1>7. needs[order[i]] \subseteq {order[j] : j \in 1..(i - 1)}
  BY DEF IInv, BuildInv, OrderIsCanonical
<1>8. order[i] \in T /\ needs[order[i]] \cap T = {}
  BY <1>6, <1>7
<1>9. QED
  BY <1>8

\* What is left when nothing is ready is closed under "needs a member".
LEMMA BlockedCyclic ==
  ASSUME IInv, Linked, ready = {}, ~FullyOrdered
  PROVE  ~Acyclic
<1> DEFINE blocked == steps \ ElementsOf(order)
<1>1. ElementsOf(order) \subseteq steps
  BY ElementsIn DEF IInv, TypeOK
<1>2. blocked # {}
  <2>1. ElementsOf(order) # steps
    BY DEF FullyOrdered, IInv, BuildInv, SortExact
  <2>2. QED
    BY <1>1, <2>1
<1>3. \A s \in blocked : needs[s] \cap blocked # {}
  BY DEF IInv, BuildInv, SortExact
<1>4. QED
  BY <1>2, <1>3 DEF Acyclic

\* Kahn's loop decides acyclicity exactly, for graphs of any size, and lets
\* no dependency pass that is not a step.
THEOREM AcyclicityDecided == Spec => []DecidesAcyclicity
<1>1. IInv => DecidesAcyclicity
  <2> SUFFICES ASSUME IInv
               PROVE  DecidesAcyclicity
    OBVIOUS
  <2>1. ASSUME result = "ok"
        PROVE  Acyclic /\ \A s \in steps : needs[s] \subseteq steps
    <3>1. Linked /\ FullyOrdered
      BY <2>1 DEF Linked, IInv, BuildInv, Verdicts
    <3>2. QED
      BY <3>1, OrderedAcyclic DEF IInv, BuildInv, SortExact
  <2>2. ASSUME result = "cycle"
        PROVE  ~Acyclic
    <3>1. Linked /\ ready = {} /\ ~FullyOrdered
      BY <2>2 DEF Linked, IInv, BuildInv, Verdicts
    <3>2. QED
      BY <3>1, BlockedCyclic
  <2>3. QED
    BY <2>1, <2>2 DEF DecidesAcyclicity
<1>2. QED
  BY <1>1, Invariance, PTL

\* An accepted definition is what was authored, a pipeline in the order in
\* which it was written; a chain is never refused for its dependencies.
THEOREM NothingIsLost == Spec => []KeepsEveryStep
<1>1. IInv => KeepsEveryStep
  <2> SUFFICES ASSUME IInv
               PROVE  KeepsEveryStep
    OBVIOUS
  <2>1. ASSUME result = "ok"
        PROVE  /\ Len(specs) = Cardinality(steps)
               /\ \A i \in DOMAIN specs :
                    /\ specs[i].id \in steps
                    /\ needs[specs[i].id] = ElementsOf(specs[i].needs)
                    /\ builder = "pipeline" => order[i] = specs[i].id
    <3>1. Linked /\ FullyOrdered
      BY <2>1 DEF Linked, IInv, BuildInv, Verdicts
    <3>2. /\ DOMAIN specs = 1..Len(specs)
          /\ Len(order) = Len(specs) /\ DOMAIN order = 1..Len(specs)
      BY <3>1, AllInserted DEF FullyOrdered, IInv, TypeOK
    <3>3. builder = "pipeline" => \A i \in DOMAIN order : order[i] = specs[i].id
      <4>1. pc # "build"
        BY <2>1 DEF IInv, BuildInv, Stages
      <4>2. QED
        BY <2>1, <4>1 DEF IInv, BuildInv, Chained
    <3>4. QED
      BY <3>1, <3>2, <3>3, AllInserted
  <2>2. builder = "pipeline" =>
          result \notin {"cycle", "self_dependency", "missing_dependency",
                         "duplicate_dependency"}
    <3>1. CASE pc = "build" \/ result = "pipeline_step_has_dependencies"
      BY <3>1 DEF IInv, BuildInv, Stages
    <3>2. CASE ~(pc = "build" \/ result = "pipeline_step_has_dependencies")
      BY <3>2 DEF IInv, BuildInv, Chained
    <3>3. QED
      BY <3>1, <3>2
  <2>3. QED
    BY <2>1, <2>2 DEF KeepsEveryStep
<1>2. QED
  BY <1>1, Invariance, PTL

=============================================================================
