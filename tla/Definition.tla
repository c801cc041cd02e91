----------------------------- MODULE Definition -----------------------------
(***************************************************************************)
(* Validation of a workflow definition: `compile`, and the builders that   *)
(* call it, in crates/tower-agent-workflow/src/definition.rs.              *)
(*                                                                         *)
(* The authored steps are an input chosen in Init. Kahn's algorithm is     *)
(* stepped one `ready.pop_first()` at a time; what it accepts is exactly   *)
(* the assumption that module Workflow makes of its graph.                 *)
(***************************************************************************)
EXTENDS Integers, Sequences, FiniteSets

CONSTANTS
  Ids,       \* identifiers an author may write; their order is StepId's order
  ValidIds,  \* those that StepId::new accepts
  Inputs     \* [builder, name, specs]: who builds, under which workflow id and
             \* version, and the authored StepSpecs

ASSUME IdsAssumption ==
  Ids \subseteq Nat /\ IsFiniteSet(Ids) /\ ValidIds \subseteq Ids

StepSpec == [id : Ids, needs : Seq(Ids)]
Builder == {"single", "pipeline", "dag"}

ASSUME InputsAssumption ==
  \A i \in Inputs : /\ i.builder \in Builder
                    /\ i.name \in Ids
                    /\ i.specs \in Seq(StepSpec)

VARIABLES
  builder,   \* which authoring syntax is used
  name,      \* the workflow id and version, valid only together
  specs,     \* the StepSpecs in authored order
  pc,        \* which stage of the build runs next
  next,      \* index of the spec handled next
  steps,     \* keys of the `steps` map
  needs,     \* needs[s], for s in steps
  indegree,  \* dependencies of s that are not ordered yet
  ready,     \* the BTreeSet of Kahn's algorithm
  order,     \* topological_order
  result     \* "pending", "ok", or the WorkflowDefinitionError

vars == <<builder, name, specs, pc, next, steps, needs, indegree, ready,
          order, result>>

input == <<builder, name, specs>>
kahn == <<indegree, ready, order>>

ElementsOf(seq) == {seq[i] : i \in DOMAIN seq}

Init ==
  /\ \E i \in Inputs :
       builder = i.builder /\ name = i.name /\ specs = i.specs
  /\ pc = "build"
  /\ next = 1
  /\ steps = {}
  /\ needs = [s \in Ids |-> {}]
  /\ indegree = [s \in Ids |-> 0]
  /\ ready = {}
  /\ order = <<>>
  /\ result = "pending"

Reject(error) ==
  /\ result' = error
  /\ pc' = "done"
  /\ UNCHANGED <<input, next, steps, needs, kahn>>

(***************************************************************************)
(* The builders                                                            *)
(***************************************************************************)

\* WorkflowDefinition::single
BuildSingle ==
  /\ pc = "build"
  /\ builder = "single"
  /\ IF specs[1].needs # <<>>
       THEN Reject("single_step_has_dependencies")
       ELSE /\ pc' = "check"
            /\ UNCHANGED <<input, next, steps, needs, kahn, result>>

\* The dependencies that PipelineBuilder infers from insertion order.
Linearized ==
  [i \in DOMAIN specs |->
     [id |-> specs[i].id,
      needs |-> IF i = 1 THEN <<>> ELSE <<specs[i - 1].id>>]]

\* PipelineBuilder::build
BuildPipeline ==
  /\ pc = "build"
  /\ builder = "pipeline"
  /\ IF \E i \in DOMAIN specs : specs[i].needs # <<>>
       THEN Reject("pipeline_step_has_dependencies")
       ELSE /\ specs' = Linearized
            /\ pc' = "check"
            /\ UNCHANGED <<builder, name, next, steps, needs, kahn, result>>

\* DagBuilder::build
BuildDag ==
  /\ pc = "build"
  /\ builder = "dag"
  /\ pc' = "check"
  /\ UNCHANGED <<input, next, steps, needs, kahn, result>>

(***************************************************************************)
(* compile                                                                 *)
(***************************************************************************)

\* The workflow's own identifiers, then the presence of steps.
CheckWorkflow ==
  /\ pc = "check"
  /\ \/ name \notin ValidIds /\ Reject("invalid_identifier")
     \/ name \in ValidIds /\ specs = <<>> /\ Reject("no_steps")
     \/ /\ name \in ValidIds
        /\ specs # <<>>
        /\ pc' = "insert"
        /\ UNCHANGED <<input, next, steps, needs, kahn, result>>

\* A spec whose own id or one of whose dependencies is not an identifier, or
\* that repeats a dependency. Dependencies are scanned in authored order, so
\* the first defect decides which error it is.
Malformed(spec) ==
  LET defects == {i \in DOMAIN spec.needs :
                    \/ spec.needs[i] \notin ValidIds
                    \/ \E j \in 1..(i - 1) : spec.needs[j] = spec.needs[i]}
      first == CHOOSE i \in defects : \A j \in defects : i <= j
  IN IF spec.id \notin ValidIds THEN "invalid_identifier"
     ELSE IF defects = {} THEN "none"
     ELSE IF spec.needs[first] \notin ValidIds THEN "invalid_identifier"
     ELSE "duplicate_dependency"

\* Mutant: a second step with the same id replaces the first.
DuplicateStepReplaces(spec) == FALSE

\* `steps.insert` found a previous definition.
DuplicateStep(spec) == spec.id \in steps

\* One iteration of the loop over the specs.
InsertSpec ==
  /\ pc = "insert"
  /\ next <= Len(specs)
  /\ LET spec == specs[next]
     IN IF Malformed(spec) # "none" THEN Reject(Malformed(spec))
        ELSE IF DuplicateStep(spec) THEN Reject("duplicate_step")
        ELSE /\ steps' = steps \cup {spec.id}
             /\ needs' = [needs EXCEPT ![spec.id] = ElementsOf(spec.needs)]
             /\ next' = next + 1
             /\ pc' = IF next = Len(specs) THEN "link" ELSE "insert"
             /\ UNCHANGED <<input, kahn, result>>

\* The edges that the linking loop refuses.
RefusedEdges ==
  {e \in steps \X Ids : /\ e[2] \in needs[e[1]]
                        /\ e[2] = e[1] \/ e[2] \notin steps}

\* The one it meets first: steps in order, then their sorted dependencies.
FirstRefused ==
  CHOOSE e \in RefusedEdges :
    \A f \in RefusedEdges : \/ e[1] < f[1]
                            \/ e[1] = f[1] /\ e[2] <= f[2]

\* Build `indegree`, `outgoing` and the first `ready` set, or refuse.
Link ==
  /\ pc = "link"
  /\ IF RefusedEdges # {}
       THEN Reject(IF FirstRefused[1] = FirstRefused[2]
                     THEN "self_dependency"
                     ELSE "missing_dependency")
       ELSE /\ indegree' = [s \in Ids |-> Cardinality(needs[s])]
            /\ ready' = {s \in steps : needs[s] = {}}
            /\ pc' = "sort"
            /\ UNCHANGED <<input, next, steps, needs, order, result>>

Outgoing(s) == {t \in steps : s \in needs[t]}

\* The successors whose count reaches zero with s.
Completed(s) == {t \in Outgoing(s) : indegree[t] - 1 = 0}

\* Mutant: the largest ready step is popped.
PopsLast(s) == s \in ready /\ \A t \in ready : t <= s

\* `ready.pop_first()`
Pops(s) == s \in ready /\ \A t \in ready : s <= t

\* One iteration of Kahn's loop.
Pop(s) ==
  /\ pc = "sort"
  /\ Pops(s)
  /\ order' = Append(order, s)
  /\ indegree' = [t \in Ids |-> IF t \in Outgoing(s) THEN indegree[t] - 1
                                                     ELSE indegree[t]]
  /\ ready' = (ready \ {s}) \cup Completed(s)
  /\ UNCHANGED <<input, pc, next, steps, needs, result>>

\* Mutant: an incomplete order is accepted.
FullyOrderedAlways == TRUE

\* `topological_order.len() != steps.len()`
FullyOrdered == Len(order) = Cardinality(steps)

\* The loop ended: accept, or report the steps that are still blocked.
Finish ==
  /\ pc = "sort"
  /\ ready = {}
  /\ result' = IF FullyOrdered THEN "ok" ELSE "cycle"
  /\ pc' = "done"
  /\ UNCHANGED <<input, next, steps, needs, kahn>>

Done == pc = "done" /\ UNCHANGED vars

Next ==
  \/ BuildSingle
  \/ BuildPipeline
  \/ BuildDag
  \/ CheckWorkflow
  \/ InsertSpec
  \/ Link
  \/ \E s \in Ids : Pop(s)
  \/ Finish
  \/ Done

Spec == Init /\ [][Next]_vars

(***************************************************************************)
(* Properties                                                              *)
(***************************************************************************)

\* Every variable stays in its domain; in particular only valid identifiers
\* become steps and no in-degree underflows.
TypeOK ==
  /\ builder \in Builder
  /\ name \in Ids
  /\ specs \in Seq(StepSpec)
  /\ pc \in {"build", "check", "insert", "link", "sort", "done"}
  /\ next \in Nat
  /\ steps \subseteq ValidIds
  /\ needs \in [Ids -> SUBSET Ids]
  /\ indegree \in [Ids -> Nat]
  /\ ready \subseteq steps
  /\ order \in Seq(steps)
  /\ result \in {"pending", "ok", "no_steps", "invalid_identifier",
                 "single_step_has_dependencies",
                 "pipeline_step_has_dependencies", "duplicate_step",
                 "duplicate_dependency", "self_dependency",
                 "missing_dependency", "cycle"}

\* No set of steps is closed under "needs a member of the set".
Acyclic ==
  \A T \in SUBSET steps : T # {} => \E s \in T : needs[s] \cap T = {}

\* Kahn's algorithm decides acyclicity: it accepts only acyclic graphs whose
\* dependencies all exist, and reports a cycle only when there is one.
DecidesAcyclicity ==
  /\ result = "ok" => Acyclic /\ \A s \in steps : needs[s] \subseteq steps
  /\ result = "cycle" => ~Acyclic

\* An accepted definition has every authored step, under its own id, with
\* the dependencies the author wrote; a pipeline runs in the order in which
\* it was written, and no linear chain is refused for its dependencies.
KeepsEveryStep ==
  /\ result = "ok" =>
       /\ Len(specs) = Cardinality(steps)
       /\ \A i \in DOMAIN specs :
            /\ specs[i].id \in steps
            /\ needs[specs[i].id] = ElementsOf(specs[i].needs)
            /\ builder = "pipeline" => order[i] = specs[i].id
  /\ builder = "pipeline" =>
       result \notin {"cycle", "self_dependency", "missing_dependency",
                      "duplicate_dependency"}

\* The order is the one that always takes the smallest step whose
\* dependencies are ordered, so it does not depend on the authored order.
OrderIsCanonical ==
  \A i \in DOMAIN order :
    LET before == {order[j] : j \in 1..(i - 1)}
        available == {s \in steps \ before : needs[s] \subseteq before}
    IN order[i] \in available /\ \A s \in available : order[i] <= s

(***************************************************************************)
(* The inductive invariant (module DefinitionProofs)                       *)
(***************************************************************************)

\* The edges passed the linking loop: Kahn's loop runs or has given a verdict.
Linked == pc = "sort" \/ result \in {"ok", "cycle"}

\* How far the build is at each stage.
Stages ==
  /\ pc = "done" <=> result # "pending"
  /\ pc \in {"build", "check"} => next = 1
  /\ pc = "insert" => next <= Len(specs)
  /\ pc = "link" \/ Linked => next = Len(specs) + 1
  /\ ~Linked => order = <<>>

\* The specs before `next` are the steps, each under an id of its own.
Inserted ==
  /\ next \in 1..(Len(specs) + 1)
  /\ steps = {specs[i].id : i \in 1..(next - 1)}
  /\ Cardinality(steps) = next - 1
  /\ \A i, j \in 1..(next - 1) : specs[i].id = specs[j].id => i = j
  /\ \A i \in 1..(next - 1) : needs[specs[i].id] = ElementsOf(specs[i].needs)

\* A pipeline that was built is a chain, and it is ordered as one.
Chained ==
  builder = "pipeline" /\ pc # "build"
    /\ result # "pipeline_step_has_dependencies" =>
      /\ \A i \in DOMAIN specs :
           specs[i].needs = IF i = 1 THEN <<>> ELSE <<specs[i - 1].id>>
      /\ \A i \in DOMAIN order : i <= Len(specs) /\ order[i] = specs[i].id
      /\ result \notin {"cycle", "self_dependency", "missing_dependency",
                        "duplicate_dependency"}

\* In-degrees count the dependencies that are not ordered yet, and the ready
\* steps are all those that have none; the order repeats nothing.
SortExact ==
  Linked =>
    LET ordered == ElementsOf(order)
    IN /\ \A s \in steps : needs[s] \subseteq steps
       /\ \A s \in steps : indegree[s] = Cardinality(needs[s] \ ordered)
       /\ ready = {s \in steps \ ordered : needs[s] \subseteq ordered}
       /\ Cardinality(ordered) = Len(order)

\* A verdict is given when nothing is ready.
Verdicts ==
  /\ result = "ok" => ready = {} /\ FullyOrdered
  /\ result = "cycle" => ready = {} /\ ~FullyOrdered

BuildInv ==
  /\ Stages
  /\ Inserted
  /\ Chained
  /\ SortExact
  /\ Verdicts
  /\ OrderIsCanonical

IInv == TypeOK /\ BuildInv

=============================================================================
