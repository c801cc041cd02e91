---------------------------- MODULE MCDefinition ----------------------------
(* Authored workflows on which TLC checks module Definition.               *)
EXTENDS Definition

SeqsUpTo(S, n) == UNION {[1..k -> S] : k \in 0..n}

AllIds == 0..4
Valid == 1..4

\* Every workflow of at most two steps over one invalid and two valid ids,
\* with up to two dependencies per step, in each authoring syntax; `single`
\* takes exactly one step.
SmallIds == 0..2
SmallSpecs == [id : SmallIds, needs : SeqsUpTo(SmallIds, 2)]
SmallInputs ==
  [builder : {"pipeline", "dag"}, name : {1}, specs : SeqsUpTo(SmallSpecs, 2)]
    \cup [builder : {"single"}, name : {0, 1}, specs : [1..1 -> SmallSpecs]]

\* Every graph over four steps without self-loops, authored in two orders.
GraphIds == 1..4
GraphNeeds == {g \in [GraphIds -> SUBSET GraphIds] :
                 \A s \in GraphIds : s \notin g[s]}
Sorted(S) == CHOOSE q \in [1..Cardinality(S) -> S] :
               \A i, j \in 1..Cardinality(S) : i < j => q[i] < q[j]
Authored(g, perm) ==
  [i \in GraphIds |-> [id |-> perm[i], needs |-> Sorted(g[perm[i]])]]
GraphInputs ==
  {[builder |-> "dag", name |-> 1, specs |-> Authored(g, p)] :
     g \in GraphNeeds, p \in {<<1, 2, 3, 4>>, <<3, 1, 4, 2>>}}

AllInputs == SmallInputs \cup GraphInputs

=============================================================================
