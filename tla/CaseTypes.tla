------------------------------ MODULE CaseTypes ------------------------------
(***************************************************************************)
(* Case types: what parseCaseTypeDefinition and canTransition of           *)
(* packages/core/src/case-types/schema.ts require and permit.  Wording and *)
(* formats are left out.                                                   *)
(***************************************************************************)
EXTENDS Integers, FiniteSets

Jurisdictions == {"england-wales", "scotland", "northern-ireland"}

\* An empty set of successors means any stage.
Stage(key, order, needs, next) ==
    [key |-> key, order |-> order, needs |-> needs, next |-> next,
     advice |-> FALSE, terminal |-> FALSE, timed |-> FALSE]
Timed(stage) == [stage EXCEPT !.timed = TRUE]              \* it has an SLA
AdvicePoint(key, order, next) == [Timed(Stage(key, order, {}, next)) EXCEPT !.advice = TRUE]
Terminal(key, order) == [Stage(key, order, {}, {}) EXCEPT !.terminal = TRUE]

Requirement(key, kind, blocking) == [key |-> key, kind |-> kind, blocking |-> blocking]

StageKeys(type) == {s.key : s \in type.stages}
StageByKey(type, key) == CHOOSE s \in type.stages : s.key = key
FirstStage(type) == CHOOSE s \in type.stages : \A o \in type.stages : s.order <= o.order

\* parseCaseTypeDefinition, of what a schema cannot express.
Accepted(type) ==
    LET keys == StageKeys(type)  evidence == {e.key : e \in type.evidence}
        rules == {r.key : r \in type.eligibility} IN
    /\ Cardinality(keys) = Cardinality(type.stages)
    /\ Cardinality({s.order : s \in type.stages}) = Cardinality(type.stages)
    /\ \A s \in type.stages : s.needs \subseteq evidence /\ s.next \subseteq keys
    /\ Cardinality({s \in type.stages : s.advice}) <= 1
    /\ \E s \in type.stages : s.terminal
    /\ Cardinality(rules) = Cardinality(type.eligibility)

CanTransition(type, from, to) ==
    /\ {from, to} \subseteq StageKeys(type)
    /\ LET next == StageByKey(type, from).next IN next = {} \/ to \in next
=============================================================================
