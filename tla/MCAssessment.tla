----------------------------- MODULE MCAssessment -----------------------------
(***************************************************************************)
(* The case assessment on small instances, in three parts of which each    *)
(* behaviour takes one: "file", one case file through its operations;      *)
(* "rules", the shipped rules over facts that become known one at a time;  *)
(* "figures", statements built line by line and amounts to be shared out.  *)
(***************************************************************************)
EXTENDS CaseAssessment, Budgeting

VARIABLES part, subject, facts
vars == <<part, subject, facts, lines, share, stage, payment, items, consents, records, statements,
          debts, assets, since, waited, elsewhere, clearing, steps>>

MCType == Dmp
\* One that a debt relief order would cover, one that may not be entered.
MCDebts == {[creditor |-> "c1", balance |-> 300000, arrears |-> 0, active |-> TRUE, barred |-> b,
             disputed |-> FALSE, priority |-> FALSE, included |-> TRUE] : b \in BOOLEAN}
MCBudgets == {-1, 5000}

\* All quiet, and everything that a signal can be about.
Quiet == [failing |-> {}, proposed |-> FALSE, unanswered |-> FALSE]
MCElsewhere == {Quiet, [failing |-> {"warning", "blocking"}, proposed |-> TRUE, unanswered |-> TRUE]}

MCHousehold == [adults |-> 1, children |-> 1]
MCTriggers == [housekeeping |-> (1 :> 100 @@ 4 :> 433)]
MCShares == [total : -3 .. 14, weights : {w \in BoundedSeq(0 .. 3, 3) : SumPence(w) > 0}]
OnePenny == [total |-> 0, weights |-> <<1>>]

\* The facts that a rule of a template reads, and what it compares each with:
\* a fact may turn out to be that, or on either side of it.
RECURSIVE FactsIn(_), Against(_, _)
FactsIn(e) ==
    CASE e[1] = "fact" -> {e[2]}
      [] e[1] = "const" -> {}
      [] OTHER -> UNION {FactsIn(e[2][i]) : i \in DOMAIN e[2]}
Against(e, fact) ==
    IF e[1] \in {"fact", "const"} THEN {}
    ELSE (IF Contains(e[2], Fact(fact)) THEN ToSet(e[2]) \ {Fact(fact)} ELSE {})
         \cup UNION {Against(e[2][i], fact) : i \in DOMAIN e[2]}
Around(e) ==
    LET v == IF e[1] = "const" THEN e[2] ELSE FactOf(e[2], Thresholds) IN
    CASE v[1] = "number" -> {Num(v[2] + d) : d \in -1 .. 1}
      [] v[1] = "boolean" -> {Bool(b) : b \in BOOLEAN}
      [] v[1] = "string" -> {v, Str("another")}
Asked(type) == UNION {FactsIn(r.when) : r \in type.eligibility} \ DOMAIN Thresholds
Values == [t \in Templates |-> [fact \in Asked(t) |->
              UNION {Around(e) : e \in UNION {Against(r.when, fact) : r \in t.eligibility}}]]

\* Of these it means something that nothing is recorded.
AbsenceIsAnAnswer ==
    {"history.monthsSinceBreathingSpace", "case.breathingSpaceType", "case.sequestrationRoute"}

OneFile == Init /\ stage = "advice" /\ payment = NoPayment /\ elsewhere = Quiet

MCInit ==
    /\ facts = Thresholds
    /\ \/ part = "file" /\ Init /\ subject = Dmp /\ lines = << >> /\ share = OnePenny
       \/ part = "rules" /\ OneFile /\ subject \in Templates /\ lines = << >> /\ share = OnePenny
       \/ part = "figures" /\ OneFile /\ subject = Dmp /\ BudgetInit

\* No bound: until everything is known that a rule of the type reads.
Learn ==
    /\ part = "rules"
    /\ \E fact \in DOMAIN Values[subject] \ (DOMAIN facts \cup AbsenceIsAnAnswer) :
          \E value \in Values[subject][fact] : facts' = facts @@ (fact :> value)
    /\ UNCHANGED <<part, subject, lines, share, file>>

\* Of AbsenceIsAnAnswer, what is recorded is recorded before the rest.
LearnFirst ==
    /\ part = "rules" /\ DOMAIN facts \subseteq DOMAIN Thresholds \cup AbsenceIsAnAnswer
    /\ \E fact \in (DOMAIN Values[subject] \cap AbsenceIsAnAnswer) \ DOMAIN facts :
          \E value \in Values[subject][fact] : facts' = facts @@ (fact :> value)
    /\ UNCHANGED <<part, subject, lines, share, file>>

\* A statement is built next to one amount that is shared out, not to each.
Draw ==
    /\ part = "figures" /\ share = OnePenny
    /\ AddLine
    /\ UNCHANGED <<part, subject, facts, file>>

MCNext ==
    \/ part = "file" /\ Next /\ UNCHANGED <<part, subject, facts, lines, share>>
    \/ Learn \/ LearnFirst \/ Draw

MCSpec == MCInit /\ [][MCNext]_vars

\* The requirements of a case type have keys of their own, which
\* parseCaseTypeDefinition does not ask and every template keeps to.
ASSUME TemplatesAreRegular == \A t \in Templates : Regular(t)

(* A fact that is not known opens nothing: a solution that is open to a      *)
(* client while something is unknown stays open whatever that turns out to   *)
(* be (engine.ts, facts.ts: a missing fact is null, and null is below no     *)
(* limit).  Three facts are excepted, whose absence is itself an answer.     *)
UnknownOpensNothing ==
    [][Learn => (Blockers(subject, facts) = {} => Blockers(subject, facts)' = {})]_vars
=============================================================================
