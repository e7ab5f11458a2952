---------------------------- MODULE CaseAssessment ----------------------------
(***************************************************************************)
(* The solutions that are open to the client of a case: loadCaseDetail     *)
(* (apps/web/lib/console/data.ts) hands buildFacts a snapshot, and         *)
(* evaluateEligibility asks the rules of every shipped type about it       *)
(* (packages/core/src/advice).                                             *)
(***************************************************************************)
EXTENDS CaseRecords, CaseTemplates

CONSTANT Jurisdiction    \* of the client

\* The part of loadCaseDetail that fills the snapshot: assets and history are
\* not read, and stageEnteredAt is the only attribute.
Snapshot ==
    [assets |-> 0, realisable |-> 0, vehicle |-> 0, adapted |-> FALSE,
     activeInsolvency |-> FALSE, priorInsolvency |-> FALSE, disclosed |-> FALSE,
     statement |-> CurrentStatement, payment |-> payment, debts |-> debts, evidence |-> Met]

Balance(rows) == SumPence([i \in DOMAIN rows |-> rows[i].balance])

\* What the statutory thresholds bite on.
QualifyingDebt(rows) ==
    Balance(SelectSeq(rows, LAMBDA d :
        d.active /\ d.included /\ ~d.priority /\ ~d.barred /\ ~d.disputed))

OrNull(known, n) == IF known THEN Num(n) ELSE Null

\* buildFacts: those that some rule reads.
BuildFacts(snapshot) ==
    LET active == Active(snapshot.debts)
        priority == SelectSeq(active, LAMBDA d : d.priority) IN
    "client.jurisdiction" :> Str(Jurisdiction)
    @@ "debt.count" :> Num(Len(active))
    @@ "debt.nonPriorityCount" :> Num(Len(active) - Len(priority))
    @@ "debt.creditorCount" :> Num(Cardinality({active[i].creditor : i \in DOMAIN active}))
    @@ "debt.qualifyingPence" :> Num(QualifyingDebt(snapshot.debts))
    @@ "debt.priorityArrearsPence" :> Num(SumPence([i \in DOMAIN priority |-> priority[i].arrears]))
    @@ "sfs.surplusPence" :> OrNull(snapshot.statement # NoStatement,
                                    IF snapshot.statement = NoStatement THEN 0 ELSE snapshot.statement.surplus)
    @@ "affordability.sustainablePaymentPence" :> OrNull(snapshot.payment # NoPayment, snapshot.payment)
    @@ "assets.totalPence" :> Num(snapshot.assets)
    @@ "assets.realisablePence" :> Num(snapshot.realisable)
    @@ "assets.vehicleValuePence" :> Num(snapshot.vehicle)
    @@ "assets.vehicleAdaptedForDisability" :> Bool(snapshot.adapted)
    @@ "history.hasActiveInsolvency" :> Bool(snapshot.activeInsolvency)
    @@ "history.hasPriorInsolvency" :> Bool(snapshot.priorInsolvency)
    @@ "history.priorInsolvencyDisclosed" :> Bool(snapshot.disclosed)
    @@ Thresholds

\* evaluateEligibility: what is open to the client, and what stands in the way.
Candidates == {t \in Templates : Jurisdiction \in t.jurisdictions}
Blockers(type, facts) == BlockedBy(EvaluateRules(type.eligibility, facts))
Available(facts) == {t.key : t \in {x \in Candidates : Blockers(x, facts) = {}}}

-----------------------------------------------------------------------------
(* A client whose share of recorded assets is above the statutory ceiling is *)
(* not told that a debt relief order is open to them (templates.ts,          *)
(* 'Total assets must not exceed the statutory ceiling.').                   *)
CeilingIsApplied ==
    SumPence(assets) > Thresholds["config.droAssetLimitPence"][2] =>
        "dro" \notin Available(BuildFacts(Snapshot))
=============================================================================
