------------------------------ MODULE CaseRecords ------------------------------
(***************************************************************************)
(* The file of one case: the operations on debts, statement, assets,       *)
(* checks, consent and vulnerability (packages/core/src/case-file,         *)
(* /advice), and what loadCaseDetail (apps/web/lib/console/data.ts) derives *)
(* from it without asking a rule: the evidence, the signals, the health    *)
(* score and the readiness for advice (/evidence, /intelligence).          *)
(*                                                                         *)
(* Every answer is computed from the rows when the page is rendered, so    *)
(* the state is the rows and the answers are operators on it.              *)
(***************************************************************************)
EXTENDS Evidence, Figures

CONSTANTS Type,         \* the definition the case is under
          DebtForms,    \* the debts an adviser may enter
          Budgets,      \* the surpluses a statement may show
          AssetValues,  \* the client's share of what an asset is worth
          Elsewhere,    \* what the rest of the platform may have put down
          MaxSteps      \* bound: operations on the file

ASSUME RecordsAssumption ==
    /\ MaxSteps \in Nat /\ Budgets \subseteq Int
    /\ Elsewhere # {}
    /\ Elsewhere \subseteq [failing: SUBSET {"warning", "blocking"}, proposed: BOOLEAN, unanswered: BOOLEAN]

VARIABLES
    stage, payment,   \* cases.stage; the assessed sustainable payment, or NoPayment
    items,            \* verification_items, by requirement_key
    consents,         \* purposes with a live consent
    records,          \* active vulnerability_records, by severity ("none" identified included)
    statements,       \* financial_statements, the latest version last
    debts, assets,    \* their rows
    since, waited,    \* Clocks: since the last statement, and of the stage and the silence
    elsewhere,        \* severities of compliance_checks that failed; a proposal that
                      \* is pending; a message to the client that is unanswered
    clearing,         \* a recordNoIndicators that has looked and will now insert
    steps

file == <<stage, payment, items, consents, records, statements, debts, assets, since, waited,
          elsewhere, clearing, steps>>

NoPayment == -1
Severities == {"possible", "present", "significant"}
Keys == {r.key : r \in Type.evidence}
KindOf(key) == (CHOOSE r \in Type.evidence : r.key = key).kind

\* Time as the signals tell it apart: months since the last statement, the
\* hours in the stage against its target, days of silence.
Clocks == <<[months |-> 0, target |-> 0, days |-> 0],
            [months |-> 13, target |-> 1, days |-> 21],
            [months |-> 14, target |-> 2, days |-> 42]>>

Init ==
    /\ stage \in {s \in StageKeys(Type) : StageByKey(Type, s).order >= 1 /\ ~StageByKey(Type, s).terminal}
    /\ payment \in {NoPayment, 8000}
    /\ items = << >> /\ consents = {} /\ records = {} /\ statements = << >>
    /\ debts = << >> /\ assets = << >> /\ since = 1 /\ waited = 1 /\ steps = 0
    /\ elsewhere \in Elsewhere /\ clearing = FALSE

Step == steps < MaxSteps /\ steps' = steps + 1

-----------------------------------------------------------------------------
(* The operations on the file.                                             *)

\* A debt that is statute barred is not entered as part of a solution.
MayEnter(form) == form.balance >= 0 /\ (form.barred => ~form.included)

AddDebt ==
    /\ Step
    /\ \E form \in {f \in DebtForms : MayEnter(f)} : debts' = Append(debts, form)
    /\ UNCHANGED <<stage, payment, items, consents, records, statements, assets, since, waited, elsewhere, clearing>>

UpdateDebt ==
    /\ Step
    /\ \E i \in DOMAIN debts, form \in {f \in DebtForms : MayEnter(f)} :
          debts' = [debts EXCEPT ![i] = [form EXCEPT !.active = debts[i].active]]
    /\ UNCHANGED <<stage, payment, items, consents, records, statements, assets, since, waited, elsewhere, clearing>>

RemoveDebt ==
    /\ Step
    /\ \E i \in DOMAIN debts :
          debts' = [debts EXCEPT ![i].active = FALSE, ![i].included = FALSE]
    /\ UNCHANGED <<stage, payment, items, consents, records, statements, assets, since, waited, elsewhere, clearing>>

RecordAsset ==
    /\ Step
    /\ \E value \in AssetValues : assets' = Append(assets, value)
    /\ UNCHANGED <<stage, payment, items, consents, records, statements, debts, since, waited, elsewhere, clearing>>

\* saveStatement: a new version, complete, with what stands behind its lines.
SaveStatement ==
    /\ Step
    /\ \E surplus \in Budgets, evidenced \in {0, 1} :
          statements' = Append(statements,
              [surplus |-> surplus, lines |-> 1, evidenced |-> evidenced, completed |-> TRUE])
    /\ since' = 1
    /\ UNCHANGED <<stage, payment, items, consents, records, debts, assets, waited, elsewhere, clearing>>

\* The tab of checks is opened: what the type asks for and is not tracked.
\* Seeded fault: what is tracked already is set back.
SyncRequirements_Resets ==
    /\ Step
    /\ items' = [k \in Keys |-> [status |-> "outstanding", method |-> "", expired |-> FALSE]]
    /\ UNCHANGED <<stage, payment, consents, records, statements, debts, assets, since, waited, elsewhere, clearing>>
SyncRequirements ==
    /\ Step
    /\ items' = [k \in Keys |-> IF k \in DOMAIN items THEN items[k]
                                ELSE [status |-> "outstanding", method |-> "", expired |-> FALSE]]
    /\ UNCHANGED <<stage, payment, consents, records, statements, debts, assets, since, waited, elsewhere, clearing>>

\* A check is acted on.  Verified needs a method; a waiver needs a reason.
\* Seeded fault: it needs none.
SetVerificationStatus_NoMethod ==
    /\ Step
    /\ \E k \in DOMAIN items, status \in Statuses, method \in {"", "document", "verbal"} :
          items' = [items EXCEPT ![k] = [status |-> status, method |-> method, expired |-> FALSE]]
    /\ UNCHANGED <<stage, payment, consents, records, statements, debts, assets, since, waited, elsewhere, clearing>>
SetVerificationStatus ==
    /\ Step
    /\ \E k \in DOMAIN items, status \in Statuses, method \in {"", "document", "verbal"} :
          /\ status = "verified" => method # ""
          /\ items' = [items EXCEPT ![k] = [status |-> status, method |-> method, expired |-> FALSE]]
    /\ UNCHANGED <<stage, payment, consents, records, statements, debts, assets, since, waited, elsewhere, clearing>>

\* The day after expires_on.
EvidenceExpires ==
    /\ Step
    /\ \E k \in DOMAIN items :
          /\ items[k].status = "verified" /\ ~items[k].expired
          /\ items' = [items EXCEPT ![k].expired = TRUE]
    /\ UNCHANGED <<stage, payment, consents, records, statements, debts, assets, since, waited, elsewhere, clearing>>

ConsentGivenOrWithdrawn ==
    /\ Step
    /\ consents' = IF consents = {} THEN {k \in Keys : KindOf(k) = "consent"} ELSE {}
    /\ UNCHANGED <<stage, payment, items, records, statements, debts, assets, since, waited, elsewhere, clearing>>

\* A vulnerability supersedes "none identified" as far as it is there yet.
RecordVulnerability ==
    /\ Step
    /\ \E severity \in Severities : records' = (records \ {"none"}) \cup {severity}
    /\ UNCHANGED <<stage, payment, items, consents, statements, debts, assets, since, waited, elsewhere, clearing>>

\* recordNoIndicators looks for what contradicts it, takes no lock, and
\* inserts: in between a vulnerability may be recorded.  A second "none" is
\* the one that is there.
LookForIndicators ==
    /\ Step /\ ~clearing
    /\ records = {}
    /\ clearing' = TRUE
    /\ UNCHANGED <<stage, payment, items, consents, records, statements, debts, assets, since, waited, elsewhere>>

RecordNoIndicators ==
    /\ Step /\ clearing
    /\ clearing' = FALSE
    /\ records' = records \cup {"none"}
    /\ UNCHANGED <<stage, payment, items, consents, statements, debts, assets, since, waited, elsewhere>>

CloseVulnerability ==
    /\ Step
    /\ \E severity \in records : records' = records \ {severity}
    /\ UNCHANGED <<stage, payment, items, consents, statements, debts, assets, since, waited, elsewhere, clearing>>

TimePasses ==
    /\ Step
    /\ since' = Min({since + 1, Len(Clocks)}) /\ waited' = Min({waited + 1, Len(Clocks)})
    /\ UNCHANGED <<stage, payment, items, consents, records, statements, debts, assets, elsewhere, clearing>>

\* A compliance check, a proposal, a message sent or answered.
ChangedElsewhere ==
    /\ Step
    /\ elsewhere' \in Elsewhere
    /\ UNCHANGED <<stage, payment, items, consents, records, statements, debts, assets, since, waited, clearing>>

Next ==
    \/ AddDebt \/ UpdateDebt \/ RemoveDebt \/ RecordAsset \/ SaveStatement
    \/ SyncRequirements \/ SetVerificationStatus \/ EvidenceExpires
    \/ ConsentGivenOrWithdrawn
    \/ RecordVulnerability \/ LookForIndicators \/ RecordNoIndicators \/ CloseVulnerability
    \/ TimePasses \/ ChangedElsewhere

Spec == Init /\ [][Next]_file

-----------------------------------------------------------------------------
(* What a page shows of it.                                                *)

CurrentStatement == IF statements = << >> THEN NoStatement ELSE Last(statements)

\* loadEvidenceRecords, and what is resolved from it.
EvidenceRecords ==
    [items |-> items, consents |-> consents, assessed |-> records # {}, statement |-> CurrentStatement]

Resolved == ResolveEvidence(Type, stage, EvidenceRecords)
Met == EvidenceMap(Resolved)
Owed == OutstandingEvidence(Resolved)

Active(rows) == SelectSeq(rows, LAMBDA d : d.active)

-----------------------------------------------------------------------------
(* Signals, health, readiness.                                             *)

Weight == [informational |-> 0, attention |-> 8, urgent |-> 20, critical |-> 40]
Weighing(key, severity, weight) == [key |-> key, severity |-> severity, weight |-> weight]
Signal(key, severity) == Weighing(key, severity, Weight[severity])
SignalIf(condition, s) == IF condition THEN {s} ELSE {}

\* A budget in deficit; a surplus that moved by a fifth and by 20 pounds.
AffordabilitySignals ==
    LET now == CurrentStatement.surplus
        before == statements[Len(statements) - 1].surplus
        moved == now - before IN
    IF statements = << >> THEN {} ELSE
    SignalIf(now < 0, Signal("deficit-budget", "urgent"))
    \cup SignalIf(Len(statements) > 1 /\ Abs(moved) >= 2000
                  /\ (before # 0 => 5 * Abs(moved) >= Abs(before)),
                  Signal("affordability-changed", IF moved < 0 THEN "urgent" ELSE "attention"))

MissingAtStage == StageByKey(Type, stage).needs \ Met
EvidenceSignals == SignalIf(MissingAtStage # {}, Signal("evidence-outstanding", "attention"))

\* Recorded, and worth no points: a vulnerable client is not an unhealthy case.
\* Seeded fault: it weighs what its severity does elsewhere.
VulnerabilitySignals_Weighed ==
    SignalIf(records \ {"none"} # {},
             Signal("vulnerability-recorded",
                    IF "significant" \in records THEN "urgent" ELSE "attention"))
VulnerabilitySignals ==
    SignalIf(records \ {"none"} # {},
             Weighing("vulnerability-recorded",
                      IF "significant" \in records THEN "urgent" ELSE "attention", 0))

DeadlineSignals ==
    LET over == Clocks[since].months - Type.every  target == Clocks[waited].target IN
    SignalIf(Type.every # 0 /\ statements # << >> /\ over > 0,
             Signal("review-overdue", IF over >= 2 THEN "urgent" ELSE "attention"))
    \cup SignalIf(StageByKey(Type, stage).timed /\ target > 0,
                  Signal("stage-sla-breached", IF target > 1 THEN "urgent" ELSE "attention"))

ComplianceSignals ==
    SignalIf(elsewhere.failing # {},
             Signal("compliance-failures", IF "blocking" \in elsewhere.failing THEN "critical" ELSE "attention"))

\* Silence counts only where something waits for an answer.
EngagementSignals ==
    LET days == Clocks[waited].days IN
    SignalIf(elsewhere.unanswered /\ days >= 21,
             Signal("client-disengaged", IF days >= 42 THEN "urgent" ELSE "attention"))

ProposalSignals == SignalIf(elsewhere.proposed, Signal("proposals-awaiting-decision", "informational"))

Signals ==
    AffordabilitySignals \cup EvidenceSignals \cup VulnerabilitySignals
    \cup DeadlineSignals \cup ComplianceSignals \cup EngagementSignals \cup ProposalSignals

\* assessHealth: what is informational weighs nothing.
Score(signals) == Max({0, 100 - MapThenSumSet(LAMBDA s : s.weight, signals)})

\* assessReadiness: nothing blocks.
Ready ==
    /\ statements # << >> /\ payment # NoPayment /\ Active(debts) # << >>
    /\ ~\E s \in Signals :
          s.key = "evidence-outstanding" \/ (s.key = "compliance-failures" /\ s.severity = "critical")

-----------------------------------------------------------------------------
TypeOK ==
    /\ stage \in StageKeys(Type) /\ payment \in {NoPayment, 8000}
    /\ DOMAIN items \subseteq Keys
    /\ \A k \in DOMAIN items :
          /\ items[k].status \in Statuses /\ items[k].method \in Methods \cup {""}
          /\ items[k].status = "verified" => items[k].method # ""
    /\ consents \subseteq Keys /\ records \subseteq Severities \cup {"none"}
    /\ elsewhere \in Elsewhere /\ clearing \in BOOLEAN
    /\ {since, waited} \subseteq DOMAIN Clocks /\ steps \in 0 .. MaxSteps
    /\ \A r \in Resolved : r.state \in States

\* No two requirements of a type share a key.
AsksOnce(type) == \A r, q \in type.evidence : r.key = q.key => r = q

\* What the surfaces rely on: a case type that is accepted, that asks for each
\* thing once, and whose stages have an order.
Regular(type) ==
    /\ Accepted(type) /\ AsksOnce(type)
    /\ \A s \in type.stages : s.order \in Int

(* The health score and the readiness for advice speak of what the current   *)
(* stage is short of by the evidence map, the inbox by the list of what is   *)
(* owed (compose.ts evidenceSignals, inbox/page.tsx:90).  They name the same *)
(* items, but for one somebody marked not applicable: that is not owed, and  *)
(* yet the case is never ready.  A case that is ready owes nothing of its    *)
(* stage.                                                                    *)
SurfacesAgree ==
    /\ \A k \in StageByKey(Type, stage).needs :
          k \notin Met <=> k \in Owed \/ (k \in DOMAIN items /\ items[k].status = "not-applicable")
    /\ Ready => StageByKey(Type, stage).needs \cap Owed = {}

(* Opening the tab of checks, which writes a row for every requirement of    *)
(* the type (verification.ts syncRequirements, called on render), erases no  *)
(* evidence that the case already had and answers nothing that was open.     *)
OpeningErasesNothing == [][SyncRequirements => Resolved' = Resolved]_file

(* Recording that a client is vulnerable never lowers the health of the case *)
(* ("Vulnerability never reduces the health score", compose.ts:254), whatever *)
(* else the record settles or replaces on the file.                          *)
HealthIgnoresVulnerability == [][RecordVulnerability => Score(Signals)' >= Score(Signals)]_file
=============================================================================
