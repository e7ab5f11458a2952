---------------------------- MODULE CaseTemplates ----------------------------
(***************************************************************************)
(* The case types that ship (packages/core/src/case-types/templates.ts)    *)
(* and the thresholds their rules are read with.  Wording and authorities  *)
(* are left out.                                                           *)
(***************************************************************************)
EXTENDS CaseTypes, Rules

ConsentAndIdentity ==
    {Requirement("consent.processing", "consent", TRUE),
     Requirement("identity.verified", "identity", TRUE),
     Requirement("vulnerability.assessed", "vulnerability-assessment", TRUE)}

FinancialEvidence ==
    {Requirement("sfs.complete", "financial-statement", TRUE),
     Requirement("debts.captured", "declaration", TRUE)}

CommonStages(adviceStage) ==
    {Timed(Stage("referral", 0, {}, {"onboarding", "closed"})),
     Timed(Stage("onboarding", 1, {"consent.processing", "identity.verified"}, {"fact-find", "closed"})),
     Timed(Stage("fact-find", 2, {"vulnerability.assessed", "sfs.complete", "debts.captured"},
                 {adviceStage, "closed"}))}

AtLeast(fact, n) == Op("gte", <<Fact(fact), Const(Num(n))>>)
AtMost(fact, limit) == Op("lte", <<Fact(fact), Fact(limit)>>)
IsTrue(fact) == Op("eq", <<Fact(fact), Const(Bool(TRUE))>>)
IsFalse(fact) == Op("eq", <<Fact(fact), Const(Bool(FALSE))>>)
Unknown(fact) == Op("isNull", <<Fact(fact)>>)
Is(fact, text) == Op("eq", <<Fact(fact), Const(Str(text))>>)
IsNot(fact, text) == Op("neq", <<Fact(fact), Const(Str(text))>>)
Either(alternatives) == Op("or", alternatives)

Blocking(key, when) == Rule(key, "blocking", when)
Warning(key, when) == Rule(key, "warning", when)

Dmp == [
    key |-> "dmp", jurisdictions |-> Jurisdictions, every |-> 12,
    stages |-> CommonStages("advice") \cup
        {AdvicePoint("advice", 3, {"setup", "closed"}),
         Timed(Stage("setup", 4, {"payment.mandate"}, {"live", "closed"})),
         Stage("live", 5, {}, {"review", "arrears", "closed"}),
         Timed(Stage("review", 6, {"sfs.complete"}, {"live", "arrears", "closed"})),
         Timed(Stage("arrears", 7, {}, {"live", "review", "closed"})),
         Terminal("closed", 8)},
    evidence |-> ConsentAndIdentity \cup FinancialEvidence \cup
        {Requirement("payment.mandate", "payment-mandate", TRUE)},
    eligibility |->
        {Blocking("has-surplus", AtLeast("affordability.sustainablePaymentPence", 100)),
         Blocking("has-non-priority-debt", AtLeast("debt.nonPriorityCount", 1)),
         Warning("priority-debts-addressed",
                 Either(<<Op("eq", <<Fact("debt.priorityArrearsPence"), Const(Num(0))>>),
                          IsTrue("case.priorityDebtsAddressed")>>))}]

Iva == [
    key |-> "iva", jurisdictions |-> {"england-wales", "northern-ireland"}, every |-> 12,
    stages |-> CommonStages("advice") \cup
        {AdvicePoint("advice", 3, {"proposal", "closed"}),
         Timed(Stage("proposal", 4, {"proposal.signed", "ip.appointed"}, {"creditor-vote", "closed"})),
         Timed(Stage("creditor-vote", 5, {}, {"live", "closed"})),
         Stage("live", 6, {}, {"review", "arrears", "variation", "closed"}),
         Timed(Stage("review", 7, {"sfs.complete"}, {"live", "variation", "arrears", "closed"})),
         Stage("variation", 8, {}, {"live", "closed"}),
         Timed(Stage("arrears", 9, {}, {"live", "variation", "closed"})),
         Terminal("closed", 10)},
    evidence |-> ConsentAndIdentity \cup FinancialEvidence \cup
        {Requirement("proposal.signed", "signature", TRUE), Requirement("ip.appointed", "declaration", TRUE)},
    eligibility |->
        {Blocking("minimum-debt", AtLeast("debt.qualifyingPence", 600000)),
         Blocking("minimum-creditors", AtLeast("debt.creditorCount", 2)),
         Blocking("sustainable-contribution", AtLeast("affordability.sustainablePaymentPence", 8000)),
         Warning("no-recent-breathing-space",
                 Either(<<Unknown("history.monthsSinceBreathingSpace"),
                          Op("gt", <<Fact("history.monthsSinceBreathingSpace"), Const(Num(24))>>)>>)),
         Blocking("prior-insolvency-disclosed",
                  Either(<<IsFalse("history.hasPriorInsolvency"),
                           IsTrue("history.priorInsolvencyDisclosed")>>))}]

Dro == [
    key |-> "dro", jurisdictions |-> {"england-wales"}, every |-> 0,
    stages |-> CommonStages("advice") \cup
        {AdvicePoint("advice", 3, {"application", "closed"}),
         Timed(Stage("application", 4, {"dro.approved-intermediary", "application.signed"},
                     {"moratorium", "closed"})),
         Stage("moratorium", 5, {}, {"closed"}),
         Terminal("closed", 6)},
    evidence |-> ConsentAndIdentity \cup FinancialEvidence \cup
        {Requirement("dro.approved-intermediary", "declaration", TRUE),
         Requirement("application.signed", "signature", TRUE)},
    eligibility |->
        {Blocking("debt-ceiling", AtMost("debt.qualifyingPence", "config.droDebtLimitPence")),
         Blocking("asset-ceiling", AtMost("assets.totalPence", "config.droAssetLimitPence")),
         Blocking("surplus-ceiling", AtMost("sfs.surplusPence", "config.droSurplusLimitPence")),
         Blocking("vehicle-value",
                  Either(<<AtMost("assets.vehicleValuePence", "config.droVehicleLimitPence"),
                           IsTrue("assets.vehicleAdaptedForDisability")>>)),
         Blocking("no-active-insolvency", IsFalse("history.hasActiveInsolvency"))}]

Bankruptcy == [
    key |-> "bankruptcy", jurisdictions |-> {"england-wales"}, every |-> 0,
    stages |-> CommonStages("advice") \cup
        {AdvicePoint("advice", 3, {"application", "closed"}),
         Timed(Stage("application", 4, {"bankruptcy.fee-arranged"}, {"order-made", "closed"})),
         Stage("order-made", 5, {}, {"closed"}),
         Terminal("closed", 6)},
    evidence |-> ConsentAndIdentity \cup FinancialEvidence \cup
        {Requirement("bankruptcy.fee-arranged", "declaration", TRUE)},
    eligibility |->
        {Blocking("no-active-insolvency", IsFalse("history.hasActiveInsolvency")),
         Warning("fee-affordable", IsTrue("case.bankruptcyFeeArranged"))}]

BreathingSpace == [
    key |-> "breathing-space", jurisdictions |-> {"england-wales"}, every |-> 0,
    stages |->
        {Timed(Stage("referral", 0, {}, {"assessment", "closed"})),
         Timed(Stage("assessment", 1, {"consent.processing", "identity.verified", "debts.captured"},
                     {"advice", "closed"})),
         AdvicePoint("advice", 2, {"registered", "closed"}),
         Stage("registered", 3, {}, {"midway-review", "closed"}),
         Timed(Stage("midway-review", 4, {}, {"registered", "closed"})),
         Terminal("closed", 5)},
    evidence |-> {e \in ConsentAndIdentity : e.key # "vulnerability.assessed"} \cup
        {Requirement("debts.captured", "declaration", TRUE), Requirement("mhc.evidence", "document", FALSE)},
    eligibility |->
        {Blocking("no-active-insolvency", IsFalse("history.hasActiveInsolvency")),
         Blocking("not-used-recently",
                  Either(<<Is("case.breathingSpaceType", "mental-health-crisis"),
                           Unknown("history.monthsSinceBreathingSpace"),
                           AtLeast("history.monthsSinceBreathingSpace", 12)>>)),
         Blocking("mhc-evidence-present",
                  Either(<<IsNot("case.breathingSpaceType", "mental-health-crisis"),
                           IsTrue("evidence.mhcEvidencePresent")>>))}]

TrustDeed == [
    key |-> "trust-deed", jurisdictions |-> {"scotland"}, every |-> 12,
    stages |-> CommonStages("advice") \cup
        {AdvicePoint("advice", 3, {"granted", "closed"}),
         Timed(Stage("granted", 4, {"deed.signed"}, {"protection", "closed"})),
         Timed(Stage("protection", 5, {}, {"live", "closed"})),
         Stage("live", 6, {}, {"review", "arrears", "closed"}),
         Timed(Stage("review", 7, {"sfs.complete"}, {"live", "arrears", "closed"})),
         Timed(Stage("arrears", 8, {}, {"live", "closed"})),
         Terminal("closed", 9)},
    evidence |-> ConsentAndIdentity \cup FinancialEvidence \cup
        {Requirement("deed.signed", "signature", TRUE)},
    eligibility |->
        {Blocking("scottish-resident", Is("client.jurisdiction", "scotland")),
         Blocking("minimum-debt",
                  Op("gte", <<Fact("debt.qualifyingPence"), Fact("config.trustDeedMinimumDebtPence")>>)),
         Blocking("sustainable-contribution",
                  Either(<<AtLeast("affordability.sustainablePaymentPence", 8000),
                           Op("gt", <<Fact("assets.realisablePence"), Const(Num(0))>>)>>))}]

Sequestration == [
    key |-> "sequestration", jurisdictions |-> {"scotland"}, every |-> 0,
    stages |-> CommonStages("advice") \cup
        {AdvicePoint("advice", 3, {"application", "closed"}),
         Timed(Stage("application", 4, {"application.signed"}, {"awarded", "closed"})),
         Stage("awarded", 5, {}, {"closed"}),
         Terminal("closed", 6)},
    evidence |-> ConsentAndIdentity \cup FinancialEvidence \cup
        {Requirement("application.signed", "signature", TRUE)},
    eligibility |->
        {Blocking("scottish-resident", Is("client.jurisdiction", "scotland")),
         Blocking("map-eligibility",
                  Either(<<IsNot("case.sequestrationRoute", "map"),
                           Op("and", <<Op("between", <<Fact("debt.qualifyingPence"),
                                                       Fact("config.mapMinimumDebtPence"),
                                                       Fact("config.mapMaximumDebtPence")>>),
                                       AtMost("assets.totalPence", "config.mapAssetLimitPence")>>)>>))}]

DasDpp == [
    key |-> "das-dpp", jurisdictions |-> {"scotland"}, every |-> 12,
    stages |-> CommonStages("advice") \cup
        {AdvicePoint("advice", 3, {"application", "closed"}),
         Timed(Stage("application", 4, {"payment.mandate"}, {"approved", "closed"})),
         Stage("approved", 5, {}, {"review", "arrears", "closed"}),
         Timed(Stage("review", 6, {"sfs.complete"}, {"approved", "arrears", "closed"})),
         Timed(Stage("arrears", 7, {}, {"approved", "closed"})),
         Terminal("closed", 8)},
    evidence |-> ConsentAndIdentity \cup FinancialEvidence \cup
        {Requirement("payment.mandate", "payment-mandate", TRUE)},
    eligibility |->
        {Blocking("scottish-resident", Is("client.jurisdiction", "scotland")),
         Blocking("has-surplus", AtLeast("affordability.sustainablePaymentPence", 100)),
         Blocking("two-or-more-debts", AtLeast("debt.count", 2))}]

Templates == {Dmp, Iva, Dro, Bankruptcy, BreathingSpace, TrustDeed, Sequestration, DasDpp}

Thresholds ==
    "config.droDebtLimitPence" :> Num(5000000)
    @@ "config.droAssetLimitPence" :> Num(200000)
    @@ "config.droSurplusLimitPence" :> Num(7500)
    @@ "config.droVehicleLimitPence" :> Num(400000)
    @@ "config.trustDeedMinimumDebtPence" :> Num(500000)
    @@ "config.mapMinimumDebtPence" :> Num(150000)
    @@ "config.mapMaximumDebtPence" :> Num(2500000)
    @@ "config.mapAssetLimitPence" :> Num(200000)

\* What ships passes what the platform asks of a case type, and from every
\* stage a case can get to one that ends it.
RECURSIVE Reaches(_, _, _)
Reaches(type, from, seen) ==
    \/ StageByKey(type, from).terminal
    \/ \E s \in StageKeys(type) \ (seen \cup {from}) :
          CanTransition(type, from, s) /\ Reaches(type, s, seen \cup {from})

ASSUME TemplatesAreAccepted ==
    \A t \in Templates : Accepted(t) /\ \A s \in StageKeys(t) : Reaches(t, s, {})
=============================================================================
