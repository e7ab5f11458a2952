SPECIFICATION MCSpec
CONSTANTS
    Type <- MCType
    Jurisdiction = "england-wales"
    DebtForms <- MCDebts
    Budgets <- MCBudgets
    AssetValues = {200001}
    Elsewhere <- MCElsewhere
    MaxSteps = 3
    MaxDepth = 12
    Categories = {"housekeeping", "transport"}
    Amounts = {1, 50, 101}
    Household <- MCHousehold
    Triggers <- MCTriggers
    Shares <- MCShares
    MaxLines = 2
INVARIANTS TypeOK SurfacesAgree PenniesConserved
PROPERTIES OpeningErasesNothing HealthIgnoresVulnerability UnknownOpensNothing
CHECK_DEADLOCK FALSE
