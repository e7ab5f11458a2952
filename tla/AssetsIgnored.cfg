CONSTANTS
    Type <- MCType
    Jurisdiction = "england-wales"
    DebtForms <- MCDebts
    Budgets <- MCBudgets
    AssetValues = {200001}
    Elsewhere <- MCElsewhere
    MaxSteps = 3
    MaxDepth = 12
    Categories = {"housekeeping"}
    Amounts = {1}
    Household <- MCHousehold
    Triggers <- MCTriggers
    Shares <- MCShares
    MaxLines = 1
SPECIFICATION MCSpec
INVARIANT CeilingIsApplied
CHECK_DEADLOCK FALSE
