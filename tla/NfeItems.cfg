SPECIFICATION Spec
CONSTANTS
    e1 = e1
    e2 = e2
    r1 = r1
    r2 = r2
    Items = {1, 2, 3}
    Exporters = {e1, e2}
    Rules = {r1, r2}
    Duimps <- MCDuimps
    Assignments <- MCAssignments
    Configs <- MCConfigs
    CostChoices <- MCCostChoices
    Products = {150}
    Others = {0}
    Payloads <- MCPayloads
    Adjustments <- MCAdjustments
    MaxEdits = 3
INVARIANTS TypeOK CostsAddUp CostsCountedOnce ManualIsKept IcmsIsInside
CHECK_DEADLOCK FALSE
