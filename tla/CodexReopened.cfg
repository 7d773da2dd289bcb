SPECIFICATION Spec
CONSTANTS
    t1 = t1
    t2 = t2
    Turn = {t1, t2}
    NoTurn = NoTurn
    RowKinds <- AfterBroken
    OwnerSource = "client"
    BatchRows = 2
    MaxTime = 2
    MaxTelemetry = 2
    MaxTroubles = 0
INVARIANTS
    PromptReopensJudgement
