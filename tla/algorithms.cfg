SPECIFICATION AlgorithmsSpec
CONSTANTS
    None = None
    SampleHours <- MCHours
    MaxSample = 4
INVARIANTS
    LongStableStageRanksBelow
    DashboardAccountsForAll
    LeadTimesAreSound
    KpisAreGoverned
    DelaysReconcile
    OutlierRulesAreSelective
    JourneyAddsUp
    QualityRulesAreSound
    WorkbookIsAccountedFor
    ScopesAgreeOnRows
CHECK_DEADLOCK FALSE
