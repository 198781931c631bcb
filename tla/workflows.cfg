SPECIFICATION WorkflowsSpec
CONSTANTS
    None = None
    Requests = {q1, q2}
    Stewards = {s1, s2}
    Bases = {"a", "b"}
    Ratio <- MCRatio
    NumCalls = 3
    Loads <- MCLoads
    EventKeys = {k1}
    MaxDecisions = 2
    Tenants = {"a", "b"}
    Findings <- MCFindings
    Fact <- MCFact
    Evaluators = {s1, s2}
    Updaters = {q1, q2}
    MaxGen = 1
    MaxAlerts = 3
    MaxItems = 2
    MaxResets = 1
    MaxEvents = 2
    MaxBatches = 2
    MaxDataEdits = 2
    Duration = 2
    Stage <- MCStage
    Records <- MCRecords
    Payloads <- MCPayloads
    MaxDelayRequests = 4
    Keys = {x1, x2}
    Detectors = {s1, s2}
    MaxReviews = 4
    Rebuilders = {w1}
    Times = {3, 7}
    Observed <- MCObserved
    AnchorTime = 5
    MaxCorrections = 3
    Users = {a1}
    Machines = {m1}
    AccessLife = 3
    IdleLife = 1
    RefreshLife = 3
    MaxSessions = 2
    MaxRequests = 3
    MaxEdits = 1
    Horizon = 3
INVARIANTS
    RowsStayVisible
    DashboardFollowsData
    ApprovedCorrectionGoverns
PROPERTIES
    UndoRestores
    EvaluationRaisesEveryHit
    EvaluationDoesNotDuplicate
    CommentsKeptWithoutOverlap
    ConfirmedReasonKept
    AllocationAccounts
    ExclusionOutlivesDetection
    RevokedStaysRevoked
    AdmissionsAreRecent
SYMMETRY DeskSymmetry
CHECK_DEADLOCK FALSE
