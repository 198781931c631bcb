------------------------------ MODULE Workflows ------------------------------
(* The workflows of the platform's desks on a loaded dataset: identity, alerts, *)
(* executive dashboard, delay causes, outlier review, journey corrections and   *)
(* sessions.  The desks share no table that another one's property reads, so a  *)
(* behaviour of all of them is an interleaving of behaviours of each; one desk  *)
(* is chosen at the start and its behaviours are explored alone.  Alerts and    *)
(* action items are two desks: what they share is the reset that deletes both,  *)
(* and the alert an item names, which no step reads.                            *)
EXTENDS Integers, Sequences, FiniteSets

CONSTANTS
    None, Requests, Stewards,                                           \* shared
    Bases, Ratio, NumCalls, Loads, EventKeys, MaxDecisions,             \* identity
    Tenants, Findings, Fact, Evaluators, Updaters,               \* alerts
    MaxGen, MaxAlerts, MaxItems, MaxResets, MaxEvents,
    MaxBatches, MaxDataEdits,                                           \* dashboard
    Duration, Stage, Records, Payloads, MaxDelayRequests,               \* delay causes
    Keys, Detectors, MaxReviews,                                        \* outlier review
    Rebuilders, Times, Observed, AnchorTime, MaxCorrections,            \* journey
    Users, Machines, AccessLife, IdleLife, RefreshLife,                 \* sessions
    MaxSessions, MaxRequests, MaxEdits, Horizon

VARIABLES
    desk,
    call, into, eventKey, event, service, candidate, decision, history, issue, todo,
    rows, calls, alerts, items, audited, eval, update, epoch,
    data, lastBatch, rebuilt, snaps, viewing, excused,
    delay, allocs, analysing, nextId,
    records, detection, toggle, reviews,
    occs, selection, stages, correcting, rebuilding, corrections, latest, disturbed,
    now, accounts, sessions, refreshes, request, received

ID == INSTANCE IdentityResolution
AL == INSTANCE AlertWorkflow
SN == INSTANCE ExecutiveSnapshot WITH request <- viewing, MaxEdits <- MaxDataEdits
DC == INSTANCE DelayCauses WITH request <- analysing, MaxRequests <- MaxDelayRequests
OR == INSTANCE OutlierReview WITH operations <- reviews, MaxOperations <- MaxReviews
JC == INSTANCE JourneyCorrections WITH operations <- corrections, MaxOperations <- MaxCorrections, Loads <- Observed
SE == INSTANCE Sessions

\* What the settings and the loaded data are: lives in whole minutes, finitely many findings,
\* calls with their attributes (0 is NULL), observations with their ranks, and allocation lists
\* of whole hours.
Attributes == [name : ID!Names, imo : Nat, vcn : Nat, type : Nat, flag : Nat, teu : Nat, grt : Nat, loa : Nat]
ASSUME DeskAssumption ==
    /\ None \notin Nat
    /\ AccessLife \in Nat /\ IdleLife \in Nat
    /\ IsFiniteSet(Findings) /\ \A f \in Findings : Fact[f].tenant \in Tenants
    /\ NumCalls \in Nat /\ Loads \subseteq [ID!Calls -> Attributes]
    /\ Duration \in Nat
    /\ Payloads \subseteq Seq([hours : Int, primary : BOOLEAN, status : STRING])
    /\ Observed \subseteq Seq([time : Times, rank : Nat])

Desks == {"identity", "alerts", "items", "dashboard", "delays", "outliers", "journey", "sessions"}

\* A desk that is not explored has one fixed dataset.
Unattended ==
    /\ desk # "identity" => call = CHOOSE l \in Loads : TRUE
    /\ desk # "delays" => delay = DC!ImportedDelay("Confirmed", TRUE)
    /\ desk # "journey" => Cardinality(occs) = 1

WorkflowsInit ==
    /\ desk \in Desks
    /\ ID!IdentityInit /\ AL!AlertInit /\ SN!SnapInit /\ DC!DelayInit
    /\ OR!OutlierInit /\ JC!JourneyInit /\ SE!SessionInit
    /\ Unattended

identityTables == <<call, into, eventKey, event, service, candidate, decision, history, issue, todo>>
alertTables == <<rows, calls, alerts, items, audited, eval, update, epoch>>
dashboardTables == <<data, lastBatch, rebuilt, snaps, viewing, excused>>
delayTables == <<delay, allocs, analysing, nextId>>
outlierTables == <<records, detection, toggle, reviews>>
journeyTables == <<occs, selection, stages, correcting, rebuilding, corrections, latest, disturbed>>
sessionTables == <<now, accounts, sessions, refreshes, request, received>>

Identity == /\ desk = "identity" /\ ID!IdentityNext
            /\ UNCHANGED <<desk, alertTables, dashboardTables, delayTables, outlierTables, journeyTables, sessionTables>>
Alerting == /\ desk = "alerts" /\ AL!EvaluationNext
            /\ UNCHANGED <<desk, identityTables, dashboardTables, delayTables, outlierTables, journeyTables, sessionTables>>
Items == /\ desk = "items" /\ AL!ItemNext
         /\ UNCHANGED <<desk, identityTables, dashboardTables, delayTables, outlierTables, journeyTables, sessionTables>>
Dashboard == /\ desk = "dashboard" /\ SN!SnapNext
             /\ UNCHANGED <<desk, identityTables, alertTables, delayTables, outlierTables, journeyTables, sessionTables>>
Delays == /\ desk = "delays" /\ DC!DelayNext
          /\ UNCHANGED <<desk, identityTables, alertTables, dashboardTables, outlierTables, journeyTables, sessionTables>>
OutlierDesk == /\ desk = "outliers" /\ OR!OutlierNext
               /\ UNCHANGED <<desk, identityTables, alertTables, dashboardTables, delayTables, journeyTables, sessionTables>>
JourneyDesk == /\ desk = "journey" /\ JC!JourneyNext
               /\ UNCHANGED <<desk, identityTables, alertTables, dashboardTables, delayTables, outlierTables, sessionTables>>
SessionDesk == /\ desk = "sessions" /\ SE!SessionNext
               /\ UNCHANGED <<desk, identityTables, alertTables, dashboardTables, delayTables, outlierTables, journeyTables>>

WorkflowsNext ==
    \/ Identity \/ Alerting \/ Items \/ Dashboard \/ Delays \/ OutlierDesk \/ JourneyDesk \/ SessionDesk

workflowVars ==
    <<desk, identityTables, alertTables, dashboardTables, delayTables, outlierTables, journeyTables, sessionTables>>

WorkflowsSpec == WorkflowsInit /\ [][WorkflowsNext]_workflowVars

-----------------------------------------------------------------------------
(* What each desk promises; the formulas are explained in its module.         *)

\* Identity: merges of live calls leave every row with a live call.
RowsStayVisible == ID!RowsStayVisible
\* Identity: undoing a merge gives back what the merge changed.
UndoRestores == ID!UndoRestores
\* Alerts: an evaluation leaves no row that its rules read without an alert.
EvaluationRaisesEveryHit == AL!EvaluationRaisesEveryHit
\* Alerts: an evaluation on its own raises no alert that is open already.
EvaluationDoesNotDuplicate == AL!EvaluationDoesNotDuplicate
\* Action items: comments are kept by updates that do not overlap.
CommentsKeptWithoutOverlap == AL!CommentsKeptWithoutOverlap
\* Dashboard: a stored dashboard follows the data except for the races it is excused for.
DashboardFollowsData == SN!DashboardFollowsData
\* Delays: inference never replaces a confirmed reason.
ConfirmedReasonKept == DC!ConfirmedReasonKept
\* Delays: an allocation on its own accounts for at most the delay, with one primary cause.
AllocationAccounts == DC!AllocationAccounts
\* Outliers: an exclusion outlives the detections that find the outlier again.
ExclusionOutlivesDetection == OR!ExclusionOutlivesDetection
\* Journey: the correction approved last governs the selection and the stages.
ApprovedCorrectionGoverns == JC!ApprovedCorrectionGoverns
\* Sessions: a revoked session stays revoked.
RevokedStaysRevoked == SE!RevokedStaysRevoked
\* Sessions: no request is admitted on permissions or activity older than the limits.
AdmissionsAreRecent == SE!AdmissionsAreRecent
=============================================================================
