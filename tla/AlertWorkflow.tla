---------------------------- MODULE AlertWorkflow ----------------------------
(* Operational alerts and action items (services/alerts/engine.py) over the   *)
(* rows of several tenants, with the two things that replace those rows: the  *)
(* analytics stages that persist outliers and bottlenecks, and the reset that *)
(* precedes a load or a clear (services/ingestion/synthetic.py).              *)
(*                                                                            *)
(* The tables of alerts, action items, outliers and bottlenecks are shared by *)
(* the tenants.  An evaluation reads the open alerts, then runs one query     *)
(* after the other, each of which sees what is committed by then, and commits *)
(* what it creates at its end; the worker's analytics pipeline and the API    *)
(* both run evaluations.  An update of an action item reads the row and       *)
(* commits later; the other requests are one short transaction each.          *)
EXTENDS Naturals, Sequences, FiniteSets, SequencesExt

CONSTANTS
    Tenants,       \* the tenants sharing the database
    Findings,      \* names of what the data of the tenants shows
    Fact,          \* [Findings -> what the row of a finding says]
    Evaluators,    \* processes that run evaluate_rules
    Updaters,      \* requests that update an action item
    MaxGen,        \* bound: how often a row may be recomputed
    MaxAlerts,     \* bound: length of the alert table
    MaxItems,      \* bound: length of the action item table
    MaxResets,     \* bound: resets of one behaviour
    MaxEvents      \* bound: audit events after which no alert changes and no item is created

OpenStatuses == {"NEW", "ACKNOWLEDGED"}

VARIABLES
    rows,      \* rows the rules read, [finding, gen]: a recomputed row has a new id
    alerts,    \* analytics.operational_alert, in the order of creation
    items,     \* analytics.action_item
    audited,   \* number of audit events of the workflow
    calls,     \* tenants whose vessel calls are there
    eval,      \* [Evaluators -> an evaluation under way]; began and data are history
    update,    \* [Updaters -> an update of an action item under way]
    epoch      \* resets so far: a row of an earlier epoch is deleted

alertVars == <<rows, calls, alerts, items, audited, eval, update, epoch>>

Row == [finding : Findings, gen : 0..MaxGen]
TenantOf(r) == Fact[r.finding].tenant

-----------------------------------------------------------------------------
(* The alert rules.                                                           *)

\* DEFAULT_ALERT_RULES: the rules that seed_default_rules keeps in the database.
DEFAULT_ALERT_RULES ==
    {"RULE_MISSING_DELAY_REASON", "RULE_CRITICAL_BOTTLENECK", "RULE_EXTREME_P90_OUTLIER",
     "RULE_RESOURCE_SHORTAGE", "RULE_BERTH_CONFLICT"}

\* The rule each query of an evaluation belongs to, in the order in which the queries run.
RuleOf ==
    <<"RULE_MISSING_DELAY_REASON", "RULE_MISSING_DELAY_REASON", "RULE_CRITICAL_BOTTLENECK",
      "RULE_EXTREME_P90_OUTLIER", "RULE_RESOURCE_SHORTAGE", "RULE_BERTH_CONFLICT">>

\* What a query asks of a row; no query names a tenant.
Asks(query, f) ==
    CASE query = 1 -> f.table = "delay" /\ f.review
      [] query = 2 -> f.table = "issue" /\ f.code = "DQ-007"
      [] query = 3 -> f.table = "bottleneck" /\ f.score >= 65
      [] query = 4 -> f.table = "outlier" /\ f.severity \in {"HIGH", "CRITICAL"}
      [] query = 5 -> f.table = "delay" /\ f.category \in {"Tug", "Pilot"} /\ f.hours >= 1
      [] query = 6 -> f.table = "delay" /\ f.category = "Berth Non-Availability" /\ f.hours >= 1

\* The deduplication keys a query gives for the rows R: rule and linked entity.
QueryHits(query, R) == {<<RuleOf[query], r>> : r \in {x \in R : Asks(query, Fact[x.finding])}}

\* The keys of all queries.
Hits(R) == UNION {QueryHits(query, R) : query \in DOMAIN RuleOf}

\* Mutants: the status filter forgets one open state, or there is no status filter.
OpenKeysNewOnly == {alerts[i].key : i \in {j \in DOMAIN alerts : alerts[j].status = "NEW"}}
OpenKeysAnyStatus == {alerts[i].key : i \in DOMAIN alerts}

\* The open alerts, read once when an evaluation begins.
OpenKeys == {alerts[i].key : i \in {j \in DOMAIN alerts : alerts[j].status \in OpenStatuses}}

-----------------------------------------------------------------------------
\* No evaluation under way.
NoEvaluation == [pc |-> "idle", query |-> 1, open |-> {}, found |-> {}, began |-> <<>>, data |-> {}, epoch |-> 0]

AlertInit ==
    /\ rows = [finding : Findings, gen : {0}] /\ calls = Tenants
    /\ alerts = <<>> /\ items = <<>> /\ audited = 0
    /\ eval = [e \in Evaluators |-> NoEvaluation]
    /\ update = [u \in Updaters |-> [pc |-> "idle"]]
    /\ epoch = 0

\* evaluate_rules up to its queries: the rules are seeded, the open alerts are read.
EvaluateBegin(e) ==
    /\ eval[e].pc = "idle"
    /\ eval' = [eval EXCEPT ![e] = [pc |-> "open", query |-> 1, open |-> OpenKeys, found |-> {},
                                    began |-> alerts, data |-> rows, epoch |-> epoch]]
    /\ UNCHANGED <<rows, calls, alerts, items, audited, update, epoch>>

\* The next query: the rows that are committed by now; the alerts stay in memory.
EvaluateRead(e) ==
    /\ eval[e].pc = "open" /\ eval[e].query \in DOMAIN RuleOf
    /\ eval' = [eval EXCEPT ![e].found = @ \cup QueryHits(eval[e].query, rows), ![e].query = @ + 1]
    /\ UNCHANGED <<rows, calls, alerts, items, audited, update, epoch>>

\* The keys an evaluation has no open alert for.
Missing(e) == eval[e].found \ eval[e].open

\* The database refuses an alert that names a vessel call that is deleted.
Refused(e) == \E k \in Missing(e) : Fact[k[2].finding].table # "bottleneck" /\ TenantOf(k[2]) \notin calls

\* The commit after the last query: an alert for every key that was not open, or for none.
EvaluateCommit(e) ==
    /\ eval[e].pc = "open" /\ eval[e].query \notin DOMAIN RuleOf
    /\ eval' = [eval EXCEPT ![e] = NoEvaluation]
    /\ \/ Refused(e) /\ alerts' = alerts
       \/ /\ ~Refused(e)
          /\ Len(alerts) + Cardinality(Missing(e)) <= MaxAlerts
          /\ alerts' = alerts \o SetToSeq({[key |-> k, status |-> "NEW"] : k \in Missing(e)})
    /\ UNCHANGED <<rows, calls, items, audited, update, epoch>>

\* acknowledge_alert and resolve_alert: no check of the alert's status.
SetAlert(i, status) ==
    /\ i \in DOMAIN alerts
    /\ audited < MaxEvents
    /\ alerts' = [alerts EXCEPT ![i].status = status]
    /\ audited' = audited + 1
    /\ UNCHANGED <<rows, calls, items, eval, update, epoch>>

\* create_action_item.
CreateItem(i) ==
    /\ i \in {0} \cup DOMAIN alerts
    /\ Len(items) < MaxItems /\ audited < MaxEvents
    /\ items' = Append(items, [alert |-> i, status |-> "OPEN", comments |-> <<>>])
    /\ audited' = audited + 1
    /\ UNCHANGED <<rows, calls, alerts, eval, update, epoch>>

\* update_action_item, first half: the row with its comments is read.
UpdateRead(u, i, status, comment) ==
    /\ update[u].pc = "idle" /\ i \in DOMAIN items
    /\ update' = [update EXCEPT ![u] =
                    [pc |-> "read", item |-> i, epoch |-> epoch, row |-> items[i], status |-> status, comment |-> comment]]
    /\ UNCHANGED <<rows, calls, alerts, items, audited, eval, epoch>>

\* Mutant: the new comment replaces the list.
UpdatedItemReplacing(row, u) ==
    [row EXCEPT !.comments = IF update[u].comment THEN <<u>> ELSE @]

\* The row as update_action_item rewrites it: no status keeps the status, a comment is
\* appended to the comments that were read.
UpdatedItem(row, u) ==
    [row EXCEPT !.status = IF update[u].status = "keep" THEN @ ELSE update[u].status,
                !.comments = IF update[u].comment
                             THEN Append(update[u].row.comments, u) ELSE @]

\* update_action_item, second half: only changed columns are written; a row that a reset
\* deleted meanwhile fails the request.
UpdateCommit(u) ==
    /\ update[u].pc = "read"
    /\ update' = [update EXCEPT ![u] = [pc |-> "done"]]
    /\ IF update[u].epoch = epoch
       THEN /\ items' = [items EXCEPT ![update[u].item] = UpdatedItem(@, u)]
            /\ audited' = audited + 1
       ELSE UNCHANGED <<items, audited>>
    /\ UNCHANGED <<rows, calls, alerts, eval, epoch>>

\* The outlier stage replaces the rows of its tenant, the bottleneck stage the rows of all
\* tenants: the new rows have new ids.
Recompute(t, table) ==
    LET hit(r) == /\ Fact[r.finding].table = table
                  /\ table = "outlier" => TenantOf(r) = t
    IN  /\ table \in {"outlier", "bottleneck"}
        /\ \E r \in rows : hit(r)
        /\ \A r \in rows : hit(r) => r.gen < MaxGen
        /\ rows' = {IF hit(r) THEN [r EXCEPT !.gen = @ + 1] ELSE r : r \in rows}
        /\ UNCHANGED <<calls, alerts, items, audited, eval, update, epoch>>

\* reset_tenant_dataset: calls and canonical rows of one tenant; alerts, action items, outliers and
\* bottlenecks of every tenant.
Reset(t) ==
    /\ epoch < MaxResets
    /\ epoch' = epoch + 1
    /\ rows' = {r \in rows : Fact[r.finding].table \in {"delay", "issue"} /\ TenantOf(r) # t}
    /\ calls' = calls \ {t}
    /\ alerts' = <<>> /\ items' = <<>>
    /\ UNCHANGED <<audited, eval, update>>

\* Evaluations, and what changes the alerts and the rows under them.
EvaluationNext ==
    \/ \E e \in Evaluators : EvaluateBegin(e) \/ EvaluateRead(e) \/ EvaluateCommit(e)
    \/ \E i \in 1..MaxAlerts, s \in {"ACKNOWLEDGED", "RESOLVED"} : SetAlert(i, s)
    \/ \E t \in Tenants, table \in {"outlier", "bottleneck"} : Recompute(t, table)
    \/ \E t \in Tenants : Reset(t)

\* Action items, and what deletes them.
ItemNext ==
    \/ \E i \in 0..MaxAlerts : CreateItem(i)
    \/ \E u \in Updaters, i \in 1..MaxItems, s \in {"keep", "COMPLETED"}, c \in BOOLEAN :
           UpdateRead(u, i, s, c)
    \/ \E u \in Updaters : UpdateCommit(u)
    \/ \E t \in Tenants : Reset(t)

AlertNext == EvaluationNext \/ ItemNext

AlertSpec == AlertInit /\ [][AlertNext]_alertVars

-----------------------------------------------------------------------------
(* Properties.                                                                *)

\* When an evaluation ends, every row that one of its queries returned, and so every row that
\* a rule hits and that was there from its beginning to its end, has an alert that was open when
\* the evaluation began or a new one: a problem whose alert was resolved, or deleted by another
\* tenant's reset, is raised again as long as the data shows it, whatever requests ran meanwhile.
\* Only a reset during the evaluation can leave such a row without one: it deletes the alert that
\* was open, or a call of the rows that were read and with it fails the commit.  A row that is
\* committed after its query has run is left to the next evaluation.
EvaluationRaisesEveryHit ==
    [][\A e \in Evaluators :
           eval[e].pc = "open" /\ eval'[e].pc = "idle" =>
               \A k \in eval[e].found \cup Hits(eval[e].data \cap rows) :
                   \/ /\ \E i \in DOMAIN eval[e].began :
                             eval[e].began[i].key = k /\ eval[e].began[i].status \in OpenStatuses
                      /\ eval[e].epoch = epoch => \E i \in DOMAIN alerts' : alerts'[i].key = k
                   \/ \E i \in DOMAIN alerts' : alerts'[i] = [key |-> k, status |-> "NEW"]
                   \/ eval[e].epoch # epoch /\ \E h \in eval[e].found : TenantOf(h[2]) \notin calls]_alertVars

\* An evaluation creates at most one alert for an entity, and none for an entity whose
\* alert was open when it began and is still open when it commits.
EvaluationDoesNotDuplicate ==
    [][\A i, j \in DOMAIN alerts' :
           i < j /\ j > Len(alerts) /\ alerts'[i].key = alerts'[j].key =>
               /\ i <= Len(alerts)
               /\ \/ alerts[i].status = "RESOLVED"
                  \/ \E e \in Evaluators :
                         /\ eval[e].pc = "open" /\ eval'[e].pc = "idle"
                         /\ eval[e].epoch = epoch /\ i \in DOMAIN eval[e].began =>
                                eval[e].began[i].status = "RESOLVED"]_alertVars

\* A comment that was committed stays in the row unless an update that had read the row
\* before it was committed writes its own comment over it (both requests return 200).
CommentsKeptWithoutOverlap ==
    [][\A i \in DOMAIN items :
           i \in DOMAIN items' /\ ~IsPrefix(items[i].comments, items'[i].comments) =>
               \E u \in Updaters : /\ update[u].pc = "read" /\ update'[u].pc = "done"
                                   /\ update[u].item = i
                                   /\ update[u].row.comments # items[i].comments]_alertVars
=============================================================================
