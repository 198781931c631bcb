------------------------- MODULE IdentityResolution -------------------------
(***************************************************************************)
(* Duplicate vessel calls of one tenant: candidates, merges, unmerges and  *)
(* the auto-merge loop (services/identity/engine.py, merger.py and the     *)
(* requests of routers/identity.py).  Every merge and unmerge is a         *)
(* transaction; the auto-merge loop commits after each of its merges, so   *)
(* the requests of data stewards come between them.                        *)
(***************************************************************************)
EXTENDS IdentityMatch, Sequences, SequencesExt

CONSTANTS
  NumCalls,       \* vessel calls of the dataset; the number is the call's id
  Loads,          \* the datasets: the attributes of each call as loaded
  EventKeys,      \* (event definition, occurrence index) of an occurrence
  MaxDecisions    \* bound: merge decisions in a behaviour

Calls == 1..NumCalls
Pairs == {p \in Calls \X Calls : p[1] < p[2]}
Gone == 0   \* an occurrence that was deleted

VARIABLES
  call,       \* canonical.vessel_call: the comparable attributes
  into,       \* merged_into_id; 0 when is_merged is false
  eventKey,   \* the occurrence key of the event each call was loaded with
  event,      \* canonical.event_occurrence: the call that owns that event
  service,    \* service requests and delays: the owner of each call's row
  candidate,  \* identity.match_candidate per pair
  decision,   \* identity.merge_decision, in the order they were made
  history,    \* auxiliary: the tables before and after each merge
  issue,      \* quality issues DQ-001 and DQ-002 raised for calls
  todo        \* the pairs an auto-merge loop still has to look at, by their place in its list

identityVars == <<call, into, eventKey, event, service, candidate,
          decision, history, issue, todo>>

NoCandidate == [status |-> "NONE", conflict |-> FALSE]

IdentityInit ==
  /\ call \in Loads
  /\ into = [c \in Calls |-> 0]
  /\ eventKey \in [Calls -> EventKeys]
  /\ event = [c \in Calls |-> c]
  /\ service = [c \in Calls |-> c]
  /\ candidate = [p \in Pairs |-> NoCandidate]
  /\ decision = <<>>
  /\ history = <<>>
  /\ issue = {}
  /\ todo = <<>>

\* What a merge changes, for the auxiliary history.
Tables == [call |-> call, into |-> into, event |-> event, service |-> service]

Live == {c \in Calls : into[c] = 0}

-----------------------------------------------------------------------------
(* Merge and unmerge *)

\* The columns a merge decision remembers of a call (_serialize_vessel_call).
Snapshot(c) == [fields |-> call[c], into |-> into[c]]

\* The occurrences of call m that move to call s: those whose key s lacks.
Moves(m, s) ==
  {e \in Calls : event[e] = m /\
     ~\E d \in Calls : event[d] = s /\ eventKey[d] = eventKey[e]}

\* Mutant: the services and delays of the merged call stay with it.
MergePairLeavesServices(p, auto) ==
  LET v == call[p[1]]
      w == call[p[2]]
      s == IF FirstSurvives(v, w) THEN p[1] ELSE p[2]
      m == IF s = p[1] THEN p[2] ELSE p[1]
  IN
  /\ Len(decision) < MaxDecisions
  /\ candidate[p].status # "NONE"
  /\ auto => ~candidate[p].conflict
  /\ event' = [e \in Calls |-> IF e \in Moves(m, s) THEN s
                               ELSE IF event[e] = m THEN Gone ELSE event[e]]
  /\ service' = service
  /\ call' = [call EXCEPT ![s] = Consolidated(v, w)]
  /\ into' = [into EXCEPT ![m] = s]
  /\ decision' = Append(decision,
       [pair |-> p, survivor |-> s, merged |-> m, auto |-> auto,
        undone |-> FALSE, survivorPrior |-> Snapshot(s),
        mergedPrior |-> Snapshot(m), events |-> Moves(m, s),
        services |-> {r \in Calls : service[r] = m}])
  /\ history' = Append(history, [before |-> Tables, after |-> Tables'])
  /\ candidate' = [candidate EXCEPT ![p].status = "MERGED"]
  /\ UNCHANGED <<eventKey, issue>>

\* MergerService.execute_merge of pair p.  There is no look at is_merged or at
\* the candidate's status.
MergePair(p, auto) ==
  LET v == call[p[1]]
      w == call[p[2]]
      s == IF FirstSurvives(v, w) THEN p[1] ELSE p[2]
      m == IF s = p[1] THEN p[2] ELSE p[1]
  IN
  /\ Len(decision) < MaxDecisions
  /\ candidate[p].status # "NONE"
  /\ auto => ~candidate[p].conflict
  /\ event' = [e \in Calls |-> IF e \in Moves(m, s) THEN s
                               ELSE IF event[e] = m THEN Gone ELSE event[e]]
  /\ service' = [r \in Calls |-> IF service[r] = m THEN s ELSE service[r]]
  /\ call' = [call EXCEPT ![s] = Consolidated(v, w)]
  /\ into' = [into EXCEPT ![m] = s]
  /\ decision' = Append(decision,
       [pair |-> p, survivor |-> s, merged |-> m, auto |-> auto,
        undone |-> FALSE, survivorPrior |-> Snapshot(s),
        mergedPrior |-> Snapshot(m), events |-> Moves(m, s),
        services |-> {r \in Calls : service[r] = m}])
  /\ history' = Append(history, [before |-> Tables, after |-> Tables'])
  /\ candidate' = [candidate EXCEPT ![p].status = "MERGED"]
  /\ UNCHANGED <<eventKey, issue>>

\* POST /identity/merge: a steward merges any candidate, and overrides a
\* conflict when the request says so.
Merge(p) ==
  /\ MergePair(p, FALSE)
  /\ UNCHANGED todo

\* Mutant: the survivor keeps the consolidated attributes.
UnmergeKeepsSurvivor(d) ==
  LET dec == decision[d]
      s == dec.survivor
      m == dec.merged
      back == [e \in Calls |-> IF e \in dec.events /\ event[e] # Gone
                               THEN m ELSE event[e]]
  IN
  /\ ~dec.undone
  /\ \A a, b \in Calls : a # b /\ back[a] = back[b] /\ back[a] # Gone
                           => eventKey[a] # eventKey[b]
  /\ call' = [call EXCEPT ![m] = dec.mergedPrior.fields]
  /\ into' = [into EXCEPT ![s] = dec.survivorPrior.into, ![m] = 0]
  /\ event' = back
  /\ service' = [r \in Calls |-> IF r \in dec.services THEN m ELSE service[r]]
  /\ decision' = [decision EXCEPT ![d].undone = TRUE]
  /\ candidate' = [candidate EXCEPT ![dec.pair].status = "STEWARD_REVIEW"]
  /\ UNCHANGED <<eventKey, history, issue, todo>>

\* MergerService.execute_unmerge of decision d.  The occurrence key is unique
\* per call in the database: a restore that would break it is rolled back.
Unmerge(d) ==
  LET dec == decision[d]
      s == dec.survivor
      m == dec.merged
      back == [e \in Calls |-> IF e \in dec.events /\ event[e] # Gone
                               THEN m ELSE event[e]]
  IN
  /\ ~dec.undone
  /\ \A a, b \in Calls : a # b /\ back[a] = back[b] /\ back[a] # Gone
                           => eventKey[a] # eventKey[b]
  /\ call' = [call EXCEPT ![s] = dec.survivorPrior.fields,
                          ![m] = dec.mergedPrior.fields]
  /\ into' = [into EXCEPT ![s] = dec.survivorPrior.into, ![m] = 0]
  /\ event' = back
  /\ service' = [r \in Calls |-> IF r \in dec.services THEN m ELSE service[r]]
  /\ decision' = [decision EXCEPT ![d].undone = TRUE]
  /\ candidate' = [candidate EXCEPT ![dec.pair].status = "STEWARD_REVIEW"]
  /\ UNCHANGED <<eventKey, history, issue, todo>>

-----------------------------------------------------------------------------
(* Candidate generation and the auto-merge loop *)

Sorted(a, b) == IF a < b THEN <<a, b>> ELSE <<b, a>>

\* The places, in the two nested loops over a listing of the live calls, of the pairs that pass
\* the blocking filter, and the order in which the loops come to them.
ListedPlaces(list) ==
  {x \in (DOMAIN list) \X (DOMAIN list) :
     x[1] < x[2] /\ Comparable(call[list[x[1]]], call[list[x[2]]])}
Before(x, y) == x[1] < y[1] \/ (x[1] = y[1] /\ x[2] < y[2])

\* The quality case registered for a new candidate, if any.
QualityCase(v, w) ==
  LET sim == Similarity(v.name, w.name) IN
  IF Agree(v.vcn, w.vcn) /\ sim >= 98 /\ EvaluatePair(v, w).score >= 9800
  THEN {IF sim = 100 THEN "DQ-001" ELSE "DQ-002"} ELSE {}

\* IdentityEngine.generate_candidates: new candidates are inserted, existing
\* ones get a new score and status, whatever their status was.  The query has
\* no ORDER BY, so the listing is any order of the live calls.  With auto the
\* candidates found become the work of the auto-merge loop.
GenerateCandidates(list, auto) ==
  LET found == ListedPlaces(list)
      pair(x) == Sorted(list[x[1]], list[x[2]])
      pairs == {pair(x) : x \in found}
      result(p) == EvaluatePair(call[p[1]], call[p[2]])
  IN
  /\ auto => todo = <<>>
  /\ candidate' = [p \in Pairs |->
       IF p \in pairs
       THEN [status |-> result(p).status, conflict |-> result(p).conflict]
       ELSE candidate[p]]
  /\ issue' = issue \cup
       UNION {{<<q, list[x[2]]>> : q \in QualityCase(call[list[x[1]]], call[list[x[2]]])} :
              x \in {x \in found : candidate[pair(x)].status = "NONE"}}
  /\ todo' = IF auto THEN [x \in found |-> pair(x)] ELSE todo
  /\ UNCHANGED <<call, into, eventKey, event, service, decision, history>>

\* POST /identity/resolve.
Resolve == \E list \in SetToSeqs(Live), auto \in BOOLEAN :
             GenerateCandidates(list, auto)

\* The place the auto-merge loop comes to next, and what is left after it.
Upcoming(x) == \A y \in DOMAIN todo : y = x \/ Before(x, y)
Without(x) == Restrict(todo, DOMAIN todo \ {x})

\* One round of the loop in auto_merge_candidates.  The commit before it made
\* the session re-read the candidate row.
AutoMerge(x) ==
  /\ Upcoming(x)
  /\ candidate[todo[x]].status = "AUTO_MERGE_CANDIDATE"
  /\ MergePair(todo[x], TRUE)
  /\ todo' = Without(x)

AutoSkip(x) ==
  /\ Upcoming(x)
  /\ candidate[todo[x]].status # "AUTO_MERGE_CANDIDATE" \/ candidate[todo[x]].conflict
  /\ todo' = Without(x)
  /\ UNCHANGED <<call, into, eventKey, event, service, candidate, decision,
                 history, issue>>

IdentityNext ==
  \/ Resolve
  \/ \E x \in DOMAIN todo : AutoMerge(x) \/ AutoSkip(x)
  \/ \E p \in Pairs : Merge(p)
  \/ \E d \in DOMAIN decision : Unmerge(d)

IdentitySpec == IdentityInit /\ [][IdentityNext]_identityVars

-----------------------------------------------------------------------------
(* Properties *)

\* The rows of tables t that decision d moved or changed.
Touched(t, d) ==
  LET cs == {decision[d].survivor, decision[d].merged} IN
  [call |-> [c \in cs |-> t.call[c]], into |-> [c \in cs |-> t.into[c]],
   event |-> [e \in {e \in Calls : event[e] # Gone} |-> t.event[e]],
   service |-> t.service]

\* A merge of two calls that were both live when it was made.
OfLiveCalls(d) ==
  decision[d].survivorPrior.into = 0 /\ decision[d].mergedPrior.into = 0

\* Unmerge is the inverse of merge.  When the rows a decision changed are as
\* the merge left them, undoing it gives both calls their attributes and merge
\* marks back, and every surviving occurrence, service request and delay its
\* owner, whatever else was merged and undone in between.
UndoRestores ==
  [][\A d \in DOMAIN decision :
       /\ decision'[d].undone /\ ~decision[d].undone
       /\ OfLiveCalls(d)
       /\ Touched(Tables, d) = Touched(history[d].after, d)
       => Touched(Tables', d) = Touched(history[d].before, d)]_identityVars

\* Nothing drops out of the consolidated population: after any series of
\* merges of live calls, every occurrence, service request and delay belongs
\* to a live call.
RowsStayVisible ==
  (\A d \in DOMAIN decision : OfLiveCalls(d) /\ ~decision[d].undone) =>
     \A r \in Calls : service[r] \in Live /\ event[r] \in Live \cup {Gone}

\* The hard rule of the matcher and the merger: calls with different IMO
\* numbers or VCNs are never merged automatically.
ConflictsNeverAutoMerged ==
  \A d \in DOMAIN decision :
    decision[d].auto => ~KeyConflict(decision[d].survivorPrior.fields,
                                     decision[d].mergedPrior.fields)
=============================================================================
