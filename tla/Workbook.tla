------------------------------- MODULE Workbook -------------------------------
(* How a workbook becomes canonical rows (services/ingestion/pipeline.py,      *)
(* standardization.py): a worksheet is recognised by its headers, its rows are *)
(* normalised onto governed columns, staged, checked for duplicates and        *)
(* committed as calls, event occurrences and cargo operations.  A source label *)
(* stands for the governed column its alias leads to; a blank cell is None.    *)
EXTENDS Statistics

CONSTANT None

-----------------------------------------------------------------------------
(* Recognising a worksheet.                                                   *)

Required ==
    [VesselCalls |-> {"VCN", "Vessel_Name"},
     Events |-> {"VCN", "Event_Name", "Event_Timestamp"},
     Services |-> {"VCN", "Service_Type"},
     CargoOps |-> {"VCN"},
     Delays |-> {"VCN"}]

\* The governed columns of each worksheet, those shared between worksheets among them.
Columns ==
    [VesselCalls |-> {"VCN", "Vessel_Name", "IMO_Number", "Vessel_Type", "Cargo_Type", "Planned_Quantity"},
     Events |-> {"VCN", "Event_Name", "Event_Timestamp", "Movement_Type", "Operation_Type", "Timezone"},
     Services |-> {"VCN", "Service_Type", "Movement_Type", "Scheduled_Time", "Served_Time", "Data_Status"},
     CargoOps |-> {"VCN", "Cargo_Type", "Operation_Type", "Planned_Quantity", "Cargo_Start", "Data_Status"},
     Delays |-> {"VCN", "Movement_Type", "Scheduled_Time", "Served_Time", "Delay_Hours", "Delay_Reason"}]

Worksheets == DOMAIN Required

recognized_columns(w, labels) == labels \cap Columns[w]

\* CargoOps and Delays need a column of their own besides VCN unless the sheet has their name.
Candidates(labels, named) ==
    {w \in Worksheets :
        /\ Required[w] \subseteq labels
        /\ w \in {"CargoOps", "Delays"} /\ named = None => recognized_columns(w, labels) # {"VCN"}}

Score(w, labels) == Cardinality(recognized_columns(w, labels))

\* The worksheet the labels stand for: the one the sheet is named after or none, else the best
\* if it is the only best.
classify_headers(labels, named) ==
    LET fits == Candidates(labels, named)
        best == {w \in fits : \A v \in fits : Score(v, labels) <= Score(w, labels)}
    IN  IF named # None
        THEN IF named \in fits THEN named ELSE None
        ELSE IF Cardinality(best) = 1 THEN CHOOSE w \in best : TRUE ELSE None

\* The first row, of those scanned, with the highest score: its position, or 0.
detect_header(rows, named) ==
    LET target(i) == classify_headers(rows[i], named)
        found == {i \in DOMAIN rows : target(i) # None}
        score(i) == Score(target(i), rows[i])
        best == {i \in found : \A j \in found : score(j) <= score(i)}
    IN  IF best = {} THEN 0 ELSE Min(best)

\* What parsing one worksheet comes to; "failed" stops the whole dataset.
ParsedAs(rows, named) ==
    LET at == detect_header(rows, named)
    IN  CASE at # 0 -> classify_headers(rows[at], named)
          [] at = 0 /\ named # None /\ \E i \in DOMAIN rows : rows[i] # {} -> "failed"
          [] OTHER -> "skipped"

-----------------------------------------------------------------------------
(* Rows.  A row is a sequence of cells [column, value] in sheet order.        *)

Filled(row) == Filter(row, LAMBDA c : c.value # None)

\* Data rows that are written: some governed value, and not a lone value after blank rows.
Written(w, row, afterBlank) ==
    LET governed == {c.column : c \in ToSet(Filled(row))} \cap Columns[w]
    IN  governed # {} /\ ~ (afterBlank /\ Cardinality(governed) = 1 /\ Len(Filled(row)) = 1)

\* The first filled cell of a column is its value; other values of the column are kept beside it.
normalize_row(row) ==
    [c \in {x.column : x \in ToSet(row)} |->
        LET of == Filter(Filled(row), LAMBDA x : x.column = c)
        IN  IF of = <<>> THEN [value |-> None, others |-> <<>>]
            ELSE [value |-> of[1].value,
                  others |-> Filter(Tail(of), LAMBDA x : x.value # of[1].value)]]

\* _validate_staging: the status of every staged row [table, data, badTime], in order.
validate_staging(rows) ==
    [i \in DOMAIN rows |->
        CASE rows[i].badTime -> "INVALID"
          [] ~ rows[i].badTime /\ \E j \in 1..(i - 1) :
                 ~ rows[j].badTime /\ rows[j].table = rows[i].table /\ rows[j].data = rows[i].data -> "DUPLICATE"
          [] OTHER -> "VALID"]

-----------------------------------------------------------------------------
(* Event names.                                                               *)

\* Canonical keys, labels of the data dictionary, and aliases: one of each form the
\* configuration has, with an alias whose target is a label again.
EventKeys == {"PORT_LIMIT_IN", "CARGO_START", "PILOT_REQUEST_ARRIVAL", "PILOT_REQUEST_SAILING",
              "PILOT_ASSIGNED_ARRIVAL"}
EventLabels == [x \in {"Port Limit In"} |-> "PORT_LIMIT_IN"]
PlainAliases == [x \in {"Port Limits"} |-> "Port Limit In"]
ArrivalAliases == [x \in {"Actual scheduled Date/Time"} |-> "PILOT_ASSIGNED_ARRIVAL"]
MovementAliases == [x \in {"Requested time"} |->
                       [ARRIVAL |-> "PILOT_REQUEST_ARRIVAL", SAILING |-> "PILOT_REQUEST_SAILING"]]

EventNames ==
    EventKeys \cup DOMAIN EventLabels \cup DOMAIN PlainAliases \cup DOMAIN ArrivalAliases \cup DOMAIN MovementAliases

MovementKey(m) == IF m \in {"INWARD"} THEN "ARRIVAL" ELSE IF m \in {"OUTWARD", "DEPARTURE"} THEN "SAILING" ELSE m

\* A name whose meaning depends on a movement that is not given stays as it is.
canonical_event_name(name, movement) ==
    LET key == MovementKey(movement)
    IN  CASE name \in EventKeys -> name
          [] name \in DOMAIN EventLabels -> EventLabels[name]
          [] name \in DOMAIN PlainAliases -> PlainAliases[name]
          [] name \in DOMAIN ArrivalAliases /\ key = "ARRIVAL" -> ArrivalAliases[name]
          [] name \in DOMAIN MovementAliases /\ key \in DOMAIN MovementAliases[name] -> MovementAliases[name][key]
          [] OTHER -> name

\* The scope of an occurrence: its movement, else what its name says, else arrival.
MovementScope(name, movement) ==
    CASE MovementKey(movement) \in {"ARRIVAL", "SHIFTING", "SAILING"} -> MovementKey(movement)
      [] movement = None /\ name \in {"PILOT_REQUEST_SAILING"} -> "SAILING"
      [] OTHER -> "ARRIVAL"

-----------------------------------------------------------------------------
(* The canonical commit.  Calls: a sequence of VCNs, the rows of VesselCalls; *)
(* events: [vcn, name, movement, time, offset, zone], where offset says that  *)
(* the timestamp carries its own; cargo: [vcn, start].                        *)

\* Rows of a VCN belong to the first call with it: its position, or 0.
CallOf(calls, vcn) ==
    LET with == {i \in DOMAIN calls : calls[i] = vcn /\ vcn # None} IN IF with = {} THEN 0 ELSE Min(with)

\* The name a row is staged under; a blank name stays blank.
Staged(e) == canonical_event_name(e.name, e.movement)

\* Mutant: a name that is not defined is not registered.
RegisteredNone(defined, events) == defined

\* The names staged are registered as event definitions; a blank name is not.
Registered(defined, events) == defined \cup ({Staged(e) : e \in ToSet(events)} \ {None})

EventStatus(calls, e) == IF CallOf(calls, e.vcn) = 0 THEN "QUARANTINED" ELSE "VALID"

\* A timestamp counts with its own offset, else in its row's time zone: the default when there
\* is no such column, none when the cell is blank or names no zone.
Instant(e) == IF e.offset \/ e.zone \in {"absent", "known"} THEN e.time ELSE None

\* The name is made canonical again at the commit, and then has to be defined.
Observed(calls, defined, events) ==
    LET name(e) == canonical_event_name(Staged(e), e.movement)
        kept == Filter(events, LAMBDA e : /\ CallOf(calls, e.vcn) # 0
                                          /\ Instant(e) # None
                                          /\ name(e) \in Registered(defined, events))
    IN  [i \in DOMAIN kept |->
            [call |-> CallOf(calls, kept[i].vcn), event |-> name(kept[i]), time |-> Instant(kept[i]),
             scope |-> MovementScope(name(kept[i]), kept[i].movement), source |-> "Events"]]

\* A cargo row adds the occurrence of its berth event only where the call has none so far.
BerthEvents(calls, observed, cargo) ==
    LET add(occs, c) ==
            LET call == CallOf(calls, c.vcn)
            IN  IF call = 0 \/ c.start = None
                   \/ \E o \in ToSet(occs) : o.call = call /\ o.event = "CARGO_START"
                THEN occs
                ELSE Append(occs, [call |-> call, event |-> "CARGO_START", time |-> c.start,
                                   scope |-> "ARRIVAL", source |-> "CargoOps"])
    IN  FoldLeft(add, observed, cargo)

\* Occurrences of a call and event are numbered in the order they are added.
Numbered(occs) ==
    [i \in DOMAIN occs |->
        [row |-> occs[i],
         index |-> Cardinality({j \in 1..i : occs[j].call = occs[i].call /\ occs[j].event = occs[i].event})]]

\* _commit_to_canonical: the occurrences of a dataset.
commit_to_canonical(calls, defined, events, cargo) ==
    Numbered(BerthEvents(calls, Observed(calls, defined, events), cargo))

-----------------------------------------------------------------------------
\* _classify_headers, _detect_header: a sheet without a governed name is never taken for a worksheet
\* of which it has nothing but VCN, and a sheet with a governed name is that worksheet or fails.
RecognitionNeverGuesses(rows, named) ==
    LET as == ParsedAs(rows, named)
    IN  IF named # None
        THEN as \in {named, "failed"} \/ (as = "skipped" /\ \A i \in DOMAIN rows : rows[i] = {})
        ELSE as \in Worksheets =>
                \E i \in DOMAIN rows :
                    /\ Required[as] \subseteq rows[i]
                    /\ \E c \in rows[i] \cap Columns[as] :
                          c # "VCN" /\ \A v \in Candidates(rows[i], named) \ {as} : ~ (rows[i] \cap Columns[as] \subseteq Columns[v])

\* normalize_row: however columns are repeated in a sheet, no value of a row is lost.
NoValueOverwritten(row) ==
    \A c \in ToSet(Filled(row)) :
        LET n == normalize_row(row)[c.column] IN c.value = n.value \/ c \in ToSet(n.others)

\* _validate_staging: of identical rows exactly one is committed, and none with a bad timestamp.
OneOfEachRow(rows) ==
    LET status == validate_staging(rows)
    IN  \A i \in DOMAIN rows :
            LET same == {j \in DOMAIN rows : rows[j] = rows[i]}
            IN  Cardinality({j \in same : status[j] = "VALID"}) = IF rows[i].badTime THEN 0 ELSE 1

\* _commit_to_canonical: every event row of a known call that has a name and a readable time
\* becomes exactly one occurrence of the first call with its VCN, numbered without gaps, whatever
\* its name; no other row becomes one, and it keeps the status VALID unless its call is unknown.
\* A cargo row gives a berth event only to a call that has none.  Defined holds the seeded
\* canonical keys.
CommitAccountsForEvents(calls, events, cargo) ==
    LET occs == commit_to_canonical(calls, EventKeys, events, cargo)
        rows == ToSet(occs)
        due == Filter(events, LAMBDA e : EventStatus(calls, e) = "VALID" /\ e.name # None /\ Instant(e) # None)
        of(o) == {i \in DOMAIN occs : occs[i].row.call = o.row.call /\ occs[i].row.event = o.row.event}
    IN  /\ Cardinality({i \in DOMAIN occs : occs[i].row.source = "Events"}) = Len(due)
        /\ \A o \in rows : {occs[i].index : i \in of(o)} = 1..Cardinality(of(o))
        /\ \A o \in rows : o.row.source = "CargoOps" => Cardinality(of(o)) = 1
        /\ \A c \in ToSet(cargo) : CallOf(calls, c.vcn) # 0 /\ c.start # None =>
               \E o \in rows : o.row.call = CallOf(calls, c.vcn) /\ o.row.event = "CARGO_START"
=============================================================================
