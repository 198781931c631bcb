----------------------------- MODULE MCWorkflows -----------------------------
EXTENDS Workflows, TLC

\* Identity: three calls of one vessel, with punctuation variants and missing and
\* conflicting IMO numbers.
MCRatio == [b \in {{"a", "b"}} |-> 40]
Rec(mark, imo, teu) ==
    [name |-> [base |-> "a", mark |-> mark], imo |-> imo, vcn |-> 1, type |-> 0,
     flag |-> 0, teu |-> teu, grt |-> 0, loa |-> 0]
MCLoads == {<<Rec("clean", 0, 1), Rec("clean", 1, 0), Rec("hyphen", 2, 1)>>,
            <<Rec("clean", 1, 0), Rec("clean", 1, 0), Rec("clean", 0, 1)>>}

\* Alerts: a delay of one tenant and an outlier of another.
MCFact ==
    [d1 |-> [tenant |-> "a", table |-> "delay", review |-> FALSE, category |-> "Tug", hours |-> 1],
     b1 |-> [tenant |-> "b", table |-> "outlier", severity |-> "HIGH"]]
MCFindings == DOMAIN MCFact

\* Delays: an arrival delay of two hours with one late tug, and lists of at most two causes.
MCStage == {"arrival"}
MCRecords == <<[type |-> "tug", movement |-> {"arrival"}, scheduled |-> 0, served |-> 20]>>
MCPayloads == UNION {[1..n -> [hours : {1, 2}, primary : BOOLEAN, status : {"CONFIRMED"}]] : n \in 0..2}

\* Journey: one early observation, or two of which the later-stated or the verified one differs.
Seen(time, rank) == [time |-> time, rank |-> rank]
MCObserved == {<<Seen(3, 2)>>, <<Seen(7, 0), Seen(3, 2)>>, <<Seen(3, 0), Seen(7, 0)>>, <<Seen(7, 2), Seen(3, 2)>>}

\* Stewards and requests are interchangeable.
DeskSymmetry == Permutations(Stewards) \cup Permutations(Requests)
=============================================================================
