--------------------------- MODULE IdentityMatch ---------------------------
(***************************************************************************)
(* How two vessel calls are compared and consolidated: the matcher, the    *)
(* vessel-name similarity and the survivorship rules of services/identity. *)
(* A call is a record of attribute values; 0 is NULL.  Scores are whole    *)
(* numbers of 1/10000 and similarities of 1/100, the precision the code    *)
(* rounds to.                                                              *)
(***************************************************************************)
EXTENDS Integers, FiniteSets

CONSTANTS
  Bases,   \* vessel names after normalisation
  Ratio    \* difflib's ratio of each pair of different normalised names, 0 to 100

\* A written name: its normal form, and how it is punctuated.  "hyphen" also
\* stands for a trailing full stop, "dot" for a full stop inside the name.
Marks == {"clean", "hyphen", "dot"}
Names == [base : Bases, mark : Marks]

NumericFields == {"teu", "grt", "loa"}
TextFields == {"imo", "vcn", "type", "flag"}
ComparableFields == {"name"} \cup NumericFields \cup TextFields

\* (v1.x or "").strip() on both sides: both present and equal, or different.
Agree(x, y) == x # 0 /\ y # 0 /\ x = y
Conflict(x, y) == x # 0 /\ y # 0 /\ x # y

\* VesselNameNormalizer.similarity, in percent.
Similarity(n, m) ==
  IF n = m THEN 100
  ELSE IF n.base = m.base THEN 99
  ELSE Ratio[{n.base, m.base}]

\* The matched share of the compared dimensions, rounded to 1/10000.
DimensionScore(v, w) ==
  LET compared == {f \in NumericFields : v[f] # 0 /\ w[f] # 0}
      matched == {f \in compared : v[f] = w[f]}
      n == Cardinality(compared)
  IN IF n = 0 THEN 0 ELSE (1000 * Cardinality(matched) + n) \div (2 * n)

\* The sum of the attribute contributions with the code's weights.
RawScore(v, w) ==
  LET Part(f, weight) == IF Agree(v[f], w[f]) THEN weight ELSE 0
  IN 40 * Similarity(v.name, w.name)
     + Part("vcn", 2500) + Part("imo", 2000)
     + Part("type", 500) + Part("flag", 500) + DimensionScore(v, w)

KeyConflict(v, w) == Conflict(v.imo, w.imo) \/ Conflict(v.vcn, w.vcn)

\* IdentityMatcher.evaluate_pair with the default thresholds 0.98 and 0.85.
EvaluatePair(v, w) ==
  LET conflict == KeyConflict(v, w)
      decisive == (Agree(v.vcn, w.vcn) \/ Agree(v.imo, w.imo)) /\ ~conflict
      floor == IF Similarity(v.name, w.name) >= 98 THEN 9900 ELSE 9800
      raw == RawScore(v, w)
      score == IF decisive /\ raw < floor THEN floor ELSE raw
  IN [score |-> score, conflict |-> conflict,
      status |-> IF conflict THEN "BLOCKED_BY_CONFLICT"
                 ELSE IF score >= 9800 THEN "AUTO_MERGE_CANDIDATE"
                 ELSE IF score >= 8500 THEN "STEWARD_REVIEW"
                 ELSE "SEPARATE"]

\* The blocking filter of generate_candidates.
Comparable(v, w) ==
  Agree(v.vcn, w.vcn) \/ Agree(v.imo, w.imo) \/ Similarity(v.name, w.name) >= 70

\* determine_survivor_record: completeness, less 2 for a "-" or "." in the name.
SurvivorScore(v) ==
  Cardinality({f \in ComparableFields \ {"name"} : v[f] # 0}) + 1
    - (IF v.name.mark = "clean" THEN 0 ELSE 2)

FirstSurvives(v, w) == SurvivorScore(v) >= SurvivorScore(w)

\* resolve_field: the winning value of one field.  text_clean looks for "-" or
\* a trailing "." only.
ResolveField(f, v, w) ==
  LET a == v[f]  b == w[f] IN
  CASE f = "name" -> IF a.mark = "hyphen" /\ b.mark # "hyphen" THEN b ELSE a
    [] f # "name" /\ a = 0 -> b
    [] f # "name" /\ a # 0 /\ b = 0 -> a
    [] f \in NumericFields /\ a # 0 /\ b # 0 -> IF a >= b THEN a ELSE b
    [] OTHER -> a

\* generate_preview: the consolidated attributes.
Consolidated(v, w) == [f \in ComparableFields |-> ResolveField(f, v, w)]
=============================================================================
