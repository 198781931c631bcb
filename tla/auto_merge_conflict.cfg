SPECIFICATION IdentitySpec
CONSTANTS
  Bases = {"a", "b"}
  Ratio <- MCRatio
  NumCalls = 3
  Loads <- MCLoads
  EventKeys = {k1}
  MaxDecisions = 2
INVARIANT ConflictsNeverAutoMerged
