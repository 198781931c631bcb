SPECIFICATION ReportSpec
CONSTANTS
  Generations = {g1, g2}
  Requests = {q1, q2}
  MaxFormats = 2
  MaxDeliveries = 1
  MaxDeaths = 1
INVARIANTS
  PublishedAsApproved
