CONSTANTS
  a1 = a1  a2 = a2  b1 = b1  A = A  B = B  U = U
  churn_risk = churn_risk  campaign = campaign
  Customers = {a1, a2, b1}
  Tenants = {A, B, U}
  FileOrder <- TwoFiles
  Gated = churn_risk
  Flushed = {{}, {a1}}
  Rejects <- Refusals
  Worlds <- SomeWorlds
  MaxChanges = 1
  MaxFaults = 1
SPECIFICATION FairSpec
INVARIANTS MismatchIsNamed NoFalseAlarm
PROPERTIES ReportsSettle
