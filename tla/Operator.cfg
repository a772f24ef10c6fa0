\* One paid job, two workers and a reconciling operator, with two faults.
SPECIFICATION FairSpec
CONSTANTS
  j1 = j1
  j2 = j2
  j3 = j3
  s1 = s1
  s2 = s2
  c1 = c1
  c2 = c2
  w1 = w1
  w2 = w2
  op = op
  Jobs = {j1}
  Skills = {s1}
  Contents = {c1}
  Workers = {w1, w2}
  Operators = {op}
  ProviderOf <- Mixed
  CreditProvider = "openai"
  Estimate <- UnitPrice
  Unpriced = {}
  CreditTotal = 1
  Limits = {2}
  StoreLimits = {9}
  MaxBank = 9
  MaxAttempts = 2
  LastAttempt = 2
  MaxRevision = 1
  MaxMonth = 1
  MaxFaults = 1
  Seeded = {s1}
  Offered = {"enqueue", "release", "handoff"}
  RefillProvider = "openai"
  Imported = Imported
  None = None
INVARIANTS CreditsPayTheirProvider OpenChargeMatchesState OneSubmission ChargeAccounted
PROPERTIES  ChargeIsFinal RequestSettles
