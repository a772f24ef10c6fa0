\* A refill that met an edit draft, and the edit discarded afterwards.
SPECIFICATION Spec
CONSTANTS
  j1 = j1
  j2 = j2
  j3 = j3
  s1 = s1
  s2 = s2
  c1 = c1
  c2 = c2
  w1 = w1
  w2 = w2
  op = op
  Jobs = {j1, j2}
  Skills = {s1}
  Contents = {c1}
  Workers = {w1}
  Operators = {}
  ProviderOf <- AllFixture
  CreditProvider = "openai"
  Estimate <- UnitPrice
  Unpriced = {}
  CreditTotal = 0
  Limits = {0}
  StoreLimits = {3}
  MaxBank = 3
  MaxAttempts = 1
  LastAttempt = 1
  MaxRevision = 2
  MaxMonth = 1
  MaxFaults = 0
  Seeded = {s1}
  Offered = {"refill", "draft", "discard"}
  RefillProvider = "fixture"
  Imported = Imported
  None = None
INVARIANTS EditReleasesRefills
