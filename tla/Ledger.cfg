\* Two paid jobs and two workers, a month end, expiring credit and a limit that moves.
SPECIFICATION Spec
CONSTANTS
  j1 = j1
  j2 = j2
  j3 = j3
  s1 = s1
  s2 = s2
  c1 = c1
  c2 = c2
  w1 = w1
  w2 = w2
  op = op
  Jobs = {j1, j2}
  Skills = {s1}
  Contents = {c1}
  Workers = {w1, w2}
  Operators = {}
  ProviderOf <- AllPaid
  CreditProvider = "openai"
  Estimate <- Price
  Unpriced = {}
  CreditTotal = 1
  Limits = {2, 3}
  StoreLimits = {9}
  MaxBank = 9
  MaxAttempts = 1
  LastAttempt = 1
  MaxRevision = 1
  MaxMonth = 2
  MaxFaults = 0
  Seeded = {s1}
  Offered = {"enqueue", "limits"}
  RefillProvider = "openai"
  Imported = Imported
  None = None
SYMMETRY TwoWorkers
INVARIANTS SpendWithinLimit CreditWithinTotal
