\* Three jobs for one bank: refills of successive checkpoints, manual requests, edits and imported revisions.
SPECIFICATION Spec
CONSTANTS
  j1 = j1
  j2 = j2
  j3 = j3
  s1 = s1
  s2 = s2
  c1 = c1
  c2 = c2
  w1 = w1
  w2 = w2
  op = op
  Jobs = {j1, j2, j3}
  Skills = {s1}
  Contents = {c1}
  Workers = {w1, w2}
  Operators = {}
  ProviderOf <- AllFixture
  CreditProvider = "openai"
  Estimate <- UnitPrice
  Unpriced = {}
  CreditTotal = 0
  Limits = {0}
  StoreLimits = {3, 4}
  MaxBank = 3
  MaxAttempts = 1
  LastAttempt = 1
  MaxRevision = 2
  MaxMonth = 1
  MaxFaults = 0
  Seeded = {s1}
  Offered = {"enqueue", "draft", "refill", "import"}
  RefillProvider = "fixture"
  Imported = Imported
  None = None
SYMMETRY ThreeJobs
INVARIANTS PublishedOnce OneRefillOutstanding BankFollowsRevisions
