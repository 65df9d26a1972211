\* Two POST /init, two POST /process and a GET /details on one attempt, every failure.
CONSTANTS
  c1 = c1
  k1 = k1
  f1 = f1
  i1 = i1
  i2 = i2
  p1 = p1
  p2 = p2
  d1 = d1
  Clients = {c1}
  Refs = {k1}
  Fees = {f1}
  Allowed <- AllowAll
  MaxAttempts = 1
  InitEnvs = {i1, i2}
  ProcessEnvs = {p1, p2}
  DetailsEnvs = {d1}
  TokenTTL = 3
  ProcessingStale = 2
  LambdaTimeout = 1
  SweepBatch = 1
  Faults = {"crash", "lost", "unacked", "paygov", "invalid", "fee"}
SPECIFICATION BooksSpec
INVARIANTS BooksComplete ExclusiveCompletion CancelledNeverCollected TrackedRows
