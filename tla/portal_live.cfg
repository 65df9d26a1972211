\* Two obligations, Pay.gov failing until it recovers, the sweep taking one row at a time.
CONSTANTS
  c1 = c1
  k1 = k1
  k2 = k2
  f1 = f1
  f2 = f2
  i1 = i1
  i2 = i2
  p1 = p1
  p2 = p2
  d1 = d1
  d2 = d2
  Clients = {c1}
  Refs = {k1, k2}
  Fees = {f1}
  Allowed <- AllowAll
  MaxAttempts = 2
  InitEnvs = {i1}
  ProcessEnvs = {p1}
  DetailsEnvs = {}
  TokenTTL = 1
  ProcessingStale = 1
  LambdaTimeout = 0
  SweepBatch = 1
  Faults = {"paygov"}
SPECIFICATION FairSpec
PROPERTIES ExpiredLeaves ReceivedLeaves
