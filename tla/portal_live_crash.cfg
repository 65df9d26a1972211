\* Crashes until they stop; a client keeps calling POST /init.
CONSTANTS
  c1 = c1
  k1 = k1
  k2 = k2
  f1 = f1
  f2 = f2
  i1 = i1
  i2 = i2
  p1 = p1
  p2 = p2
  d1 = d1
  d2 = d2
  Clients = {c1}
  Refs = {k1}
  Fees = {f1}
  Allowed <- AllowAll
  MaxAttempts = 2
  InitEnvs = {i1}
  ProcessEnvs = {p1}
  DetailsEnvs = {}
  TokenTTL = 2
  ProcessingStale = 2
  LambdaTimeout = 1
  SweepBatch = 1
  Faults = {"crash"}
SPECIFICATION RetrySpec
PROPERTY ProcessingLeaves
