SPECIFICATION Spec
CONSTANTS
  CacheTtl = 1
  MaxLoad = 1
  Horizon = 4
  StaticFees <- MCStaticFees
  Content <- MCContent
  Requests <- MCRequests
  Configs <- MCConfigs
INVARIANTS TypeOK OnePool RevocationTakesEffect ValidatedStaysKnown HealthyCanPay PromiseIsLive

