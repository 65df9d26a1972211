\* One attempt with every value and draft; two of one obligation (MCBound).
SPECIFICATION Spec
SYMMETRY MCSymmetry
VIEW MCView
CONSTRAINT MCBound
CONSTANTS
  NULL = NULL
  Attempts = {a1, a2}
  Obligation <- MCObligation
  Keys = {"petition", "exam"}
  Version = "petition_2"
  FirstKey = "petition"
  KnownAmount <- MCKnownAmount
  Tokens = {"short", "long"}
  Drafts <- MCDrafts
  LastDay = 3
INVARIANTS
  TypeOK
  ColumnsByLevel
  OnlyKnownRefusals
  UnattendedKeepsRelease
PROPERTY CancellationsKeepTheirDay
