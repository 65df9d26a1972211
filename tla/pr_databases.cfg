CONSTANTS
  Prs = {"pr", "docs"}
  DocPrs = {"docs"}
  ListLimit = 1
  MaxFaults = 2

SPECIFICATION Spec

INVARIANTS
  TypeOK
  ReadyIsWhole
  LeftoversNeverRefuse

PROPERTY OrphansGo
