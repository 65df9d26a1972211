\* Three attempts of two obligations under upgrades, rollbacks and traffic.
CONSTANTS
  o1 = o1
  o2 = o2
  a1 = a1
  a2 = a2
  a3 = a3
  Obligations = {o1, o2}
  Attempts = {a1, a2, a3}
SPECIFICATION Spec
SYMMETRY Interchangeable
INVARIANTS TypeOK UpgradeResolves OnlyPaidSupersedes
PROPERTY LedgerKept
