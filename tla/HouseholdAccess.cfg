SPECIFICATION Spec
CONSTANTS
  t1 = t1
  t2 = t2
  ann = ann
  bob = bob
  p = p
  q = q
  home = home
  NoOne = NoOne
  NoTask = NoTask
  Tasks = {t1, t2}
  Nicks = {ann, bob}
  Pins = {p, q}
  Addresses = {home}
  PinLimit = 2
  JoinLimit = 3
  MaxArrivals = 4
  MaxExpiries = 1
SYMMETRY MCSymmetry
INVARIANTS
  TypeOK
  OwnerInCharge
  LimitsHold
  SerialSessions
PROPERTIES
  AdmittedByCode
  PinOnlyReset
  RevocationFinal
  SerialOwnerActs
CHECK_DEADLOCK FALSE
