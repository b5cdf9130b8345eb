SPECIFICATION Spec
CONSTANTS
  t1 = t1
  t2 = t2
  ann = ann
  bob = bob
  rice = rice
  soup = soup
  NoOne = NoOne
  NoTask = NoTask
  Tasks = {t1, t2}
  Members = {ann, bob}
  Dishes = {rice, soup}
  Expected = {0, 1}
  MaxArrivals = 4
SYMMETRY MCSymmetry
INVARIANTS
  TypeOK
  ClaimHolds
  MenuOfVersion
  FirstRequestRecorded
  SerialTable
PROPERTIES
  NoLostMenuUpdate
  RepliesTruthful
  BoardSpec
CHECK_DEADLOCK FALSE
