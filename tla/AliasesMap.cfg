SPECIFICATION Spec
CONSTANTS
  t1 = t1
  t2 = t2
  soup = soup
  stew = stew
  egg = egg
  leek = leek
  ann = ann
  bob = bob
  Columns = {updated_by}
  Editor = updated_by
  Values = {ann, bob}
  NoValue = NoValue
  NoDish = NoDish
  NoName = NoName
  NoTask = NoTask
  Tasks = {t1, t2}
  Dishes = {soup, stew}
  Names = {egg, leek}
  MaxNames = 2
  MaxArrivals = 2
SYMMETRY MCSymmetry
INVARIANTS
  AliasesMap
CHECK_DEADLOCK FALSE
