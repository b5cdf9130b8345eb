SPECIFICATION Spec
CONSTANTS
  t1 = t1
  t2 = t2
  soup = soup
  stew = stew
  egg = egg
  leek = leek
  rice = rice
  ann = ann
  bob = bob
  Columns = {updated_by}
  Editor = updated_by
  Values = {ann, bob}
  NoValue = NoValue
  NoDish = NoDish
  NoName = NoName
  NoTask = NoTask
  Tasks = {t1, t2}
  Dishes = {soup, stew}
  Names = {egg, leek, rice}
  MaxNames = 2
  MaxArrivals = 3
SYMMETRY MCSymmetry
INVARIANTS
  TypeOK
  DishWhole
  LinksMeant
  SerialNames
PROPERTIES
  ArchiveFinal
CHECK_DEADLOCK FALSE
