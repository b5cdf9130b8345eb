SPECIFICATION ShownSpec
CONSTANTS
  t1 = t1
  t2 = t2
  ann = ann
  rice = rice
  NoOne = NoOne
  NoTask = NoTask
  Tasks = {t1, t2}
  Members = {ann}
  Dishes = {rice}
  Expected = {0}
  MaxArrivals = 2
INVARIANTS
  StatusTable
CHECK_DEADLOCK FALSE
