\* Three dishes, two dates with a menu, and fifteen days.
SPECIFICATION Spec
CONSTANTS
  Menu <- MCMenu
  Needs <- MCNeeds
  Kind <- MCKind
  CookedBy <- MCCookedBy
  Dates <- MCDates
  LastDay = 15
CHECK_DEADLOCK FALSE
INVARIANTS
  SearchMatches
  DrawProportional
