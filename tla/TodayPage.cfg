SPECIFICATION Spec
CONSTANTS
  lunch = lunch
  dinner = dinner
  rice = rice
  soup = soup
  Me = Me
  You = You
  NoOne = NoOne
  NoMeal = NoMeal
  Meals = {lunch, dinner}
  Dishes = {rice, soup}
  MaxClicks = 3
  MaxOthers = 1
SYMMETRY MCSymmetry
INVARIANTS
  TypeOK
  NeverStuck
  PatientShowsSelected
  PatientSeesOwn
  ConflictRefreshed
PROPERTIES
  NoBlindOverwrite
  ServerBoards
CHECK_DEADLOCK FALSE
