SPECIFICATION Spec
CONSTANTS
  lunch = lunch
  dinner = dinner
  rice = rice
  soup = soup
  Me = Me
  You = You
  NoOne = NoOne
  NoMeal = NoMeal
  Meals = {lunch, dinner}
  Dishes = {rice, soup}
  MaxClicks = 2
  MaxOthers = 0
INVARIANTS
  ShowsSelected
CHECK_DEADLOCK FALSE
