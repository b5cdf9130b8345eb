\* One visit of the family page, with an outage in it.
SPECIFICATION MCFairSpec
CONSTANTS
  c1 = c1
  c2 = c2
  lunch = lunch
  dinner = dinner
  Nothing = Nothing
  All = All
  NoText = NoText
  NoSlot = NoSlot
  Categories <- MCCategories
  Meals <- MCMeals
  MaxClicks = 4
  MaxCalls = 3
  Plans <- MCVisit
  MaxCodes = 3
  MaxDishes = 2
  Days = {7}
  MaxSaves = 2
  MaxEvents = 1
CHECK_DEADLOCK FALSE
PROPERTY
  ComesToRest
