\* One browser and the five plans of MCApp; a Sunday, two pages to go to, two dishes.
SPECIFICATION MCSpec
CONSTANTS
  c1 = c1
  c2 = c2
  lunch = lunch
  dinner = dinner
  Nothing = Nothing
  All = All
  NoText = NoText
  NoSlot = NoSlot
  Categories <- MCCategories
  Meals <- MCMeals
  MaxClicks = 4
  MaxCalls = 3
  Plans <- MCPlans
  MaxCodes = 3
  MaxDishes = 2
  Days = {7}
  MaxSaves = 2
  MaxEvents = 1
SYMMETRY MCSymmetry
CHECK_DEADLOCK FALSE
INVARIANTS
  AppTypeOK
  NothingStuck
  CodeFollows
  ListSettles
  PicturesApart
  SlotSettles
  WishesMeant
  SavedIsCounted
  ControlsFollow
