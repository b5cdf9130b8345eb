\* Two tasks; two requests, of meals and dishes in any mixture, or of households.
SPECIFICATION FairSpec
CONSTANTS
  Tasks = {t1, t2}
  NoTask = NoTask
  Members = {ann, bob}
  NoOne = NoOne
  SlotDishes = {rice}
  Expected = {0}
  Pins = {p, q}
  Addresses = {home}
  PinLimit = 1
  JoinLimit = 2
  MaxExpiries = 0
  Dishes = {soup, stew}
  Names = {egg, leek}
  MaxNames = 2
  Columns = {updated_by}
  Editor = updated_by
  Values = {ann}
  NoValue = NoValue
  NoDish = NoDish
  NoName = NoName
  MaxMeals = 2
  MaxHouseholds = 2
  MaxCatalogue = 2
  Loads = {{"meals", "catalogue"}, {"households"}}
  MaxMixed = 2
PROPERTIES
  EveryRequestAnswered
CHECK_DEADLOCK FALSE
