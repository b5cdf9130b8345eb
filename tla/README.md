# Verification of the family food ordering application

The application lets the members of a household keep a dish catalogue, wish for
dishes for a lunch or dinner, confirm the menu of a meal, get recommendations
and look at history and metrics. It consists of a FastAPI backend on
PostgreSQL, a React page set and an object store for images. These modules
model its control: who may do what in which order, what is read before an await
and used after it, and what is promised about the state that results.

## 1. The system

| part | state | operations | where |
|---|---|---|---|
| meal slots | `meal_slots` (status, version, last editor), `meal_requests`, `menu_items` | get or create a slot, request, withdraw, replace the menu | `backend/app/meals` |
| households | `households` (invite code), `members` (role, status, PIN hash), `sessions` | create, join, sign in, log out, rotate the code, disable, reset a PIN | `backend/app/households` |
| rate limiter | failures per key in the memory of the one server process | test, record, clear | `backend/app/security.py` |
| dish catalogue | `dishes`, `dish_cooks`, `ingredients`, `ingredient_aliases` | create, update, archive, list; canonical ingredients and aliases | `backend/app/dishes` |
| recommendations | none (reads dishes, menus, ingredients) | search, weighted random choice | `backend/app/recommendations` |
| metrics | `activity_events`, `validation_checkins` | record events, weekly check-in, summary, history | `backend/app/metrics` |
| images | objects in S3/MinIO, keys in `dishes.image_key` | upload with a limit, signed URLs | `backend/app/images` |
| pages | component state of a browser | load, click, answer | `frontend/src/features` |

How they interact. A request is an asyncio task with a database session of its
own (`db.py:17-24`); its statements interleave with those of other tasks at
every await, PostgreSQL runs READ COMMITTED, and what a task has read stays in
its objects until the end of the request. A handler that raises, or is
cancelled, rolls back. `require_member` runs before every handler of a signed-in
member. `meals/service.py` calls the metrics service to record lifecycle events
in its own transaction. The limiter is shared by joining, PINs and uploads, and
works because there is one server process (`docker-entrypoint.sh`). The pages
call the API with `fetch` and continue when an answer arrives; nothing orders
the answers, and nothing pushes changes to a page.

What is hard about it: a status or a version that is stale when it is written;
two writers of one slot; unique constraints as the last arbiter of races, and
the recovery after them; a claimed row whose task dies; limits that are tested
and recorded on two sides of an await; revocations that overlap with requests in
flight; answers that overtake each other in a page. `PROJECT.json` lists each
place under `hazards`.

What makes each part correct:

- *meal slots*: version, menu, editor and event log agree; no confirmation is
  lost; a reply is true; status, requests and menu agree as the design's table
  says; every request is answered.
- *households*: an owner can always act; codes and PINs admit only whom they
  should; a member is never changed by a join; revocations are final; limits hold.
- *catalogue*: a normalised name means one ingredient; an archived dish is not
  edited; a dish is stored with all its relations or not at all.
- *recommendations*: matching, weights and the draw agree with their definitions
  at every boundary; no archived dish is offered.
- *metrics*: a summary counts what happened in the interval, once; a check-in is
  one per week.
- *images*: an upload belongs to its household, the limit bounds uploads, and
  the last choice of the member decides the key.
- *pages*: a page shows what is selected, never overwrites unseen changes, and
  never waits for nothing.

## 2. Modules

| module | models | section |
|---|---|---|
| `MealSlot` | the three handlers of a slot, statement by statement | 3 |
| `MealBoard` | what a slot promises: a compare-and-swap board | 3 |
| `MealSlotProofs` | theorems about `MealSlot` | 11 |
| `HouseholdAccess` | members, sessions, codes, limits | 4 |
| `HouseholdAccessProofs` | theorems about `HouseholdAccess` | 11 |
| `DishCatalogue` | dishes, their cooks and ingredients, names and aliases | 5 |
| `DishCatalogueProofs` | theorems about `DishCatalogue` | 11 |
| `Backend` | the three modules above on one event loop | 6 |
| `BackendProofs` | theorems about `Backend`: it implements each of the three | 11 |
| `TodayPage` | the page of a meal against the boards of all meals | 7 |
| `TodayPageProofs` | theorems about `TodayPage` | 11 |
| `Browser` | the calls in flight of a browser, for the next four | 8 |
| `Session` | who is logged in; onboarding; the invite code | 8 |
| `DishPage` | the list of dishes, the sheet with its form, the picture | 8 |
| `ChoosePage` | the page that helps to choose, and accepting a dish | 8 |
| `CheckIn` | history and weekly check-in, page and server | 8 |
| `WriteControls` | the shell's buttons during an outage | 8 |
| `App` | all of them in one browser, going back and forth | 8 |
| `AppCallProofs` | lemmas about `App`: types, and what each step does to the calls | 11 |
| `AppProofs` | theorems about `App` | 11 |
| `Recommendations` | filters, matching, weights and the weighted draw | 9 |
| `RecommendationsProofs` | theorems about `Recommendations` | 11 |
| `MC*` | instances for TLC: symmetry, plans, and the restricted specification of the counterexamples | |

Composition. `MealBoard` is implemented by `MealSlot` and, for every meal, by the
server inside `TodayPage`. `Backend` instantiates `MealSlot`, `HouseholdAccess` and
`DishCatalogue`; `App` extends the modules of the pages, which extend `Browser`.

Definitions marked *Faulty* are deliberately wrong forms of operations. No
specification uses them; each shows that a property notices the bug it is there
for, and `mutants` in `PROJECT.json` pairs them.

## 3. Meal slots

`MealSlot` follows one slot. `slotRow` (status, version, editor), `requests`,
`menu`, `events` and `active` (dishes not archived) are the committed tables;
`lock` is the row lock of the slot that a claim keeps; `pc`, `job`, `saw` are a
task's next statement, its request and the objects it holds; `reply` is its
answer. One action is one awaited statement with the code up to the next one:

| code (`meals/service.py`) | actions |
|---|---|
| `require_slot`, `_require_active_dish` | `Load`, `CheckDish` |
| `upsert_request` | `FindOwn`, `CheckPrior`, `InsertRequest`, `Recover`, `Repair`, `Reload` |
| `delete_own_request` | `FindOwn`, `DeleteRequest`, `CheckRemaining`, `WithdrawRequest` |
| `replace_menu` | `CheckDish` per dish, `ClaimVersion`, `AnswerConflict`, `ReplaceMenu`, `Reload` |
| any statement | `Fail`: exception, cancellation, lost connection, deadlock victim |
| `archive_dish` | `ArchiveDish` |

After a unique violation the code rolls back and reads again. In the present
configuration the rollback expires the member's objects too and the reading
fails; the model has both outcomes, `Recover` and `Fail`.

`MealBoard` has no tasks and no database: a wish, a withdrawal, and a
confirmation by the holder of the current version. `BoardSpec` says that the
interleaved handlers implement it. The board is loose about `status`, because the
code is: see the first finding.

Runs:

- `meal_slot` (2 tasks, 2 members, 2 dishes, expected versions 0 and 1, 4
  arrivals; symmetric in all three sets, 2.0 million states): `TypeOK`,
  `ClaimHolds`, `MenuOfVersion`, `FirstRequestRecorded`, `SerialTable`,
  `NoLostMenuUpdate`, `RepliesTruthful`, `BoardSpec`.
- `status_table` finds the disagreement with the design document. It uses
  `ShownSpec`, where a member only sends versions that the server has shown, so
  that the counterexample uses nothing that the pages do not do. A request reads
  `not_started`; a confirmation commits; the request commits `pending`: the slot
  has a menu and is pending. After that the next confirmation takes the slot for
  unconfirmed and records `menu_confirmed` a second time, against the design's
  line 289; this part (`MenuConfirmedOnce`) has no run of its own. `SerialTable`
  has both, and shows that only interleavings break them.

Bounds. Two tasks are enough for every race in the list, since each is between two
handlers; the arrivals let both tasks serve two requests, so that a race starts
from a slot with requests or with a menu, and something happens after it. The
theorems (section 11) are free of these bounds.

## 4. Households

`HouseholdAccess` follows the first household that is created. `owner`,
`joined`, `disabled`, `pin`, `invite` (how often the code was replaced, which
stands for the code) and `sessions` are the committed tables; `failed` counts
the limiter's failures in the window; `lock` is the row lock of a member that a
reset has updated. Members are identified by nickname up to case, as the unique
index does. `Expire` and `Forget` are the passing of time: a session of thirty
days, a failure of fifteen minutes. A failed join is charged to the address by
`RejectJoin`; a join that dies, by `Fail`, which does not charge a cancellation.

Histories: `alone` (no two requests have overlapped so far), a session's `pin`
(the PIN of its sign-in), a join's `since` (the code when it arrived).

Runs:

- `household_access` (2 tasks, 2 nicknames, 2 PINs, 1 address, limits 2 and 3, 4
  arrivals, 1 expiry; 1.7 million states): `TypeOK`, `OwnerInCharge`,
  `LimitsHold`, `SerialSessions`, `AdmittedByCode`, `PinOnlyReset`,
  `RevocationFinal`, `SerialOwnerActs`. Four joins from one address reach the PIN
  limit, and pass the join limit by the one failure that two tasks can add.

Two properties are stated for requests that do not overlap: a session of the old
PIN survives a reset that overlaps with its sign-in (the DELETE sees the
committed sessions only), and an owner's request in flight is carried out
although the session ended meanwhile. The design promises nothing about either.

## 5. Dishes and ingredients

`DishCatalogue` follows the handlers of `dishes/service.py`, statement by
statement. `dishRow`, `columns`, `cooks`, `links` (`dish_ingredients`),
`ingredients` and `aliasOf` are the committed tables. `dishRow` has the number of
the request that created or updated the dish last, and so has every row of
`cooks` and `links`. `columns` is what the requests set in the row (name,
category, picture, `updated_by`): SQLAlchemy writes only those whose value
differs from what the session has loaded (`seen`, `Written`). `updated_at` is set
to the time by every update, so that there always is an UPDATE, which takes the
row lock; it is not among the columns. `lock` is the lock of a dish row; `view`
is what a task has read or written and not committed: the name in hand, the
ingredients of the dish so far, the rows it inserted, the links it deleted.

Histories: `alone`, as in `MealSlot`; `asked`, what the columns of a dish were set
to last, and whether a request that set them had loaded the row before another
one wrote it (`Overtaken`).

| code (`dishes/service.py`) | actions |
|---|---|
| `create_dish` | `InsertDish`, `ResolveCooks`, `ClearRelations`, names, `CommitDish` |
| `update_dish` | `Load`, `ResolveCooks` (flushes the UPDATE), `ClearRelations`, names, `CommitDish` |
| `archive_dish` | `Load`, `ArchiveDish` |
| names: `get_or_create_ingredient` | `FindIngredient`, `FindAlias`, `InsertIngredient` |
| `create_canonical_ingredient` | `FindIngredient`, `FindAlias` per name, `InsertIngredient`, `InsertAlias` per alias, `CommitIngredient` |
| any statement | `Fail`; `BreakDeadlock` for a statement the database picks as a victim |

An INSERT of a name waits for a task that has inserted the same name and not
committed (`BlockedBy`), and fails on a committed one; so two dishes that make
the same ingredients in opposite orders wait for each other. PostgreSQL detects
that, and `BreakDeadlock` is enabled exactly for a task on such a cycle.

Runs:

- `dish_catalogue` (2 tasks, 2 dishes, 3 names, 3 arrivals; dishes of 1 or 2
  ingredients, canonical ingredients with up to 2 aliases; one column with two
  values; symmetric, 925 thousand states): `TypeOK`, `DishWhole`, `LinksMeant`,
  `SerialNames`, `ArchiveFinal`. Three arrivals let two requests overlap on what
  a first one left; two ingredients are what a cycle needs, three names a
  canonical ingredient with an alias beside another one. `DishWhole` is
  `LinksWhole` (cooks and links are those of the last request, whatever
  overlapped) and `ColumnsWhole` (so are the columns, if nobody was overtaken).
- `aliases_map` finds the disagreement with the design, which has an alias map
  to its ingredient: a dish makes the name an ingredient while a canonical
  ingredient makes it an alias. The unique constraints are per table, and the
  lookup prefers the ingredient. `SerialNames` shows that only interleavings do
  this; `LinksMeant` holds all the same, since each dish keeps what its names
  stood for at the time.

Some things hold in a weaker form than one may expect. An update that loaded a
dish before its archive commits after it and edits the archived dish
(`ArchiveFinal` says that it stays archived, and that this takes an overlap). The
columns of overlapping updates may mix, which is why `ColumnsWhole` excepts them:
Ann creates a dish; she and Bob update it at the same time, and Bob's update
commits first. Hers loaded a dish that names her and leaves `updated_by` out, so
that the dish has her cooks and ingredients and names Bob, while the design
(line 173) keeps the member who changed it last. The three arrivals of
`dish_catalogue` meet this case. And the second request that creates an
ingredient does not recover from the unique violation, as
`get_or_create_meal_slot` does: it fails, so the dish is not saved.

## 6. The server as a whole

`Backend` runs the routers of `main.py` together: a task serves one request of one
router, or none. They share no rows that they wait for, so that safety is a
matter of each module (`BackendProofs` shows that the server implements each of
them, section 11); what the composition adds is that requests are answered next
to each other.

- `backend_liveness` (2 tasks; two requests of meals and dishes in any mixture,
  or two of households; 2 dishes that share ingredient names; 183 thousand
  states): `EveryRequestAnswered`, under the fairness of section 10. Two requests
  are enough for a waiter and a holder of any lock, and for the deadlock of two
  new dishes (section 5). Requests of households do not mix with the others here:
  they have rows of their own, and the product would only repeat both.

## 7. The page of a meal

`TodayPage` has the component state of `TodayPage.tsx` and `MenuEditor.tsx`:
`at` (date and meal type), `shown` (`slot`), `loading`, `error`, `conflict`,
`section`, `draft` (`selected`), `busy`, and the calls in flight. Calls are
served (`Serve*`) and answered (`Loaded`, `Updated`, `Withdrawn`, `Conflict`) in any
order and may fail before or after the server acted (`Fail`). The server is one
slot per meal whose handlers are atomic; `ServerBoards` checks that each is a
`MealBoard`, the specification that `MealSlot` implements, so that the two
modules compose.

Runs:

- `today_page` (2 meals, 2 dishes, 3 clicks, 1 change by others; 2.1 million
  states): `TypeOK`, `NeverStuck`, `PatientShowsSelected`, `PatientSeesOwn`,
  `ConflictRefreshed`, `NoBlindOverwrite`, `ServerBoards`. Three clicks are two
  calls in flight at the time of a third.
- `shows_selected` finds a page at rest that shows the wrong meal: `load` keeps
  whatever answer comes last. A patient member does not meet it.

## 8. The web application

`App` is one member's browser. `Browser` keeps the calls in flight: a handler runs
up to its `await` and leaves a call, the server acts on it in a step of its own,
and the handler goes on afterwards, or `apiFetch` throws, before or after the server
acted. A call whose component is gone is not `live`: answers of reads are then
dropped, writes still arrive, and a handler that has more to send goes on. So a
dish that was accepted before the page was left is still wished for
(`SlotEnsured`) and the acceptance still recorded (`Accepted`); only a reload of
the browser (`Refresh`) ends a handler. The pages:

| code | module: actions |
|---|---|
| `App.tsx` `loadSession` | `Session`: `SessionLoaded`, `SessionRefused`, `SessionFails`, `Retry` |
| `OnboardingPage.tsx` | `Session`: `SwitchMode`, `Submit`, `Authenticated`, `AuthenticationFails` |
| `FamilyPage.tsx` | `Session`: `Rotate`, `Rotated`, `RotateFails` |
| `DishListPage.tsx` | `DishPage`: `SetFilter`, `Listed`, `Archive`, `OpenCreate`, `OpenEdit`, `Close`, `Created`, `Updated`, ... |
| `DishForm.tsx`, `ImageField.tsx` | `DishPage`: `Fill`, `Save`, `SaveFails`, `PickFile`, `Uploaded`, `UploadFails`, `ClearImage` |
| `ChooseForMePage.tsx` | `ChoosePage`: `SelectMeal`, `SlotResolved`, `Suggest`, `Drawn`, `Found`, `Accept`, `SlotEnsured`, `Accepted`, ... |
| `HistoryPage.tsx`, `ValidationSummary.tsx` | `CheckIn`: `HistoryLoaded`, `SubmitCheckin`, `CheckinSaved`, ... |
| `metrics/service.py` `upsert_validation_checkin` | `CheckIn`: `FindRow`, `StoreRow` |
| `AppShell.tsx` | `WriteControls`: `Shows`, `Synced`, `Observe` |
| `BottomNav.tsx`, the reload button | `App`: `Navigate`, `Refresh` |

The server's steps (`Serve*`) are atomic here, because their interleavings are in
the modules of the server; the exception is the check-in, which has no other
module and is split where it awaits. Names, cooks and ingredients of a dish are
its category; a household is the invite code that admits to it; a slot is named
by its meal type; the two reads of the history page are one.

*The observer.* `AppShell` disables the buttons that write by a `MutationObserver`,
and React does not know. In `App` every step ends with a rendering and with the
call of the observer or effect for it (`Shows`); `Watched` then says whether the
observer wrote an attribute that it watches itself, so that it is `due` again.
Setting `disabled` queues a record also when the value is the same. While it is
due nothing else happens in the browser, because microtasks run before the next
event. The sheet of the dishes is portalled out of the observed element, so its
buttons stay enabled.

Runs:

- `app` (`MCApp`: two categories, two meals, at most 2 dishes, 3 codes and 3 calls
  in flight; 1.0 million states). All clicks on all pages at once are out of
  reach, so that `Plans` bounds what one member does: 2 clicks on the dishes, 4
  and an event on the page that helps to choose, 3 or 2 and an event on the family
  page, or 1 and an event anywhere, starting without a household. A click is
  one that sends a call; others are free. An event is an outage, a rotation or
  check-in from elsewhere, or the end of the session. Two calls that overtake each
  other need two clicks; accepting a dish while the slot for another meal is
  asked for needs three, and the fourth follows it. The day is a Sunday, where the
  week is easiest to get wrong; `WeekCounted` proves the other days.
  `AppTypeOK`, `NothingStuck`, `CodeFollows`, `ListSettles`, `PicturesApart`,
  `SlotSettles`, `WishesMeant`, `SavedIsCounted`, `ControlsFollow`.
- `wishes_follow` finds the wish that goes to another meal than the selected one.
  The member selects dinner, draws a dish and accepts it before the slot of
  dinner has arrived: the page still holds the slot of lunch, and wishes there.
  The plan is three clicks on this page.
- `comes_to_rest` finds that the observer does not. A check-in is on its way, the
  network goes, the check-in fails and the button would be freed: the observer
  disables it, is called for that, writes again, and the page is frozen.
  `ControlsFollow` therefore says less than it seems to: no button is enabled during
  an outage, and after one in which nothing on the page changed every button is
  as before. What would follow an outage in which something did change is never
  reached, in the code as in the model.

Several properties are stated for a member who does not do two things at a time,
because they fail for one who does. The design promises more only of wishes
(`wishes_follow`):

- `ListSettles` (`crossed`): the reload after a write keeps the filter of the
  rendering in which the handler began, and is not cancelled by a later filter.
- `PicturesApart` (`muddled`): the form keeps what it holds while the title, and the
  meaning of saving, follow the card that was clicked last; and after an update the
  sheet stays open as one for a new dish.
- `SlotSettles`, `WishesMeant` (`hasty`): until the slot of the newly selected meal has
  arrived, accepting uses the slot of the one before (`wishes_follow`). Leaving
  the page is not haste: both hold for an acceptance that goes on without it.
- `CodeFollows` (`astray`): a rotation from elsewhere, or one whose answer is lost,
  shows only after the session is asked for again.
- `SavedIsCounted` (`patient`): a history that was asked for earlier may arrive later.

Two more divergences have no run of their own. The invite code card of
`OnboardingPage` is never seen, because `onAuthenticated` takes the page away
(`ui-visual-redesign.md` has it shown after the household is created). And
`MenuEditor.tsx:69-76` lets the member order the dishes, while `models.py:114-142`
stores no position and `meals/service.py:60-66` sorts by name.

## 9. Recommendations

The state of `Recommendations` is the history the answers depend on: the day, the
archive and the confirmed menus. `Candidates`, `Visibility`, `Recency`, `Matched` and
`Draw` are the functions of `recommendations/domain.py` and `service.py`. The
properties compare them with definitions of another form: `SearchMatches` with what
one could cook after buying nothing or one ingredient, `DrawProportional` with the
number of tickets that draw each dish.

- `recommendations` (three dishes that need one, two and three ingredients, menus
  on days 0 and 14, days 0 to 15, every filter; 8192 states). The two dates and
  the fifteen days meet each boundary of the weights (3, 7 and 14 days, and a
  menu for a day to come); three dishes are a first, a middle and a last
  candidate.

## 10. Fairness

`Backend!Fairness` is strong fairness of a task's next statement. The event loop
resumes each task whose statement returned, and PostgreSQL grants a lock to its
waiters in the order of their arrival: a statement that is enabled again and
again does run. Weak fairness would be too weak, because a waiter is disabled
whenever another task holds the lock. In `DishCatalogue` the next step may be the
deadlock detector's (`BreakDeadlock`), which PostgreSQL runs for every statement
that has waited for `deadlock_timeout`. Nothing is assumed about arrivals, time or
failures.

`ComesToRest` is refuted under weak fairness of the observer's call: microtasks run
until there are none. The pages are otherwise checked for safety only: an answer
may never come, and `NeverStuck` and `NothingStuck` say that then there is at least
a call whose end frees the page.

## 11. Proofs

`MealSlotProofs` proves for every set of tasks, members and dishes, every bound
and every set of expected versions:

| theorem | statement |
|---|---|
| `TypeCorrect` | `Spec => []TypeOK` |
| `ClaimsExclude` | `Spec => []ClaimHolds` |
| `MenuAgrees` | `Spec => []MenuOfVersion` |
| `FirstRequestSeen` | `Spec => []FirstRequestRecorded` |
| `NoUpdateLost` | `Spec => NoLostMenuUpdate` |
| `AnswersTrue` | `Spec => RepliesTruthful` |
| `ImplementsBoard` | `Spec => BoardSpec` |
| `SerialAgrees` | `Spec => []SerialTable` |

The assumptions are those of the constants in `MealSlot` (`NoTask` is no task,
expected versions are naturals, and so on). The argument: `SlotInv` strengthens
`ClaimHolds`, `MenuOfVersion` and `FirstRequestRecorded` by what tasks on their
way know (a task at `claim` or later names a non-empty set of dishes; a task at
`insert` that saw no prior request will record the event, or there is one).
Each conjunct is inductive relative to `TypeOK`, one lemma per conjunct with one
step per action. `ImplementsBoard` maps each action to a board action or to a
stutter; only `ReplaceMenu` changes the menu, and `ClaimHolds` makes it a
confirmation of the current version. `SerialTable` is not inductive, because a
task that overlaps with nobody still writes what it read earlier: `OneBusy` (as
long as `alone` holds, one task at most is busy) and `ViewFresh` (what that task
has read is still so) make it inductive.

`HouseholdAccessProofs` proves for every set of tasks, nicknames, PINs and
addresses, every limit and every bound:

| theorem | statement |
|---|---|
| `TypeCorrect` | `Spec => []TypeOK` |
| `OwnerStaysInCharge` | `Spec => []OwnerInCharge` |
| `CodeAdmits` | `Spec => AdmittedByCode` |
| `PinChanges` | `Spec => PinOnlyReset` |
| `RevocationsLast` | `Spec => RevocationFinal` |
| `LimitsStay` | `Spec => []LimitsHold` |
| `SessionsCurrent` | `Spec => []SerialSessions` |
| `OnlyOwnerActs` | `Spec => SerialOwnerActs` |

Assumed: there is a PIN, the tasks are finitely many (they are counted), and PIN
keys and join keys of the limiter differ. The argument: three lemmas
(`ArrivalStep`, `TaskStep`, `TableStep`) say once, action by action, what a step
may do to the tasks and to the tables; the invariants then follow from these
summaries. `AccessInv` adds to `OwnerInCharge` what tasks on their way know: a
task at `disable` names a member who is not the owner, which stays so because
the owner never changes; a task at `admit` names nobody who is a member, and no
two of them the same nickname, because the INSERT waits for the unique index; a
join behind the test of its code brought a code of its own time. For
`LimitsHold` the failures of an address and its joins in flight are counted
together (`LimitInv`). For the two properties of requests that do not overlap,
`OneBusy` and `SerialView` (what the only busy task has read is still so) play
the part they play in `MealSlotProofs`.

`DishCatalogueProofs` proves for every set of tasks, dishes and names and every
bound:

| theorem | statement |
|---|---|
| `TypeCorrect` | `Spec => [](TypeOK /\ JobFits)` |
| `DishesWhole` | `Spec => []DishWhole` |
| `LinksAsAsked` | `Spec => []LinksMeant` |
| `NamesUnambiguous` | `Spec => []SerialNames` |
| `ArchivedForGood` | `Spec => ArchiveFinal` |

Assumed: the bounds are naturals and the values for "nobody" are none of their
sets. Again three lemmas (`ArrivalStep`, `TaskStep`, `Steps`) sum up what a step
does; `IInv` is inductive, with one lemma per part. `Own` is what `LinksWhole`
needs: a handler that has deleted the links of its dish has deleted those of the
request that wrote the row, because from the flush of its UPDATE on it holds the
row (an update) or nobody else knows the dish (a new one). `Numbered` and `Known`
are what `ColumnsWhole` needs: requests in flight have numbers of their own,
which nobody has loaded, so a task whose dish still has the number that it
loaded has loaded the columns that are there; leaving out those that are equal
then changes nothing. `Cover` and `Nicks`
are what `LinksMeant` needs: the names before the one in hand are covered by the
ingredients gathered so far, and stay covered because aliases are never mapped
anew. `Solo` and `LooksUp` are for requests that do not overlap: the only busy
task works on a dish that is not archived and on names that are still free.

`TodayPageProofs` proves for every set of meals, dishes and people and every
number of clicks and changes by others:

| theorem | statement |
|---|---|
| `TypeCorrect` | `Spec => []TypeOK` |
| `WaitsForSomething` | `Spec => []NeverStuck` |
| `SeenBeforeReplaced` | `Spec => NoBlindOverwrite` |
| `ServesBoards` | `Spec => ServerBoards` |
| `PatientSelection` | `Spec => []PatientShowsSelected` |
| `PatientWishes` | `Spec => []PatientSeesOwn` |
| `ConflictShowsLater` | `Spec => []ConflictRefreshed` |

Assumed: the member, the others and nobody are three different people, there is a
value for no meal, and the bounds are naturals. `Numbered` (a call has the number
of its click) keeps a new call from replacing one in flight. `Waiting` makes
`NeverStuck` inductive: a page that loads has a load in flight, and one that is
busy the call of that number. `Current` is what `NoBlindOverwrite` and
`ConflictRefreshed` need: whatever is shown, was answered, or was seen when a
confirmation was clicked is the slot's past, that is of an earlier version or of
the present one with the present menu. So a confirmation that matches the
version replaces the menu that was seen. `Patience` says the same of a member who
waits: the only call is for the selected meal, and what it brings has the
member's own wishes as the server has them, which nobody else changes.

`BackendProofs` proves for all values of the constants of `Backend`:

| theorem | statement |
|---|---|
| `ServesMeals`, `ServesHouseholds`, `ServesCatalogue` | `Spec => Meals!Spec`, and the same of `Households` and `Catalogue` |
| `MealsHold` | the server keeps `ClaimHolds`, `MenuOfVersion`, `FirstRequestRecorded`, `SerialTable`, `NoLostMenuUpdate`, `RepliesTruthful` and `BoardSpec` |
| `HouseholdsHold` | it keeps `OwnerInCharge`, `LimitsHold`, `SerialSessions`, `AdmittedByCode`, `PinOnlyReset`, `RevocationFinal` and `SerialOwnerActs` |
| `CatalogueHolds` | it keeps `DishWhole`, `LinksMeant`, `SerialNames` and `ArchiveFinal` |

Assumed: what the three modules assume of their constants. A step of a router is
a step of its module, and one that leaves its tables alone for those of the
others. The theorems of the three modules of proofs are then instantiated and not
proved again. An instance of a module of proofs has definitions of its own, with
the same bodies as those that `Backend` uses; `OneMeals`, `OneHouseholds` and
`OneCatalogue` expand both, which is why they cite every definition.

`RecommendationsProofs` proves for every catalogue in which a dish needs finitely
many ingredients, and every history on finitely many dates:

| theorem | statement |
|---|---|
| `SearchFinds` | `Spec => []SearchMatches` |
| `DrawIsFair` | `Spec => []DrawProportional` |

`SearchFinds` takes the cardinalities apart: none, one and more missing. `DrawIsFair`
needs that what the definitions choose is there: an order of a finite set of
dishes by name (`InOrder`), the sums of the weights (`SumsDefined`), the last date
of a finite set (`GreatestNumber`). The library's induction cannot be instantiated,
so each of these takes the least number for which it would fail (`LeastNumber`).
The sums rise (`SumsRise`), because every weight is positive; so the tickets that
draw the n-th dish are those from one sum up to the next, and they are as many as
its weight, which is what the table says of the last date (`WeightOfTable`).

`AppProofs` proves for every number of codes, dishes, meals, days, clicks, calls and
events, and any categories:

| theorem | statement |
|---|---|
| `AppTypes` | `Spec => []AppTypeOK` |
| `ButtonsFollow` | `Spec => []ControlsFollow` |
| `AppNotStuck` | `Spec => []NothingStuck` |
| `RotationFollowed` | `Spec => []CodeFollows` |
| `CheckInCounted` | `Spec => []SavedIsCounted` |
| `SlotsSettle` | `Spec => []SlotSettles` |
| `MeantWishes` | `Spec => []WishesMeant` |
| `ListsSettle` | `Spec => []ListSettles` |
| `PicturesStayApart` | `Spec => []PicturesApart` |
| `WeekCounted` | on every day the week of the check-in starts on a Monday and is counted |

Assumed: the bounds are naturals, there is room for a call and for a code, and a
value that stands for nothing is none of the others. `AppCallProofs` says once what a step can do to
the calls in flight: it ends one, makes another of one, sends one, or leaves the
page with the calls that are then nobody's. Every call carries, and every answer
brings, what its operation is about (`Typed`). The rest follows operation by
operation, because a step of one page leaves the calls of the others as they are.
`AppKnown` is inductive; its parts say what is known of the calls on their way:

- `Follows`: what each button on the page is while the network is up, while it is
  down and while the observer is at work. Only the network's own steps change
  `online`, they change nothing else, and what is wanted of a button changes only
  with what `View` shows.
- `SessionWaits` and `CodeKnown`: one call asks for the session while the application
  has none; a code in an answer is the one that is valid, and the page's is the
  application's or on its way.
- `LiveHere`: a call that is awaited belongs to the page that is there.
- `PatientOne`, `HistoryAsked`, `SavedFirst`: a patient member has one call in
  flight, so that a history that arrives was read after the check-in was stored.
- `SlotsAsked` and `WishesAsked`: a busy page has one call that frees it, and what
  the effect asks for is the slot of the selected meal; a wish on its way, or a
  dish that waits for its slot, on the page or after it was left, was meant for
  its meal, if the member was not hasty.
- `DishAsked` and `ListKnown`: what the list and the form wait for was asked for
  once; a load in flight is for the filter that is chosen, a write or its reload is
  alone, and a list that was answered is still what the server has.
- `PicturesKnown`: for every picture the dish that has it, in the table, in the
  list, in the form or in a call on its way, is one and the same; a picture of
  a dish that is not there yet is in one form or in one call.

None of the properties is inductive without its part: each says what is so when
nothing is in flight any more, and the part says what the calls will make of it.

Only model-checked: `EveryRequestAnswered`, which is liveness, and the refutations.

## 12. Not modelled

- Layout, wording, generated types, the service worker's registration, schema
  migrations, configuration and deployment; cryptography (codes, PINs and tokens
  are compared as values); object storage.
- `get_or_create_meal_slot` with its race: one step of the pages. Its recovery
  reads again after the unique violation, like `MealSlot`'s.
- The totals of the metrics summary other than the check-in. They are aggregates
  over the events that `MealSlot` records, and nothing reads them back.
- The order of the menu items, which the server does not keep (section 8).
- The limit of uploads; `HouseholdAccess` has the limiter, and the same order of
  test and record, for joins and PINs.
- Loads of the pickers of ingredients and cooks, the search of dishes by name, and
  a page that stays open over midnight with the day's slots.
