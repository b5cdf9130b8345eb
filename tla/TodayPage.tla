----------------------------- MODULE TodayPage ------------------------------
(***************************************************************************)
(* The page of a meal in one member's browser (frontend/src/features/      *)
(* meals), against the server of all the household's meals.                *)
(*                                                                         *)
(* Every handler of the page sends a request and goes on when the answer   *)
(* arrives; meanwhile the page stays usable, requests overtake each other  *)
(* and any of them may fail before or after the server has acted on it.    *)
(* A step of the server is a whole handler: MealSlot shows that the        *)
(* handlers, interleaved, are steps of a MealBoard, and ServerBoards says  *)
(* that the meals here are boards of that kind.                            *)
(***************************************************************************)
EXTENDS Integers, FiniteSets

CONSTANTS
  Meals,      (* Meals the member can go to: a date and lunch or dinner.    *)
  Dishes,     (* Dishes of the household.                                   *)
  Me, You,    (* The member at the page, and all the others.                *)
  MaxClicks,  (* Number of clicks that send something.  Bounds the model.   *)
  MaxOthers,  (* Number of changes by others.  Bounds the model.            *)
  NoOne,      (* Editor of a menu that was never confirmed.                 *)
  NoMeal      (* The meal of an empty page.                                 *)

ASSUME BoundsAssumption == MaxClicks \in Nat /\ MaxOthers \in Nat
ASSUME PeopleAssumption == Me # You /\ NoOne \notin {Me, You}
ASSUME MealsAssumption  == Meals # {} /\ NoMeal \notin Meals

VARIABLES
  slots,     (* The server's meal slots.                                    *)
  at,        (* localDate and mealType: the meal that is selected.          *)
  shown,     (* slot: the answer that the page shows.                       *)
  loading,   (* The page shows the skeleton and no buttons.                 *)
  error,     (* An error is shown.                                          *)
  conflict,  (* The version conflict is shown.                              *)
  section,   (* Which of the two workspaces is open.                        *)
  draft,     (* selected: the dishes in the open menu editor.               *)
  busy,      (* The call that keeps the open editor's button disabled.      *)
  call,      (* The calls in flight, by the click that started them.        *)
  clicks,    (* Number of clicks so far.                                    *)
  others,    (* Number of changes by others so far.                         *)
  lost,      (* History: what the last conflict was about.                  *)
  patient    (* History: the member never clicked while a call was in       *)
             (* flight or an error was shown.                               *)

page == <<at, shown, loading, error, conflict, section, draft, busy>>
vars == <<slots, page, call, clicks, others, lost, patient>>

People  == {Me, You}
Clicks  == 0 .. MaxClicks                    \* 0 is the load of the first page.
NoClick == -1

Slots == [version : Nat, menu : SUBSET Dishes, editor : People \cup {NoOne},
          wishes : SUBSET (People \X Dishes)]
Shots == [meal : Meals, version : Nat, menu : SUBSET Dishes,
          wishes : SUBSET (People \X Dishes)]
NoShot == [meal |-> NoMeal, version |-> 0, menu |-> {}, wishes |-> {}]

\* meal is the slot that the call is about, from the meal that was selected
\* when it was clicked (load's default arguments), answer what came back.
Calls == [op : {"load", "wish", "withdraw", "confirm"}, meal : Meals, from : Meals,
          dishes : SUBSET Dishes, expected : Nat,
          answer : {"none", "ok", "conflict"}, shot : Shots \cup {NoShot},
          seen : SUBSET Dishes]              \* seen (history): the menu shown.

\* Faulty: the requests themselves, not their dishes.
PrefillRequests(s) == IF s.menu # {} THEN s.menu ELSE s.wishes

\* What a menu editor starts from: the menu, or else the wish list.
Prefill(s) == IF s.menu # {} THEN s.menu ELSE {w[2] : w \in s.wishes}

Shot(m) == [meal |-> m, version |-> slots[m].version, menu |-> slots[m].menu,
            wishes |-> slots[m].wishes]

NewLoad(m) == [op |-> "load", meal |-> m, from |-> m, dishes |-> {}, expected |-> 0,
               answer |-> "none", shot |-> NoShot, seen |-> {}]

InFlight == DOMAIN call
Without(c) == [d \in InFlight \ {c} |-> call[d]]

Init ==
  /\ slots = [m \in Meals |-> [version |-> 0, menu |-> {}, editor |-> NoOne, wishes |-> {}]]
  /\ at \in Meals
  /\ shown = NoShot
  /\ loading = TRUE /\ error = FALSE /\ conflict = FALSE
  /\ section = "order"
  /\ draft = {} /\ busy = NoClick
  /\ call = [c \in {0} |-> NewLoad(at)]
  /\ clicks = 0 /\ others = 0
  /\ lost = [meal |-> NoMeal, version |-> 0]
  /\ patient = TRUE

-----------------------------------------------------------------------------
(* The server.                                                             *)

\* The handler of call c leaves its slot as t and answers with it.
Reply(c, kind, t) ==
  LET m == call[c].meal
  IN  /\ slots' = [slots EXCEPT ![m] = t]
      /\ call' = [call EXCEPT ![c].answer = kind,
                              ![c].shot = [meal |-> m, version |-> t.version,
                                           menu |-> t.menu, wishes |-> t.wishes]]
      /\ UNCHANGED <<page, clicks, others, lost, patient>>

Arrived(c, op) == call[c].op = op /\ call[c].answer = "none"

ServeLoad(c) == Arrived(c, "load") /\ Reply(c, "ok", slots[call[c].meal])

ServeWish(c) ==
  /\ Arrived(c, "wish")
  /\ Reply(c, "ok", [slots[call[c].meal] EXCEPT !.wishes = @ \cup ({Me} \X call[c].dishes)])

ServeWithdraw(c) ==
  /\ Arrived(c, "withdraw")
  /\ Reply(c, "ok", [slots[call[c].meal] EXCEPT !.wishes = @ \ ({Me} \X call[c].dishes)])

\* Faulty: the version is not compared.
ServeAnyConfirm(c) ==
  /\ Arrived(c, "confirm")
  /\ Reply(c, "ok", [slots[call[c].meal] EXCEPT !.version = @ + 1, !.editor = Me,
                                                !.menu = call[c].dishes])

\* Faulty: the wishes that the menu fulfils are taken off the list.
ServeConfirmConsuming(c) ==
  LET s == slots[call[c].meal]
  IN  /\ Arrived(c, "confirm")
      /\ IF call[c].expected = s.version
           THEN Reply(c, "ok", [s EXCEPT !.version = @ + 1, !.editor = Me,
                                         !.menu = call[c].dishes,
                                         !.wishes = @ \ (People \X call[c].dishes)])
           ELSE Reply(c, "conflict", s)

ServeConfirm(c) ==
  LET s == slots[call[c].meal]
  IN  /\ Arrived(c, "confirm")
      /\ IF call[c].expected = s.version
           THEN Reply(c, "ok", [s EXCEPT !.version = @ + 1, !.editor = Me,
                                         !.menu = call[c].dishes])
           ELSE Reply(c, "conflict", s)

Serve(c) == ServeLoad(c) \/ ServeWish(c) \/ ServeWithdraw(c) \/ ServeConfirm(c)

\* Somebody else wishes, withdraws or confirms.
OtherActs(m) ==
  /\ others < MaxOthers /\ others' = others + 1
  /\ \/ \E d \in Dishes :
          \/ slots' = [slots EXCEPT ![m].wishes = @ \cup {<<You, d>>}]
          \/ slots' = [slots EXCEPT ![m].wishes = @ \ {<<You, d>>}]
     \/ \E ds \in (SUBSET Dishes) \ {{}} :
          slots' = [slots EXCEPT ![m] = [slots[m] EXCEPT !.version = @ + 1, !.menu = ds,
                                                         !.editor = You]]
  /\ UNCHANGED <<page, call, clicks, lost, patient>>

-----------------------------------------------------------------------------
(* Helpers of the page.                                                    *)

\* The buttons of the two workspaces are on the screen.
Usable == ~ loading /\ shown # NoShot

\* A click that sends something: j goes out and the error is cleared.
Click(j) ==
  /\ clicks < MaxClicks
  /\ clicks' = clicks + 1
  /\ call' = [c \in InFlight \cup {clicks + 1} |-> IF c = clicks + 1 THEN j ELSE call[c]]
  /\ patient' = (patient /\ InFlight = {} /\ ~ error)
  /\ error' = FALSE
  /\ UNCHANGED <<slots, others, lost>>

\* The page shows slot s, or no slot, as a whole: a menu editor that appears
\* starts from the slot and has no busy button.
NewEditor(s) == draft' = (IF section = "menu" THEN Prefill(s) ELSE {}) /\ busy' = NoClick
NoEditor     == draft' = {} /\ busy' = NoClick

\* The answer s of call c replaces the slot under an editor that may be open:
\* its dishes are reset and, when c kept the button busy, the button is freed.
ReplaceSlot(c, s) ==
  /\ shown' = s
  /\ draft' = IF section = "menu" THEN Prefill(s) ELSE draft
  /\ busy' = IF busy = c THEN NoClick ELSE busy

-----------------------------------------------------------------------------
(* Clicks.                                                                 *)

\* Faulty: the effect does not depend on what is selected.
SelectOnly(m) ==
  /\ m # at
  /\ at' = m
  /\ UNCHANGED <<slots, shown, loading, error, conflict, section, draft, busy,
                 call, clicks, others, lost, patient>>

\* Another date or meal: the effect of TodayPage loads it.
Select(m) ==
  /\ m # at
  /\ Click(NewLoad(m))
  /\ at' = m /\ loading' = TRUE
  /\ NoEditor
  /\ UNCHANGED <<shown, conflict, section>>

\* The other workspace; the editor is part of one of them.
Switch ==
  /\ Usable
  /\ IF section = "menu"
       THEN section' = "order" /\ NoEditor
       ELSE section' = "menu" /\ draft' = Prefill(shown) /\ busy' = NoClick
  /\ UNCHANGED <<slots, at, shown, loading, error, conflict, call, clicks, others, lost, patient>>

Asked(op, ds) == [op |-> op, meal |-> shown.meal, from |-> at, dishes |-> ds,
                  expected |-> shown.version, answer |-> "none", shot |-> NoShot,
                  seen |-> shown.menu]

\* handleRequest: the picker offers the dishes that nobody wishes yet.
Wish(d) ==
  /\ Usable /\ section = "order"
  /\ \A p \in People : <<p, d>> \notin shown.wishes
  /\ Click(Asked("wish", {d}))
  /\ UNCHANGED <<at, shown, loading, conflict, section, draft, busy>>

\* handleWithdraw: own wishes have a button.
Withdraw(d) ==
  /\ Usable /\ section = "order"
  /\ <<Me, d>> \in shown.wishes
  /\ Click(Asked("withdraw", {d}))
  /\ UNCHANGED <<at, shown, loading, conflict, section, draft, busy>>

\* togglePick, removeAt.
Toggle(d) ==
  /\ Usable /\ section = "menu"
  /\ draft' = IF d \in draft THEN draft \ {d} ELSE draft \cup {d}
  /\ UNCHANGED <<slots, at, shown, loading, error, conflict, section, busy,
                 call, clicks, others, lost, patient>>

\* handleConfirm of the editor and of the page.
Confirm ==
  /\ Usable /\ section = "menu"
  /\ busy = NoClick /\ draft # {}
  /\ Click(Asked("confirm", draft))
  /\ busy' = clicks + 1
  /\ conflict' = FALSE
  /\ UNCHANGED <<at, shown, loading, section, draft>>

-----------------------------------------------------------------------------
(* Answers.                                                                *)

\* load: the answer is shown, whatever is selected by now.
Loaded(c) ==
  /\ call[c].op = "load" /\ call[c].answer = "ok"
  /\ call' = Without(c)
  /\ loading' = FALSE
  /\ IF loading THEN shown' = call[c].shot /\ NewEditor(call[c].shot)
                ELSE ReplaceSlot(c, call[c].shot)
  /\ UNCHANGED <<slots, at, error, conflict, section, clicks, others, lost, patient>>

\* handleRequest and handleConfirm: so is the slot that the server returned.
Updated(c) ==
  /\ call[c].op \in {"wish", "confirm"} /\ call[c].answer = "ok"
  /\ call' = Without(c)
  /\ IF loading THEN shown' = call[c].shot /\ UNCHANGED <<draft, busy>>
                ELSE ReplaceSlot(c, call[c].shot)
  /\ UNCHANGED <<slots, at, loading, error, conflict, section, clicks, others, lost, patient>>

\* A handler goes on with load(), for the meal that was selected at its click.
LoadAgain(c) ==
  /\ call' = [call EXCEPT ![c] = NewLoad(call[c].from)]
  /\ loading' = TRUE /\ error' = FALSE
  /\ NoEditor

\* Faulty: handleWithdraw ends without load().
WithdrawnSilently(c) ==
  /\ call[c].op = "withdraw" /\ call[c].answer = "ok"
  /\ call' = Without(c)
  /\ UNCHANGED <<slots, page, clicks, others, lost, patient>>

\* handleWithdraw.
Withdrawn(c) ==
  /\ call[c].op = "withdraw" /\ call[c].answer = "ok"
  /\ LoadAgain(c)
  /\ UNCHANGED <<slots, at, shown, conflict, section, clicks, others, lost, patient>>

\* Faulty: a conflict is reported and nothing is loaded.
ConflictKept(c) ==
  /\ call[c].op = "confirm" /\ call[c].answer = "conflict"
  /\ conflict' = TRUE
  /\ lost' = [meal |-> call[c].meal, version |-> call[c].expected]
  /\ call' = Without(c)
  /\ busy' = IF busy = c THEN NoClick ELSE busy
  /\ UNCHANGED <<slots, at, shown, loading, error, section, draft, clicks, others, patient>>

\* handleConfirm reports the conflict.
Conflict(c) ==
  /\ call[c].op = "confirm" /\ call[c].answer = "conflict"
  /\ conflict' = TRUE
  /\ lost' = [meal |-> call[c].meal, version |-> call[c].expected]
  /\ LoadAgain(c)
  /\ UNCHANGED <<slots, at, shown, section, clicks, others, patient>>

\* Faulty: the skeleton and the busy button are only ended by success.
FailSilently(c) ==
  /\ call' = Without(c)
  /\ error' = TRUE
  /\ UNCHANGED <<slots, at, shown, loading, conflict, section, draft, busy,
                 clicks, others, lost, patient>>

\* Any call fails, before or after the server has acted on it: a lost
\* connection, or an error status.  A load ends the skeleton all the same.
Fail(c) ==
  /\ call' = Without(c)
  /\ error' = TRUE
  /\ IF call[c].op = "load" /\ loading
       THEN loading' = FALSE /\ (IF shown = NoShot THEN NoEditor ELSE NewEditor(shown))
       ELSE /\ busy' = IF busy = c THEN NoClick ELSE busy
            /\ UNCHANGED <<loading, draft>>
  /\ UNCHANGED <<slots, at, shown, conflict, section, clicks, others, lost, patient>>

Settle(c) == Loaded(c) \/ Updated(c) \/ Withdrawn(c) \/ Conflict(c) \/ Fail(c)

Next ==
  \/ \E m \in Meals : Select(m) \/ OtherActs(m)
  \/ \E d \in Dishes : Wish(d) \/ Withdraw(d) \/ Toggle(d)
  \/ Switch \/ Confirm
  \/ \E c \in InFlight : Serve(c) \/ Settle(c)

Spec == Init /\ [][Next]_vars

-----------------------------------------------------------------------------
(* Properties.                                                             *)

\* Every variable has its type.
TypeOK ==
  /\ slots \in [Meals -> Slots]
  /\ at \in Meals
  /\ shown \in Shots \cup {NoShot}
  /\ loading \in BOOLEAN /\ error \in BOOLEAN /\ conflict \in BOOLEAN
  /\ section \in {"order", "menu"}
  /\ draft \subseteq Dishes
  /\ busy \in Clicks \cup {NoClick}
  /\ InFlight \subseteq Clicks /\ \A c \in InFlight : call[c] \in Calls
  /\ clicks \in Clicks /\ others \in 0 .. MaxOthers
  /\ lost \in [meal : Meals \cup {NoMeal}, version : Nat]
  /\ patient \in BOOLEAN

\* The page never waits for nothing: behind a skeleton there is a load in
\* flight, behind a disabled confirm button the confirmation it waits for.
NeverStuck ==
  /\ loading => \E c \in InFlight : call[c].op = "load"
  /\ busy # NoClick => busy \in InFlight /\ call[busy].op = "confirm"

\* However stale the page and however late the call: a menu that this member
\* replaces is the one that the page showed when they confirmed.
NoBlindOverwrite ==
  [][ \A m \in Meals :
        slots'[m].version # slots[m].version /\ slots'[m].editor = Me =>
          \E c \in InFlight : /\ call[c].op = "confirm" /\ call[c].meal = m
                              /\ call[c].seen = slots[m].menu ]_vars

\* A page at rest shows the meal that is selected, whatever was selected,
\* loaded or sent before, and in whichever order it was answered.
ShowsSelected == InFlight = {} /\ ~ error => shown.meal = at

\* It does for a member who waits for each answer.
PatientShowsSelected == patient => ShowsSelected

\* Such a member sees their own wishes as the server has them.
PatientSeesOwn ==
  patient /\ InFlight = {} /\ ~ error =>
    \A d \in Dishes : <<Me, d>> \in shown.wishes <=> <<Me, d>> \in slots[at].wishes

\* After a conflict they see a later version of that menu than the one they
\* had tried to replace (TodayPage.test.tsx:200).
ConflictRefreshed ==
  patient /\ conflict /\ InFlight = {} /\ ~ error /\ shown.meal = lost.meal =>
    shown.version > lost.version

\* The meals of the server are boards: each step of the page and of the others
\* is, for every meal, a step of a board or none at all.
Board(m) == INSTANCE MealBoard WITH
              Members <- People,
              status <- IF slots[m].version > 0 THEN "confirmed" ELSE "not_started",
              version <- slots[m].version, editor <- slots[m].editor,
              requests <- slots[m].wishes, menu <- slots[m].menu,
              menuEvents <- slots[m].version
ServerBoards ==
  /\ \A m \in Meals : Board(m)!Init
  /\ [][ \A m \in Meals : [Board(m)!Next]_(Board(m)!board) ]_vars
=============================================================================
