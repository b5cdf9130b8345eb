----------------------------- MODULE ChoosePage -----------------------------
(***************************************************************************)
(* The page that helps to choose (frontend/src/features/recommendations/   *)
(* ChooseForMePage.tsx).  It has a meal type, and the id of today's slot   *)
(* for it, which an effect asks the server for; a dish drawn by chance, or *)
(* the dishes that a search found; and a button on each of them that adds  *)
(* it to the wishes for the meal.                                          *)
(*                                                                         *)
(* The filters are abstracted to what passes them: any of the dishes that  *)
(* are not archived (Recommendations has the matching).  A slot is named   *)
(* by its meal type.  The route gives the page no slot of its own.         *)
(***************************************************************************)
EXTENDS Browser

CONSTANTS
  Meals,   (* Meal types.                                                   *)
  NoSlot   (* No slot id.                                                   *)

ASSUME MealsAssumption == NoSlot \notin Meals

VARIABLES
  method,       (* tab: "random" or "ingredient".                           *)
  mealType,     (* The meal type that is selected.                          *)
  slotId,       (* resolvedMealSlotId.                                      *)
  results,      (* The dishes that the search found.                        *)
  picked,       (* The dish that was drawn.                                 *)
  chooseError,  (* The page shows an error.                                 *)
  busy,         (* The buttons are disabled.                                *)
  wishes,       (* The member's wishes for today's slots, on the server.    *)
  meant,        (* History: the dishes accepted while a meal was selected.  *)
  hasty         (* History: one of them while a slot was asked for, or      *)
                (* while the page was busy.                                 *)

chooseVars == <<method, mealType, slotId, results, picked, chooseError, busy,
                wishes, meant, hasty>>
chosen     == <<method, results, picked>>
wanted     == <<wishes, meant, hasty>>

NoPick == 0

\* The page as it appears: its effect asks for the slot of the default meal.
FreshChoosePage ==
  /\ method = "random"
  /\ slotId = NoSlot
  /\ results = {} /\ picked = NoPick
  /\ chooseError = FALSE /\ busy = FALSE

ChoosePageAppears ==
  /\ method' = "random"
  /\ slotId' = NoSlot
  /\ results' = {} /\ picked' = NoPick
  /\ chooseError' = FALSE /\ busy' = FALSE

ChooseInit ==
  /\ FreshChoosePage
  /\ mealType \in Meals
  /\ wishes = [m \in Meals |-> {}] /\ meant = [m \in Meals |-> {}]
  /\ hasty = FALSE

\* Asking for the slot of m: for the effect, or on the way to a wish for dish d.
AskSlot(m)       == Call("slot", [meal |-> m])
EnsureSlot(m, d) == Call("ensure", [meal |-> m, dish |-> d])
Wish(m, d)       == Call("wish", [slot |-> m, dish |-> d])

-----------------------------------------------------------------------------
(* The server; active are the dishes that are not archived.                *)

ServeSlot(c) ==
  /\ Arrived(c, "slot") \/ Arrived(c, "ensure")
  /\ Answer(c, "ok", calls[c].arg.meal)
  /\ UNCHANGED chooseVars

\* Any dishes may pass the filters; if none does, the answer is an error.
ServeSearch(c, active) ==
  /\ Arrived(c, "search")
  /\ \E D \in SUBSET active :
       IF D = {} THEN Answer(c, "refused", Nothing) ELSE Answer(c, "ok", D)
  /\ UNCHANGED chooseVars

ServeRandom(c, active) ==
  /\ Arrived(c, "random")
  /\ Answer(c, "refused", Nothing) \/ \E d \in active : Answer(c, "ok", d)
  /\ UNCHANGED chooseVars

\* An archived dish cannot be wished for.
ServeWish(c, active) ==
  LET w == calls[c].arg
  IN  /\ Arrived(c, "wish")
      /\ IF w.dish \in active
           THEN /\ Answer(c, "ok", Nothing)
                /\ wishes' = [wishes EXCEPT ![w.slot] = @ \cup {w.dish}]
           ELSE Answer(c, "refused", Nothing) /\ UNCHANGED wishes
      /\ UNCHANGED <<chosen, mealType, slotId, chooseError, busy, meant, hasty>>

-----------------------------------------------------------------------------
(* The slot.                                                               *)

\* Faulty: the answer to the effect before is taken as well.
SelectMealOnly(m) ==
  /\ m # mealType /\ ~ busy /\ Room(calls)
  /\ Click(Adding(calls, AskSlot(m)))
  /\ mealType' = m
  /\ UNCHANGED <<chosen, slotId, chooseError, busy, wanted>>

\* The effect asks for another slot and cancels what it asked before; the slot
\* of the meal before stays until the answer is there.
SelectMeal(m) ==
  LET rest == Abandoning({c \in InFlight : calls[c].op = "slot"})
  IN  /\ m # mealType /\ ~ busy /\ Room(rest)
      /\ Click(Adding(rest, AskSlot(m)))
      /\ mealType' = m
      /\ UNCHANGED <<chosen, slotId, chooseError, busy, wanted>>

SlotResolved(c) ==
  /\ Good(c, "slot")
  /\ End(c)
  /\ slotId' = calls[c].body
  /\ UNCHANGED <<chosen, mealType, chooseError, busy, wanted>>

SlotFails(c) ==
  /\ Throws(c, "slot")
  /\ slotId' = NoSlot /\ chooseError' = TRUE
  /\ UNCHANGED <<chosen, mealType, busy, wanted>>

-----------------------------------------------------------------------------
(* Drawing and searching.                                                  *)

SwitchMethod ==
  /\ method' = IF method = "random" THEN "ingredient" ELSE "random"
  /\ UNCHANGED <<browser, mealType, slotId, results, picked, chooseError, busy, wanted>>

\* handleRandom and handleSearch, up to the answer.
Suggest ==
  /\ ~ busy
  /\ Send(IF method = "random" THEN "random" ELSE "search", Nothing)
  /\ busy' = TRUE /\ chooseError' = FALSE
  /\ UNCHANGED <<chosen, mealType, slotId, wanted>>

Drawn(c) ==
  /\ Good(c, "random")
  /\ End(c)
  /\ picked' = calls[c].body /\ busy' = FALSE
  /\ UNCHANGED <<method, results, mealType, slotId, chooseError, wanted>>

DrawFails(c) ==
  /\ Throws(c, "random")
  /\ picked' = NoPick /\ chooseError' = TRUE /\ busy' = FALSE
  /\ UNCHANGED <<method, results, mealType, slotId, wanted>>

Found(c) ==
  /\ Good(c, "search")
  /\ End(c)
  /\ results' = calls[c].body /\ picked' = NoPick /\ busy' = FALSE
  /\ UNCHANGED <<method, mealType, slotId, chooseError, wanted>>

SearchFails(c) ==
  /\ Throws(c, "search")
  /\ results' = {} /\ chooseError' = TRUE /\ busy' = FALSE
  /\ UNCHANGED <<method, picked, mealType, slotId, wanted>>

-----------------------------------------------------------------------------
(* Accepting a dish.                                                       *)

\* The dishes that have a button.
Offered == IF method = "random" THEN {picked} \ {NoPick} ELSE results

\* Faulty: the slot of the meal that was selected first serves for every meal.
AcceptAnySlot(d) ==
  LET m == IF slotId = NoSlot THEN CHOOSE x \in Meals : TRUE ELSE slotId
  IN  /\ d \in Offered
      /\ Room(calls) /\ Click(Adding(calls, Wish(m, d)))
      /\ busy' = TRUE /\ chooseError' = FALSE
      /\ meant' = [meant EXCEPT ![mealType] = @ \cup {d}]
      /\ hasty' = (hasty \/ busy \/ Awaited("slot"))
      /\ UNCHANGED <<chosen, mealType, slotId, wishes>>

\* acceptDish and ensureMealSlotId, up to the first answer: the slot id goes
\* with the wish as it is; without one it is asked for.  App adds that the
\* button may be disabled.
Accept(d) ==
  /\ d \in Offered
  /\ Room(calls)
  /\ Click(Adding(calls, IF slotId = NoSlot THEN EnsureSlot(mealType, d) ELSE Wish(slotId, d)))
  /\ busy' = TRUE /\ chooseError' = FALSE
  /\ meant' = [meant EXCEPT ![mealType] = @ \cup {d}]
  /\ hasty' = (hasty \/ busy \/ Awaited("slot"))
  /\ UNCHANGED <<chosen, mealType, slotId, wishes>>

\* The wish goes to the slot in the answer, also when the page was left: the
\* handler does not ask whether the page is still there.
SlotEnsured(c) ==
  /\ calls[c].op = "ensure" /\ calls[c].answer = "ok"
  /\ calls' = [calls EXCEPT ![c] = [Wish(calls[c].body, calls[c].arg.dish)
                                     EXCEPT !.live = calls[c].live]]
  /\ slotId' = IF calls[c].live THEN calls[c].body ELSE slotId
  /\ UNCHANGED <<online, clicks, patient, chosen, mealType, chooseError, busy, wanted>>

\* Faulty: the page is not freed when there is no slot.
EnsureFailsOnly(c) ==
  /\ Throws(c, "ensure")
  /\ chooseError' = TRUE
  /\ UNCHANGED <<chosen, mealType, slotId, busy, wanted>>

EnsureFails(c) ==
  /\ Throws(c, "ensure")
  /\ chooseError' = TRUE /\ busy' = FALSE
  /\ UNCHANGED <<chosen, mealType, slotId, wanted>>

\* The rest of acceptDish: the event that the meal was opened is sent, also
\* when the page was left, and nobody waits for it (MealSlot has what it does).
Accepted(c) ==
  /\ calls[c].op = "wish" /\ calls[c].answer = "ok"
  /\ calls' = [calls EXCEPT ![c] = [Call("opened", Nothing) EXCEPT !.live = FALSE]]
  /\ IF calls[c].live
       THEN picked' = calls[c].arg.dish /\ busy' = FALSE
       ELSE UNCHANGED <<picked, busy>>
  /\ UNCHANGED <<online, clicks, patient, method, results, mealType, slotId, chooseError,
                 wanted>>

AcceptFails(c) ==
  /\ Throws(c, "wish")
  /\ chooseError' = TRUE /\ busy' = FALSE
  /\ UNCHANGED <<chosen, mealType, slotId, wanted>>

-----------------------------------------------------------------------------
ChooseServer(c, active) ==
  \/ ServeSlot(c) \/ ServeSearch(c, active) \/ ServeRandom(c, active)
  \/ ServeWish(c, active)

ChooseHandlers(c) ==
  \/ SlotResolved(c) \/ SlotFails(c) \/ Drawn(c) \/ DrawFails(c) \/ Found(c)
  \/ SearchFails(c) \/ SlotEnsured(c) \/ EnsureFails(c) \/ Accepted(c) \/ AcceptFails(c)

ChooseClicks == (\E m \in Meals : SelectMeal(m)) \/ SwitchMethod \/ Suggest

-----------------------------------------------------------------------------
(* Properties.                                                             *)

\* Every variable has its type.
ChooseTypeOK ==
  /\ method \in {"random", "ingredient"}
  /\ mealType \in Meals /\ slotId \in Meals \cup {NoSlot}
  /\ results \subseteq Nat /\ picked \in Nat
  /\ chooseError \in BOOLEAN /\ busy \in BOOLEAN /\ hasty \in BOOLEAN
  /\ wishes \in [Meals -> SUBSET Nat] /\ meant \in [Meals -> SUBSET Nat]

\* A page that is busy has a call whose end frees it.
ChooseNotStuck ==
  busy => \E c \in InFlight :
            calls[c].live /\ calls[c].op \in {"search", "random", "ensure", "wish"}

\* Once no slot is asked for any more, the slot id is that of the meal that is
\* selected, or there is none, however fast the meals were selected one after
\* the other.
SlotSettles == ~ hasty /\ ~ Awaited("slot") => slotId \in {mealType, NoSlot}

\* A dish becomes a wish for no meal but the one that was selected when the
\* member accepted it, also when the member leaves the page meanwhile or it appears
\* anew for the other meal: if the slot of the meal was not still being asked for
\* and the page was not busy when a dish was accepted.
WishesMeant == ~ hasty => \A m \in Meals : wishes[m] \subseteq meant[m]

\* What the design says of every dish (see the finding): it becomes a wish for the
\* meal that is selected.  Until the slot of that meal is there, acceptDish takes
\* the slot of the meal before.
WishesFollow == \A m \in Meals : wishes[m] \subseteq meant[m]
=============================================================================
