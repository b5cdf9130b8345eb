------------------------------- MODULE Backend ------------------------------
(***************************************************************************)
(* The server with its routers together (backend/app/main.py): MealSlot,   *)
(* HouseholdAccess and DishCatalogue run on the same event loop, where a   *)
(* task serves one request of one of them at a time.  They share no row    *)
(* that any of them waits for, so what has to be shown of the whole is     *)
(* that every request is answered in the end, whatever runs next to it.    *)
(***************************************************************************)
EXTENDS Integers, FiniteSets

CONSTANTS
  Tasks, NoTask,                        (* As in the three modules.         *)
  Members, NoOne,
  SlotDishes, Expected,                 (* Of MealSlot.                     *)
  Pins, Addresses, PinLimit, JoinLimit, MaxExpiries,   (* HouseholdAccess.  *)
  Dishes, Names, MaxNames, NoDish, NoName,             (* DishCatalogue.    *)
  Columns, Editor, Values, NoValue,
  MaxMeals, MaxHouseholds, MaxCatalogue,   (* Requests to each router, to   *)
  MaxMixed,                                (* several of them, and which of *)
  Loads                                    (* them get any.  Bound it.      *)

Routers == {"meals", "households", "catalogue"}

ASSUME LoadsAssumption == Loads \subseteq SUBSET Routers

\* What the three modules assume of theirs.
ASSUME TasksAssumption == IsFiniteSet(Tasks) /\ NoTask \notin Tasks
ASSUME MealsAssumption ==
  Expected \subseteq Nat /\ MaxMeals \in Nat /\ NoOne \notin Members
ASSUME HouseholdsAssumption ==
  /\ PinLimit \in Nat \ {0} /\ JoinLimit \in Nat \ {0}
  /\ MaxHouseholds \in Nat /\ MaxExpiries \in Nat
  /\ Pins # {} /\ Members \cap Addresses = {}
ASSUME CatalogueAssumption ==
  /\ MaxNames \in Nat \ {0} /\ MaxCatalogue \in Nat /\ Editor \in Columns
  /\ NoDish \notin Dishes /\ NoName \notin Names

VARIABLES
  m_status, m_version, m_editor, m_requests, m_menu, m_active, m_events,
  m_lock, m_pc, m_job, m_saw, m_reply, m_arrivals, m_alone,
  h_owner, h_joined, h_disabled, h_pin, h_invite, h_sessions, h_expired, h_issued,
  h_failed, h_lock, h_pc, h_job, h_view, h_arrivals, h_expiries, h_alone,
  d_dishRow, d_columns, d_cooks, d_links, d_ingredients, d_aliasOf, d_lock, d_pc,
  d_job, d_view, d_seen, d_asked, d_arrivals, d_alone,
  loaded   (* The routers that get requests.                                *)

Meals == INSTANCE MealSlot WITH
  MaxArrivals <- MaxMeals, Dishes <- SlotDishes, status <- m_status,
  version <- m_version, editor <- m_editor, requests <- m_requests, menu <- m_menu,
  active <- m_active, events <- m_events, lock <- m_lock, pc <- m_pc, job <- m_job,
  saw <- m_saw, reply <- m_reply, arrivals <- m_arrivals, alone <- m_alone

Households == INSTANCE HouseholdAccess WITH
  MaxArrivals <- MaxHouseholds, Nicks <- Members, owner <- h_owner, joined <- h_joined,
  disabled <- h_disabled, pin <- h_pin, invite <- h_invite, sessions <- h_sessions,
  expired <- h_expired, issued <- h_issued, failed <- h_failed, lock <- h_lock,
  pc <- h_pc, job <- h_job, view <- h_view, arrivals <- h_arrivals,
  expiries <- h_expiries, alone <- h_alone

Catalogue == INSTANCE DishCatalogue WITH
  MaxArrivals <- MaxCatalogue, dishRow <- d_dishRow, columns <- d_columns,
  cooks <- d_cooks, links <- d_links, ingredients <- d_ingredients, aliasOf <- d_aliasOf,
  lock <- d_lock, pc <- d_pc, job <- d_job, view <- d_view, seen <- d_seen,
  asked <- d_asked, arrivals <- d_arrivals, alone <- d_alone

meals == <<m_status, m_version, m_editor, m_requests, m_menu, m_active, m_events,
           m_lock, m_pc, m_job, m_saw, m_reply, m_arrivals, m_alone>>
households == <<h_owner, h_joined, h_disabled, h_pin, h_invite, h_sessions, h_expired,
                h_issued, h_failed, h_lock, h_pc, h_job, h_view, h_arrivals, h_expiries,
                h_alone>>
catalogue == <<d_dishRow, d_columns, d_cooks, d_links, d_ingredients, d_aliasOf, d_lock,
               d_pc, d_job, d_view, d_seen, d_asked, d_arrivals, d_alone>>
vars == <<meals, households, catalogue, loaded>>

Init == Meals!Init /\ Households!Init /\ Catalogue!Init /\ loaded \in Loads

\* The routers whose requests a task serves: no more than one at a time.
Serving(t) == {r \in Routers :
  \/ r = "meals" /\ m_pc[t] # "idle"
  \/ r = "households" /\ h_pc[t] # "idle"
  \/ r = "catalogue" /\ d_pc[t] # "idle"}

\* A step of one of the routers leaves the tables of the others alone.
Next ==
  /\ UNCHANGED loaded
  /\ \/ "meals" \in loaded /\ Meals!Next /\ UNCHANGED <<households, catalogue>>
     \/ "households" \in loaded /\ Households!Next /\ UNCHANGED <<meals, catalogue>>
     \/ "catalogue" \in loaded /\ Catalogue!Next /\ UNCHANGED <<meals, households>>
  /\ loaded \in {{r} : r \in Routers} \/ m_arrivals' + h_arrivals' + d_arrivals' <= MaxMixed
  /\ \A t \in Tasks : \A r, s \in Serving(t)' : r = s

\* A task runs the next statement of the request that it serves.
Proceed(t) ==
  /\ UNCHANGED loaded
  /\ \/ Meals!Proceed(t) /\ UNCHANGED <<households, catalogue>>
     \/ Households!Proceed(t) /\ UNCHANGED <<meals, catalogue>>
     \/ Catalogue!Proceed(t) /\ UNCHANGED <<meals, households>>

\* The event loop resumes every task whose statement has returned; the database
\* grants a lock to those that wait for it in turn, and its deadlock detector ends
\* one of those that wait for each other.
Fairness == \A t \in Tasks : SF_vars(Proceed(t))

Spec     == Init /\ [][Next]_vars
FairSpec == Spec /\ Fairness

-----------------------------------------------------------------------------
(* Properties.                                                             *)

\* Every request is answered in the end, whichever requests of the same router
\* or of the others run at the same time, and whoever holds the locks it needs.
EveryRequestAnswered == \A t \in Tasks : Serving(t) # {} ~> Serving(t) = {}
=============================================================================
