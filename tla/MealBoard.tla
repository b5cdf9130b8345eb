------------------------------ MODULE MealBoard -----------------------------
(***************************************************************************)
(* What a meal slot promises to the household, with no tasks, no database  *)
(* and no interleaving.  Members put dishes on a wish list and take their  *)
(* own back; whoever names the current version replaces the whole menu,    *)
(* which makes the next version and one entry in the event log.            *)
(* The status is promised loosely: only a confirmation makes it confirmed, *)
(* a wish may make it pending and a withdrawal may make it not_started.    *)
(***************************************************************************)
EXTENDS Integers

CONSTANTS Members, Dishes, NoOne

VARIABLES status, version, editor, requests, menu, menuEvents

board == <<status, version, editor, requests, menu, menuEvents>>

Init ==
  /\ status = "not_started"
  /\ version = 0
  /\ editor = NoOne
  /\ requests = {}
  /\ menu = {}
  /\ menuEvents = 0

\* One member asks for one dish that they had not asked for.
Wish(m, d) ==
  /\ <<m, d>> \notin requests
  /\ requests' = requests \cup {<<m, d>>}
  /\ status' \in {status, "pending"}
  /\ UNCHANGED <<version, editor, menu, menuEvents>>

\* One member takes one of their own requests back; it may be gone already.
Withdraw(m, d) ==
  /\ requests' = requests \ {<<m, d>>}
  /\ status' \in {status, "not_started"}
  /\ UNCHANGED <<version, editor, menu, menuEvents>>

\* The recovery of a request that lost a race marks the slot pending.
MarkPending ==
  /\ status' = "pending"
  /\ UNCHANGED <<version, editor, requests, menu, menuEvents>>

\* The holder of the current version replaces the menu by a non-empty one.
Confirm(m, expected, ds) ==
  /\ expected = version
  /\ ds # {}
  /\ version' = version + 1
  /\ menu' = ds
  /\ editor' = m
  /\ menuEvents' = menuEvents + 1
  /\ status' = "confirmed"
  /\ UNCHANGED requests

Next ==
  \/ \E m \in Members, d \in Dishes : Wish(m, d) \/ Withdraw(m, d)
  \/ \E m \in Members, ds \in SUBSET Dishes : Confirm(m, version, ds)
  \/ MarkPending

Spec == Init /\ [][Next]_board
=============================================================================
