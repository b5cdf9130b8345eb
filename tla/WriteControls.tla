--------------------------- MODULE WriteControls ----------------------------
(***************************************************************************)
(* The buttons that write (frontend/src/app/AppShell.tsx): while the       *)
(* browser is offline, AppShell disables them behind React's back, and     *)
(* restores them afterwards to what they were.  React writes a button's    *)
(* disabled only when the property that the page gives it changes.         *)
(*                                                                         *)
(* The observer is called, before anything else happens in the browser,    *)
(* after each change of the page that it watches: an element came or went, *)
(* or somebody wrote the attribute `disabled', with another value or with  *)
(* the same, the observer itself included (DOM Standard, 4.9).             *)
(***************************************************************************)
EXTENDS Browser, TLC

VARIABLES
  controls,  (* The buttons that are on the page: the property, the         *)
             (* element's disabled, and dataset.offlineWasDisabled.         *)
  due,       (* The observer wrote something, and is to be called for it.   *)
  runs       (* How often it was called for its own changes, modulo 2.      *)

observer == <<controls, due, runs>>

Marks == {"none", "0", "1"}

\* Buttons is a function from the buttons on the page to what it wants of them.
Element(want) == [prop |-> want, dom |-> want, was |-> "none"]

Rendered(k, want) ==
  IF k \in DOMAIN controls /\ controls[k].prop = want THEN controls[k]
  ELSE IF k \in DOMAIN controls THEN [controls[k] EXCEPT !.prop = want, !.dom = want]
  ELSE Element(want)

\* Faulty: the element is disabled only when it is seen for the first time.
SyncOnce(r, up) ==
  IF up THEN [r EXCEPT !.was = "none", !.dom = IF r.was = "none" THEN @ ELSE r.was = "1"]
  ELSE IF r.was = "none" THEN [r EXCEPT !.was = IF r.dom THEN "1" ELSE "0", !.dom = TRUE]
  ELSE r

\* syncWriteControls
Synced(r, up) ==
  IF up THEN [r EXCEPT !.was = "none", !.dom = IF r.was = "none" THEN @ ELSE r.was = "1"]
  ELSE [r EXCEPT !.was = IF @ # "none" THEN @ ELSE IF r.dom THEN "1" ELSE "0",
                 !.dom = TRUE]

ControlsInit(buttons) ==
  /\ controls = [k \in DOMAIN buttons |-> Element(buttons[k])]
  /\ due = FALSE /\ runs = 0

\* Faulty: the buttons of a page that was left are kept.
ShowsMore(buttons, up) ==
  controls' = [k \in DOMAIN buttons |-> Synced(Rendered(k, buttons[k]), up)] @@ controls

\* After every step React renders, and syncWriteControls is called: by the
\* observer, or by the effect when the network came or went.
Shows(buttons, up) ==
  controls' = [k \in DOMAIN buttons |-> Synced(Rendered(k, buttons[k]), up)]

\* Offline the call by the observer writes to every button that is there.
Watched(buttons, up, changed) ==
  /\ due' = (changed /\ ~ up /\ DOMAIN buttons # {})
  /\ UNCHANGED runs

\* The observer is called for what it wrote.
Observe ==
  /\ due
  /\ controls' = [k \in DOMAIN controls |-> Synced(controls[k], online)]
  /\ due' = (~ online /\ DOMAIN controls # {})
  /\ runs' = (runs + 1) % 2
  /\ UNCHANGED browser

Enabled(k) == k \in DOMAIN controls /\ ~ controls[k].dom

\* The browser's events.
GoOffline == online /\ online' = FALSE /\ UNCHANGED <<calls, clicks, patient>>
GoOnline  == ~ online /\ online' = TRUE /\ UNCHANGED <<calls, clicks, patient>>

-----------------------------------------------------------------------------
(* Properties.                                                             *)

\* No button can be clicked while the network is down, also one that appeared
\* or was freed since; and when it is up again each button is as its page wants
\* it, with nothing left of the outage.
ControlsFollow ==
  /\ ~ online => \A k \in DOMAIN controls : controls[k].dom
  /\ online => \A k \in DOMAIN controls : controls[k] = Element(controls[k].prop)

\* The observer has done its work before the member does the next thing: offline,
\* too, the pages can be looked at (NetworkBanner.tsx:39).
ComesToRest == []<>(~ due)
=============================================================================
