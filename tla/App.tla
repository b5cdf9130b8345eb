-------------------------------- MODULE App ---------------------------------
(***************************************************************************)
(* The web application of one member (frontend/src/app): the session, the  *)
(* pages between which the member goes back and forth, the calls that they *)
(* leave behind, and the shell that disables the buttons during an outage. *)
(* TodayPage has the page of the meal in full; here it keeps no state.     *)
(***************************************************************************)
EXTENDS Session, DishPage, ChoosePage, CheckIn, WriteControls

CONSTANT MaxEvents   (* Number of events.  Bounds the model.                *)

ASSUME EventsAssumption == MaxEvents \in Nat

VARIABLE events      (* Number of events so far that no click brought on.   *)

dishPage   == <<listVars, editing, sheet, formVars>>
choosePage == <<chosen, mealType, slotId, chooseError, busy>>
familyPage == <<family, historyVars, checkVars>>
vars == <<browser, sessionVars, dishVars, chooseVars, checkInVars, observer, events>>

\* The buttons of the shell's page that write, and whether the page disables
\* them.  There is one to accept the dish that was drawn, whichever it is, and
\* one for each dish that was found.  The sheet of the dishes is not in the
\* shell's part of the document.
Checkin          == <<"checkin", 0>>
RotateInvite     == <<"rotate", 0>>
ArchiveButton(d) == <<"archive", d>>
AcceptButton(d)  == <<"accept", IF method = "random" THEN NoPick ELSE d>>

On(K, want) == [k \in K |-> want]
Buttons ==
  CASE Screen = "dishes" -> On({ArchiveButton(d) : d \in Cards}, FALSE)
    [] Screen = "choose" -> On({AcceptButton(d) : d \in Offered}, busy)
    [] Screen = "family" ->
         [k \in {Checkin} \cup (IF owner THEN {RotateInvite} ELSE {}) |->
            k = Checkin /\ sending]
    [] OTHER -> On({}, FALSE)

\* What a page shows, as far as elements come and go with it.
View ==
  CASE Screen = "dishes" -> <<listing, listError, DOMAIN dishes>>
    [] Screen = "choose" -> <<method, results, picked, chooseError, busy>>
    [] Screen = "family" -> <<rotateError, loading, historyError, sending, saved, checkError>>
    [] OTHER -> <<>>

\* The shell stays, and its page changes before the observer's eyes.
Changed ==
  /\ Screen \in Tabs /\ Screen' \in Tabs
  /\ Screen' # Screen \/ View' # View

Init ==
  /\ online = TRUE /\ clicks = 0 /\ patient = TRUE
  /\ calls = [i \in {1} |-> Call("session", Nothing)]
  /\ SessionInit /\ DishInit /\ ChooseInit /\ CheckInInit
  /\ ControlsInit(On({}, FALSE))
  /\ events = 0

-----------------------------------------------------------------------------
(* Going back and forth.                                                   *)

\* Page t appears, while the calls f are in flight: its effect asks for what it
\* shows.  The other pages are gone, and are here as they will appear.
Appears(t, f) ==
  /\ DishPageAppears /\ ChoosePageAppears /\ HistoryAppears
  /\ IF t = "choose" THEN mealType' \in Meals ELSE UNCHANGED mealType
  /\ LET Asking(j) == Room(f) /\ calls' = Adding(f, j)
     IN  CASE t = "dishes" ->
                Asking(Call("dishes", [filter |-> All, effect |-> TRUE, form |-> FALSE]))
           [] t = "choose" -> Asking(AskSlot(mealType'))
           [] t = "family" -> Asking(Call("history", Nothing))
           [] OTHER -> calls' = f
  /\ UNCHANGED <<online, stored, madeFor, wanted, today, row>>

\* The session is there, and with it the page of the route.
Enter(c) ==
  /\ SessionLoaded(c)
  /\ Appears(tab, Without(calls, {c}))
  /\ UNCHANGED <<clicks, patient, crossed, muddled>>

\* The links of BottomNav, or the browser's button to go back.
Navigate(t) ==
  /\ Screen \in Tabs \ {t} /\ t \in Tabs
  /\ tab' = t
  /\ inviteCode' = session /\ rotateError' = FALSE
  /\ Appears(t, Abandoning(InFlight))
  /\ patient' = (InFlight = {})
  /\ crossed' = \E c \in InFlight : calls[c].op \in Writes
  /\ UNCHANGED <<clicks, session, appError, onboarding, account, muddled>>

\* The browser loads the page again, and no handler goes on.  Of its calls those
\* that change dishes, wishes and check-ins may still arrive; a rotation that does
\* is one from elsewhere (RotateElsewhere).
Refresh ==
  /\ clicks < MaxClicks /\ clicks' = clicks + 1
  /\ Screen \in Tabs
  /\ LET kept == {c \in InFlight : calls[c].op \notin Reads \cup {"ensure", "rotate"}}
         f    == [c \in kept |-> [calls[c] EXCEPT !.live = FALSE]]
     IN  Room(f) /\ calls' = Adding(f, Call("session", Nothing))
  /\ session' = Unknown /\ inviteCode' = Nobody /\ rotateError' = FALSE
  /\ DishPageAppears /\ ChoosePageAppears /\ HistoryAppears
  /\ patient' = (InFlight = {})
  /\ crossed' = \E c \in InFlight : calls[c].op \in Writes
  /\ UNCHANGED <<online, tab, appError, onboarding, account, stored, madeFor, muddled,
                 mealType, wanted, today, row>>

-----------------------------------------------------------------------------
(* The steps of the pages, each with the rest as it is.                    *)

Active == {d \in Known : ~ stored[d].archived}

SessionStep ==
  /\ \/ \E c \in InFlight : SessionServer(c) \/ SessionHandlers(c)
     \/ SessionClicks
     \/ (Rotate /\ Enabled(RotateInvite))
  /\ UNCHANGED <<dishVars, chooseVars, checkInVars>>

DishStep ==
  /\ \/ \E c \in InFlight : (cookie /\ DishServer(c)) \/ DishHandlers(c)
     \/ Screen = "dishes" /\ DishClicks
     \/ Screen = "dishes" /\ \E d \in Cards : Archive(d) /\ Enabled(ArchiveButton(d))
  /\ UNCHANGED <<sessionVars, chooseVars, checkInVars>>

ChooseStep ==
  /\ \/ \E c \in InFlight : (cookie /\ ChooseServer(c, Active)) \/ ChooseHandlers(c)
     \/ Screen = "choose" /\ ChooseClicks
     \/ Screen = "choose" /\ \E d \in Offered : Accept(d) /\ Enabled(AcceptButton(d))
  /\ UNCHANGED <<sessionVars, dishVars, checkInVars>>

HistoryStep ==
  /\ \/ \E c \in InFlight : (cookie /\ CheckInServer(c)) \/ CheckInHandlers(c)
     \/ Screen = "family" /\ Enabled(Checkin) /\ (SubmitNothing \/ SubmitCheckin)
  /\ UNCHANGED <<sessionVars, dishVars, chooseVars>>

\* What nobody on the page awaits: the rest of a call, and the network.
ShellStep ==
  /\ \/ \E c \in InFlight : calls[c].op # "rotate" /\ Forgotten(c)
     \/ GoOnline
  /\ UNCHANGED <<sessionVars, dishVars, chooseVars, checkInVars>>

\* What no click brings on: an outage, another device or another member, or the
\* end of the session.
Event ==
  /\ events < MaxEvents /\ events' = events + 1
  /\ \/ (GoOffline /\ UNCHANGED <<sessionVars, checkInVars>>)
     \/ ((RotateElsewhere \/ Expire) /\ UNCHANGED checkInVars)
     \/ (OtherChecksIn /\ UNCHANGED sessionVars)
  /\ UNCHANGED <<dishVars, chooseVars>>

Step ==
  \/ SessionStep \/ DishStep \/ ChooseStep \/ HistoryStep \/ ShellStep
  \/ (\E c \in InFlight : Enter(c)) \/ (\E t \in Tabs : Navigate(t)) \/ Refresh

\* Once the observer has something to do, the browser does nothing else before.
Next ==
  \/ /\ Observe
     /\ UNCHANGED <<sessionVars, dishVars, chooseVars, checkInVars, events>>
  \/ /\ ~ due
     /\ Event \/ (Step /\ UNCHANGED events)
     /\ Shows(Buttons', online')
     /\ Watched(Buttons', online', Changed)

Spec == Init /\ [][Next]_vars

\* What the browser has to do next it does.
FairSpec == Spec /\ WF_observer(Observe)

-----------------------------------------------------------------------------
(* Properties.                                                             *)

\* Every variable of every page has its type, and no call is left without a
\* handler or a server's step for it.
AppTypeOK ==
  /\ SessionTypeOK /\ DishTypeOK /\ ChooseTypeOK /\ CheckInTypeOK
  /\ online \in BOOLEAN /\ patient \in BOOLEAN /\ due \in BOOLEAN
  /\ clicks \in 0 .. MaxClicks /\ events \in 0 .. MaxEvents
  /\ InFlight \subseteq Ids
  /\ DOMAIN controls = DOMAIN Buttons

\* On no page, however the member came to it, is anything disabled or loading
\* without a call whose end frees it.
NothingStuck ==
  /\ SessionNotStuck
  /\ Screen = "dishes" => DishNotStuck
  /\ Screen = "choose" => ChooseNotStuck
  /\ Screen = "family" => CheckInNotStuck
=============================================================================
