------------------------------- MODULE AppProofs -----------------------------
(***************************************************************************)
(* What the application keeps, for all values of the constants: the shell  *)
(* keeps the buttons in step with the network, a check-in is counted on    *)
(* every day of the week and is in the history that a patient member sees, *)
(* no page waits for a call that nobody sends, what the pages show is what *)
(* they asked for last, and no picture is shared by two dishes.            *)
(***************************************************************************)
EXTENDS AppCallProofs

\* A button as it is while the network is down and nobody changed the page.
Held(want) == [prop |-> want, dom |-> TRUE, was |-> IF want THEN "1" ELSE "0"]

Elements == [prop : BOOLEAN, dom : BOOLEAN, was : Marks]

\* Offline, and with the observer at work, a button is held, and that is all.
Follows ==
  /\ online \in BOOLEAN /\ busy \in BOOLEAN /\ due \in BOOLEAN
  /\ due => ~ online /\ DOMAIN controls # {}
  /\ controls = [k \in DOMAIN Buttons |-> controls[k]]
  /\ \A k \in DOMAIN Buttons :
       /\ controls[k] \in Elements
       /\ online => controls[k] = Element(Buttons[k])
       /\ ~ online => controls[k].dom = TRUE
       /\ ~ online /\ ~ due => controls[k] = Held(Buttons[k])

-----------------------------------------------------------------------------
(* The week.                                                               *)

\* On every day the server accepts the week that the check-in sends: it starts on
\* a Monday; and that week is among those which the summary counts.
THEOREM WeekCounted ==
  today \in Nat => /\ DayOfWeek(WeekStart(today)) = 1
                  /\ today - WeekStart(today) \in 0 .. 6
                  /\ Counted = row
<1> SUFFICES ASSUME today \in Nat
    PROVE  /\ DayOfWeek(WeekStart(today)) = 1
           /\ today - WeekStart(today) \in 0 .. 6
           /\ Counted = row
  OBVIOUS
<1>1. today % 7 \in 0 .. 6
  OBVIOUS
<1>2. WeekStart(today) \in Int /\ WeekStart(today) % 7 = 1
  BY <1>1 DEF WeekStart, DayOfWeek
<1>3. today - WeekStart(today) \in 0 .. 6
  BY <1>1 DEF WeekStart, DayOfWeek
<1> QED  BY <1>2, <1>3 DEF DayOfWeek, Counted, Window

-----------------------------------------------------------------------------
(* What the pages leave alone.                                             *)

\* None but the browser's events change the network.
LEMMA SessionNetwork == SessionStep => online' = online /\ busy' = busy
<1>1. ASSUME NEW c, SessionServer(c) PROVE online' = online
  BY <1>1 DEF SessionServer, ServeSession, ServeCreate, ServeJoin, ServeRotate, Answer
<1>2. ASSUME NEW c, SessionHandlers(c) PROVE online' = online
  BY <1>2 DEF SessionHandlers, SessionRefused, SessionFails, Authenticated,
              AuthenticationFails, Rotated, RotateFails, End, Next1, Throws
<1>3. SessionClicks \/ Rotate => online' = online
  BY DEF SessionClicks, Retry, SwitchMode, Submit, Rotate, Send, Click, browser
<1> QED  BY <1>1, <1>2, <1>3 DEF SessionStep, chooseVars

\* The same of the page of the dishes...
LEMMA DishNetwork == DishStep => online' = online /\ busy' = busy
<1>1. ASSUME NEW c, DishServer(c) PROVE online' = online
  BY <1>1 DEF DishServer, ServeDishes, ServeCreateDish, ServeUpdateDish,
              ServeArchiveDish, ServeUpload, Answer
<1>2. ASSUME NEW c, DishHandlers(c) PROVE online' = online
  BY <1>2 DEF DishHandlers, Listed, ListFails, Archived, ArchiveFails, Created, Updated,
              SaveFails, Uploaded, UploadFails, End, Throws
<1>3. DishClicks => online' = online
  BY DEF DishClicks, SetFilter, OpenEdit, Fill, OpenCreate, Opens, Close, SaveIncomplete,
         Save, PickFile, ClearImage, Send, Click, browser
<1>4. ASSUME NEW d, Archive(d) PROVE online' = online
  BY <1>4 DEF Archive, Send, Click
<1> QED  BY <1>1, <1>2, <1>3, <1>4 DEF DishStep, chooseVars

\* ...of the page that helps to choose, which keeps its buttons' truth value...
LEMMA ChooseNetwork ==
  ASSUME busy \in BOOLEAN, ChooseStep
  PROVE  online' = online /\ busy' \in BOOLEAN
<1>1. ASSUME NEW c, NEW A, ChooseServer(c, A) PROVE online' = online /\ busy' \in BOOLEAN
  BY <1>1 DEF ChooseServer, ServeSlot, ServeSearch, ServeRandom, ServeWish, Answer, chooseVars
<1>2. ASSUME NEW c, ChooseHandlers(c) PROVE online' = online /\ busy' \in BOOLEAN
  BY <1>2 DEF ChooseHandlers, SlotResolved, SlotFails, Drawn, DrawFails, Found, SearchFails,
              SlotEnsured, EnsureFails, Accepted, AcceptFails, End, Throws
<1>3. ASSUME ChooseClicks PROVE online' = online /\ busy' \in BOOLEAN
  BY <1>3 DEF ChooseClicks, SelectMeal, SwitchMethod, Suggest, Send, Click, browser
<1>4. ASSUME NEW d, Accept(d) PROVE online' = online /\ busy' \in BOOLEAN
  BY <1>4 DEF Accept, Click
<1> QED  BY <1>1, <1>2, <1>3, <1>4 DEF ChooseStep

\* ...and of the check-in.
LEMMA HistoryNetwork == HistoryStep => online' = online /\ busy' = busy
<1>1. ASSUME NEW c, CheckInServer(c) PROVE online' = online
  BY <1>1 DEF CheckInServer, ServeHistory, FindRow, StoreRow, Answer
<1>2. ASSUME NEW c, CheckInHandlers(c) PROVE online' = online
  BY <1>2 DEF CheckInHandlers, HistoryLoaded, HistoryFails, CheckinSaved, CheckinFails,
              End, Next1, Throws
<1>3. SubmitNothing \/ SubmitCheckin => online' = online
  BY DEF SubmitNothing, SubmitCheckin, Send, Click, browser
<1> QED  BY <1>1, <1>2, <1>3 DEF HistoryStep, chooseVars

\* The pages as far as the buttons depend on them.
Pages == <<sessionVars, dishVars, chooseVars, checkInVars>>

\* When the network comes or goes, nothing else happens.
LEMMA StepNetwork ==
  ASSUME busy \in BOOLEAN, online \in BOOLEAN, Step \/ Event
  PROVE  /\ busy' \in BOOLEAN /\ online' \in BOOLEAN
         /\ online' = online \/ UNCHANGED Pages
<1>1. CASE SessionStep
  BY <1>1, SessionNetwork
<1>2. CASE DishStep
  BY <1>2, DishNetwork
<1>3. CASE ChooseStep
  BY <1>3, ChooseNetwork
<1>4. CASE HistoryStep
  BY <1>4, HistoryNetwork
<1>5. CASE ShellStep
  <2>1. ASSUME NEW c, Forgotten(c) PROVE online' = online
    BY <2>1 DEF Forgotten, End
  <2>2. GoOnline => online' = TRUE
    BY DEF GoOnline
  <2> QED  BY <1>5, <2>1, <2>2 DEF ShellStep, Pages, chooseVars
<1>6. CASE (\E c \in InFlight : Enter(c)) \/ (\E t \in Tabs : Navigate(t)) \/ Refresh
  BY <1>6 DEF Enter, Navigate, Refresh, Appears, ChoosePageAppears
<1>7. CASE Event
  <2>1. GoOffline => online' = FALSE
    BY DEF GoOffline
  <2>2. RotateElsewhere \/ Expire \/ OtherChecksIn => online' = online
    BY DEF RotateElsewhere, Expire, OtherChecksIn, browser
  <2> QED  BY <1>7, <2>1, <2>2 DEF Event, Pages, chooseVars
<1> QED  BY <1>1, <1>2, <1>3, <1>4, <1>5, <1>6, <1>7 DEF Step

\* The buttons depend on the pages alone.
LEMMA PagesButtons == UNCHANGED Pages => Buttons' = Buttons
BY DEF Pages, sessionVars, dishVars, chooseVars, checkInVars, listVars, checkVars, Buttons,
       Screen, Cards, Offered, AcceptButton, ArchiveButton, Checkin, RotateInvite, On

\* What the page wants of a button is a truth value.
LEMMA ButtonsBoolean ==
  busy \in BOOLEAN => \A k \in DOMAIN Buttons : Buttons[k] \in BOOLEAN
<1> SUFFICES ASSUME busy \in BOOLEAN PROVE \A k \in DOMAIN Buttons : Buttons[k] \in BOOLEAN
  OBVIOUS
<1>1. CASE Screen = "dishes"
  BY <1>1 DEF Buttons, On
<1>2. CASE Screen = "choose"
  BY <1>2 DEF Buttons, On
<1>3. CASE Screen = "family"
  BY <1>3 DEF Buttons, On
<1>4. CASE Screen \notin {"dishes", "choose", "family"}
  BY <1>4 DEF Buttons, On
<1> QED  BY <1>1, <1>2, <1>3, <1>4

\* A button that stays does so with what is wanted of it, unless the page
\* changes before the observer's eyes.
LEMMA UnchangedButtons ==
  ASSUME ~ Changed, NEW k \in DOMAIN Buttons, k \in DOMAIN Buttons'
  PROVE  Buttons'[k] = Buttons[k]
<1>1. Screen \in {"dishes", "choose", "family"} /\ Screen' \in {"dishes", "choose", "family"}
  BY DEF Buttons, On
<1>2. Screen' = Screen /\ View' = View
  BY <1>1 DEF Changed, Tabs
<1>3. CASE Screen = "dishes"
  BY <1>2, <1>3 DEF Buttons, On
<1>4. CASE Screen = "choose"
  BY <1>2, <1>4 DEF Buttons, On, View
<1>5. CASE Screen = "family"
  BY <1>2, <1>5 DEF Buttons, On, View
<1> QED  BY <1>1, <1>3, <1>4, <1>5

-----------------------------------------------------------------------------
(* What the shell does to one button.                                      *)

\* A button that an outage holds is let go as it was.
LEMMA Outage ==
  ASSUME NEW a \in BOOLEAN
  PROVE  /\ Synced(Element(a), TRUE) = Element(a)
         /\ Synced(Element(a), FALSE) = Held(a)
         /\ Synced(Held(a), TRUE) = Element(a)
         /\ Synced(Held(a), FALSE) = Held(a)
BY DEF Synced, Element, Held

\* Whatever a button was, it is disabled.
LEMMA Holding ==
  ASSUME NEW r \in Elements
  PROVE  Synced(r, FALSE) \in Elements /\ Synced(r, FALSE).dom = TRUE
BY DEF Synced, Elements, Marks

\* The buttons that a page makes, and those that an outage holds, are buttons.
LEMMA ElementsOf ==
  ASSUME NEW a \in BOOLEAN
  PROVE  Element(a) \in Elements /\ Held(a) \in Elements
BY DEF Element, Held, Elements, Marks

\* React has written what is wanted of a button when it differs from before.
LEMMA RenderedAs ==
  ASSUME NEW k, NEW want \in BOOLEAN,
         k \in DOMAIN controls => controls[k] \in Elements
  PROVE  /\ Rendered(k, want) \in Elements
         /\ k \in DOMAIN controls /\ (\E a \in BOOLEAN : controls[k] = Element(a)) =>
              Rendered(k, want) = Element(want)
         /\ k \notin DOMAIN controls => Rendered(k, want) = Element(want)
         /\ k \in DOMAIN controls /\ controls[k].prop = want =>
              Rendered(k, want) = controls[k]
<1>1. Element(want) \in Elements
  BY ElementsOf
<1>2. Rendered(k, want) \in Elements
  BY <1>1 DEF Rendered, Elements
<1>3. ASSUME k \in DOMAIN controls, NEW a \in BOOLEAN, controls[k] = Element(a)
      PROVE  Rendered(k, want) = Element(want)
  <2>1. CASE a = want
    BY <1>3, <2>1 DEF Rendered, Element
  <2>2. CASE a # want
    <3>1. Rendered(k, want) = [controls[k] EXCEPT !.prop = want, !.dom = want]
      BY <1>3, <2>2 DEF Rendered, Element
    <3>2. Rendered(k, want) = [Element(a) EXCEPT !.prop = want, !.dom = want]
      BY <1>3, <3>1
    <3> QED  BY <3>2 DEF Element
  <2> QED  BY <2>1, <2>2
<1> QED  BY <1>2, <1>3 DEF Rendered

-----------------------------------------------------------------------------
\* The screen that waits for the session has no buttons.
LEMMA InitFollows == Init => Follows
<1> SUFFICES ASSUME Init PROVE Follows
  OBVIOUS
<1>1. Screen = "loading"
  BY DEF Init, SessionInit, Screen
<1>2. Buttons = [k \in {} |-> FALSE]
  BY <1>1 DEF Buttons, On
<1>3. controls = [k \in {} |-> Element(FALSE)] /\ DOMAIN controls = {}
  BY DEF Init, ControlsInit, On
<1>4. DOMAIN Buttons = {}
  BY <1>2
<1>5. online \in BOOLEAN /\ busy \in BOOLEAN /\ due = FALSE
  BY DEF Init, ControlsInit, ChooseInit, FreshChoosePage
<1> QED  BY <1>3, <1>4, <1>5 DEF Follows

\* The observer at work changes no button that is held, and has more to do.
LEMMA ObserveFollows ==
  ASSUME Follows, Observe, UNCHANGED Pages
  PROVE  Follows'
<1>1. Buttons' = Buttons /\ online' = online /\ online = FALSE /\ busy' = busy
  BY PagesButtons DEF Observe, browser, Pages, chooseVars, Follows
<1>2. DOMAIN controls = DOMAIN Buttons
  BY DEF Follows
<1>3. controls' = [k \in DOMAIN Buttons |-> Synced(controls[k], FALSE)] /\ due' = TRUE
  BY <1>1, <1>2 DEF Observe, Follows
<1>4. \A k \in DOMAIN Buttons : controls'[k] \in Elements /\ controls'[k].dom = TRUE
  BY <1>3, Holding DEF Follows
<1>5. DOMAIN controls # {} /\ DOMAIN controls' # {}
  BY <1>2, <1>3 DEF Observe, Follows
<1> QED  BY <1>1, <1>3, <1>4, <1>5 DEF Follows

\* A step of the pages or of the network, and what it makes of the buttons.
LEMMA ShowsFollows ==
  ASSUME Follows, ~ due, Step \/ Event,
         Shows(Buttons', online'), Watched(Buttons', online', Changed)
  PROVE  Follows'
<1>1. online \in BOOLEAN /\ busy \in BOOLEAN
  BY DEF Follows
<1>2. /\ busy' \in BOOLEAN /\ online' \in BOOLEAN
      /\ online' = online \/ Buttons' = Buttons
  BY <1>1, StepNetwork, PagesButtons
<1>3. controls' = [k \in DOMAIN Buttons' |-> Synced(Rendered(k, Buttons'[k]), online')]
  BY DEF Shows
<1>4. due' = (Changed /\ ~ online' /\ DOMAIN Buttons' # {})
  BY DEF Watched
<1>5. DOMAIN controls' = DOMAIN Buttons' /\ DOMAIN controls = DOMAIN Buttons
  BY <1>3 DEF Follows
<1>6. /\ \A k \in DOMAIN Buttons : Buttons[k] \in BOOLEAN
      /\ \A k \in DOMAIN Buttons' : Buttons'[k] \in BOOLEAN
  <2>1. (busy \in BOOLEAN => \A k \in DOMAIN Buttons : Buttons[k] \in BOOLEAN)'
    BY ButtonsBoolean, PTL
  <2> QED  BY <1>1, <1>2, <2>1, ButtonsBoolean
<1>7. ASSUME NEW k \in DOMAIN Buttons'
      PROVE  /\ controls'[k] \in Elements
             /\ online' => controls'[k] = Element(Buttons'[k])
             /\ ~ online' => controls'[k].dom = TRUE
             /\ ~ online' /\ ~ due' => controls'[k] = Held(Buttons'[k])
  <2> DEFINE r == Rendered(k, Buttons'[k])
  <2>1. controls'[k] = Synced(r, online')
    BY <1>3
  <2>2. Buttons'[k] \in BOOLEAN
    BY <1>6
  <2>3. k \in DOMAIN controls => controls[k] \in Elements /\ Buttons[k] \in BOOLEAN
    BY <1>5, <1>6 DEF Follows
  <2>4. CASE k \notin DOMAIN controls
    <3>1. r = Element(Buttons'[k])
      BY <2>2, <2>4, RenderedAs
    <3>2. /\ online' => controls'[k] = Element(Buttons'[k])
          /\ ~ online' => controls'[k] = Held(Buttons'[k])
      BY <1>2, <2>1, <2>2, <3>1, Outage
    <3> QED  BY <1>2, <2>2, <3>2, ElementsOf DEF Held
  <2>5. CASE k \in DOMAIN controls /\ online
    <3>1. controls[k] = Element(Buttons[k])
      BY <1>5, <2>5 DEF Follows
    <3>2. r = Element(Buttons'[k])
      BY <2>2, <2>3, <2>5, <3>1, RenderedAs
    <3>3. /\ online' => controls'[k] = Element(Buttons'[k])
          /\ ~ online' => controls'[k] = Held(Buttons'[k])
      BY <1>2, <2>1, <2>2, <3>2, Outage
    <3> QED  BY <1>2, <2>2, <3>3, ElementsOf DEF Held
  <2>6. CASE k \in DOMAIN controls /\ ~ online
    <3>1. controls[k] = Held(Buttons[k]) /\ controls[k].prop = Buttons[k]
      BY <1>5, <2>6 DEF Follows, Held
    <3>2. CASE Buttons'[k] = Buttons[k]
      <4>1. r = Held(Buttons'[k])
        BY <2>2, <2>3, <2>6, <3>1, <3>2, RenderedAs
      <4>2. /\ online' => controls'[k] = Element(Buttons'[k])
            /\ ~ online' => controls'[k] = Held(Buttons'[k])
        BY <1>2, <2>1, <2>2, <4>1, Outage
      <4> QED  BY <1>2, <2>2, <4>2, ElementsOf DEF Held
    <3>3. CASE Buttons'[k] # Buttons[k]
      <4>1. online' = FALSE /\ due' = TRUE
        <5>1. online' = online
          BY <1>2, <3>3
        <5>2. Changed
          BY <1>5, <2>6, <3>3, UnchangedButtons
        <5> QED  BY <1>1, <1>4, <2>6, <5>1, <5>2
      <4>2. r \in Elements
        BY <2>2, <2>3, RenderedAs
      <4> QED  BY <2>1, <4>1, <4>2, Holding
    <3> QED  BY <3>2, <3>3
  <2> QED  BY <2>4, <2>5, <2>6
<1>8. due' \in BOOLEAN /\ (due' => ~ online' /\ DOMAIN controls' # {})
  BY <1>4, <1>5
<1>9. controls' = [k \in DOMAIN Buttons' |-> controls'[k]]
  BY <1>3
<1> QED  BY <1>2, <1>7, <1>8, <1>9 DEF Follows

\* Every step keeps the buttons in step.
LEMMA StepFollows == Follows /\ [Next]_vars => Follows'
<1> SUFFICES ASSUME Follows, [Next]_vars PROVE Follows'
  OBVIOUS
<1>1. CASE Observe /\ UNCHANGED Pages
  BY <1>1, ObserveFollows
<1>2. CASE ~ due /\ (Step \/ Event) /\ Shows(Buttons', online')
           /\ Watched(Buttons', online', Changed)
  BY <1>2, ShowsFollows
<1>3. CASE UNCHANGED vars
  <2>1. UNCHANGED Pages /\ UNCHANGED <<online, busy, due, controls>>
    BY <1>3 DEF vars, Pages, browser, observer, chooseVars
  <2>2. Buttons' = Buttons
    BY <2>1, PagesButtons
  <2> QED  BY <2>1, <2>2 DEF Follows
<1> QED  BY <1>1, <1>2, <1>3 DEF Next, Pages

\* During an outage no button that writes can be clicked, and after it every one
\* is as its page wants it, in every run.
THEOREM ButtonsFollow == Spec => []ControlsFollow
<1>1. Follows => ControlsFollow
  <2> SUFFICES ASSUME Follows PROVE ControlsFollow
    OBVIOUS
  <2>1. DOMAIN controls = DOMAIN Buttons
    BY DEF Follows
  <2>2. ASSUME online, NEW k \in DOMAIN controls
        PROVE  controls[k] = Element(controls[k].prop)
    <3>1. controls[k] = Element(Buttons[k])
      BY <2>1, <2>2 DEF Follows
    <3> QED  BY <3>1 DEF Element
  <2> QED  BY <2>1, <2>2 DEF Follows, ControlsFollow
<1> QED
  BY <1>1, InitFollows, StepFollows, PTL DEF Spec

-----------------------------------------------------------------------------
(* A patient member.                                                       *)

\* Who is patient has one call in flight at a time.
PatientOne == patient => \A c, d \in InFlight : c = d

\* A step with which that stays so: there is one call, or there are no more than
\* before.
Quiet == patient' => /\ patient
                     /\ InFlight' \subseteq InFlight \/ \E n : InFlight' \subseteq {n}

\* The steps of which the others are made are such steps.
LEMMA QuietSteps ==
  /\ \A c \in InFlight : \A kind, body : Answer(c, kind, body) => Quiet
  /\ \A c \in InFlight : calls' = Without(calls, {c}) /\ (patient' => patient) => Quiet
  /\ \A c \in InFlight : \A j : calls' = [calls EXCEPT ![c] = j] /\ patient' = patient => Quiet
  /\ \A op, arg : Send(op, arg) => Quiet
  /\ \A f, j : Room(f) /\ Click(Adding(f, j)) /\ DOMAIN f \subseteq InFlight => Quiet
  /\ UNCHANGED <<calls, patient>> => Quiet
<1>1. ASSUME NEW c \in InFlight, NEW kind, NEW body, Answer(c, kind, body) PROVE Quiet
  <2>1. DOMAIN calls' = DOMAIN calls /\ patient' = patient
    BY <1>1 DEF Answer
  <2> QED  BY <2>1 DEF Quiet, InFlight
<1>2. ASSUME NEW c \in InFlight, calls' = Without(calls, {c}), patient' => patient PROVE Quiet
  BY <1>2 DEF Without, InFlight, Quiet
<1>3. ASSUME NEW c \in InFlight, NEW j, calls' = [calls EXCEPT ![c] = j], patient' = patient
      PROVE  Quiet
  BY <1>3 DEF InFlight, Quiet
<1>4. ASSUME NEW f, NEW j, Room(f), Click(Adding(f, j)), DOMAIN f \subseteq InFlight PROVE Quiet
  <2>1. InFlight' = DOMAIN f \cup {Free(f)} /\ patient' = (patient /\ InFlight = {})
    BY <1>4, AddingTo DEF Click, InFlight
  <2> QED  BY <1>4, <2>1 DEF Quiet
<1>5. ASSUME NEW op, NEW arg, Send(op, arg) PROVE Quiet
  BY <1>4, <1>5 DEF Send, InFlight
<1>6. UNCHANGED <<calls, patient>> => Quiet
  BY DEF Quiet, InFlight
<1> QED  BY <1>1, <1>2, <1>3, <1>4, <1>5, <1>6

\* So are the steps of the pages.
LEMMA PagesQuiet ==
  ASSUME Types, SessionStep \/ DishStep \/ ChooseStep \/ HistoryStep \/ ShellStep
  PROVE  Quiet
<1>1. ASSUME NEW c \in InFlight, End(c) \/ \E op : Throws(c, op) PROVE Quiet
  <2>1. End(c) => calls' = Without(calls, {c}) /\ (patient' => patient)
    BY DEF End
  <2>2. ASSUME NEW op, Throws(c, op) PROVE calls' = Without(calls, {c}) /\ (patient' => patient)
    BY <2>2, Zenon DEF Throws
  <2> QED  BY <1>1, <2>1, <2>2, QuietSteps
<1>2. ASSUME UNCHANGED browser PROVE Quiet
  BY <1>2, QuietSteps DEF browser
<1>3. ASSUME NEW c \in InFlight, NEW op, NEW arg, Next1(c, op, arg) PROVE Quiet
  BY <1>3, QuietSteps DEF Next1
<1>4. CASE SessionStep
  <2>1. ASSUME NEW c \in InFlight, SessionServer(c) PROVE Quiet
    BY <2>1, QuietSteps DEF SessionServer, ServeSession, ServeCreate, ServeJoin, ServeRotate
  <2>2. ASSUME NEW c \in InFlight, RotateFails(c) PROVE Quiet
    BY <2>2, QuietSteps DEF RotateFails
  <2>3. ASSUME NEW c \in InFlight, SessionHandlers(c) PROVE Quiet
    BY <1>1, <1>3, <2>2, <2>3 DEF SessionHandlers, SessionRefused, SessionFails, Authenticated,
       AuthenticationFails, Rotated
  <2>4. ASSUME SessionClicks \/ Rotate PROVE Quiet
    BY <1>2, <2>4, QuietSteps DEF SessionClicks, Retry, SwitchMode, Submit, Rotate
  <2> QED  BY <1>4, <2>1, <2>3, <2>4 DEF SessionStep
<1>5. CASE DishStep
  <2>1. ASSUME NEW c \in InFlight, DishServer(c) PROVE Quiet
    BY <2>1, QuietSteps DEF DishServer, ServeDishes, ServeCreateDish, ServeUpdateDish,
              ServeArchiveDish, ServeUpload
  <2>2. ASSUME NEW c \in InFlight, Archived(c) \/ Updated(c) PROVE Quiet
    BY <2>2, QuietSteps DEF Archived, Updated
  <2>3. ASSUME NEW c \in InFlight, Created(c) PROVE Quiet
    <3>1. InFlight' = InFlight
      BY <2>3, FormGoneShapes
    <3> QED  BY <2>3, <3>1 DEF Created, Quiet
  <2>4. ASSUME NEW c \in InFlight, DishHandlers(c) PROVE Quiet
    BY <1>1, <2>2, <2>3, <2>4 DEF DishHandlers, Listed, ListFails, ArchiveFails, SaveFails,
              Uploaded, UploadFails
  <2>5. ASSUME NEW f, SetFilter(f) PROVE Quiet
    <3> DEFINE S == {c \in InFlight : calls[c].op = "dishes" /\ calls[c].arg.effect}
    <3>1. PICK g : g = Abandoning(S)
      OBVIOUS
    <3>2. PICK j : j = Call("dishes", [filter |-> f, effect |-> TRUE, form |-> FALSE])
      OBVIOUS
    <3>3. Room(g) /\ Click(Adding(g, j))
      BY <2>5, <3>1, <3>2 DEF SetFilter
    <3>4. DOMAIN g \subseteq InFlight
      BY <3>1 DEF Abandoning
    <3> QED  BY <3>3, <3>4, QuietSteps
  <2>6. ASSUME Close PROVE Quiet
    <3>1. InFlight' = InFlight
      BY <2>6, FormGoneShapes
    <3> QED  BY <2>6, <3>1 DEF Close, Quiet
  <2>7. ASSUME DishClicks \/ \E d \in Cards : Archive(d) PROVE Quiet
    BY <1>2, <2>5, <2>6, <2>7, QuietSteps
       DEF DishClicks, OpenEdit, Fill, OpenCreate, Opens, SaveIncomplete, Save, PickFile,
           ClearImage, Archive
  <2> QED  BY <1>5, <2>1, <2>4, <2>7 DEF DishStep
<1>6. CASE ChooseStep
  <2>1. ASSUME NEW c \in InFlight, ChooseServer(c, Active) PROVE Quiet
    BY <2>1, QuietSteps DEF ChooseServer, ServeSlot, ServeSearch, ServeRandom, ServeWish
  <2>2. ASSUME NEW c \in InFlight, SlotEnsured(c) \/ Accepted(c) PROVE Quiet
    BY <2>2, QuietSteps DEF SlotEnsured, Accepted
  <2>3. ASSUME NEW c \in InFlight, ChooseHandlers(c) PROVE Quiet
    BY <1>1, <2>2, <2>3 DEF ChooseHandlers, SlotResolved, SlotFails, Drawn, DrawFails, Found,
              SearchFails, EnsureFails, AcceptFails
  <2>4. ASSUME NEW m, SelectMeal(m) PROVE Quiet
    <3> DEFINE S == {c \in InFlight : calls[c].op = "slot"}
    <3>1. PICK g : g = Abandoning(S)
      OBVIOUS
    <3>2. PICK j : j = AskSlot(m)
      OBVIOUS
    <3>3. Room(g) /\ Click(Adding(g, j))
      BY <2>4, <3>1, <3>2 DEF SelectMeal
    <3>4. DOMAIN g \subseteq InFlight
      BY <3>1 DEF Abandoning
    <3> QED  BY <3>3, <3>4, QuietSteps
  <2>5. ASSUME NEW d, Accept(d) PROVE Quiet
    <3>1. PICK j : j = IF slotId = NoSlot THEN EnsureSlot(mealType, d) ELSE Wish(slotId, d)
      OBVIOUS
    <3>2. Room(calls) /\ Click(Adding(calls, j)) /\ DOMAIN calls \subseteq InFlight
      BY <2>5, <3>1 DEF Accept, InFlight
    <3> QED  BY <3>2, QuietSteps
  <2>6. ASSUME SwitchMethod \/ Suggest PROVE Quiet
    BY <1>2, <2>6, QuietSteps DEF SwitchMethod, Suggest
  <2> QED  BY <1>6, <2>1, <2>3, <2>4, <2>5, <2>6 DEF ChooseStep, ChooseClicks
<1>7. CASE HistoryStep
  <2>1. ASSUME NEW c \in InFlight, CheckInServer(c) PROVE Quiet
    BY <2>1, QuietSteps DEF CheckInServer, ServeHistory, FindRow, StoreRow
  <2>2. ASSUME NEW c \in InFlight, CheckInHandlers(c) PROVE Quiet
    BY <1>1, <1>3, <2>2 DEF CheckInHandlers, HistoryLoaded, HistoryFails, CheckinSaved, CheckinFails
  <2>3. ASSUME SubmitNothing \/ SubmitCheckin PROVE Quiet
    BY <1>2, <2>3, QuietSteps DEF SubmitNothing, SubmitCheckin
  <2> QED  BY <1>7, <2>1, <2>2, <2>3 DEF HistoryStep
<1>8. CASE ShellStep
  BY <1>1, <1>8, QuietSteps DEF ShellStep, Forgotten, GoOnline
<1> QED  BY <1>4, <1>5, <1>6, <1>7, <1>8

\* With every step one call stays one call.
LEMMA PatientNext ==
  ASSUME Types, SessionWaits, PatientOne, [Next]_vars
  PROVE  PatientOne'
<1>1. Quiet => PatientOne'
  BY DEF Quiet, PatientOne
<1>2. ASSUME NEW c \in InFlight, Enter(c) PROVE PatientOne'
  <2>1. patient' = patient
    BY <1>2 DEF Enter
  <2>2. patient => InFlight \ {c} = {}
    BY DEF PatientOne
  <2> QED  BY <1>2, <2>1, <2>2, EnterShape DEF PatientOne, Loading
<1>3. ASSUME NEW t \in Tabs, Navigate(t) PROVE PatientOne'
  <2>1. patient' = (InFlight = {})
    BY <1>3 DEF Navigate
  <2> QED  BY <1>3, <2>1, NavigateShape DEF PatientOne
<1>4. CASE Refresh
  <2>1. patient' = (InFlight = {})
    BY <1>4 DEF Refresh
  <2>2. PICK n \in InFlight' : \A i \in InFlight' \ {n} : i \in InFlight
    BY <1>4, RefreshShape
  <2>3. InFlight = {} => \A c, d \in InFlight' : c = d
    BY <2>2
  <2> QED  BY <2>1, <2>3, Zenon DEF PatientOne
<1>5. CASE Event
  BY <1>1, <1>5, EventKinds, QuietSteps
<1>6. CASE Idle
  BY <1>1, <1>6, QuietSteps DEF Idle
<1> QED  BY <1>1, <1>2, <1>3, <1>4, <1>5, <1>6, PagesQuiet, StepKinds

-----------------------------------------------------------------------------
(* The history and the check-in.                                           *)

\* What the family page waits for, it has asked for; and it loads until it has
\* something to show.
HistoryAsked ==
  /\ Screen = "family" /\ loading => \E c \in InFlight : calls[c].op = "history"
  /\ sending => \E c \in InFlight : calls[c].op = "checkin" /\ calls[c].live
  /\ summary = NoSummary /\ ~ historyError => loading

\* The check-in that was saved is the row of the week or one before it, and what
\* was read or shown since it was saved is not from before.
SavedFirst ==
  /\ savedRow <= row
  /\ \A c \in InFlight : calls[c].op = "checkin" /\ calls[c].answer = "ok" =>
       calls[c].body <= row
  /\ patient /\ saved =>
       /\ \A c \in InFlight : calls[c].op = "history" /\ calls[c].answer = "ok" =>
            savedRow <= calls[c].body
       /\ (\A c \in InFlight : calls[c].op # "history") =>
            historyError \/ savedRow <= summary

\* The calls of the family page are as they were, but for one that nobody awaits.
HistoryLeft ==
  /\ \A i \in InFlight : calls[i].op \in HistoryOps /\ calls[i].live =>
       i \in InFlight' /\ calls'[i] = calls[i]
  /\ \A i \in InFlight' : calls'[i].op \in HistoryOps => i \in InFlight /\ calls'[i] = calls[i]

\* What the others do is nothing to the family page.
LEMMA HistoryOthers ==
  ASSUME Types, HistoryAsked, SavedFirst, UNCHANGED checkInVars, HistoryLeft,
         Screen' = "family" => Screen = "family", patient' => patient
  PROVE  HistoryAsked' /\ SavedFirst'
<1>1. UNCHANGED <<row, savedRow, summary, loading, historyError, sending, saved>>
  BY DEF checkInVars, historyVars, checkVars
<1>2. \A i \in InFlight : calls[i].op \in Reads => calls[i].live
  BY CallTypes DEF Shaped
<1>3. HistoryAsked'
  BY <1>1, <1>2 DEF HistoryAsked, HistoryLeft, HistoryOps, Reads
<1>4. SavedFirst'
  BY <1>1, <1>2 DEF SavedFirst, HistoryLeft, HistoryOps, Reads
<1> QED  BY <1>3, <1>4

\* The server's steps for the family page.
LEMMA HistoryServerKeeps ==
  ASSUME Types, HistoryAsked, SavedFirst, NEW c \in InFlight, CheckInServer(c), Screen' = Screen
  PROVE  HistoryAsked' /\ SavedFirst'
<1>1. ASSUME NEW kind, NEW body, Became(c, With(calls[c], kind, body))
      PROVE  /\ InFlight' = InFlight
             /\ calls'[c].op = calls[c].op /\ calls'[c].live = calls[c].live
             /\ calls'[c].answer = kind /\ calls'[c].body = body
             /\ \A i \in InFlight \ {c} : calls'[i] = calls[i]
  BY <1>1 DEF Became, With
<1>2. row \in Nat /\ savedRow \in Nat /\ today \in Nat
  BY DaysAssumption DEF Types, CheckInTypeOK
<1>3. CASE ServeHistory(c)
  <2>1. Became(c, With(calls[c], "ok", Counted))
    BY <1>3, HistoryShapes
  <2>2. calls[c].op = "history" /\ UNCHANGED checkInVars /\ patient' = patient
    BY <1>3 DEF ServeHistory, Arrived, Answer
  <2>3. Counted = row
    BY <1>2, WeekCounted
  <2>4. HistoryAsked'
    BY <1>1, <2>1, <2>2 DEF HistoryAsked, checkInVars, historyVars, checkVars
  <2>5. SavedFirst'
    BY <1>1, <2>1, <2>2, <2>3 DEF SavedFirst, checkInVars, historyVars, checkVars
  <2> QED  BY <2>4, <2>5
<1>4. CASE FindRow(c)
  <2>1. PICK kind, body : kind \in {"found", "refused"} /\ Became(c, With(calls[c], kind, body))
    BY <1>4, HistoryShapes
  <2>2. calls[c].op = "checkin" /\ UNCHANGED checkInVars /\ patient' = patient
    BY <1>4 DEF FindRow, Arrived, Answer
  <2>3. HistoryAsked'
    BY <1>1, <2>1, <2>2 DEF HistoryAsked, checkInVars, historyVars, checkVars
  <2>4. SavedFirst'
    BY <1>1, <2>1, <2>2 DEF SavedFirst, checkInVars, historyVars, checkVars
  <2> QED  BY <2>3, <2>4
<1>5. CASE StoreRow(c)
  <2>1. calls[c].op = "checkin" /\ patient' = patient
        /\ UNCHANGED <<savedRow, summary, loading, historyError, sending, saved>>
    BY <1>5 DEF StoreRow, Answer, checkInVars, historyVars, checkVars
  <2>2. PICK kind, body :
          /\ Became(c, With(calls[c], kind, body))
          /\ \/ kind = "refused" /\ row' = row
             \/ kind = "ok" /\ body = row + 1 /\ row' = row + 1
    BY <1>5, HistoryShapes DEF checkInVars
  <2>3. HistoryAsked'
    BY <1>1, <2>1, <2>2 DEF HistoryAsked
  <2>4. \A i \in InFlight : calls[i].op = "checkin" /\ calls[i].answer = "ok" => calls[i].body \in Nat
    BY CallTypes, DaysAssumption DEF Typed, HistoryCall
  <2>5. SavedFirst'
    BY <1>1, <1>2, <2>1, <2>2, <2>4 DEF SavedFirst
  <2> QED  BY <2>3, <2>5
<1> QED  BY <1>3, <1>4, <1>5 DEF CheckInServer

\* The handlers and the clicks of the family page.
LEMMA HistoryPageKeeps ==
  ASSUME Types, HistoryAsked, SavedFirst, PatientOne, Screen' = Screen,
         (\E c \in InFlight : CheckInHandlers(c)) \/ SubmitNothing \/ SubmitCheckin
  PROVE  HistoryAsked' /\ SavedFirst'
<1>0. \A i \in InFlight :
        /\ calls[i].op = "history" /\ calls[i].answer = "ok" => calls[i].body \in Nat
        /\ calls[i].op = "checkin" /\ calls[i].answer = "ok" => calls[i].body \in Nat
  BY CallTypes, DaysAssumption DEF Typed, HistoryCall
<1>1. row \in Nat /\ savedRow \in Nat
  BY DEF Types, CheckInTypeOK
<1>2. ASSUME NEW c \in InFlight, Removed(c)
      PROVE  InFlight' = InFlight \ {c} /\ \A i \in InFlight' : calls'[i] = calls[i]
  BY <1>2 DEF Removed
<1>3. ASSUME NEW c \in InFlight, HistoryLoaded(c) PROVE HistoryAsked' /\ SavedFirst'
  <2>1. /\ Removed(c) /\ calls[c].op = "history" /\ calls[c].answer = "ok"
        /\ summary' = calls[c].body /\ loading' = FALSE /\ patient' = patient
        /\ UNCHANGED <<row, savedRow, historyError, sending, saved>>
    BY <1>3, HistoryShapes DEF HistoryLoaded, Good, End, checkVars
  <2>2. HistoryAsked'
    BY <1>0, <1>2, <2>1 DEF HistoryAsked, NoSummary
  <2>3. SavedFirst'
    BY <1>2, <2>1 DEF SavedFirst
  <2> QED  BY <2>2, <2>3
<1>4. ASSUME NEW c \in InFlight, HistoryFails(c) PROVE HistoryAsked' /\ SavedFirst'
  <2>1. /\ Removed(c) /\ calls[c].op = "history"
        /\ historyError' = TRUE /\ loading' = FALSE
        /\ UNCHANGED <<row, savedRow, sending, saved, summary>>
    BY <1>4, HistoryShapes DEF HistoryFails, Throws, checkVars
  <2>2. patient' => patient
    BY <1>4, Zenon DEF HistoryFails, Throws
  <2>3. HistoryAsked'
    BY <1>2, <2>1 DEF HistoryAsked
  <2>4. SavedFirst'
    BY <1>2, <2>1, <2>2 DEF SavedFirst
  <2> QED  BY <2>3, <2>4
<1>5. ASSUME NEW c \in InFlight, CheckinSaved(c) PROVE HistoryAsked' /\ SavedFirst'
  <2>1. /\ calls[c].op = "checkin" /\ calls[c].answer = "ok"
        /\ sending' = FALSE /\ saved' = TRUE /\ savedRow' = calls[c].body
        /\ loading' = TRUE /\ patient' = patient /\ UNCHANGED row
    BY <1>5 DEF CheckinSaved, Good, Next1
  <2>2. /\ InFlight' = InFlight /\ calls'[c].op = "history" /\ calls'[c].answer = "none"
        /\ \A i \in InFlight \ {c} : calls'[i] = calls[i]
    BY <1>5, HistoryShapes DEF Became, Call
  <2>3. patient => InFlight = {c}
    BY DEF PatientOne
  <2>4. HistoryAsked'
    BY <2>1, <2>2 DEF HistoryAsked
  <2>5. SavedFirst'
    BY <2>1, <2>2, <2>3 DEF SavedFirst
  <2> QED  BY <2>4, <2>5
<1>6. ASSUME NEW c \in InFlight, CheckinFails(c) PROVE HistoryAsked' /\ SavedFirst'
  <2>1. /\ Removed(c) /\ calls[c].op = "checkin" /\ sending' = FALSE
        /\ UNCHANGED <<row, savedRow, saved, summary, loading, historyError>>
    BY <1>6, HistoryShapes DEF CheckinFails, Throws, historyVars
  <2>2. patient' => patient
    BY <1>6, Zenon DEF CheckinFails, Throws
  <2>3. HistoryAsked'
    BY <1>2, <2>1 DEF HistoryAsked
  <2>4. SavedFirst'
    BY <1>2, <2>1, <2>2 DEF SavedFirst
  <2> QED  BY <2>3, <2>4
<1>7. ASSUME SubmitNothing PROVE HistoryAsked' /\ SavedFirst'
  <2>1. /\ UNCHANGED calls /\ saved' = FALSE /\ savedRow' = 0
        /\ UNCHANGED <<row, summary, loading, historyError, sending>>
    BY <1>7, HistoryShapes DEF SubmitNothing, historyVars, NoRow
  <2>2. HistoryAsked'
    BY <2>1 DEF HistoryAsked, InFlight
  <2>3. SavedFirst'
    BY <1>1, <2>1 DEF SavedFirst, InFlight
  <2> QED  BY <2>2, <2>3
<1>8. ASSUME SubmitCheckin PROVE HistoryAsked' /\ SavedFirst'
  <2>1. /\ saved' = FALSE /\ savedRow' = 0
        /\ UNCHANGED <<row, summary, loading, historyError>>
    BY <1>8 DEF SubmitCheckin, historyVars, NoRow
  <2>2. PICK n \in Ids \ InFlight :
          /\ InFlight' = InFlight \cup {n}
          /\ calls'[n].op = "checkin" /\ calls'[n].live /\ calls'[n].answer = "none"
          /\ \A i \in InFlight : calls'[i] = calls[i]
    BY <1>8, HistoryShapes DEF Sent, Call
  <2>3. HistoryAsked'
    BY <2>1, <2>2 DEF HistoryAsked
  <2>4. SavedFirst'
    BY <1>1, <2>1, <2>2 DEF SavedFirst
  <2> QED  BY <2>3, <2>4
<1> QED  BY <1>3, <1>4, <1>5, <1>6, <1>7, <1>8 DEF CheckInHandlers

\* When a page appears, the check-in is as on a page that was never used.
LEMMA HistoryFresh ==
  ASSUME Types, SavedFirst, HistoryAppears, UNCHANGED row,
         Screen' = "family" => \E c \in InFlight' : calls'[c].op = "history",
         \A i \in InFlight' : calls'[i].op = "checkin" =>
           /\ i \in InFlight /\ calls[i].op = "checkin"
           /\ calls'[i].answer = calls[i].answer /\ calls'[i].body = calls[i].body
  PROVE  HistoryAsked' /\ SavedFirst'
<1>1. row \in Nat
  BY DEF Types, CheckInTypeOK
<1>2. savedRow' = 0 /\ saved' = FALSE /\ sending' = FALSE /\ loading' = TRUE
  BY DEF HistoryAppears, NoRow
<1>3. HistoryAsked'
  BY <1>2 DEF HistoryAsked
<1>4. SavedFirst'
  BY <1>1, <1>2 DEF SavedFirst
<1> QED  BY <1>3, <1>4

\* Every step keeps it.
LEMMA HistoryNext ==
  ASSUME Types, SessionWaits, PatientOne, HistoryAsked, SavedFirst, [Next]_vars
  PROVE  HistoryAsked' /\ SavedFirst'
<1>1. Kept(HistoryOps) => HistoryLeft
  BY KeptCalls DEF HistoryLeft
<1>2. CASE SessionStep
  <2>1. Kept(HistoryOps) /\ UNCHANGED checkInVars
    BY <1>2, SessionKeeps DEF SessionStep, SessionOps, HistoryOps
  <2>2. Screen' = "family" => Screen = "family"
    BY <1>2, ScreenStays DEF Tabs
  <2>3. patient' => patient
    BY <1>2, PagesQuiet DEF Quiet
  <2> QED  BY <1>1, <2>1, <2>2, <2>3, HistoryOthers
<1>3. CASE DishStep \/ ChooseStep
  <2>1. Kept(HistoryOps) /\ UNCHANGED checkInVars /\ Screen' = Screen
    BY <1>3, DishKeeps, ChooseKeeps, ScreenOf
       DEF DishStep, ChooseStep, DishOps, ChooseOps, HistoryOps
  <2>2. patient' => patient
    BY <1>3, PagesQuiet DEF Quiet
  <2> QED  BY <1>1, <2>1, <2>2, HistoryOthers
<1>4. CASE HistoryStep
  <2>1. Screen' = Screen
    BY <1>4, ScreenOf DEF HistoryStep
  <2>2. CASE \E c \in InFlight : CheckInServer(c)
    BY <2>1, <2>2, HistoryServerKeeps
  <2>3. CASE (\E c \in InFlight : CheckInHandlers(c)) \/ SubmitNothing \/ SubmitCheckin
    BY <2>1, <2>3, HistoryPageKeeps
  <2> QED  BY <1>4, <2>2, <2>3 DEF HistoryStep
<1>5. CASE ShellStep
  <2>1. HistoryLeft
    BY <1>5, ShellShape DEF HistoryLeft, Removed, InFlight
  <2>2. UNCHANGED checkInVars /\ Screen' = Screen
    BY <1>5, ScreenOf DEF ShellStep
  <2>3. patient' => patient
    BY <1>5, PagesQuiet DEF Quiet
  <2> QED  BY <2>1, <2>2, <2>3, HistoryOthers
<1>6. ASSUME NEW c \in InFlight, Enter(c) PROVE HistoryAsked' /\ SavedFirst'
  <2>1. HistoryAppears /\ UNCHANGED <<row, tab>>
    BY <1>6 DEF Enter, SessionLoaded, Appears
  <2>2. Screen' = "family" => tab = "family"
    BY <2>1 DEF Screen
  <2>3. \A j : Asked(tab, j) => j.op # "checkin" /\ (tab = "family" => j.op = "history")
    BY DEF Asked
  <2>4. Screen' = "family" => \E k \in InFlight' : calls'[k].op = "history"
    BY <1>6, <2>2, <2>3, EnterShape DEF Loading
  <2>5. \A i \in InFlight' : calls'[i].op = "checkin" => i \in InFlight /\ calls'[i] = calls[i]
    BY <1>6, <2>3, EnterShape
  <2> QED  BY <2>1, <2>4, <2>5, HistoryFresh
<1>7. ASSUME NEW t \in Tabs, Navigate(t) PROVE HistoryAsked' /\ SavedFirst'
  <2>1. HistoryAppears /\ UNCHANGED row /\ tab' = t
    BY <1>7 DEF Navigate, Appears
  <2>2. Screen' = "family" => t = "family"
    BY <2>1 DEF Screen
  <2>3. \A j : /\ Asked(t, j) => j.op # "checkin" /\ (t = "family" => j.op = "history")
               /\ Dead(j).op = j.op /\ Dead(j).answer = j.answer /\ Dead(j).body = j.body
    BY DEF Asked, Dead
  <2>4. Screen' = "family" => \E k \in InFlight' : calls'[k].op = "history"
    BY <1>7, <2>2, <2>3, NavigateShape DEF Loading
  <2>5. \A i \in InFlight' : calls'[i].op = "checkin" =>
          i \in InFlight /\ calls'[i] = Dead(calls[i])
    BY <1>7, <2>3, NavigateShape
  <2> QED  BY <2>1, <2>3, <2>4, <2>5, HistoryFresh
<1>8. CASE Refresh
  <2>1. HistoryAppears /\ UNCHANGED row /\ Screen' # "family"
    BY <1>8, SessionKinds DEF Refresh, Screen
  <2>2. \A j : Dead(j).op = j.op /\ Dead(j).answer = j.answer /\ Dead(j).body = j.body
    BY DEF Dead
  <2>3. \A i \in InFlight' : calls'[i].op = "checkin" =>
          i \in InFlight /\ calls'[i] = Dead(calls[i])
    BY <1>8, RefreshShape
  <2> QED  BY <2>1, <2>2, <2>3, HistoryFresh
<1>9. CASE Event
  <2>1. UNCHANGED <<calls, patient>> /\ Screen' = Screen
    BY <1>9, EventKinds, ScreenOf
  <2>2. CASE UNCHANGED checkInVars
    BY <1>1, <2>1, <2>2, KeptOthers, HistoryOthers
  <2>3. CASE OtherChecksIn
    <3>1. row' = row + 1
          /\ UNCHANGED <<savedRow, summary, loading, historyError, sending, saved>>
      BY <2>3 DEF OtherChecksIn, historyVars, checkVars
    <3>2. HistoryAsked'
      BY <2>1, <3>1 DEF HistoryAsked, InFlight
    <3>3. row \in Nat /\ savedRow \in Nat
      BY DEF Types, CheckInTypeOK
    <3>4. \A i \in InFlight : calls[i].op = "checkin" /\ calls[i].answer = "ok" => calls[i].body \in Nat
      BY CallTypes, DaysAssumption DEF Typed, HistoryCall
    <3>5. SavedFirst'
      BY <2>1, <3>1, <3>3, <3>4 DEF SavedFirst, InFlight
    <3> QED  BY <3>2, <3>5
  <2> QED  BY <1>9, <2>2, <2>3, EventKinds
<1>10. CASE Idle
  <2>1. UNCHANGED checkInVars /\ Screen' = Screen /\ UNCHANGED <<calls, patient>>
    BY <1>10, ScreenOf DEF Idle
  <2> QED  BY <1>1, <2>1, KeptOthers, HistoryOthers
<1> QED  BY <1>2, <1>3, <1>4, <1>5, <1>6, <1>7, <1>8, <1>9, <1>10, StepKinds

\* So it is at first.
LEMMA HistoryFirst == Init => LiveHere /\ PatientOne /\ HistoryAsked /\ SavedFirst
<1> SUFFICES ASSUME Init PROVE LiveHere /\ PatientOne /\ HistoryAsked /\ SavedFirst
  OBVIOUS
<1>1. InFlight = {1} /\ calls[1].op = "session"
  BY DEF Init, InFlight, Call
<1>2. LiveHere /\ PatientOne
  BY <1>1 DEF LiveHere, PatientOne, SessionOps
<1>3. Screen = "loading"
  BY DEF Init, SessionInit, Screen
<1> QED  BY <1>1, <1>2, <1>3 DEF Init, CheckInInit, FreshHistory, HistoryAsked, SavedFirst, NoRow

-----------------------------------------------------------------------------
(* The page that helps to choose.                                          *)

\* A call whose end frees the page.
Frees(c) == calls[c].live /\ calls[c].op \in {"search", "random", "ensure", "wish"}

\* The page is busy with a call, with one at a time unless the member is hasty;
\* and the slots that it asks for are of the meal that is selected.
SlotsAsked ==
  /\ busy => \E c \in InFlight : Frees(c)
  /\ \A c \in InFlight : calls[c].op = "slot" => calls[c].arg.meal = mealType
  /\ ~ hasty =>
       /\ slotId \in {mealType, NoSlot} \/ \E c \in InFlight : calls[c].op = "slot"
       /\ \A c \in InFlight : Frees(c) => busy
       /\ \A c, d \in InFlight : Frees(c) /\ Frees(d) => c = d
       /\ \A c \in InFlight :
            calls[c].op = "ensure" /\ calls[c].live => calls[c].arg.meal = mealType

\* What is wished for, or is on its way to be, on the page or after it was left,
\* was meant for that meal.
WishesAsked ==
  ~ hasty =>
    /\ \A m \in Meals : wishes[m] \subseteq meant[m]
    /\ \A c \in InFlight : calls[c].op = "wish" => calls[c].arg.dish \in meant[calls[c].arg.slot]
    /\ \A c \in InFlight : calls[c].op = "ensure" =>
         calls[c].arg.dish \in meant[calls[c].arg.meal]

\* The calls of the page are as they were, but for some that nobody awaits.
ChooseLeft ==
  /\ \A i \in InFlight : calls[i].op \in ChooseOps /\ calls[i].live =>
       i \in InFlight' /\ calls'[i] = calls[i]
  /\ \A i \in InFlight' : calls'[i].op \in ChooseOps => i \in InFlight /\ calls'[i] = calls[i]

\* What the others do is nothing to the page.
LEMMA ChooseOthers ==
  ASSUME Types, SlotsAsked, WishesAsked, UNCHANGED chooseVars, ChooseLeft
  PROVE  SlotsAsked' /\ WishesAsked'
<1>1. UNCHANGED <<busy, mealType, slotId, hasty, wishes, meant>>
  BY DEF chooseVars
<1>2. \A i \in InFlight : calls[i].op = "slot" => calls[i].live
  BY CallTypes DEF Shaped, Reads
<1>3. SlotsAsked'
  BY <1>1, <1>2 DEF SlotsAsked, ChooseLeft, ChooseOps, Frees
<1>4. WishesAsked'
  BY <1>1, <1>2 DEF WishesAsked, ChooseLeft, ChooseOps
<1> QED  BY <1>3, <1>4

\* The server's steps for the page.
LEMMA ChooseServerKeeps ==
  ASSUME Types, SlotsAsked, WishesAsked, NEW c \in InFlight, ChooseServer(c, Active)
  PROVE  SlotsAsked' /\ WishesAsked'
<1>1. PICK kind, body : Became(c, With(calls[c], kind, body))
  BY ChooseShapes
<1>2. /\ InFlight' = InFlight
      /\ \A i \in InFlight : /\ calls'[i].op = calls[i].op /\ calls'[i].live = calls[i].live
                             /\ calls'[i].arg = calls[i].arg
  BY <1>1 DEF Became, With
<1>3. UNCHANGED <<busy, mealType, slotId, hasty, meant>>
  BY DEF ChooseServer, ServeSlot, ServeSearch, ServeRandom, ServeWish, chooseVars
<1>4. SlotsAsked'
  BY <1>2, <1>3 DEF SlotsAsked, Frees
<1>5. ~ hasty => \A m \in Meals : wishes'[m] \subseteq meant[m]
  <2>1. CASE UNCHANGED wishes
    BY <2>1 DEF WishesAsked
  <2>2. CASE ~ UNCHANGED wishes
    <3>1. /\ calls[c].op = "wish"
          /\ wishes' = [wishes EXCEPT ![calls[c].arg.slot] = @ \cup {calls[c].arg.dish}]
      BY <2>2 DEF ChooseServer, ServeSlot, ServeSearch, ServeRandom, ServeWish, chooseVars, Arrived
    <3>2. wishes \in [Meals -> SUBSET Nat]
      BY DEF Types, ChooseTypeOK
    <3> QED  BY <3>1, <3>2 DEF WishesAsked
  <2> QED  BY <2>1, <2>2
<1>6. WishesAsked'
  BY <1>2, <1>3, <1>5 DEF WishesAsked
<1> QED  BY <1>4, <1>6

\* Its handlers.
LEMMA ChooseHandlerKeeps ==
  ASSUME Types, SlotsAsked, WishesAsked, NEW c \in InFlight, ChooseHandlers(c)
  PROVE  SlotsAsked' /\ WishesAsked'
<1>0. calls[c].op \in {"slot", "ensure"} /\ calls[c].answer = "ok" =>
        calls[c].body = calls[c].arg.meal
  BY CallTypes DEF Typed, ChooseCall
<1>1. Removed(c) => /\ InFlight' = InFlight \ {c}
                    /\ \A i \in InFlight' : calls'[i] = calls[i]
  BY DEF Removed
<1>2. CASE SlotResolved(c) \/ SlotFails(c)
  <2>1. /\ Removed(c) /\ calls[c].op = "slot"
        /\ UNCHANGED <<busy, mealType, hasty, wishes, meant>>
        /\ (slotId' = NoSlot) \/ (calls[c].answer = "ok" /\ slotId' = calls[c].body)
    <3>1. CASE SlotResolved(c)
      BY <3>1, ChooseShapes DEF SlotResolved, Good, wanted
    <3>2. CASE SlotFails(c)
      BY <3>2, ChooseShapes DEF SlotFails, Throws, wanted
    <3> QED  BY <1>2, <3>1, <3>2
  <2>2. ~ Frees(c) /\ slotId' \in {mealType, NoSlot}
    BY <1>0, <2>1 DEF Frees, SlotsAsked
  <2>3. SlotsAsked'
    BY <1>1, <2>1, <2>2 DEF SlotsAsked, Frees
  <2>4. WishesAsked'
    BY <1>1, <2>1 DEF WishesAsked
  <2> QED  BY <2>3, <2>4
<1>3. CASE Drawn(c) \/ DrawFails(c) \/ Found(c) \/ SearchFails(c) \/ EnsureFails(c) \/ AcceptFails(c)
  <2>1. /\ Removed(c) /\ Frees(c) /\ busy' = FALSE
        /\ UNCHANGED <<mealType, slotId, hasty, wishes, meant>>
    BY <1>3, ChooseShapes
       DEF Drawn, DrawFails, Found, SearchFails, EnsureFails, AcceptFails, Good, Throws, Frees,
           wanted
  <2>2. SlotsAsked'
    BY <1>1, <2>1 DEF SlotsAsked, Frees
  <2>3. WishesAsked'
    BY <1>1, <2>1 DEF WishesAsked
  <2> QED  BY <2>2, <2>3
<1>4. CASE SlotEnsured(c)
  <2>1. /\ calls[c].op = "ensure" /\ calls[c].answer = "ok"
        /\ slotId' = IF calls[c].live THEN calls[c].body ELSE slotId
        /\ UNCHANGED <<busy, mealType, hasty, wishes, meant>>
    BY <1>4 DEF SlotEnsured, wanted
  <2>2. /\ InFlight' = InFlight /\ calls'[c].op = "wish" /\ calls'[c].live = calls[c].live
        /\ calls'[c].arg.slot = calls[c].arg.meal /\ calls'[c].arg.dish = calls[c].arg.dish
        /\ \A i \in InFlight \ {c} : calls'[i] = calls[i]
    <3>1. PICK j : j = Following(calls[c])
      OBVIOUS
    <3>2. Became(c, j)
      BY <1>4, <3>1, SlotEnsuredShape
    <3>3. j.op = "wish" /\ j.live = calls[c].live /\ j.arg.slot = calls[c].arg.meal
          /\ j.arg.dish = calls[c].arg.dish
      BY <1>0, <2>1, <3>1 DEF Following
    <3> QED  BY <3>2, <3>3 DEF Became
  <2>3. \A i \in InFlight : /\ Frees(i)' <=> Frees(i)
                            /\ calls'[i].op = "slot" <=> calls[i].op = "slot"
    BY <2>1, <2>2 DEF Frees
  <2>4. ~ hasty => slotId' \in {mealType, NoSlot} \/ \E i \in InFlight : calls[i].op = "slot"
    BY <1>0, <2>1 DEF SlotsAsked
  <2>5. SlotsAsked'
    <3>1. busy' => \E i \in InFlight' : Frees(i)'
      BY <2>1, <2>2, <2>3 DEF SlotsAsked
    <3>2. \A i \in InFlight' : calls'[i].op = "slot" => calls'[i].arg.meal = mealType'
      BY <2>1, <2>2 DEF SlotsAsked
    <3>3. ~ hasty' =>
            /\ slotId' \in {mealType', NoSlot} \/ \E i \in InFlight' : calls'[i].op = "slot"
            /\ \A i \in InFlight' : Frees(i)' => busy'
            /\ \A i, k \in InFlight' : Frees(i)' /\ Frees(k)' => i = k
      BY <2>1, <2>2, <2>3, <2>4 DEF SlotsAsked
    <3>4. ~ hasty' => \A i \in InFlight' :
            calls'[i].op = "ensure" /\ calls'[i].live => calls'[i].arg.meal = mealType'
      BY <2>1, <2>2 DEF SlotsAsked
    <3> QED  BY <3>1, <3>2, <3>3, <3>4 DEF SlotsAsked
  <2>6. WishesAsked'
    BY <2>1, <2>2 DEF WishesAsked
  <2> QED  BY <2>5, <2>6
<1>5. CASE Accepted(c)
  <2>1. /\ calls[c].op = "wish" /\ (calls[c].live => busy' = FALSE)
        /\ (~ calls[c].live => busy' = busy)
        /\ UNCHANGED <<mealType, slotId, hasty, wishes, meant>>
    BY <1>5 DEF Accepted, wanted
  <2>2. /\ InFlight' = InFlight /\ calls'[c].op = "opened" /\ ~ calls'[c].live
        /\ \A i \in InFlight \ {c} : calls'[i] = calls[i]
    BY <1>5, ChooseShapes DEF Became, Dead, Call
  <2>3. SlotsAsked'
    BY <2>1, <2>2 DEF SlotsAsked, Frees
  <2>4. WishesAsked'
    BY <2>1, <2>2 DEF WishesAsked
  <2> QED  BY <2>3, <2>4
<1> QED  BY <1>2, <1>3, <1>4, <1>5 DEF ChooseHandlers

\* Its clicks.
LEMMA ChooseClickKeeps ==
  ASSUME Types, SlotsAsked, WishesAsked, ChooseClicks \/ \E d \in Offered : Accept(d)
  PROVE  SlotsAsked' /\ WishesAsked'
<1>1. ASSUME NEW m \in Meals, SelectMeal(m) PROVE SlotsAsked' /\ WishesAsked'
  <2>1. PICK n \in Ids :
           /\ InFlight' = {i \in InFlight : calls[i].op # "slot"} \cup {n}
           /\ n \notin {i \in InFlight : calls[i].op # "slot"}
           /\ calls'[n] = AskSlot(m)
           /\ \A i \in InFlight : calls[i].op # "slot" => calls'[i] = calls[i]
    BY <1>1, SelectMealShape
  <2>2. /\ ~ busy /\ mealType' = m
        /\ UNCHANGED <<slotId, busy, hasty, wishes, meant>>
    BY <1>1 DEF SelectMeal, wanted
  <2>3. /\ calls'[n].op = "slot" /\ calls'[n].arg.meal = m
    BY <2>1 DEF AskSlot, Call
  <2>4. \A i \in InFlight' \ {n} :
           i \in InFlight /\ calls'[i] = calls[i] /\ calls'[i].op # "slot"
    BY <2>1
  <2>5. ~ hasty => \A i \in InFlight' \ {n} : ~ Frees(i)'
    <3>1. ~ hasty => \A i \in InFlight : ~ Frees(i)
      BY <2>2 DEF SlotsAsked
    <3> QED  BY <2>4, <3>1 DEF Frees
  <2>6. n \in InFlight' /\ ~ Frees(n)'
    BY <2>1, <2>3 DEF Frees
  <2>7. ~ hasty => \A i \in InFlight' : ~ (calls'[i].op = "ensure" /\ calls'[i].live)
    BY <2>3, <2>5 DEF Frees
  <2>8. SlotsAsked'
    BY <2>2, <2>3, <2>4, <2>5, <2>6, <2>7 DEF SlotsAsked
  <2>9. WishesAsked'
    BY <2>2, <2>3, <2>4 DEF WishesAsked
  <2> QED  BY <2>8, <2>9
<1>2. CASE SwitchMethod
  <2>1. UNCHANGED <<calls, busy, mealType, slotId, hasty, wishes, meant>>
    BY <1>2, ChooseShapes DEF SwitchMethod, wanted
  <2>2. SlotsAsked'
    BY <2>1 DEF SlotsAsked, Frees, InFlight
  <2>3. WishesAsked'
    BY <2>1 DEF WishesAsked, InFlight
  <2> QED  BY <2>2, <2>3
<1>3. CASE Suggest
  <2>1. ~ busy /\ busy' = TRUE /\ UNCHANGED <<mealType, slotId, hasty, wishes, meant>>
    BY <1>3 DEF Suggest, wanted
  <2>2. PICK n \in Ids \ InFlight :
          /\ InFlight' = InFlight \cup {n}
          /\ calls'[n].op \in {"random", "search"} /\ calls'[n].live
          /\ \A i \in InFlight : calls'[i] = calls[i]
    BY <1>3, ChooseShapes DEF Sent, Call
  <2>3. SlotsAsked'
    BY <2>1, <2>2 DEF SlotsAsked, Frees
  <2>4. WishesAsked'
    BY <2>1, <2>2 DEF WishesAsked
  <2> QED  BY <2>3, <2>4
<1>4. ASSUME NEW d \in Offered, Accept(d) PROVE SlotsAsked' /\ WishesAsked'
  <2>1. PICK j : j = IF slotId = NoSlot THEN EnsureSlot(mealType, d) ELSE Wish(slotId, d)
    OBVIOUS
  <2>2. PICK n \in Ids \ InFlight :
          /\ InFlight' = InFlight \cup {n} /\ calls'[n] = j
          /\ \A i \in InFlight : calls'[i] = calls[i]
    BY <1>4, <2>1, ChooseShapes DEF Sent
  <2>3. /\ busy' = TRUE /\ UNCHANGED <<mealType, slotId, wishes>>
        /\ meant' = [meant EXCEPT ![mealType] = @ \cup {d}]
        /\ hasty' = (hasty \/ busy \/ Awaited("slot"))
    BY <1>4 DEF Accept, chosen
  <2>4. meant \in [Meals -> SUBSET Nat] /\ mealType \in Meals /\ slotId \in Meals \cup {NoSlot}
        /\ NoSlot \notin Meals /\ d # NoPick
    BY MealsAssumption DEF Types, ChooseTypeOK, Offered
  <2>5. \A i \in InFlight : calls[i].op = "slot" => calls[i].live
    BY CallTypes DEF Shaped, Reads
  <2>6. /\ j.live = TRUE /\ j.arg.dish = d
        /\ \/ j.op = "ensure" /\ j.arg.meal = mealType
           \/ j.op = "wish" /\ slotId # NoSlot /\ j.arg.slot = slotId
    BY <2>1, MealsAssumption DEF EnsureSlot, Wish, Call
  <2>7. ~ hasty' => ~ hasty /\ ~ busy /\ \A i \in InFlight : calls[i].op # "slot"
    BY <2>3, <2>5 DEF Awaited
  <2>8. ~ hasty' => slotId \in {mealType, NoSlot}
    BY <2>7 DEF SlotsAsked
  <2>9. n \in InFlight' /\ Frees(n)' /\ calls'[n].op # "slot"
    BY <2>2, <2>6 DEF Frees
  <2>10. \A i \in InFlight : Frees(i)' <=> Frees(i)
    BY <2>2 DEF Frees
  <2>11. SlotsAsked'
    <3>1. \A i \in InFlight' : calls'[i].op = "slot" => calls'[i].arg.meal = mealType'
      BY <2>2, <2>3, <2>9 DEF SlotsAsked
    <3>2. ~ hasty' =>
            /\ slotId' \in {mealType', NoSlot}
            /\ \A i \in InFlight' :
                 calls'[i].op = "ensure" /\ calls'[i].live => calls'[i].arg.meal = mealType'
      BY <2>2, <2>3, <2>6, <2>7, <2>8 DEF SlotsAsked
    <3>3. ~ hasty' => \A i, k \in InFlight' : Frees(i)' /\ Frees(k)' => i = k
      <4>1. ~ hasty' => \A i \in InFlight : ~ Frees(i)
        BY <2>7 DEF SlotsAsked
      <4> QED  BY <2>2, <2>10, <4>1
    <3> QED  BY <2>3, <2>9, <3>1, <3>2, <3>3 DEF SlotsAsked
  <2>12. \A m \in Meals : meant[m] \subseteq meant'[m]
    BY <2>3, <2>4
  <2>13. d \in meant'[mealType]
    BY <2>3, <2>4
  <2>14. WishesAsked'
    <3>1. ~ hasty' => \A m \in Meals : wishes'[m] \subseteq meant'[m]
      BY <2>3, <2>7, <2>12 DEF WishesAsked
    <3>2. \A i \in InFlight : calls[i].op = "wish" => calls[i].arg.slot \in Meals
      BY CallTypes DEF Typed, ChooseCall
    <3>3. ~ hasty' => \A i \in InFlight : calls[i].op = "wish" =>
                        calls[i].arg.dish \in meant'[calls[i].arg.slot]
      BY <2>7, <2>12, <3>2 DEF WishesAsked
    <3>4. ~ hasty' => (j.op = "wish" => j.arg.dish \in meant'[j.arg.slot])
      BY <2>6, <2>8, <2>13
    <3>5. ~ hasty' => (j.op = "ensure" => j.arg.dish \in meant'[j.arg.meal])
      BY <2>6, <2>13
    <3>6. \A i \in InFlight : calls[i].op = "ensure" => calls[i].arg.meal \in Meals
      BY CallTypes DEF Typed, ChooseCall
    <3>7. ~ hasty' => \A i \in InFlight : calls[i].op = "ensure" =>
                        calls[i].arg.dish \in meant'[calls[i].arg.meal]
      BY <2>7, <2>12, <3>6 DEF WishesAsked
    <3> QED  BY <2>2, <2>7, <3>1, <3>3, <3>4, <3>5, <3>7 DEF WishesAsked
  <2> QED  BY <2>11, <2>14
<1> QED  BY <1>1, <1>2, <1>3, <1>4 DEF ChooseClicks

\* When a page appears, nothing is busy and the slot is being asked for; dishes
\* that were accepted before may still be on their way.
LEMMA ChooseFresh ==
  ASSUME Types, WishesAsked, ChoosePageAppears, UNCHANGED wanted,
         \A i \in InFlight' :
           /\ calls'[i].op = "slot" => calls'[i].arg.meal = mealType'
           /\ calls'[i].live => calls'[i].op \notin {"search", "random", "ensure", "wish"}
           /\ calls'[i].op \in {"ensure", "wish"} =>
                i \in InFlight /\ calls[i].op = calls'[i].op /\ calls'[i].arg = calls[i].arg
  PROVE  SlotsAsked' /\ WishesAsked'
<1>1. busy' = FALSE /\ slotId' = NoSlot /\ UNCHANGED <<hasty, wishes, meant>>
  BY DEF ChoosePageAppears, wanted
<1>2. SlotsAsked'
  BY <1>1 DEF SlotsAsked, Frees
<1>3. WishesAsked'
  BY <1>1 DEF WishesAsked
<1> QED  BY <1>2, <1>3

\* Every step keeps it.
LEMMA ChooseNext ==
  ASSUME Types, SessionWaits, LiveHere, SlotsAsked, WishesAsked, [Next]_vars
  PROVE  SlotsAsked' /\ WishesAsked'
<1>1. Kept(ChooseOps) => ChooseLeft
  BY KeptCalls DEF ChooseLeft
<1>2. CASE SessionStep \/ DishStep \/ HistoryStep
  <2>1. Kept(ChooseOps) /\ UNCHANGED chooseVars
    BY <1>2, SessionKeeps, DishKeeps, HistoryKeeps
       DEF SessionStep, DishStep, HistoryStep, SessionOps, DishOps, HistoryOps, ChooseOps
  <2> QED  BY <1>1, <2>1, ChooseOthers
<1>3. CASE ChooseStep
  BY <1>3, ChooseServerKeeps, ChooseHandlerKeeps, ChooseClickKeeps DEF ChooseStep
<1>4. CASE ShellStep
  <2>1. ChooseLeft
    BY <1>4, ShellShape DEF ChooseLeft, Removed, InFlight
  <2> QED  BY <1>4, <2>1, ChooseOthers DEF ShellStep
<1>5. \A t, j : Asked(t, j) =>
        /\ j.op \in {"dishes", "slot", "history"}
        /\ j.op = "slot" => j.arg.meal = mealType'
  BY DEF Asked
<1>6. ASSUME NEW c \in InFlight, Enter(c) PROVE SlotsAsked' /\ WishesAsked'
  <2>1. ChoosePageAppears /\ UNCHANGED wanted /\ session = Unknown /\ ~ appError
    BY <1>6 DEF Enter, SessionLoaded, Appears, Good, SessionWaits
  <2>2. Screen = "loading"
    BY <2>1 DEF Screen
  <2>3. \A i \in InFlight : calls[i].live => calls[i].op \notin ChooseOps
    BY <2>2, PageOps DEF LiveHere
  <2>4. \A i \in InFlight : calls[i].op = "slot" => calls[i].live
    BY CallTypes DEF Shaped, Reads
  <2>5. \A i \in InFlight' : (i \in InFlight /\ calls'[i] = calls[i]) \/ Asked(tab, calls'[i])
    BY <1>6, EnterShape
  <2> QED  BY <1>5, <2>1, <2>3, <2>4, <2>5, ChooseFresh DEF ChooseOps
<1>7. ASSUME NEW t \in Tabs, Navigate(t) PROVE SlotsAsked' /\ WishesAsked'
  <2>1. ChoosePageAppears /\ UNCHANGED wanted
    BY <1>7 DEF Navigate, Appears, wanted
  <2>2. \A i \in InFlight' :
              \/ i \in InFlight /\ calls[i].op \notin Reads /\ calls'[i] = Dead(calls[i])
              \/ Asked(t, calls'[i])
    BY <1>7, NavigateShape
  <2>3. \A j : Dead(j).op = j.op /\ Dead(j).arg = j.arg /\ Dead(j).live = FALSE
    BY DEF Dead
  <2> QED  BY <1>5, <2>1, <2>2, <2>3, ChooseFresh DEF Reads
<1>8. CASE Refresh
  <2>1. ChoosePageAppears /\ UNCHANGED wanted
    BY <1>8 DEF Refresh, wanted
  <2>2. \A i \in InFlight' :
              \/ i \in InFlight /\ calls[i].op \notin Reads /\ calls'[i] = Dead(calls[i])
              \/ calls'[i].op = "session"
    BY <1>8, RefreshShape
  <2>3. \A j : Dead(j).op = j.op /\ Dead(j).arg = j.arg /\ Dead(j).live = FALSE
    BY DEF Dead
  <2> QED  BY <2>1, <2>2, <2>3, ChooseFresh DEF Reads
<1>9. CASE Event
  BY <1>1, <1>9, EventKinds, KeptOthers, ChooseOthers
<1>10. CASE Idle
  BY <1>1, <1>10, KeptOthers, ChooseOthers DEF Idle
<1> QED  BY <1>2, <1>3, <1>4, <1>6, <1>7, <1>8, <1>9, <1>10, StepKinds

\* So it is at first.
LEMMA ChooseFirst == Init => SlotsAsked /\ WishesAsked
<1> SUFFICES ASSUME Init PROVE SlotsAsked /\ WishesAsked
  OBVIOUS
<1>1. InFlight = {1} /\ calls[1].op = "session"
  BY DEF Init, InFlight, Call
<1> QED  BY <1>1 DEF Init, ChooseInit, FreshChoosePage, SlotsAsked, WishesAsked, Frees

-----------------------------------------------------------------------------
(* The page of the dishes.                                                 *)

\* A call whose end frees the form, and an upload for it.
InForm(j)  == j.live /\ j.op \in {"create_dish", "update_dish", "dishes"} /\ j.arg.form
Uploads(j) == j.live /\ j.op = "upload"

\* What the page and its form wait for, they have asked for, once; the form is
\* there as long as it waits, and its picture is the one of before the upload.
DishAsked ==
  /\ Screen = "dishes" /\ listing => \E c \in InFlight : calls[c].op = "dishes"
  /\ uploading => \E c \in InFlight : Uploads(calls[c])
  /\ saving => \E c \in InFlight : InForm(calls[c])
  /\ \A c \in InFlight : InForm(calls[c]) => sheet /\ saving
  /\ \A c, d \in InFlight : InForm(calls[c]) /\ InForm(calls[d]) => c = d
  /\ \A c \in InFlight : Uploads(calls[c]) =>
       /\ sheet /\ uploading
       /\ calls[c].arg.subject = subject /\ calls[c].arg.picture = form.picture
  /\ \A c, d \in InFlight : Uploads(calls[c]) /\ Uploads(calls[d]) => c = d

\* The calls of the page are as they were, but for some that nobody awaits.
DishLeft ==
  /\ \A i \in InFlight : calls[i].op \in DishOps /\ calls[i].live =>
       i \in InFlight' /\ calls'[i] = calls[i]
  /\ \A i \in InFlight' : calls'[i].op \in DishOps => i \in InFlight /\ calls'[i] = calls[i]

\* The server's step for c, as far as it is the same for all of them.
LEMMA DishServed ==
  ASSUME Types, NEW c \in InFlight, DishServer(c)
  PROVE  /\ InFlight' = InFlight
         /\ calls[c].op \in DishOps /\ calls[c].answer = "none"
         /\ calls'[c].answer \in {"ok", "refused"}
         /\ \A i \in InFlight : /\ calls'[i].op = calls[i].op /\ calls'[i].live = calls[i].live
                                /\ calls'[i].arg = calls[i].arg
         /\ \A i \in InFlight \ {c} : calls'[i] = calls[i]
         /\ UNCHANGED <<listVars, editing, sheet, formVars, crossed, muddled>>
<1>1. \E kind \in {"ok", "refused"} : \E body : Became(c, With(calls[c], kind, body))
  BY DishShapes DEF DishServer
<1>2. \A i \in InFlight : /\ calls'[i].op = calls[i].op /\ calls'[i].live = calls[i].live
                          /\ calls'[i].arg = calls[i].arg
  BY <1>1 DEF Became, With
<1>3. calls[c].op \in DishOps /\ calls[c].answer = "none"
  BY DEF DishServer, ServeDishes, ServeCreateDish, ServeUpdateDish,
         ServeArchiveDish, ServeUpload, Arrived, DishOps
<1>4. UNCHANGED <<listVars, editing, sheet, formVars, crossed, muddled>>
  BY DEF DishServer, ServeDishes, ServeCreateDish, ServeUpdateDish,
         ServeArchiveDish, ServeUpload, Stores, dishVars
<1> QED  BY <1>1, <1>2, <1>3, <1>4 DEF Became, With

\* Without its form a call is in no form, nor an upload for one.
LEMMA FormLeftOut ==
  ASSUME NEW i, FormLeft(i)
  PROVE  /\ ~ InForm(calls'[i]) /\ ~ Uploads(calls'[i])
         /\ calls'[i].op = calls[i].op /\ calls'[i].answer = calls[i].answer
         /\ calls'[i].body = calls[i].body
<1>1. /\ calls'[i].op = calls[i].op /\ calls'[i].answer = calls[i].answer
      /\ calls'[i].body = calls[i].body
  BY DEF FormLeft
<1>2. CASE calls[i].op = "upload"
  BY <1>1, <1>2 DEF FormLeft, InForm, Uploads
<1>3. CASE calls[i].op = "dishes"
  <2>1. calls'[i].arg.form = FALSE
    BY <1>3 DEF FormLeft
  <2> QED  BY <1>1, <1>3, <2>1 DEF InForm, Uploads
<1>4. CASE calls[i].op \in {"create_dish", "update_dish"}
  <2>1. calls'[i].arg.form = FALSE
    BY <1>4 DEF FormLeft
  <2> QED  BY <1>1, <1>4, <2>1 DEF InForm, Uploads
<1>5. CASE calls[i].op \notin {"upload", "dishes", "create_dish", "update_dish"}
  BY <1>1, <1>5 DEF InForm, Uploads
<1> QED  BY <1>1, <1>2, <1>3, <1>4, <1>5

\* What others do is nothing to the page.
LEMMA DishOthersAsked ==
  ASSUME Types, DishAsked, DishLeft, UNCHANGED <<listVars, sheet, formVars>>,
         Screen' = "dishes" => Screen = "dishes"
  PROVE  DishAsked'
<1>1. \A i \in InFlight : calls[i].op = "dishes" => calls[i].live
  BY CallTypes DEF Shaped, Reads
<1> QED  BY <1>1 DEF DishAsked, DishLeft, DishOps, InForm, Uploads, listVars, formVars

\* The handlers of the page.
LEMMA DishHandlersAsked ==
  ASSUME Types, DishAsked, NEW c \in InFlight, DishHandlers(c), Screen' = Screen
  PROVE  DishAsked'
<1>1. Removed(c) => /\ InFlight' = InFlight \ {c}
                    /\ \A i \in InFlight' : calls'[i] = calls[i]
  BY DEF Removed
<1>2. CASE Listed(c) \/ ListFails(c) \/ SaveFails(c)
  <2>1. Removed(c) /\ calls[c].live /\ calls[c].op \in {"create_dish", "update_dish", "dishes"}
    BY <1>2, DishShapes DEF Listed, ListFails, SaveFails, Good, Throws
  <2>2. UNCHANGED <<sheet, uploading, subject>> /\ form' = form
    BY <1>2 DEF Listed, ListFails, SaveFails
  <2>3. (calls[c].op # "dishes" /\ listing' = listing) \/ listing' = FALSE
    BY <1>2 DEF Listed, ListFails, SaveFails, Throws, listVars
  <2>4. saving' = (saving /\ ~ calls[c].arg.form)
    BY <1>2 DEF Listed, ListFails, SaveFails
  <2>5. /\ InForm(calls[c]) => ~ saving'
        /\ ~ InForm(calls[c]) => saving' = saving
    <3>1. saving \in BOOLEAN /\ calls[c].arg.form \in BOOLEAN
      BY <2>1, CallTypes DEF Types, DishTypeOK, Typed, DishCall
    <3> QED  BY <2>1, <2>4, <3>1 DEF InForm
  <2>6. ~ Uploads(calls[c])
    BY <2>1 DEF Uploads
  <2> HIDE <2>4
  <2> QED  BY <1>1, <2>1, <2>2, <2>3, <2>5, <2>6 DEF DishAsked
<1>3. CASE ArchiveFails(c)
  <2>1. /\ Removed(c) /\ calls[c].op = "archive_dish"
        /\ UNCHANGED <<listing, sheet, form, uploading, saving, subject>>
    BY <1>3, DishShapes DEF ArchiveFails, Throws, formVars
  <2> QED  BY <1>1, <2>1 DEF DishAsked, InForm, Uploads
<1>4. CASE Archived(c) \/ Updated(c)
  <2>1. /\ calls[c].op \in {"archive_dish", "update_dish"} /\ calls[c].live
        /\ listing' = TRUE
        /\ UNCHANGED <<sheet, form, uploading, saving, subject>>
    BY <1>4 DEF Archived, Updated, Good, ShowsLoading, formVars
  <2>2. PICK f : f = IF calls[c].op = "archive_dish" THEN FALSE ELSE calls[c].arg.form
    OBVIOUS
  <2>3. Became(c, ReloadOf(c, f))
    BY <1>4, <2>2, DishShapes DEF Archived, Updated, Good
  <2>4. /\ InFlight' = InFlight /\ calls'[c].op = "dishes" /\ calls'[c].live
        /\ calls'[c].arg.form = f
        /\ \A i \in InFlight \ {c} : calls'[i] = calls[i]
    <3>1. PICK j : j = ReloadOf(c, f)
      OBVIOUS
    <3>2. j.op = "dishes" /\ j.live /\ j.arg.form = f
      BY <3>1 DEF ReloadOf, Call
    <3> QED  BY <2>3, <3>1, <3>2 DEF Became
  <2>5. /\ InForm(calls'[c]) <=> InForm(calls[c])
        /\ ~ Uploads(calls'[c]) /\ ~ Uploads(calls[c])
    BY <2>1, <2>2, <2>4 DEF InForm, Uploads
  <2> QED  BY <2>1, <2>4, <2>5 DEF DishAsked
<1>5. CASE Created(c)
  <2>1. /\ InFlight' = InFlight /\ calls'[c] = ReloadOf(c, FALSE)
        /\ \A i \in InFlight \ {c} : FormLeft(i)
    BY <1>5, FormGoneShapes
  <2>2. sheet' = FALSE /\ uploading' = FALSE /\ saving' = FALSE
    BY <1>5 DEF Created, ClearsForm
  <2>3. calls'[c].op = "dishes" /\ ~ calls'[c].arg.form
    BY <2>1 DEF ReloadOf, Call
  <2>4. \A i \in InFlight' : ~ InForm(calls'[i]) /\ ~ Uploads(calls'[i])
    <3>1. ~ InForm(calls'[c]) /\ ~ Uploads(calls'[c])
      BY <2>3 DEF InForm, Uploads
    <3> QED  BY <2>1, <3>1, FormLeftOut
  <2> QED  BY <2>1, <2>2, <2>3, <2>4 DEF DishAsked
<1>6. CASE Uploaded(c) \/ UploadFails(c)
  <2>1. /\ Removed(c) /\ Uploads(calls[c]) /\ ~ InForm(calls[c]) /\ calls[c].op # "dishes"
        /\ uploading' = FALSE /\ UNCHANGED <<listing, sheet, saving, subject>>
    BY <1>6, DishShapes DEF Uploaded, UploadFails, Good, Throws, InForm, Uploads, listVars
  <2>2. \A i \in InFlight' : ~ Uploads(calls'[i])
    BY <1>1, <2>1 DEF DishAsked
  <2> QED  BY <1>1, <2>1, <2>2 DEF DishAsked
<1> QED  BY <1>2, <1>3, <1>4, <1>5, <1>6 DEF DishHandlers

\* Its clicks.
LEMMA DishClicksAsked ==
  ASSUME Types, DishAsked, DishClicks \/ (\E d \in Cards : Archive(d)), Screen' = Screen
  PROVE  DishAsked'
<1>1. ASSUME NEW j, Sent(j)
      PROVE  \E n \in Ids \ InFlight :
               /\ InFlight' = InFlight \cup {n} /\ calls'[n] = j
               /\ \A i \in InFlight : calls'[i] = calls[i]
  BY <1>1 DEF Sent
<1>2. ASSUME NEW f, SetFilter(f) PROVE DishAsked'
  <2> DEFINE Load(i) == calls[i].op = "dishes" /\ calls[i].arg.effect
  <2>1. PICK n \in Ids :
               /\ InFlight' = {i \in InFlight : ~ Load(i)} \cup {n}
               /\ n \notin {i \in InFlight : ~ Load(i)}
               /\ calls'[n] = Call("dishes", [filter |-> f, effect |-> TRUE, form |-> FALSE])
               /\ \A i \in InFlight : ~ Load(i) => calls'[i] = calls[i]
    BY <1>2, SetFilterShape
  <2>2. calls'[n].op = "dishes" /\ ~ calls'[n].arg.form
    BY <2>1 DEF Call
  <2>3. UNCHANGED <<sheet, form, uploading, saving, subject>>
    BY <1>2 DEF SetFilter, formVars
  <2>4. \A i \in InFlight : Load(i) => ~ InForm(calls[i]) /\ ~ Uploads(calls[i])
    BY CallTypes DEF Typed, DishCall, InForm, Uploads
  <2>5. ~ InForm(calls'[n]) /\ ~ Uploads(calls'[n]) /\ n \in InFlight'
    BY <2>1, <2>2 DEF InForm, Uploads
  <2> HIDE DEF Load
  <2> QED  BY <2>1, <2>2, <2>3, <2>4, <2>5 DEF DishAsked
<1>3. ASSUME NEW d, Archive(d) PROVE DishAsked'
  <2>1. PICK n \in Ids \ InFlight :
               /\ InFlight' = InFlight \cup {n} /\ calls'[n].op = "archive_dish"
               /\ \A i \in InFlight : calls'[i] = calls[i]
    <3>1. PICK j : j = Call("archive_dish", [dish |-> d, filter |-> filter])
      OBVIOUS
    <3>2. Sent(j) /\ j.op = "archive_dish"
      BY <1>3, <3>1, DishShapes DEF Call
    <3> QED  BY <1>1, <3>2
  <2>2. UNCHANGED <<listing, sheet, form, uploading, saving, subject>>
    BY <1>3 DEF Archive, listVars, formVars
  <2>3. ~ InForm(calls'[n]) /\ ~ Uploads(calls'[n])
    BY <2>1 DEF InForm, Uploads
  <2> QED  BY <2>1, <2>2, <2>3 DEF DishAsked
<1>4. ASSUME NEW d, Opens(d) PROVE DishAsked'
  <2>1. /\ UNCHANGED <<calls, listing>> /\ sheet' = TRUE
        /\ sheet => UNCHANGED <<form, uploading, saving, subject>>
        /\ ~ sheet => uploading' = FALSE /\ saving' = FALSE
    BY <1>4 DEF Opens, browser, listVars, formVars
  <2> QED  BY <2>1 DEF DishAsked, InFlight
<1>5. CASE Close
  <2>1. InFlight' = InFlight /\ \A i \in InFlight : FormLeft(i)
    BY <1>5, FormGoneShapes
  <2>2. sheet' = FALSE /\ uploading' = FALSE /\ saving' = FALSE /\ UNCHANGED listing
    BY <1>5 DEF Close, ClearsForm, listVars
  <2>3. \A i \in InFlight' : ~ InForm(calls'[i]) /\ ~ Uploads(calls'[i])
                             /\ calls'[i].op = calls[i].op
    BY <2>1, FormLeftOut
  <2> QED  BY <2>1, <2>2, <2>3 DEF DishAsked
<1>6. ASSUME NEW t, Fill(t) PROVE DishAsked'
  <2>1. /\ UNCHANGED <<calls, listing, sheet, uploading, saving, subject>>
        /\ form' = [form EXCEPT !.text = t]
    BY <1>6 DEF Fill, browser, listVars
  <2>2. form'.picture = form.picture
    BY <2>1 DEF Types, DishTypeOK
  <2> QED  BY <2>1, <2>2 DEF DishAsked, InFlight
<1>7. CASE SaveIncomplete
  BY <1>7 DEF SaveIncomplete, browser, listVars, DishAsked, InFlight
<1>8. CASE Save
  <2>1. ~ saving /\ sheet /\ saving' = TRUE /\ UNCHANGED <<listing, sheet, form, uploading, subject>>
    BY <1>8 DEF Save, listVars
  <2>2. PICK n \in Ids \ InFlight :
               /\ InFlight' = InFlight \cup {n} /\ calls'[n].op \in {"create_dish", "update_dish"}
               /\ calls'[n].live /\ calls'[n].arg.form
               /\ \A i \in InFlight : calls'[i] = calls[i]
    <3>1. PICK j : j = Call(IF editing = NoDish THEN "create_dish" ELSE "update_dish",
                            [dish |-> editing, text |-> form.text, picture |-> form.picture,
                             filter |-> filter, form |-> TRUE])
      OBVIOUS
    <3>2. Sent(j)
      BY <1>8, <3>1, DishShapes
    <3>3. j.op \in {"create_dish", "update_dish"} /\ j.live /\ j.arg.form
      BY <3>1 DEF Call
    <3> QED  BY <1>1, <3>2, <3>3
  <2>3. InForm(calls'[n]) /\ ~ Uploads(calls'[n])
    BY <2>2 DEF InForm, Uploads
  <2> QED  BY <2>1, <2>2, <2>3 DEF DishAsked
<1>9. CASE PickFile
  <2>1. ~ uploading /\ sheet /\ uploading' = TRUE /\ UNCHANGED <<listing, sheet, form, saving, subject>>
    BY <1>9 DEF PickFile, PictureUsable, listVars
  <2>2. PICK n \in Ids \ InFlight :
               /\ InFlight' = InFlight \cup {n} /\ calls'[n].op = "upload" /\ calls'[n].live
               /\ calls'[n].arg.subject = subject /\ calls'[n].arg.picture = form.picture
               /\ \A i \in InFlight : calls'[i] = calls[i]
    <3>1. PICK j : j = Call("upload", [subject |-> subject, picture |-> form.picture])
      OBVIOUS
    <3>2. Sent(j)
      BY <1>9, <3>1, DishShapes
    <3>3. j.op = "upload" /\ j.live /\ j.arg.subject = subject /\ j.arg.picture = form.picture
      BY <3>1 DEF Call
    <3> QED  BY <1>1, <3>2, <3>3
  <2>3. Uploads(calls'[n]) /\ ~ InForm(calls'[n])
    BY <2>2 DEF InForm, Uploads
  <2> QED  BY <2>1, <2>2, <2>3 DEF DishAsked
<1>10. CASE ClearImage
  <2>1. ~ uploading /\ UNCHANGED <<calls, listing, sheet, uploading, saving, subject>>
    BY <1>10 DEF ClearImage, PictureUsable, browser, listVars
  <2> QED  BY <2>1 DEF DishAsked, InFlight
<1> QED  BY <1>2, <1>3, <1>4, <1>5, <1>6, <1>7, <1>8, <1>9, <1>10
            DEF DishClicks, OpenCreate, OpenEdit

\* When the page appears, its list is asked for, and there is no form.
LEMMA DishFresh ==
  ASSUME DishPageAppears,
         \A i \in InFlight' : calls'[i].live =>
           /\ calls'[i].op \notin {"create_dish", "update_dish", "upload"}
           /\ calls'[i].op = "dishes" => ~ calls'[i].arg.form,
         Screen' = "dishes" => \E i \in InFlight' : calls'[i].op = "dishes"
  PROVE  DishAsked'
<1>1. uploading' = FALSE /\ saving' = FALSE
  BY DEF DishPageAppears, ClearsForm
<1>2. \A i \in InFlight' : ~ InForm(calls'[i]) /\ ~ Uploads(calls'[i])
  BY DEF InForm, Uploads
<1> QED  BY <1>1, <1>2 DEF DishAsked

\* Every step keeps it.
LEMMA DishAskedNext ==
  ASSUME Types, SessionWaits, LiveHere, DishAsked, [Next]_vars
  PROVE  DishAsked'
<1>1. Kept(DishOps) => DishLeft
  BY KeptCalls DEF DishLeft
<1>2. CASE SessionStep \/ ChooseStep \/ HistoryStep
  <2>1. Kept(DishOps)
    BY <1>2, SessionKeeps, ChooseKeeps, HistoryKeeps
       DEF SessionOps, DishOps, HistoryOps, ChooseOps
  <2>2. UNCHANGED <<listVars, sheet, formVars>>
    BY <1>2 DEF SessionStep, ChooseStep, HistoryStep, dishVars
  <2>3. Screen' = "dishes" => Screen = "dishes"
    BY <1>2, ScreenStays, ScreenOf DEF ChooseStep, HistoryStep, Tabs
  <2> QED  BY <1>1, <2>1, <2>2, <2>3, DishOthersAsked
<1>3. CASE DishStep
  <2>1. Screen' = Screen
    BY <1>3, ScreenOf DEF DishStep
  <2>2. ASSUME NEW c \in InFlight, DishServer(c) PROVE DishAsked'
    <3>1. UNCHANGED <<listing, sheet, form, uploading, saving, subject>>
      BY <2>2, DishServed DEF listVars, formVars
    <3>2. \A i \in InFlight : (InForm(calls'[i]) <=> InForm(calls[i]))
                             /\ (Uploads(calls'[i]) <=> Uploads(calls[i]))
      BY <2>2, DishServed DEF InForm, Uploads
    <3>3. InFlight' = InFlight /\ \A i \in InFlight : calls'[i].op = calls[i].op
                                                   /\ calls'[i].arg = calls[i].arg
      BY <2>2, DishServed
    <3> QED  BY <2>1, <3>1, <3>2, <3>3 DEF DishAsked
  <2> QED  BY <1>3, <2>1, <2>2, DishHandlersAsked, DishClicksAsked DEF DishStep
<1>4. CASE ShellStep
  <2>1. DishLeft
    BY <1>4, ShellShape DEF DishLeft, Removed, InFlight
  <2>2. UNCHANGED <<listVars, sheet, formVars>> /\ Screen' = Screen
    BY <1>4, ScreenOf DEF ShellStep, dishVars
  <2> QED  BY <2>1, <2>2, DishOthersAsked
<1>5. \A t, j : Asked(t, j) =>
        /\ j.op \in {"dishes", "slot", "history"}
        /\ j.op = "dishes" => ~ j.arg.form
        /\ t = "dishes" => j.op = "dishes"
  BY DEF Asked
<1>6. ASSUME NEW c \in InFlight, Enter(c) PROVE DishAsked'
  <2>1. DishPageAppears /\ session = Unknown /\ ~ appError /\ tab' = tab
    BY <1>6 DEF Enter, SessionLoaded, Appears, Good, SessionWaits
  <2>2. Screen = "loading"
    BY <2>1 DEF Screen
  <2>3. \A i \in InFlight : calls[i].live => calls[i].op \notin DishOps
    BY <2>2, PageOps DEF LiveHere
  <2>4. \A i \in InFlight' : (i \in InFlight /\ calls'[i] = calls[i]) \/ Asked(tab, calls'[i])
    BY <1>6, EnterShape
  <2>5. Screen' = "dishes" => tab = "dishes"
    BY <2>1 DEF Screen
  <2>6. tab = "dishes" => \E n \in InFlight' : Asked(tab, calls'[n])
    BY <1>6, EnterShape DEF Loading
  <2> QED  BY <1>5, <2>1, <2>3, <2>4, <2>5, <2>6, DishFresh DEF DishOps
<1>7. ASSUME NEW t \in Tabs, Navigate(t) PROVE DishAsked'
  <2>1. DishPageAppears /\ tab' = t
    BY <1>7 DEF Navigate, Appears
  <2>2. \A i \in InFlight' :
              \/ i \in InFlight /\ calls[i].op \notin Reads /\ calls'[i] = Dead(calls[i])
              \/ Asked(t, calls'[i])
    BY <1>7, NavigateShape
  <2>3. \A j : Dead(j).op = j.op /\ Dead(j).arg = j.arg /\ Dead(j).live = FALSE
    BY DEF Dead
  <2>4. Screen' = "dishes" => t = "dishes"
    BY <2>1 DEF Screen
  <2>5. t = "dishes" => \E n \in InFlight' : Asked(t, calls'[n])
    BY <1>7, NavigateShape DEF Loading
  <2> QED  BY <1>5, <2>1, <2>2, <2>3, <2>4, <2>5, DishFresh
<1>8. CASE Refresh
  <2>1. DishPageAppears /\ Screen' # "dishes"
    BY <1>8, SessionKinds DEF Refresh, Screen
  <2>2. \A i \in InFlight' :
              \/ i \in InFlight /\ calls[i].op \notin Reads /\ calls'[i] = Dead(calls[i])
              \/ calls'[i].op = "session"
    BY <1>8, RefreshShape
  <2>3. \A j : Dead(j).op = j.op /\ Dead(j).arg = j.arg /\ Dead(j).live = FALSE
    BY DEF Dead
  <2> QED  BY <2>1, <2>2, <2>3, DishFresh
<1>9. CASE Event
  <2>1. Screen' = Screen
    BY <1>9, ScreenOf
  <2>2. UNCHANGED <<listVars, sheet, formVars>> /\ DishLeft
    BY <1>1, <1>9, EventKinds, KeptOthers DEF dishVars
  <2> QED  BY <2>1, <2>2, DishOthersAsked
<1>10. CASE Idle
  <2>1. Screen' = Screen
    BY <1>10, ScreenOf DEF Idle
  <2>2. UNCHANGED <<listVars, sheet, formVars>> /\ DishLeft
    BY <1>1, <1>10, KeptOthers DEF dishVars, Idle
  <2> QED  BY <2>1, <2>2, DishOthersAsked
<1> QED  BY <1>2, <1>3, <1>4, <1>6, <1>7, <1>8, <1>9, <1>10, StepKinds

\* So it is at first.
LEMMA DishAskedFirst == Init => DishAsked
<1> SUFFICES ASSUME Init PROVE DishAsked
  OBVIOUS
<1>1. InFlight = {1} /\ calls[1].op = "session"
  BY DEF Init, InFlight, Call
<1>2. Screen # "dishes"
  BY SessionKinds DEF Init, SessionInit, Screen
<1> QED  BY <1>1, <1>2 DEF Init, DishInit, FreshDishPage, NoForm, DishAsked, InForm, Uploads

-----------------------------------------------------------------------------
(* The list of the dishes.                                                 *)

\* A call that brings a list, at once or in the end; and one that changes dishes,
\* or is the reload after it.
Lists(j)   == j.op \in Writes \cup {"dishes"}
Changes(j) == j.op \in Writes \/ (j.op = "dishes" /\ ~ j.arg.effect)

\* The effect's load is for the filter that is chosen; and as long as nothing has
\* crossed, a write or its reload is alone, all are for that filter, what they
\* bring is what the server has, and so is the list once there is nothing to come.
ListKnown ==
  /\ \A c \in InFlight : calls[c].op = "dishes" /\ calls[c].arg.effect =>
       calls[c].arg.filter = filter
  /\ ~ crossed =>
       /\ \A c \in InFlight : calls[c].op \in Writes => calls[c].live
       /\ \A c, d \in InFlight : Changes(calls[c]) /\ Lists(calls[d]) => c = d
       /\ \A c \in InFlight : Lists(calls[c]) => calls[c].arg.filter = filter
       /\ \A c \in InFlight : calls[c].op = "dishes" /\ calls[c].answer = "ok" =>
            calls[c].body = Listing(filter)
       /\ (/\ ~ listing /\ ~ listError
           /\ \A c \in InFlight : /\ calls[c].op # "dishes"
                                  /\ calls[c].op \in Writes => calls[c].answer # "ok")
          => dishes = Listing(filter)

\* What a list has depends on the server's dishes and on the filter.
LEMMA ListingSame == UNCHANGED <<stored, filter>> => Listing(filter)' = Listing(filter)
BY DEF Listing, Passes, Known

\* Calls that end, and are no write that was made, or go on as they are.
LEMMA ListShrinks ==
  ASSUME Types, ListKnown, UNCHANGED <<stored, filter, dishes>>,
         crossed => crossed', listing => listing', listError => listError',
         \A i \in InFlight' : Lists(calls'[i]) =>
           /\ i \in InFlight
           /\ calls'[i].op = calls[i].op /\ calls'[i].arg.filter = calls[i].arg.filter
           /\ calls[i].op = "dishes" => calls'[i].arg.effect = calls[i].arg.effect
           /\ calls[i].op \in Writes => calls'[i].live = calls[i].live
           /\ calls'[i].answer = calls[i].answer /\ calls'[i].body = calls[i].body,
         \A i \in InFlight :
           (calls[i].op = "dishes" \/ (calls[i].op \in Writes /\ calls[i].answer = "ok")) =>
             crossed' \/ (i \in InFlight' /\ calls'[i].op = calls[i].op
                                          /\ calls'[i].answer = calls[i].answer)
  PROVE  ListKnown'
<1>1. Listing(filter)' = Listing(filter)
  BY ListingSame
<1>2. \A i \in InFlight' : Lists(calls'[i]) =>
        i \in InFlight /\ Lists(calls[i]) /\ (Changes(calls'[i]) => Changes(calls[i]))
  <2> SUFFICES ASSUME NEW i \in InFlight', Lists(calls'[i])
               PROVE  i \in InFlight /\ Lists(calls[i]) /\ (Changes(calls'[i]) => Changes(calls[i]))
    OBVIOUS
  <2>1. /\ i \in InFlight /\ calls'[i].op = calls[i].op
        /\ calls[i].op = "dishes" => calls'[i].arg.effect = calls[i].arg.effect
    OBVIOUS
  <2>2. Lists(calls[i])
    BY <2>1 DEF Lists
  <2>3. Changes(calls'[i]) => Changes(calls[i])
    BY <2>1 DEF Changes
  <2> QED  BY <2>1, <2>2, <2>3
<1>3. \A i \in InFlight' : calls'[i].op \in Writes \cup {"dishes"} => Lists(calls'[i])
  BY DEF Lists
<1>4. ~ crossed' => ~ crossed
  OBVIOUS
<1>5. \A i \in InFlight' : calls'[i].op = "dishes" /\ calls'[i].arg.effect =>
        calls'[i].arg.filter = filter'
  BY <1>3 DEF ListKnown
<1>6. ASSUME ~ crossed'
      PROVE  /\ \A c \in InFlight' : calls'[c].op \in Writes => calls'[c].live
             /\ \A c, d \in InFlight' : Changes(calls'[c]) /\ Lists(calls'[d]) => c = d
             /\ \A c \in InFlight' : Lists(calls'[c]) => calls'[c].arg.filter = filter'
             /\ \A c \in InFlight' : calls'[c].op = "dishes" /\ calls'[c].answer = "ok" =>
                  calls'[c].body = Listing(filter)'
  <2>1. \A c \in InFlight' : calls'[c].op \in Writes => calls'[c].live
    BY <1>3, <1>4, <1>6 DEF ListKnown
  <2>2. \A c, d \in InFlight' : Changes(calls'[c]) /\ Lists(calls'[d]) => c = d
    <3>1. \A c \in InFlight' : Changes(calls'[c]) => Lists(calls'[c])
      BY DEF Changes, Lists
    <3> QED  BY <1>2, <1>4, <1>6, <3>1 DEF ListKnown
  <2>3. \A c \in InFlight' : Lists(calls'[c]) => calls'[c].arg.filter = filter'
    BY <1>2, <1>4, <1>6 DEF ListKnown
  <2>4. \A c \in InFlight' : calls'[c].op = "dishes" /\ calls'[c].answer = "ok" =>
                  calls'[c].body = Listing(filter)'
    BY <1>1, <1>3, <1>4, <1>6 DEF ListKnown
  <2> QED  BY <2>1, <2>2, <2>3, <2>4
<1>7. ASSUME ~ crossed', ~ listing', ~ listError',
             \A c \in InFlight' : /\ calls'[c].op # "dishes"
                                  /\ calls'[c].op \in Writes => calls'[c].answer # "ok"
      PROVE  dishes' = Listing(filter)'
  <2>1. \A c \in InFlight : /\ calls[c].op # "dishes"
                            /\ calls[c].op \in Writes => calls[c].answer # "ok"
    <3>1. ASSUME NEW i \in InFlight,
                 calls[i].op = "dishes" \/ (calls[i].op \in Writes /\ calls[i].answer = "ok")
          PROVE  FALSE
      <4>1. i \in InFlight' /\ calls'[i].op = calls[i].op /\ calls'[i].answer = calls[i].answer
        BY <1>7, <3>1
      <4> QED  BY <1>7, <3>1, <4>1
    <3> QED  BY <3>1
  <2> QED  BY <1>1, <1>4, <1>7, <2>1 DEF ListKnown
<1> QED  BY <1>5, <1>6, <1>7 DEF ListKnown

\* What others do is nothing to the list.
LEMMA ListOthers ==
  ASSUME Types, ListKnown, UNCHANGED <<stored, listVars, crossed>>, DishLeft
  PROVE  ListKnown'
<1>1. \A i \in InFlight : calls[i].op = "dishes" => calls[i].live
  BY CallTypes DEF Shaped, Reads
<1>2. \A i \in InFlight' : Lists(calls'[i]) => i \in InFlight /\ calls'[i] = calls[i]
  BY DEF Lists, Writes, DishLeft, DishOps
<1>3. \A i \in InFlight :
           (calls[i].op = "dishes" \/ (calls[i].op \in Writes /\ calls[i].answer = "ok")) =>
             crossed' \/ (i \in InFlight' /\ calls'[i] = calls[i])
  BY <1>1 DEF ListKnown, Writes, DishLeft, DishOps
<1> QED  BY <1>2, <1>3, ListShrinks DEF listVars

\* The server's steps.
LEMMA ListServed ==
  ASSUME Types, ListKnown, NEW c \in InFlight, DishServer(c)
  PROVE  ListKnown'
<1>1. /\ InFlight' = InFlight
      /\ calls[c].op \in DishOps /\ calls[c].answer = "none"
      /\ calls'[c].answer \in {"ok", "refused"}
      /\ \A i \in InFlight : /\ calls'[i].op = calls[i].op /\ calls'[i].live = calls[i].live
                             /\ calls'[i].arg = calls[i].arg
      /\ \A i \in InFlight \ {c} : calls'[i] = calls[i]
      /\ UNCHANGED <<listVars, crossed>>
  BY DishServed
<1>2. \A i \in InFlight : Changes(calls'[i]) = Changes(calls[i]) /\ Lists(calls'[i]) = Lists(calls[i])
  BY <1>1 DEF Changes, Lists
<1>3. UNCHANGED <<filter, dishes, listing, listError, crossed>>
  BY <1>1 DEF listVars
<1>4. CASE calls[c].op \in Writes
  <2>1. calls'[c].answer = "ok" \/ UNCHANGED stored
    <3>1. ServeCreateDish(c) \/ ServeArchiveDish(c) \/ ServeUpdateDish(c)
      BY <1>4 DEF DishServer, ServeDishes, ServeUpload, Arrived, Writes
    <3>2. \/ Became(c, With(calls[c], "ok", Nothing))
          \/ Became(c, With(calls[c], "refused", Nothing)) /\ UNCHANGED dishVars
      BY <3>1, DishShapes
    <3> QED  BY <3>2 DEF Became, With, dishVars
  <2>2. ~ crossed => \A i \in InFlight : calls[i].op # "dishes"
    <3>1. Changes(calls[c]) /\ calls[c].op # "dishes"
      BY <1>4 DEF Changes, Writes
    <3>2. \A i \in InFlight : calls[i].op = "dishes" => Lists(calls[i])
      BY DEF Lists
    <3> QED  BY <3>1, <3>2 DEF ListKnown
  <2>3. UNCHANGED stored => Listing(filter)' = Listing(filter)
    BY <1>3, ListingSame
  <2>4. \A i \in InFlight' : calls'[i].op = "dishes" /\ calls'[i].arg.effect =>
          calls'[i].arg.filter = filter'
    BY <1>1, <1>3 DEF ListKnown
  <2>5. ASSUME ~ crossed'
        PROVE  /\ \A i \in InFlight' : calls'[i].op \in Writes => calls'[i].live
               /\ \A i, k \in InFlight' : Changes(calls'[i]) /\ Lists(calls'[k]) => i = k
               /\ \A i \in InFlight' : Lists(calls'[i]) => calls'[i].arg.filter = filter'
               /\ \A i \in InFlight' : calls'[i].op # "dishes"
    BY <1>1, <1>2, <1>3, <2>2, <2>5 DEF ListKnown
  <2>6. ASSUME ~ crossed', ~ listing', ~ listError',
               \A i \in InFlight' : /\ calls'[i].op # "dishes"
                                    /\ calls'[i].op \in Writes => calls'[i].answer # "ok"
        PROVE  dishes' = Listing(filter)'
    <3>1. calls'[c].answer # "ok"
      BY <1>1, <1>4, <2>6
    <3>2. \A i \in InFlight : /\ calls[i].op # "dishes"
                              /\ calls[i].op \in Writes => calls[i].answer # "ok"
      BY <1>1, <2>6
    <3> QED  BY <1>3, <2>1, <2>3, <2>6, <3>1, <3>2 DEF ListKnown
  <2> QED  BY <2>4, <2>5, <2>6 DEF ListKnown
<1>5. CASE calls[c].op = "dishes"
  <2>1. UNCHANGED stored
    BY <1>5 DEF DishServer, ServeDishes, ServeCreateDish, ServeUpdateDish,
         ServeArchiveDish, ServeUpload, Arrived, dishVars
  <2>2. calls'[c].body = Listing(calls[c].arg.filter)
    <3>1. ServeDishes(c)
      BY <1>5 DEF DishServer, ServeCreateDish, ServeUpdateDish, ServeArchiveDish, ServeUpload, Arrived
    <3>2. Became(c, With(calls[c], "ok", Listing(calls[c].arg.filter)))
      BY <3>1, DishShapes
    <3> QED  BY <3>2 DEF Became, With
  <2>3. Listing(filter)' = Listing(filter)
    BY <1>3, <2>1, ListingSame
  <2>4. ~ crossed => calls'[c].body = Listing(filter)
    BY <1>5, <2>2 DEF ListKnown, Lists
  <2>5. \A i \in InFlight' : calls'[i].op = "dishes" /\ calls'[i].arg.effect =>
          calls'[i].arg.filter = filter'
    BY <1>1, <1>3 DEF ListKnown
  <2>6. ASSUME ~ crossed'
        PROVE  /\ \A i \in InFlight' : calls'[i].op \in Writes => calls'[i].live
               /\ \A i, k \in InFlight' : Changes(calls'[i]) /\ Lists(calls'[k]) => i = k
               /\ \A i \in InFlight' : Lists(calls'[i]) => calls'[i].arg.filter = filter'
               /\ \A i \in InFlight' : calls'[i].op = "dishes" /\ calls'[i].answer = "ok" =>
                     calls'[i].body = Listing(filter)'
    BY <1>1, <1>2, <1>3, <2>3, <2>4, <2>6 DEF ListKnown
  <2>7. calls'[c].op = "dishes" /\ c \in InFlight'
    BY <1>1, <1>5
  <2> QED  BY <2>5, <2>6, <2>7 DEF ListKnown
<1>6. CASE calls[c].op = "upload"
  <2>1. UNCHANGED stored
    BY <1>6 DEF DishServer, ServeDishes, ServeCreateDish, ServeUpdateDish,
         ServeArchiveDish, ServeUpload, Arrived, dishVars
  <2>2. \A i \in InFlight' : Lists(calls'[i]) => calls'[i] = calls[i]
    BY <1>1, <1>6 DEF Lists, Writes
  <2>3. \A i \in InFlight : calls[i].op \in Writes \cup {"dishes"} => calls'[i] = calls[i]
    BY <1>1, <1>6 DEF Writes
  <2> QED  BY <1>1, <1>3, <2>1, <2>2, <2>3, ListShrinks
<1> QED  BY <1>1, <1>4, <1>5, <1>6 DEF DishOps, Writes

\* Of a call that ends.
LEMMA RemovedLeaves ==
  ASSUME NEW c \in InFlight, Removed(c)
  PROVE  InFlight' = InFlight \ {c} /\ \A i \in InFlight' : calls'[i] = calls[i]
BY DEF Removed

\* One call more, of some that matter to the list.
LEMMA ListSends ==
  ASSUME Types, ListKnown, NEW j, Sent(j), j.op \in Writes, j.arg.filter = filter, j.live,
         j.answer = "none",
         UNCHANGED <<stored, filter, dishes, listing, listError>>,
         ~ crossed' => /\ ~ crossed
                       /\ \A i \in InFlight : ~ Lists(calls[i])
  PROVE  ListKnown'
<1>1. PICK n \in Ids \ InFlight :
               /\ InFlight' = InFlight \cup {n} /\ calls'[n] = j
               /\ \A i \in InFlight : calls'[i] = calls[i]
  BY DEF Sent
<1>2. Listing(filter)' = Listing(filter)
  BY ListingSame
<1>3. j.op # "dishes"
  BY DEF Writes
<1>4. \A i \in InFlight' : calls'[i].op = "dishes" /\ calls'[i].arg.effect =>
        calls'[i].arg.filter = filter'
  BY <1>1, <1>3 DEF ListKnown
<1>5. ASSUME ~ crossed'
      PROVE  /\ \A i \in InFlight' : calls'[i].op \in Writes => calls'[i].live
             /\ \A i, k \in InFlight' : Changes(calls'[i]) /\ Lists(calls'[k]) => i = k
             /\ \A i \in InFlight' : Lists(calls'[i]) => calls'[i].arg.filter = filter'
             /\ \A i \in InFlight' : calls'[i].op = "dishes" /\ calls'[i].answer = "ok" =>
                   calls'[i].body = Listing(filter)'
  <2>1. \A i \in InFlight' : Lists(calls'[i]) => i = n
    BY <1>1, <1>5
  <2>2. \A i \in InFlight' : calls'[i].op \in Writes \/ calls'[i].op = "dishes" => i = n
    BY <2>1 DEF Lists
  <2>3. \A i \in InFlight' : Changes(calls'[i]) => i = n
    BY <2>2 DEF Changes
  <2> QED  BY <1>1, <1>3, <2>1, <2>2, <2>3
<1>6. ASSUME ~ crossed', ~ listing', ~ listError',
             \A i \in InFlight' : /\ calls'[i].op # "dishes"
                                  /\ calls'[i].op \in Writes => calls'[i].answer # "ok"
      PROVE  dishes' = Listing(filter)'
  <2>1. \A i \in InFlight : /\ calls[i].op # "dishes"
                            /\ calls[i].op \in Writes => calls[i].answer # "ok"
    BY <1>1, <1>6
  <2> QED  BY <1>2, <1>6, <2>1 DEF ListKnown
<1> QED  BY <1>4, <1>5, <1>6 DEF ListKnown

\* Where a write ends, its reload begins.
LEMMA ListReloads ==
  ASSUME Types, ListKnown, NEW c \in InFlight, calls[c].op \in Writes,
         calls'[c].op = "dishes", calls'[c].answer = "none", ~ calls'[c].arg.effect,
         calls'[c].arg.filter = calls[c].arg.filter, InFlight' = InFlight,
         \A i \in InFlight \ {c} :
           /\ calls'[i].op = calls[i].op /\ calls'[i].answer = calls[i].answer
           /\ calls'[i].body = calls[i].body
           /\ calls[i].op \in Writes => calls'[i].live = calls[i].live
           /\ Lists(calls[i]) => calls'[i].arg.filter = calls[i].arg.filter
           /\ calls[i].op = "dishes" => calls'[i].arg.effect = calls[i].arg.effect,
         listing', UNCHANGED <<stored, filter, crossed>>
  PROVE  ListKnown'
<1>1. Lists(calls[c]) /\ Changes(calls[c]) /\ calls[c].op # "dishes"
  BY DEF Lists, Changes, Writes
<1>2. Lists(calls'[c]) /\ Changes(calls'[c]) /\ calls'[c].op \notin Writes
  BY DEF Lists, Changes, Writes
<1>3. \A i \in InFlight \ {c} : Lists(calls'[i]) <=> Lists(calls[i])
  BY DEF Lists
<1>4. \A i \in InFlight : calls[i].op = "dishes" \/ calls[i].op \in Writes => Lists(calls[i])
  BY DEF Lists
<1>5. \A i \in InFlight' : calls'[i].op = "dishes" /\ calls'[i].arg.effect =>
        calls'[i].arg.filter = filter'
  BY <1>4 DEF ListKnown
<1>6. ASSUME ~ crossed'
      PROVE  /\ \A i \in InFlight' : calls'[i].op \in Writes => calls'[i].live
             /\ \A i, k \in InFlight' : Changes(calls'[i]) /\ Lists(calls'[k]) => i = k
             /\ \A i \in InFlight' : Lists(calls'[i]) => calls'[i].arg.filter = filter'
             /\ \A i \in InFlight' : calls'[i].op = "dishes" /\ calls'[i].answer = "ok" =>
                   calls'[i].body = Listing(filter)'
  <2>1. \A i \in InFlight : Lists(calls[i]) => i = c
    BY <1>1, <1>6 DEF ListKnown
  <2>2. \A i \in InFlight' : Lists(calls'[i]) => i = c
    BY <1>3, <2>1
  <2>3. \A i \in InFlight' : calls'[i].op \in Writes \/ calls'[i].op = "dishes" => i = c
    BY <2>2 DEF Lists
  <2>4. \A i \in InFlight' : Changes(calls'[i]) => i = c
    BY <2>3 DEF Changes
  <2>5. calls'[c].arg.filter = filter'
    BY <1>1, <1>6 DEF ListKnown
  <2> QED  BY <1>2, <2>2, <2>3, <2>4, <2>5
<1> QED  BY <1>5, <1>6 DEF ListKnown

\* Without its form a call is for the filter it was for.
LEMMA FormFilter ==
  ASSUME NEW i, FormLeft(i)
  PROVE  /\ calls'[i].op = calls[i].op /\ calls'[i].answer = calls[i].answer
         /\ calls'[i].body = calls[i].body
         /\ calls[i].op \in Writes => calls'[i].live = calls[i].live
         /\ Lists(calls[i]) => calls'[i].arg.filter = calls[i].arg.filter
         /\ calls[i].op = "dishes" => calls'[i].arg.effect = calls[i].arg.effect
<1>1. calls[i].op \in Writes => calls[i].op # "upload"
  BY DEF Writes
<1>2. calls[i].op = "dishes" => /\ calls'[i].arg.effect = calls[i].arg.effect
                               /\ calls'[i].arg.filter = calls[i].arg.filter
  BY DEF FormLeft
<1>3. calls[i].op \in {"create_dish", "update_dish"} => calls'[i].arg.filter = calls[i].arg.filter
  BY DEF FormLeft
<1>4. calls[i].op = "archive_dish" => calls'[i] = calls[i]
  BY DEF FormLeft
<1> QED  BY <1>1, <1>2, <1>3, <1>4 DEF FormLeft, Lists, Writes

\* The handlers of the page.
LEMMA ListHandlers ==
  ASSUME Types, ListKnown, NEW c \in InFlight, DishHandlers(c)
  PROVE  ListKnown'
<1>1. CASE Listed(c) \/ ListFails(c)
  <2>1. /\ Removed(c) /\ calls[c].op = "dishes"
        /\ UNCHANGED <<stored, filter, crossed>>
        /\ \/ listError'
           \/ calls[c].answer = "ok" /\ dishes' = calls[c].body
    BY <1>1, DishShapes DEF Listed, ListFails, Good, Throws
  <2>2. InFlight' = InFlight \ {c} /\ \A i \in InFlight' : calls'[i] = calls[i]
    BY <2>1, RemovedLeaves
  <2>3. Listing(filter)' = Listing(filter)
    BY <2>1, ListingSame
  <2>4. \A i \in InFlight' : calls'[i].op = "dishes" /\ calls'[i].arg.effect =>
          calls'[i].arg.filter = filter'
    BY <2>1, <2>2 DEF ListKnown
  <2>5. ASSUME ~ crossed'
        PROVE  /\ \A i \in InFlight' : calls'[i].op \in Writes => calls'[i].live
               /\ \A i, k \in InFlight' : Changes(calls'[i]) /\ Lists(calls'[k]) => i = k
               /\ \A i \in InFlight' : Lists(calls'[i]) => calls'[i].arg.filter = filter'
               /\ \A i \in InFlight' : calls'[i].op = "dishes" /\ calls'[i].answer = "ok" =>
                     calls'[i].body = Listing(filter)'
               /\ listError' \/ dishes' = Listing(filter)'
    BY <2>1, <2>2, <2>3, <2>5 DEF ListKnown
  <2> QED  BY <2>4, <2>5 DEF ListKnown
<1>2. CASE Archived(c) \/ Updated(c)
  <2>1. /\ calls[c].op \in Writes /\ listing' = TRUE
        /\ UNCHANGED <<stored, filter, crossed>>
    BY <1>2 DEF Archived, Updated, Good, ShowsLoading, Writes
  <2>2. PICK f : f = IF calls[c].op = "archive_dish" THEN FALSE ELSE calls[c].arg.form
    OBVIOUS
  <2>3. Became(c, ReloadOf(c, f))
    BY <1>2, <2>2, DishShapes DEF Archived, Updated, Good
  <2>4. /\ InFlight' = InFlight /\ calls'[c].op = "dishes" /\ calls'[c].answer = "none"
        /\ ~ calls'[c].arg.effect /\ calls'[c].arg.filter = calls[c].arg.filter
        /\ \A i \in InFlight \ {c} : calls'[i] = calls[i]
    <3>1. PICK j : j = ReloadOf(c, f)
      OBVIOUS
    <3>2. j.op = "dishes" /\ j.answer = "none" /\ ~ j.arg.effect
          /\ j.arg.filter = calls[c].arg.filter
      BY <3>1 DEF ReloadOf, Call
    <3> QED  BY <2>3, <3>1, <3>2 DEF Became
  <2> QED  BY <2>1, <2>4, ListReloads
<1>3. CASE Created(c)
  <2>1. /\ calls[c].op \in Writes /\ listing' = TRUE
        /\ UNCHANGED <<stored, filter, crossed>>
    BY <1>3 DEF Created, Good, ShowsLoading, Writes
  <2>2. /\ InFlight' = InFlight /\ calls'[c] = ReloadOf(c, FALSE)
        /\ \A i \in InFlight \ {c} : FormLeft(i)
    BY <1>3, FormGoneShapes
  <2>3. /\ calls'[c].op = "dishes" /\ calls'[c].answer = "none"
        /\ ~ calls'[c].arg.effect /\ calls'[c].arg.filter = calls[c].arg.filter
    BY <2>2 DEF ReloadOf, Call
  <2>4. ASSUME NEW i \in InFlight, FormLeft(i)
        PROVE  /\ calls'[i].op = calls[i].op /\ calls'[i].answer = calls[i].answer
               /\ calls'[i].body = calls[i].body
               /\ calls[i].op \in Writes => calls'[i].live = calls[i].live
               /\ Lists(calls[i]) => calls'[i].arg.filter = calls[i].arg.filter
               /\ calls[i].op = "dishes" => calls'[i].arg.effect = calls[i].arg.effect
    BY <2>4, FormFilter
  <2> QED  BY <2>1, <2>2, <2>3, <2>4, ListReloads
<1>4. CASE ArchiveFails(c) \/ SaveFails(c) \/ Uploaded(c) \/ UploadFails(c)
  <2>1. Removed(c) /\ calls[c].op # "dishes"
    BY <1>4, DishShapes DEF ArchiveFails, SaveFails, Uploaded, UploadFails, Good, Throws
  <2>2. UNCHANGED <<stored, filter, dishes>> /\ (listing => listing')
    BY <1>4 DEF ArchiveFails, SaveFails, Uploaded, UploadFails, listVars
  <2>3. listError => listError'
    BY <1>4 DEF ArchiveFails, SaveFails, Uploaded, UploadFails, listVars
  <2>4. (crossed => crossed') /\ (calls[c].op \in Writes /\ calls[c].answer = "ok" => crossed')
    <3>1. CASE ArchiveFails(c)
      BY <3>1 DEF ArchiveFails
    <3>2. CASE SaveFails(c)
      BY <3>2 DEF SaveFails
    <3>3. CASE Uploaded(c) \/ UploadFails(c)
      BY <3>3 DEF Uploaded, UploadFails, Good, Throws, Writes
    <3> QED  BY <1>4, <3>1, <3>2, <3>3
  <2>5. InFlight' = InFlight \ {c} /\ \A i \in InFlight' : calls'[i] = calls[i]
    BY <2>1, RemovedLeaves
  <2> QED  BY <2>1, <2>2, <2>3, <2>4, <2>5, ListShrinks
<1> QED  BY <1>1, <1>2, <1>3, <1>4 DEF DishHandlers

\* What has crossed stays so, and what crosses is what is under way.
LEMMA CrossesUnderWay ==
  ASSUME Types, NEW on \in BOOLEAN, Crosses(on)
  PROVE  ~ crossed' => ~ crossed /\ ~ on
BY DEF Crosses, Types, DishTypeOK

\* The clicks of the page.
LEMMA ListClicks ==
  ASSUME Types, ListKnown, DishClicks \/ \E d \in Cards : Archive(d)
  PROVE  ListKnown'
<1>1. Writing \in BOOLEAN /\ (Writing \/ Awaited("dishes")) \in BOOLEAN
  BY DEF Writing, Awaited
<1>2. ASSUME ~ Writing PROVE \A i \in InFlight : ~ Changes(calls[i])
  BY <1>2 DEF Writing, Reload, Changes
<1>3. ASSUME ~ Writing, ~ Awaited("dishes") PROVE \A i \in InFlight : ~ Lists(calls[i])
  <2>1. \A i \in InFlight : calls[i].op = "dishes" => calls[i].live
    BY CallTypes DEF Shaped, Reads
  <2>2. \A i \in InFlight : calls[i].op # "dishes" /\ calls[i].op \notin Writes
    BY <1>3, <2>1 DEF Writing, Awaited
  <2> QED  BY <2>2 DEF Lists
<1>4. ASSUME NEW f, SetFilter(f) PROVE ListKnown'
  <2> DEFINE Load(i) == calls[i].op = "dishes" /\ calls[i].arg.effect
  <2>1. PICK n \in Ids :
               /\ InFlight' = {i \in InFlight : ~ Load(i)} \cup {n}
               /\ n \notin {i \in InFlight : ~ Load(i)}
               /\ calls'[n] = Call("dishes", [filter |-> f, effect |-> TRUE, form |-> FALSE])
               /\ \A i \in InFlight : ~ Load(i) => calls'[i] = calls[i]
    BY <1>4, SetFilterShape
  <2>2. calls'[n].op = "dishes" /\ calls'[n].arg.effect /\ calls'[n].arg.filter = f
        /\ calls'[n].answer = "none"
    BY <2>1 DEF Call
  <2>3. filter' = f /\ listing' = TRUE
    BY <1>4 DEF SetFilter
  <2>4. ~ crossed' => ~ crossed /\ ~ Writing
    BY <1>1, <1>4, CrossesUnderWay DEF SetFilter
  <2>5. \A i \in InFlight' \ {n} : i \in InFlight /\ calls'[i] = calls[i] /\ ~ Load(i)
    BY <2>1
  <2>6. \A i \in InFlight' : calls'[i].op = "dishes" /\ calls'[i].arg.effect =>
          calls'[i].arg.filter = filter'
    BY <2>2, <2>3, <2>5
  <2>7. ASSUME ~ crossed' PROVE \A i \in InFlight' \ {n} : ~ Lists(calls'[i])
    <3>1. \A i \in InFlight : ~ Load(i) /\ Lists(calls[i]) => Changes(calls[i])
      BY DEF Lists, Changes
    <3> QED  BY <1>2, <2>4, <2>5, <2>7, <3>1
  <2>8. ~ Changes(calls'[n]) /\ calls'[n].op \notin Writes
    BY <2>2 DEF Changes, Writes
  <2>9. ASSUME ~ crossed'
        PROVE  /\ \A i \in InFlight' : calls'[i].op \in Writes => calls'[i].live
               /\ \A i, k \in InFlight' : Changes(calls'[i]) /\ Lists(calls'[k]) => i = k
               /\ \A i \in InFlight' : Lists(calls'[i]) => calls'[i].arg.filter = filter'
               /\ \A i \in InFlight' : calls'[i].op = "dishes" /\ calls'[i].answer = "ok" =>
                     calls'[i].body = Listing(filter)'
    <3>1. \A i \in InFlight' : Changes(calls'[i]) \/ calls'[i].op \in Writes
                               \/ calls'[i].op = "dishes" => Lists(calls'[i])
      BY DEF Changes, Lists
    <3>2. \A i \in InFlight' : Lists(calls'[i]) => i = n
      BY <2>7, <2>9
    <3> QED  BY <2>2, <2>3, <2>8, <3>1, <3>2
  <2> QED  BY <2>3, <2>6, <2>9 DEF ListKnown
<1>5. ASSUME NEW d, Archive(d) PROVE ListKnown'
  <2>1. PICK j : j = Call("archive_dish", [dish |-> d, filter |-> filter])
    OBVIOUS
  <2>2. Sent(j) /\ j.op = "archive_dish" /\ j.live /\ j.answer = "none" /\ j.arg.filter = filter
    BY <1>5, <2>1, DishShapes DEF Call
  <2>3. UNCHANGED <<stored, filter, dishes, listing, listError>>
    BY <1>5 DEF Archive, listVars
  <2>4. ~ crossed' => ~ crossed /\ \A i \in InFlight : ~ Lists(calls[i])
    BY <1>1, <1>3, <1>5, CrossesUnderWay DEF Archive
  <2>5. j.op \in Writes
    BY <2>2 DEF Writes
  <2> QED  BY <2>2, <2>3, <2>4, <2>5, ListSends
<1>6. CASE Save
  <2>1. PICK j : j = Call(IF editing = NoDish THEN "create_dish" ELSE "update_dish",
                            [dish |-> editing, text |-> form.text, picture |-> form.picture,
                             filter |-> filter, form |-> TRUE])
    OBVIOUS
  <2>2. Sent(j) /\ j.op \in Writes /\ j.live /\ j.answer = "none" /\ j.arg.filter = filter
    <3>1. Sent(j)
      BY <1>6, <2>1, DishShapes
    <3>2. j.op \in {"create_dish", "update_dish"} /\ j.live /\ j.answer = "none"
          /\ j.arg.filter = filter
      BY <2>1 DEF Call
    <3> QED  BY <3>1, <3>2 DEF Writes
  <2>3. UNCHANGED <<stored, filter, dishes, listing, listError>>
    BY <1>6 DEF Save, listVars
  <2>4. ~ crossed' => ~ crossed /\ \A i \in InFlight : ~ Lists(calls[i])
    BY <1>1, <1>3, <1>6, CrossesUnderWay DEF Save
  <2> QED  BY <2>2, <2>3, <2>4, ListSends
<1>7. CASE OpenCreate \/ (\E d \in Known : OpenEdit(d)) \/ (\E t \in Texts : Fill(t))
           \/ SaveIncomplete \/ ClearImage
  <2>1. UNCHANGED calls
    BY <1>7, DishShapes
  <2>2. UNCHANGED <<stored, listVars, crossed>>
    BY <1>7 DEF OpenCreate, OpenEdit, Opens, Fill, SaveIncomplete, ClearImage
  <2>3. DishLeft
    BY <2>1 DEF DishLeft, InFlight
  <2> QED  BY <2>2, <2>3, ListOthers
<1>8. CASE PickFile
  <2>1. PICK j : j = Call("upload", [subject |-> subject, picture |-> form.picture])
    OBVIOUS
  <2>2. Sent(j) /\ j.op = "upload"
    BY <1>8, <2>1, DishShapes DEF Call
  <2>3. PICK n \in Ids \ InFlight :
               /\ InFlight' = InFlight \cup {n} /\ calls'[n] = j
               /\ \A i \in InFlight : calls'[i] = calls[i]
    BY <2>2 DEF Sent
  <2>4. ~ Lists(calls'[n])
    BY <2>2, <2>3 DEF Lists, Writes
  <2>5. UNCHANGED <<stored, filter, dishes, listing, listError, crossed>>
    BY <1>8 DEF PickFile, listVars
  <2> QED  BY <2>3, <2>4, <2>5, ListShrinks
<1>9. CASE Close
  <2>1. InFlight' = InFlight /\ \A i \in InFlight : FormLeft(i)
    BY <1>9, FormGoneShapes
  <2>2. UNCHANGED <<stored, filter, dishes, listing, listError, crossed>>
    BY <1>9 DEF Close, listVars
  <2>3. \A i \in InFlight : Lists(calls'[i]) <=> Lists(calls[i])
    BY <2>1, FormFilter DEF Lists
  <2> QED  BY <2>1, <2>2, <2>3, FormFilter, ListShrinks
<1> QED  BY <1>4, <1>5, <1>6, <1>7, <1>8, <1>9 DEF DishClicks

\* When the page appears, it has asked for the list, if anything; who leaves a
\* write behind has it crossed.
LEMMA ListFresh ==
  ASSUME Types, ListKnown, DishPageAppears, UNCHANGED stored,
         \A i \in InFlight' : calls'[i].op = "dishes" =>
            calls'[i].arg.effect /\ calls'[i].arg.filter = All /\ calls'[i].answer = "none",
         \/ crossed' = FALSE /\ \A i \in InFlight' : calls'[i].op \notin Writes
         \/ crossed' = TRUE
  PROVE  ListKnown'
<1>1. filter' = All /\ listing' = TRUE
  BY DEF DishPageAppears
<1>2. \A i \in InFlight' : calls'[i].op = "dishes" /\ calls'[i].arg.effect =>
          calls'[i].arg.filter = filter'
  BY <1>1
<1>3. ASSUME ~ crossed'
      PROVE  /\ \A i \in InFlight' : calls'[i].op \in Writes => calls'[i].live
             /\ \A i, k \in InFlight' : Changes(calls'[i]) /\ Lists(calls'[k]) => i = k
             /\ \A i \in InFlight' : Lists(calls'[i]) => calls'[i].arg.filter = filter'
             /\ \A i \in InFlight' : calls'[i].op = "dishes" /\ calls'[i].answer = "ok" =>
                   calls'[i].body = Listing(filter)'
  <2>1. \A i \in InFlight' : calls'[i].op \notin Writes
    BY <1>3
  <2>2. \A i \in InFlight' : Lists(calls'[i]) => calls'[i].op = "dishes"
    BY <2>1 DEF Lists
  <2>3. \A i \in InFlight' : ~ Changes(calls'[i])
    BY <2>1 DEF Changes
  <2> QED  BY <1>1, <2>1, <2>2, <2>3
<1> QED  BY <1>1, <1>2, <1>3 DEF ListKnown

\* Every step keeps it.
LEMMA ListNext ==
  ASSUME Types, SessionWaits, LiveHere, ListKnown, [Next]_vars
  PROVE  ListKnown'
<1>1. Kept(DishOps) => DishLeft
  BY KeptCalls DEF DishLeft
<1>2. CASE SessionStep \/ ChooseStep \/ HistoryStep
  <2>1. Kept(DishOps)
    BY <1>2, SessionKeeps, ChooseKeeps, HistoryKeeps
       DEF SessionOps, DishOps, HistoryOps, ChooseOps
  <2>2. UNCHANGED <<stored, listVars, crossed>>
    BY <1>2 DEF SessionStep, ChooseStep, HistoryStep, dishVars
  <2> QED  BY <1>1, <2>1, <2>2, ListOthers
<1>3. CASE DishStep
  BY <1>3, ListServed, ListHandlers, ListClicks DEF DishStep
<1>4. CASE ShellStep
  <2>1. DishLeft
    BY <1>4, ShellShape DEF DishLeft, Removed, InFlight
  <2> QED  BY <1>4, <2>1, ListOthers DEF ShellStep, dishVars
<1>5. \A t, j : Asked(t, j) =>
        /\ j.op \notin Writes
        /\ j.op = "dishes" => j.arg.effect /\ j.arg.filter = All /\ j.answer = "none"
  BY DEF Asked, Writes
<1>6. ASSUME NEW c \in InFlight, Enter(c) PROVE ListKnown'
  <2>1. /\ DishPageAppears /\ session = Unknown /\ ~ appError
        /\ UNCHANGED <<stored, crossed>>
    BY <1>6 DEF Enter, SessionLoaded, Appears, Good, SessionWaits
  <2>2. Screen = "loading"
    BY <2>1 DEF Screen
  <2>3. \A i \in InFlight : calls[i].live => calls[i].op \notin DishOps
    BY <2>2, PageOps DEF LiveHere
  <2>4. \A i \in InFlight : calls[i].op # "dishes"
    BY <2>3, CallTypes DEF Shaped, Reads, DishOps
  <2>5. ~ crossed => \A i \in InFlight : calls[i].op \notin Writes
    BY <2>3 DEF ListKnown, Writes, DishOps
  <2>6. \A i \in InFlight' : (i \in InFlight /\ calls'[i] = calls[i]) \/ Asked(tab, calls'[i])
    BY <1>6, EnterShape
  <2>7. crossed \in BOOLEAN
    BY DEF Types, DishTypeOK
  <2> QED  BY <1>5, <2>1, <2>4, <2>5, <2>6, <2>7, ListFresh
<1>7. \A j : Dead(j).op = j.op
  BY DEF Dead
<1>8. ASSUME NEW t \in Tabs, Navigate(t) PROVE ListKnown'
  <2>1. DishPageAppears /\ UNCHANGED stored /\ crossed' = \E c \in InFlight : calls[c].op \in Writes
    BY <1>8 DEF Navigate, Appears
  <2>2. \A i \in InFlight' :
              \/ i \in InFlight /\ calls[i].op \notin Reads /\ calls'[i] = Dead(calls[i])
              \/ Asked(t, calls'[i])
    BY <1>8, NavigateShape
  <2>3. \A i \in InFlight' : calls'[i].op \in Writes => crossed'
    BY <1>5, <1>7, <2>1, <2>2
  <2>4. \A i \in InFlight' : calls'[i].op = "dishes" => Asked(t, calls'[i])
    BY <1>7, <2>2 DEF Reads
  <2> QED  BY <1>5, <2>1, <2>3, <2>4, ListFresh
<1>9. CASE Refresh
  <2>1. DishPageAppears /\ UNCHANGED stored /\ crossed' = \E c \in InFlight : calls[c].op \in Writes
    BY <1>9 DEF Refresh
  <2>2. \A i \in InFlight' :
              \/ i \in InFlight /\ calls[i].op \notin Reads /\ calls'[i] = Dead(calls[i])
              \/ calls'[i].op = "session"
    BY <1>9, RefreshShape
  <2>3. \A i \in InFlight' : calls'[i].op \in Writes => crossed'
    BY <1>7, <2>1, <2>2 DEF Writes
  <2>4. \A i \in InFlight' : calls'[i].op # "dishes"
    BY <1>7, <2>2 DEF Reads
  <2> QED  BY <2>1, <2>3, <2>4, ListFresh
<1>10. CASE Event
  <2>1. UNCHANGED <<stored, listVars, crossed>> /\ DishLeft
    BY <1>1, <1>10, EventKinds, KeptOthers DEF dishVars
  <2> QED  BY <2>1, ListOthers
<1>11. CASE Idle
  <2>1. UNCHANGED <<stored, listVars, crossed>> /\ DishLeft
    BY <1>1, <1>11, KeptOthers DEF dishVars, Idle
  <2> QED  BY <2>1, ListOthers
<1> QED  BY <1>2, <1>3, <1>4, <1>6, <1>8, <1>9, <1>10, <1>11, StepKinds

\* So it is at first.
LEMMA ListFirst == Init => ListKnown
<1> SUFFICES ASSUME Init PROVE ListKnown
  OBVIOUS
<1>1. InFlight = {1} /\ calls[1].op = "session"
  BY DEF Init, InFlight, Call
<1>2. \A c \in InFlight : ~ Lists(calls[c]) /\ ~ Changes(calls[c]) /\ calls[c].op \notin Writes
  BY <1>1 DEF Lists, Changes, Writes
<1>3. listing = TRUE
  BY DEF Init, DishInit, FreshDishPage
<1> QED  BY <1>1, <1>2, <1>3 DEF ListKnown

-----------------------------------------------------------------------------
(* Pictures.                                                               *)

\* Some call j gives dish d picture p, or will: it brings what the server has, or
\* changes it, or it is an upload for the dish.
CallRefers(j, d, p) ==
  \/ /\ j.op = "dishes" /\ j.answer = "ok"
     /\ d \in DOMAIN j.body /\ j.body[d].picture = p
  \/ j.op = "update_dish" /\ j.arg.dish = d /\ j.arg.picture = p
  \/ j.op = "upload" /\ j.answer = "ok" /\ j.arg.subject = d /\ j.body = p

\* The same of the server, of the list and of the form.
PageRefers(d, p) ==
  \/ d \in Known /\ stored[d].picture = p
  \/ d \in DOMAIN dishes /\ dishes[d].picture = p
  \/ sheet /\ subject = d /\ form.picture = p
Refers(d, p) == PageRefers(d, p) \/ \E c \in InFlight : CallRefers(calls[c], d, p)

\* Some call j, or the form, has picture p for a dish that is not there yet.
CallHolds(j, p) ==
  \/ j.op = "create_dish" /\ j.answer # "ok" /\ j.arg.picture = p
  \/ j.op = "upload" /\ j.answer = "ok" /\ j.arg.subject = NoDish /\ j.body = p
FormHolds(p) == sheet /\ subject = NoDish /\ form.picture = p
Creating(j)  == InForm(j) /\ j.op = "create_dish"

Pictures == 1 .. Len(madeFor)
Some     == Nat \ {NoPicture}

\* As long as nothing is muddled, a picture is of one dish, or for one to come, and
\* was made in that one's form; the form that still shows the picture of a dish that
\* it created waits for the answer.
PicturesKnown ==
  ~ muddled =>
    /\ \A d \in DishIds : \A p \in Some : Refers(d, p) => p \in Pictures /\ madeFor[p] \in {d, NoDish}
    /\ \A d, e \in DishIds : \A p \in Some : Refers(d, p) /\ Refers(e, p) => d = e
    /\ \A c \in InFlight : \A p \in Some : CallHolds(calls[c], p) =>
         /\ p \in Pictures /\ madeFor[p] = NoDish
         /\ \A d \in DishIds : ~ Refers(d, p)
    /\ \A c, k \in InFlight : \A p \in Some :
         CallHolds(calls[c], p) /\ CallHolds(calls[k], p) => c = k
    /\ \A p \in Some : FormHolds(p) =>
         /\ p \in Pictures /\ madeFor[p] = NoDish
         /\ \A c \in InFlight : CallHolds(calls[c], p) => Creating(calls[c])
         /\ \A d \in DishIds : Refers(d, p) =>
              \E c \in InFlight : Creating(calls[c]) /\ calls[c].answer = "ok"

\* Less of all that is no harm.
LEMMA PicturesShrink ==
  ASSUME PicturesKnown, UNCHANGED madeFor, muddled => muddled',
         \A d \in DishIds : \A p \in Some : Refers(d, p)' => Refers(d, p),
         \A c \in InFlight' : \A p \in Some :
           CallHolds(calls'[c], p) => c \in InFlight /\ CallHolds(calls[c], p),
         \A p \in Some : FormHolds(p)' => FormHolds(p) /\ sheet',
         sheet' => \A c \in InFlight : Creating(calls[c]) =>
           /\ c \in InFlight' => Creating(calls'[c])
           /\ calls[c].answer = "ok" /\ ~ muddled' => c \in InFlight' /\ calls'[c].answer = "ok"
  PROVE  PicturesKnown'
<1> SUFFICES ASSUME ~ muddled' PROVE PicturesKnown'
  BY DEF PicturesKnown
<1>1. ~ muddled /\ Pictures' = Pictures
  BY DEF Pictures
<1>2. \A d \in DishIds : \A p \in Some : Refers(d, p)' =>
         p \in Pictures' /\ madeFor'[p] \in {d, NoDish}
  BY <1>1 DEF PicturesKnown
<1>3. \A d, e \in DishIds : \A p \in Some : Refers(d, p)' /\ Refers(e, p)' => d = e
  BY <1>1 DEF PicturesKnown
<1>4. \A c \in InFlight' : \A p \in Some : CallHolds(calls'[c], p) =>
         /\ p \in Pictures' /\ madeFor'[p] = NoDish
         /\ \A d \in DishIds : ~ Refers(d, p)'
  BY <1>1 DEF PicturesKnown
<1>5. \A c, k \in InFlight' : \A p \in Some :
         CallHolds(calls'[c], p) /\ CallHolds(calls'[k], p) => c = k
  BY <1>1 DEF PicturesKnown
<1>6. ASSUME NEW p \in Some, FormHolds(p)'
      PROVE  /\ p \in Pictures' /\ madeFor'[p] = NoDish
             /\ \A c \in InFlight' : CallHolds(calls'[c], p) => Creating(calls'[c])
             /\ \A d \in DishIds : Refers(d, p)' =>
                  \E c \in InFlight' : Creating(calls'[c]) /\ calls'[c].answer = "ok"
  <2>1. FormHolds(p) /\ sheet'
    BY <1>6
  <2>2. p \in Pictures' /\ madeFor'[p] = NoDish
    BY <1>1, <2>1 DEF PicturesKnown
  <2>3. \A c \in InFlight' : CallHolds(calls'[c], p) => Creating(calls'[c])
    BY <1>1, <2>1 DEF PicturesKnown
  <2>4. ASSUME NEW d \in DishIds, Refers(d, p)'
        PROVE  \E c \in InFlight' : Creating(calls'[c]) /\ calls'[c].answer = "ok"
    <3>1. PICK c \in InFlight : Creating(calls[c]) /\ calls[c].answer = "ok"
      BY <1>1, <2>1, <2>4 DEF PicturesKnown
    <3> QED  BY <2>1, <3>1
  <2> QED  BY <2>2, <2>3, <2>4
<1> QED  BY <1>2, <1>3, <1>4, <1>5, <1>6 DEF PicturesKnown, Creating, FormHolds

\* A call that is the same as far as pictures go; and one that has none.
Alike(k, j) ==
  /\ k.op = j.op /\ k.answer = j.answer /\ k.body = j.body
  /\ j.op \in {"create_dish", "update_dish"} =>
       k.arg.dish = j.arg.dish /\ k.arg.picture = j.arg.picture
  /\ j.op = "upload" => k.arg = j.arg
Blank(j) ==
  /\ j.op \notin {"create_dish", "update_dish"}
  /\ j.op \in {"dishes", "upload"} => j.answer # "ok"

\* So they give the same pictures, or none.
LEMMA AlikePictures ==
  ASSUME NEW k, NEW j, NEW d, NEW p
  PROVE  /\ Alike(k, j) => /\ CallRefers(k, d, p) => CallRefers(j, d, p)
                           /\ CallHolds(k, p) => CallHolds(j, p)
         /\ Blank(k) => ~ CallRefers(k, d, p) /\ ~ CallHolds(k, p)
<1>1. ASSUME Alike(k, j), CallRefers(k, d, p) PROVE CallRefers(j, d, p)
  BY <1>1 DEF Alike, CallRefers
<1>2. ASSUME Alike(k, j), CallHolds(k, p) PROVE CallHolds(j, p)
  BY <1>2 DEF Alike, CallHolds
<1>3. ASSUME Blank(k) PROVE ~ CallRefers(k, d, p) /\ ~ CallHolds(k, p)
  BY <1>3 DEF Blank, CallRefers, CallHolds
<1> QED  BY <1>1, <1>2, <1>3

\* What a step does to the page, as far as it brings no picture to it.
LEMMA PicturesQuiet ==
  ASSUME PicturesKnown, UNCHANGED madeFor, muddled => muddled',
         \A d \in DishIds : \A p \in Some : PageRefers(d, p)' => Refers(d, p),
         \A p \in Some : FormHolds(p)' => FormHolds(p) /\ sheet',
         \A i \in InFlight' : \/ i \in InFlight /\ Alike(calls'[i], calls[i])
                              \/ Blank(calls'[i]),
         sheet' => \A c \in InFlight : Creating(calls[c]) =>
           /\ c \in InFlight' => Creating(calls'[c])
           /\ calls[c].answer = "ok" /\ ~ muddled' => c \in InFlight' /\ calls'[c].answer = "ok"
  PROVE  PicturesKnown'
<1>1. \A d \in DishIds : \A p \in Some : Refers(d, p)' => Refers(d, p)
  <2> SUFFICES ASSUME NEW d \in DishIds, NEW p \in Some, Refers(d, p)'
               PROVE  Refers(d, p)
    OBVIOUS
  <2>1. PageRefers(d, p)' \/ \E i \in InFlight' : CallRefers(calls'[i], d, p)
    BY DEF Refers, CallRefers
  <2>2. CASE PageRefers(d, p)'
    BY <2>2
  <2>3. CASE \E i \in InFlight' : CallRefers(calls'[i], d, p)
    <3>1. PICK i \in InFlight' : CallRefers(calls'[i], d, p)
      BY <2>3
    <3>2. i \in InFlight /\ Alike(calls'[i], calls[i])
      BY <3>1, AlikePictures
    <3> QED  BY <3>1, <3>2, AlikePictures DEF Refers
  <2> QED  BY <2>1, <2>2, <2>3
<1>2. \A c \in InFlight' : \A p \in Some :
           CallHolds(calls'[c], p) => c \in InFlight /\ CallHolds(calls[c], p)
  BY AlikePictures
<1> QED  BY <1>1, <1>2, PicturesShrink

\* What others do is nothing to the pictures.
LEMMA PicturesOthers ==
  ASSUME PicturesKnown, DishLeft, UNCHANGED <<stored, madeFor, dishes, sheet, form, subject>>,
         muddled => muddled'
  PROVE  PicturesKnown'
<1>1. \A d \in DishIds : \A p \in Some : PageRefers(d, p)' => Refers(d, p)
  BY DEF PageRefers, Refers, Known
<1>2. \A p \in Some : FormHolds(p)' => FormHolds(p) /\ sheet'
  BY DEF FormHolds
<1>3. \A i \in InFlight' : \/ i \in InFlight /\ Alike(calls'[i], calls[i])
                           \/ Blank(calls'[i])
  <2>1. \A j : Alike(j, j)
    BY DEF Alike
  <2>2. \A j : j.op \notin DishOps => Blank(j)
    BY DEF DishOps, Blank
  <2> QED  BY <2>1, <2>2 DEF DishLeft
<1>4. \A i \in InFlight : Creating(calls[i]) => i \in InFlight' /\ calls'[i] = calls[i]
  BY DEF DishLeft, DishOps, Creating, InForm
<1> QED  BY <1>1, <1>2, <1>3, <1>4, PicturesQuiet

\* The server answers c, and brings no picture to anybody who had it not.
LEMMA PicturesAnswered ==
  ASSUME Types, PicturesKnown, NEW c \in InFlight, DishServer(c), UNCHANGED madeFor,
         \A d \in DishIds : \A p \in Some :
           PageRefers(d, p)' \/ CallRefers(calls'[c], d, p) => Refers(d, p),
         \A p \in Some : CallHolds(calls'[c], p) => CallHolds(calls[c], p)
  PROVE  PicturesKnown'
<1>1. /\ InFlight' = InFlight /\ calls[c].answer = "none"
      /\ \A i \in InFlight : /\ calls'[i].op = calls[i].op /\ calls'[i].live = calls[i].live
                             /\ calls'[i].arg = calls[i].arg
      /\ \A i \in InFlight \ {c} : calls'[i] = calls[i]
      /\ UNCHANGED <<sheet, form, subject, muddled>>
  BY DishServed DEF formVars
<1>2. \A d \in DishIds : \A p \in Some : Refers(d, p)' => Refers(d, p)
  <2> SUFFICES ASSUME NEW d \in DishIds, NEW p \in Some, Refers(d, p)'
               PROVE  Refers(d, p)
    OBVIOUS
  <2>1. PageRefers(d, p)' \/ \E i \in InFlight' : CallRefers(calls'[i], d, p)
    BY DEF Refers, CallRefers
  <2>2. ASSUME NEW i \in InFlight \ {c}, CallRefers(calls'[i], d, p) PROVE Refers(d, p)
    BY <1>1, <2>2 DEF Refers
  <2> QED  BY <1>1, <2>1, <2>2
<1>3. \A i \in InFlight' : \A p \in Some :
        CallHolds(calls'[i], p) => i \in InFlight /\ CallHolds(calls[i], p)
  BY <1>1
<1>4. \A p \in Some : FormHolds(p)' => FormHolds(p) /\ sheet'
  BY <1>1 DEF FormHolds
<1>5. \A i \in InFlight : Creating(calls[i]) =>
        /\ Creating(calls'[i])
        /\ calls[i].answer = "ok" => calls'[i].answer = "ok"
  BY <1>1 DEF Creating, InForm
<1> QED  BY <1>1, <1>2, <1>3, <1>4, <1>5, PicturesShrink

\* A dish is created: what the call held, the dish has now.
LEMMA PicturesCreated ==
  ASSUME Types, PicturesKnown, NEW c \in InFlight, ServeCreateDish(c)
  PROVE  PicturesKnown'
<1>0. DishServer(c) /\ calls[c].op = "create_dish"
  BY DEF DishServer, ServeCreateDish, Arrived
<1>1. /\ InFlight' = InFlight /\ calls[c].answer = "none"
      /\ \A i \in InFlight : /\ calls'[i].op = calls[i].op /\ calls'[i].live = calls[i].live
                             /\ calls'[i].arg = calls[i].arg
      /\ \A i \in InFlight \ {c} : calls'[i] = calls[i]
      /\ UNCHANGED <<sheet, form, subject, muddled, dishes>>
  BY <1>0, DishServed DEF formVars, listVars
<1>2. calls'[c].answer = "ok"
  <2>1. Became(c, With(calls[c], "ok", Nothing))
    BY DishShapes
  <2> QED  BY <2>1 DEF Became, With
<1>3. PICK n : n = Len(stored) + 1
  OBVIOUS
<1>4. PICK w : w = Written(c)
  OBVIOUS
<1>5. w.picture = calls[c].arg.picture /\ w \in Dishes
  <2>1. w = [text |-> calls[c].arg.text, picture |-> calls[c].arg.picture, archived |-> FALSE]
    BY <1>4 DEF Written
  <2>2. calls[c].arg.text \in Texts /\ calls[c].arg.picture \in Nat
    BY <1>0, CallTypes DEF Typed, DishCall
  <2> QED  BY <2>1, <2>2 DEF Dishes
<1>6. /\ Known' = Known \cup {n} /\ n \notin Known
      /\ stored'[n] = w /\ \A e \in Known : stored'[e] = stored[e]
  <2>1. Known = 1 .. Len(stored) /\ Len(stored) \in Nat /\ stored \in Seq(Dishes)
    BY StoredTypes DEF Types, DishTypeOK
  <2>2. stored' = Append(stored, w)
    BY <1>4 DEF ServeCreateDish, Stores
  <2>3. /\ Len(stored') = Len(stored) + 1 /\ stored' \in Seq(Dishes)
        /\ stored'[Len(stored) + 1] = w
        /\ \A e \in 1 .. Len(stored) : stored'[e] = stored[e]
    BY <1>5, <2>1, <2>2, AppendProperties
  <2>4. DOMAIN stored' = 1 .. Len(stored')
    BY <2>3, LenProperties
  <2> QED  BY <1>3, <2>1, <2>3, <2>4 DEF Known
<1>7. UNCHANGED madeFor
  BY DEF ServeCreateDish, Stores
<1>8. PICK q : q = calls[c].arg.picture
  OBVIOUS
<1>9. \A d \in DishIds : \A p \in Some : Refers(d, p)' => Refers(d, p) \/ (d = n /\ p = q)
  <2> SUFFICES ASSUME NEW d \in DishIds, NEW p \in Some, Refers(d, p)'
               PROVE  Refers(d, p) \/ (d = n /\ p = q)
    OBVIOUS
  <2>1. PageRefers(d, p)' \/ \E i \in InFlight' : CallRefers(calls'[i], d, p)
    BY DEF Refers, CallRefers
  <2>2. CASE PageRefers(d, p)'
    <3>1. PageRefers(d, p) \/ (d = n /\ p = q)
      BY <1>1, <1>5, <1>6, <1>8, <2>2 DEF PageRefers
    <3> QED  BY <3>1 DEF Refers
  <2>3. ASSUME NEW i \in InFlight \ {c}, CallRefers(calls'[i], d, p) PROVE Refers(d, p)
    BY <1>1, <2>3 DEF Refers
  <2>4. ~ CallRefers(calls'[c], d, p)
    BY <1>0, <1>1 DEF CallRefers
  <2> QED  BY <1>1, <2>1, <2>2, <2>3, <2>4
<1>10. \A i \in InFlight' : \A p \in Some : CallHolds(calls'[i], p) => i # c /\ CallHolds(calls[i], p)
  <2>1. \A p : ~ CallHolds(calls'[c], p)
    BY <1>0, <1>1, <1>2 DEF CallHolds
  <2> QED  BY <1>1, <2>1
<1>11. CallHolds(calls[c], q)
  BY <1>0, <1>1, <1>8 DEF CallHolds
<1>12. \A p : FormHolds(p)' <=> FormHolds(p)
  BY <1>1 DEF FormHolds
<1>13. \A i \in InFlight : Creating(calls'[i]) <=> Creating(calls[i])
  BY <1>1 DEF Creating, InForm
<1> SUFFICES ASSUME ~ muddled' PROVE PicturesKnown'
  BY DEF PicturesKnown
<1>14. ~ muddled /\ Pictures' = Pictures
  BY <1>1, <1>7 DEF Pictures
<1>15. \A d \in DishIds : \A p \in Some : Refers(d, p)' => p \in Pictures' /\ madeFor'[p] \in {d, NoDish}
  BY <1>7, <1>9, <1>11, <1>14 DEF PicturesKnown
<1>16. \A d, e \in DishIds : \A p \in Some : Refers(d, p)' /\ Refers(e, p)' => d = e
  BY <1>9, <1>11, <1>14 DEF PicturesKnown
<1>17. \A i \in InFlight' : \A p \in Some : CallHolds(calls'[i], p) =>
         /\ p \in Pictures' /\ madeFor'[p] = NoDish
         /\ \A d \in DishIds : ~ Refers(d, p)'
  BY <1>1, <1>7, <1>9, <1>10, <1>11, <1>14 DEF PicturesKnown
<1>18. \A i, k \in InFlight' : \A p \in Some :
         CallHolds(calls'[i], p) /\ CallHolds(calls'[k], p) => i = k
  BY <1>1, <1>10, <1>14 DEF PicturesKnown
<1>19. ASSUME NEW p \in Some, FormHolds(p)'
      PROVE  /\ p \in Pictures' /\ madeFor'[p] = NoDish
             /\ \A i \in InFlight' : CallHolds(calls'[i], p) => Creating(calls'[i])
             /\ \A d \in DishIds : Refers(d, p)' =>
                  \E i \in InFlight' : Creating(calls'[i]) /\ calls'[i].answer = "ok"
  <2>1. FormHolds(p)
    BY <1>12, <1>19
  <2>2. p \in Pictures' /\ madeFor'[p] = NoDish
    BY <1>7, <1>14, <2>1 DEF PicturesKnown
  <2>3. \A i \in InFlight' : CallHolds(calls'[i], p) => Creating(calls'[i])
    BY <1>1, <1>10, <1>13, <1>14, <2>1 DEF PicturesKnown
  <2>4. ASSUME NEW d \in DishIds, Refers(d, p)'
        PROVE  \E i \in InFlight' : Creating(calls'[i]) /\ calls'[i].answer = "ok"
    <3>1. CASE Refers(d, p)
      <4>1. PICK i \in InFlight : Creating(calls[i]) /\ calls[i].answer = "ok"
        BY <1>14, <2>1, <3>1 DEF PicturesKnown
      <4> QED  BY <1>1, <1>13, <4>1
    <3>2. CASE p = q
      <4>1. Creating(calls[c])
        BY <1>11, <1>14, <2>1, <3>2 DEF PicturesKnown
      <4> QED  BY <1>1, <1>2, <1>13, <4>1
    <3> QED  BY <1>9, <2>4, <3>1, <3>2
  <2> QED  BY <2>2, <2>3, <2>4
<1> QED  BY <1>15, <1>16, <1>17, <1>18, <1>19 DEF PicturesKnown, Creating, FormHolds

\* A picture is made: nobody has had it before.
LEMMA PicturesMade ==
  ASSUME Types, PicturesKnown, NEW c \in InFlight, ServeUpload(c)
  PROVE  PicturesKnown'
<1>0. DishServer(c) /\ calls[c].op = "upload"
  BY DEF DishServer, ServeUpload, Arrived
<1>1. /\ InFlight' = InFlight /\ calls[c].answer = "none"
      /\ \A i \in InFlight : /\ calls'[i].op = calls[i].op /\ calls'[i].live = calls[i].live
                             /\ calls'[i].arg = calls[i].arg
      /\ \A i \in InFlight \ {c} : calls'[i] = calls[i]
      /\ UNCHANGED <<sheet, form, subject, muddled, dishes>>
  BY <1>0, DishServed DEF formVars, listVars
<1>2. PICK n : n = Len(madeFor) + 1
  OBVIOUS
<1>3. calls'[c].body = n
  <2>1. Became(c, With(calls[c], "ok", n))
    BY <1>2, DishShapes
  <2> QED  BY <2>1 DEF Became, With
<1>4. PICK s : s = calls[c].arg.subject
  OBVIOUS
<1>5. /\ Pictures' = Pictures \cup {n} /\ n \notin Pictures
      /\ madeFor'[n] = s /\ \A p \in Pictures : madeFor'[p] = madeFor[p]
  <2>1. madeFor \in Seq(DishIds \cup {NoDish}) /\ Len(madeFor) \in Nat
    BY LenProperties DEF Types, DishTypeOK
  <2>2. s \in DishIds \cup {NoDish}
    BY <1>0, <1>4, CallTypes, StoredTypes DEF Typed, DishCall, Types
  <2>3. madeFor' = Append(madeFor, s)
    BY <1>4 DEF ServeUpload
  <2>4. /\ Len(madeFor') = Len(madeFor) + 1
        /\ madeFor'[Len(madeFor) + 1] = s
        /\ \A e \in 1 .. Len(madeFor) : madeFor'[e] = madeFor[e]
    BY <2>1, <2>2, <2>3, AppendProperties
  <2> QED  BY <1>2, <2>1, <2>4 DEF Pictures
<1>6. UNCHANGED stored
  BY DEF ServeUpload
<1>7. \A d \in DishIds : \A p \in Some : Refers(d, p)' => Refers(d, p) \/ (d = s /\ p = n)
  <2> SUFFICES ASSUME NEW d \in DishIds, NEW p \in Some, Refers(d, p)'
               PROVE  Refers(d, p) \/ (d = s /\ p = n)
    OBVIOUS
  <2>1. PageRefers(d, p)' \/ \E i \in InFlight' : CallRefers(calls'[i], d, p)
    BY DEF Refers, CallRefers
  <2>2. CASE PageRefers(d, p)'
    <3>1. PageRefers(d, p)
      BY <1>1, <1>6, <2>2 DEF PageRefers, Known
    <3> QED  BY <3>1 DEF Refers
  <2>3. ASSUME NEW i \in InFlight \ {c}, CallRefers(calls'[i], d, p) PROVE Refers(d, p)
    BY <1>1, <2>3 DEF Refers
  <2>4. CallRefers(calls'[c], d, p) => d = s /\ p = n
    BY <1>0, <1>1, <1>3, <1>4 DEF CallRefers
  <2> QED  BY <1>1, <2>1, <2>2, <2>3, <2>4
<1>8. \A i \in InFlight' : \A p \in Some : CallHolds(calls'[i], p) =>
        (i # c /\ CallHolds(calls[i], p)) \/ (i = c /\ p = n /\ s = NoDish)
  <2>1. \A p : CallHolds(calls'[c], p) => p = n /\ s = NoDish
    BY <1>0, <1>1, <1>3, <1>4 DEF CallHolds
  <2> QED  BY <1>1, <2>1
<1>9. \A p : FormHolds(p)' <=> FormHolds(p)
  BY <1>1 DEF FormHolds
<1>10. \A i \in InFlight : Creating(calls[i]) => i # c /\ calls'[i] = calls[i]
  BY <1>0, <1>1 DEF Creating
<1> SUFFICES ASSUME ~ muddled' PROVE PicturesKnown'
  BY DEF PicturesKnown
<1>11. ~ muddled
  BY <1>1
<1>12. /\ \A d \in DishIds : ~ Refers(d, n) \/ n \notin Some
       /\ \A i \in InFlight : ~ CallHolds(calls[i], n) \/ n \notin Some
       /\ ~ FormHolds(n) \/ n \notin Some
  BY <1>5, <1>11 DEF PicturesKnown
<1>13. \A d \in DishIds : \A p \in Some : Refers(d, p)' => p \in Pictures' /\ madeFor'[p] \in {d, NoDish}
  <2> SUFFICES ASSUME NEW d \in DishIds, NEW p \in Some, Refers(d, p)'
               PROVE  p \in Pictures' /\ madeFor'[p] \in {d, NoDish}
    OBVIOUS
  <2>1. CASE Refers(d, p)
    <3>1. p \in Pictures /\ madeFor[p] \in {d, NoDish}
      BY <1>11, <2>1 DEF PicturesKnown
    <3> QED  BY <1>5, <3>1
  <2> QED  BY <1>5, <1>7, <2>1
<1>14. \A d, e \in DishIds : \A p \in Some : Refers(d, p)' /\ Refers(e, p)' => d = e
  BY <1>7, <1>11, <1>12 DEF PicturesKnown
<1>15. \A i \in InFlight' : \A p \in Some : CallHolds(calls'[i], p) =>
         /\ p \in Pictures' /\ madeFor'[p] = NoDish
         /\ \A d \in DishIds : ~ Refers(d, p)'
  <2> SUFFICES ASSUME NEW i \in InFlight', NEW p \in Some, CallHolds(calls'[i], p)
               PROVE  /\ p \in Pictures' /\ madeFor'[p] = NoDish
                      /\ \A d \in DishIds : ~ Refers(d, p)'
    OBVIOUS
  <2>1. CASE i # c /\ CallHolds(calls[i], p)
    <3>1. p \in Pictures /\ madeFor[p] = NoDish /\ \A d \in DishIds : ~ Refers(d, p)
      BY <1>1, <1>11, <2>1 DEF PicturesKnown
    <3> QED  BY <1>5, <1>7, <3>1
  <2>2. CASE p = n /\ s = NoDish
    <3>1. NoDish \notin DishIds
      BY DEF NoDish, DishIds
    <3> QED  BY <1>5, <1>7, <1>12, <2>2, <3>1
  <2> QED  BY <1>8, <2>1, <2>2
<1>16. \A i, k \in InFlight' : \A p \in Some :
         CallHolds(calls'[i], p) /\ CallHolds(calls'[k], p) => i = k
  BY <1>1, <1>8, <1>11, <1>12 DEF PicturesKnown
<1>17. ASSUME NEW p \in Some, FormHolds(p)'
      PROVE  /\ p \in Pictures' /\ madeFor'[p] = NoDish
             /\ \A i \in InFlight' : CallHolds(calls'[i], p) => Creating(calls'[i])
             /\ \A d \in DishIds : Refers(d, p)' =>
                  \E i \in InFlight' : Creating(calls'[i]) /\ calls'[i].answer = "ok"
  <2>1. FormHolds(p) /\ p # n
    BY <1>9, <1>12, <1>17
  <2>2. p \in Pictures /\ madeFor[p] = NoDish
    BY <1>11, <2>1 DEF PicturesKnown
  <2>3. \A i \in InFlight' : CallHolds(calls'[i], p) => Creating(calls'[i])
    BY <1>1, <1>8, <1>10, <1>11, <2>1 DEF PicturesKnown
  <2>4. ASSUME NEW d \in DishIds, Refers(d, p)'
        PROVE  \E i \in InFlight' : Creating(calls'[i]) /\ calls'[i].answer = "ok"
    <3>1. PICK i \in InFlight : Creating(calls[i]) /\ calls[i].answer = "ok"
      BY <1>7, <1>11, <2>1, <2>4 DEF PicturesKnown
    <3> QED  BY <1>1, <1>10, <3>1
  <2> QED  BY <1>5, <2>2, <2>3, <2>4
<1> QED  BY <1>13, <1>14, <1>15, <1>16, <1>17 DEF PicturesKnown, Creating, FormHolds

\* The server's steps.
LEMMA PicturesServed ==
  ASSUME Types, PicturesKnown, NEW c \in InFlight, DishServer(c)
  PROVE  PicturesKnown'
<1>0. UNCHANGED <<dishes, sheet, form, subject>> /\ calls[c].answer = "none"
      /\ calls'[c].op = calls[c].op /\ calls'[c].arg = calls[c].arg
  BY DishServed DEF listVars, formVars
<1>1. CASE ServeDishes(c)
  <2>1. UNCHANGED <<stored, madeFor>> /\ calls[c].op = "dishes"
    BY <1>1 DEF ServeDishes, dishVars, Arrived
  <2>2. PICK body : body = Listing(calls[c].arg.filter)
    OBVIOUS
  <2>3. calls'[c].body = body
    <3>1. Became(c, With(calls[c], "ok", body))
      BY <1>1, <2>2, DishShapes
    <3> QED  BY <3>1 DEF Became, With
  <2>4. \A d \in DOMAIN body : d \in Known /\ body[d].picture = stored[d].picture
    BY <2>2 DEF Listing
  <2>5. ASSUME NEW d \in DishIds, NEW p \in Some,
               PageRefers(d, p)' \/ CallRefers(calls'[c], d, p)
        PROVE  Refers(d, p)
    <3>1. CASE PageRefers(d, p)'
      BY <1>0, <2>1, <3>1 DEF PageRefers, Refers, Known
    <3>2. CASE CallRefers(calls'[c], d, p)
      <4>1. d \in DOMAIN body /\ body[d].picture = p
        BY <1>0, <2>1, <2>3, <3>2 DEF CallRefers
      <4> QED  BY <2>4, <4>1 DEF PageRefers, Refers
    <3> QED  BY <2>5, <3>1, <3>2
  <2>6. \A p \in Some : ~ CallHolds(calls'[c], p)
    BY <1>0, <2>1 DEF CallHolds
  <2> QED  BY <2>1, <2>5, <2>6, PicturesAnswered
<1>2. CASE ServeUpdateDish(c)
  <2>1. calls[c].op = "update_dish"
    BY <1>2 DEF ServeUpdateDish, Arrived
  <2>2. PICK e : e = calls[c].arg.dish
    OBVIOUS
  <2>3. e \in Known
    BY <2>1, <2>2, CallTypes DEF Typed, DishCall
  <2>4. /\ UNCHANGED madeFor
        /\ UNCHANGED stored \/ stored' = [stored EXCEPT ![e] = Written(c)]
    BY <1>2, <2>2 DEF ServeUpdateDish, dishVars, Stores
  <2>5. Written(c).picture = calls[c].arg.picture
    BY DEF Written
  <2>6. /\ Known' = Known
        /\ \A d \in Known : stored'[d].picture = stored[d].picture
                              \/ (d = e /\ stored'[d].picture = calls[c].arg.picture)
    <3>1. CASE UNCHANGED stored
      BY <3>1 DEF Known
    <3>2. ASSUME NEW w, w = Written(c), stored' = [stored EXCEPT ![e] = w]
          PROVE  /\ Known' = Known
                 /\ \A d \in Known : stored'[d].picture = stored[d].picture
                              \/ (d = e /\ stored'[d].picture = calls[c].arg.picture)
      BY <2>3, <2>5, <3>2 DEF Known
    <3> QED  BY <2>4, <3>1, <3>2
  <2>7. ASSUME NEW d \in DishIds, NEW p \in Some,
               PageRefers(d, p)' \/ CallRefers(calls'[c], d, p)
        PROVE  Refers(d, p)
    <3>1. CASE PageRefers(d, p)'
      <4>1. PageRefers(d, p) \/ (d = e /\ p = calls[c].arg.picture)
        BY <1>0, <2>6, <3>1 DEF PageRefers
      <4>2. d = e /\ p = calls[c].arg.picture => CallRefers(calls[c], d, p)
        BY <2>1, <2>2 DEF CallRefers
      <4> QED  BY <4>1, <4>2 DEF Refers
    <3>2. CASE CallRefers(calls'[c], d, p)
      <4>1. CallRefers(calls[c], d, p)
        BY <1>0, <2>1, <3>2 DEF CallRefers
      <4> QED  BY <4>1 DEF Refers
    <3> QED  BY <2>7, <3>1, <3>2
  <2>8. \A p \in Some : ~ CallHolds(calls'[c], p)
    BY <1>0, <2>1 DEF CallHolds
  <2> QED  BY <2>4, <2>7, <2>8, PicturesAnswered
<1>3. CASE ServeArchiveDish(c)
  <2>1. calls[c].op = "archive_dish"
    BY <1>3 DEF ServeArchiveDish, Arrived
  <2>2. PICK e : e = calls[c].arg.dish
    OBVIOUS
  <2>3. e \in Known
    BY <2>1, <2>2, CallTypes DEF Typed, DishCall
  <2>4. UNCHANGED madeFor /\ stored' = [stored EXCEPT ![e].archived = TRUE]
    BY <1>3, <2>2 DEF ServeArchiveDish, Stores
  <2>5. Known' = Known /\ \A d \in Known : stored'[d].picture = stored[d].picture
    <3>1. \A d \in Known : stored[d] \in Dishes
      BY StoredTypes DEF Types
    <3>2. Known' = Known /\ (\A d \in Known \ {e} : stored'[d] = stored[d])
          /\ stored'[e] = [stored[e] EXCEPT !.archived = TRUE]
      BY <2>3, <2>4 DEF Known
    <3>3. PICK w : w = stored[e]
      OBVIOUS
    <3>4. [w EXCEPT !.archived = TRUE].picture = w.picture
      BY <2>3, <3>1, <3>3 DEF Dishes
    <3> QED  BY <3>2, <3>3, <3>4
  <2>6. ASSUME NEW d \in DishIds, NEW p \in Some,
               PageRefers(d, p)' \/ CallRefers(calls'[c], d, p)
        PROVE  Refers(d, p)
    <3>1. ~ CallRefers(calls'[c], d, p)
      BY <1>0, <2>1 DEF CallRefers
    <3> QED  BY <1>0, <2>5, <2>6, <3>1 DEF PageRefers, Refers
  <2>7. \A p \in Some : ~ CallHolds(calls'[c], p)
    BY <1>0, <2>1 DEF CallHolds
  <2> QED  BY <2>4, <2>6, <2>7, PicturesAnswered
<1> QED  BY <1>1, <1>2, <1>3, PicturesCreated, PicturesMade DEF DishServer

\* A call that ends takes its pictures with it.
LEMMA PicturesEnd ==
  ASSUME PicturesKnown, NEW c \in InFlight, Removed(c),
         calls[c].answer = "ok" /\ Creating(calls[c]) => muddled'
  PROVE  /\ \A i \in InFlight' : i \in InFlight /\ Alike(calls'[i], calls[i])
         /\ \A i \in InFlight : Creating(calls[i]) =>
              /\ i \in InFlight' => Creating(calls'[i])
              /\ calls[i].answer = "ok" /\ ~ muddled' =>
                   i \in InFlight' /\ calls'[i].answer = "ok"
<1>1. InFlight' = InFlight \ {c} /\ \A i \in InFlight' : calls'[i] = calls[i]
  BY RemovedLeaves
<1>2. \A j : Alike(j, j)
  BY DEF Alike
<1> QED  BY <1>1, <1>2

\* Where the form is gone, the calls have the pictures they had.
LEMMA PicturesFormLeft ==
  ASSUME Types, NEW i \in InFlight, FormLeft(i)
  PROVE  Alike(calls'[i], calls[i])
BY DEF FormLeft, Alike

\* The picture comes to the form that it was made in.
LEMMA PicturesUploaded ==
  ASSUME Types, DishAsked, PicturesKnown, NEW c \in InFlight, Uploaded(c)
  PROVE  PicturesKnown'
<1>1. Removed(c) /\ Uploads(calls[c]) /\ calls[c].answer = "ok"
  BY DishShapes DEF Uploaded, Good, Uploads
<1>2. form' = [form EXCEPT !.picture = calls[c].body]
      /\ UNCHANGED <<stored, madeFor, dishes, sheet, subject, muddled>>
  BY DEF Uploaded, listVars
<1>3. form'.picture = calls[c].body
  BY <1>2 DEF Types, DishTypeOK
<1>4. calls[c].arg.subject = subject /\ calls[c].op = "upload"
  BY <1>1 DEF DishAsked, Uploads
<1>5. InFlight' = InFlight \ {c} /\ \A i \in InFlight' : calls'[i] = calls[i]
  BY <1>1, RemovedLeaves
<1>6. \A d \in DishIds : \A p \in Some : Refers(d, p)' => Refers(d, p)
  <2> SUFFICES ASSUME NEW d \in DishIds, NEW p \in Some, Refers(d, p)'
               PROVE  Refers(d, p)
    OBVIOUS
  <2>1. PageRefers(d, p)' \/ \E i \in InFlight' : CallRefers(calls'[i], d, p)
    BY DEF Refers, CallRefers
  <2>2. CASE PageRefers(d, p)'
    <3>1. PageRefers(d, p) \/ (d = subject /\ p = calls[c].body)
      BY <1>2, <1>3, <2>2 DEF PageRefers, Known
    <3>2. d = subject /\ p = calls[c].body => CallRefers(calls[c], d, p)
      BY <1>1, <1>4 DEF CallRefers
    <3> QED  BY <3>1, <3>2 DEF Refers
  <2>3. CASE \E i \in InFlight' : CallRefers(calls'[i], d, p)
    BY <1>5, <2>3 DEF Refers
  <2> QED  BY <2>1, <2>2, <2>3
<1>7. \A i \in InFlight' : \A p : CallHolds(calls'[i], p) =>
        i \in InFlight \ {c} /\ CallHolds(calls[i], p)
  BY <1>5
<1>8. \A p : FormHolds(p)' => CallHolds(calls[c], p)
  BY <1>1, <1>2, <1>3, <1>4 DEF FormHolds, CallHolds
<1> SUFFICES ASSUME ~ muddled' PROVE PicturesKnown'
  BY DEF PicturesKnown
<1>9. ~ muddled /\ Pictures' = Pictures
  BY <1>2 DEF Pictures
<1>10. \A d \in DishIds : \A p \in Some : Refers(d, p)' =>
          p \in Pictures' /\ madeFor'[p] \in {d, NoDish}
  BY <1>2, <1>6, <1>9 DEF PicturesKnown
<1>11. \A d, e \in DishIds : \A p \in Some : Refers(d, p)' /\ Refers(e, p)' => d = e
  BY <1>6, <1>9 DEF PicturesKnown
<1>12. \A i \in InFlight' : \A p \in Some : CallHolds(calls'[i], p) =>
         /\ p \in Pictures' /\ madeFor'[p] = NoDish
         /\ \A d \in DishIds : ~ Refers(d, p)'
  BY <1>2, <1>6, <1>7, <1>9 DEF PicturesKnown
<1>13. \A i, k \in InFlight' : \A p \in Some :
         CallHolds(calls'[i], p) /\ CallHolds(calls'[k], p) => i = k
  BY <1>7, <1>9 DEF PicturesKnown
<1>14. ASSUME NEW p \in Some, FormHolds(p)'
      PROVE  /\ p \in Pictures' /\ madeFor'[p] = NoDish
             /\ \A i \in InFlight' : ~ CallHolds(calls'[i], p)
             /\ \A d \in DishIds : ~ Refers(d, p)'
  BY <1>2, <1>6, <1>7, <1>8, <1>9, <1>14 DEF PicturesKnown
<1> QED  BY <1>10, <1>11, <1>12, <1>13, <1>14 DEF PicturesKnown, FormHolds

\* The handlers of the page.
LEMMA PicturesHandlers ==
  ASSUME Types, DishAsked, PicturesKnown, NEW c \in InFlight, DishHandlers(c)
  PROVE  PicturesKnown'
<1>1. CASE Listed(c) \/ ListFails(c)
  <2>1. /\ Removed(c) /\ calls[c].op = "dishes"
        /\ UNCHANGED <<stored, madeFor, sheet, form, subject, muddled>>
    BY <1>1, DishShapes DEF Listed, ListFails, Good, Throws
  <2>2. UNCHANGED dishes \/ (calls[c].answer = "ok" /\ dishes' = calls[c].body)
    BY <1>1 DEF Listed, ListFails, Good
  <2>3. ASSUME NEW d \in DishIds, NEW p \in Some, PageRefers(d, p)'
        PROVE  Refers(d, p)
    <3>1. CASE UNCHANGED dishes
      BY <2>1, <2>3, <3>1 DEF PageRefers, Refers, Known
    <3>2. CASE calls[c].answer = "ok" /\ dishes' = calls[c].body
      <4>1. PageRefers(d, p) \/ (d \in DOMAIN dishes' /\ dishes'[d].picture = p)
        BY <2>1, <2>3 DEF PageRefers, Known
      <4>2. d \in DOMAIN dishes' /\ dishes'[d].picture = p => CallRefers(calls[c], d, p)
        BY <2>1, <3>2 DEF CallRefers
      <4> QED  BY <4>1, <4>2 DEF Refers
    <3> QED  BY <2>2, <3>1, <3>2
  <2>4. \A p \in Some : FormHolds(p)' => FormHolds(p) /\ sheet'
    BY <2>1 DEF FormHolds
  <2>5. ~ Creating(calls[c])
    BY <2>1 DEF Creating
  <2> QED  BY <2>1, <2>3, <2>4, <2>5, PicturesEnd, PicturesQuiet
<1>2. CASE ArchiveFails(c) \/ SaveFails(c)
  <2>1. Removed(c) /\ UNCHANGED <<stored, madeFor, dishes, sheet, form, subject>>
    BY <1>2, DishShapes DEF ArchiveFails, SaveFails, listVars, formVars
  <2>2. (muddled => muddled') /\ (calls[c].answer = "ok" /\ Creating(calls[c]) => muddled')
    <3>1. CASE ArchiveFails(c)
      BY <3>1 DEF ArchiveFails, Throws, Creating
    <3>2. CASE SaveFails(c)
      BY <3>2 DEF SaveFails
    <3> QED  BY <1>2, <3>1, <3>2
  <2>3. \A d \in DishIds : \A p \in Some : PageRefers(d, p)' => Refers(d, p)
    BY <2>1 DEF PageRefers, Refers, Known
  <2>4. \A p \in Some : FormHolds(p)' => FormHolds(p) /\ sheet'
    BY <2>1 DEF FormHolds
  <2> QED  BY <2>1, <2>2, <2>3, <2>4, PicturesEnd, PicturesQuiet
<1>3. CASE Archived(c) \/ Updated(c)
  <2>1. calls[c].op \in {"archive_dish", "update_dish"}
        /\ UNCHANGED <<stored, madeFor, dishes, sheet, form, subject, muddled>>
    BY <1>3 DEF Archived, Updated, Good, ShowsLoading, formVars
  <2>2. PICK f : f = IF calls[c].op = "archive_dish" THEN FALSE ELSE calls[c].arg.form
    OBVIOUS
  <2>3. Became(c, ReloadOf(c, f))
    BY <1>3, <2>2, DishShapes DEF Archived, Updated, Good
  <2>4. /\ InFlight' = InFlight /\ Blank(calls'[c])
        /\ \A i \in InFlight \ {c} : calls'[i] = calls[i]
    <3>1. PICK j : j = ReloadOf(c, f)
      OBVIOUS
    <3>2. j.op = "dishes" /\ j.answer = "none"
      BY <3>1 DEF ReloadOf, Call
    <3> QED  BY <2>3, <3>1, <3>2 DEF Became, Blank
  <2>5. \A d \in DishIds : \A p \in Some : PageRefers(d, p)' => Refers(d, p)
    BY <2>1 DEF PageRefers, Refers, Known
  <2>6. \A p \in Some : FormHolds(p)' => FormHolds(p) /\ sheet'
    BY <2>1 DEF FormHolds
  <2>7. ~ Creating(calls[c]) /\ \A j : Alike(j, j)
    BY <2>1 DEF Creating, Alike
  <2> QED  BY <2>1, <2>4, <2>5, <2>6, <2>7, PicturesQuiet
<1>4. CASE Created(c)
  <2>1. /\ InFlight' = InFlight /\ calls'[c] = ReloadOf(c, FALSE)
        /\ \A i \in InFlight \ {c} : FormLeft(i)
    BY <1>4, FormGoneShapes
  <2>2. sheet' = FALSE /\ UNCHANGED <<stored, madeFor, dishes, muddled>>
    BY <1>4 DEF Created, ShowsLoading
  <2>3. Blank(calls'[c])
    BY <2>1 DEF ReloadOf, Call, Blank
  <2>4. \A d \in DishIds : \A p \in Some : PageRefers(d, p)' => Refers(d, p)
    BY <2>2 DEF PageRefers, Refers, Known
  <2>5. \A p \in Some : ~ FormHolds(p)'
    BY <2>2 DEF FormHolds
  <2> QED  BY <2>1, <2>2, <2>3, <2>4, <2>5, PicturesFormLeft, PicturesQuiet
<1>5. CASE UploadFails(c)
  <2>1. Removed(c) /\ Uploads(calls[c])
    BY <1>5, DishShapes DEF UploadFails, Throws, Uploads
  <2>2. form' = [form EXCEPT !.picture = calls[c].arg.picture]
        /\ UNCHANGED <<stored, madeFor, dishes, sheet, subject, muddled>>
    BY <1>5 DEF UploadFails, listVars
  <2>3. calls[c].arg.picture = form.picture
    BY <2>1 DEF DishAsked
  <2>4. form'.picture = form.picture
    BY <2>2, <2>3 DEF Types, DishTypeOK
  <2>5. \A d \in DishIds : \A p \in Some : PageRefers(d, p)' => Refers(d, p)
    BY <2>2, <2>4 DEF PageRefers, Refers, Known
  <2>6. \A p \in Some : FormHolds(p)' => FormHolds(p) /\ sheet'
    BY <2>2, <2>4 DEF FormHolds
  <2>7. ~ Creating(calls[c])
    BY <2>1 DEF Creating, Uploads
  <2> QED  BY <2>1, <2>2, <2>5, <2>6, <2>7, PicturesEnd, PicturesQuiet
<1>6. CASE Uploaded(c)
  BY <1>6, PicturesUploaded
<1> QED  BY <1>1, <1>2, <1>3, <1>4, <1>5, <1>6 DEF DishHandlers

\* A call is sent that brings no picture to anybody who had it not.
LEMMA PicturesSent ==
  ASSUME PicturesKnown, UNCHANGED <<stored, madeFor, dishes, sheet, form, subject>>,
         NEW j, Sent(j), muddled => muddled',
         \A d \in DishIds : \A p \in Some : ~ muddled' /\ CallRefers(j, d, p) => Refers(d, p),
         \A p \in Some : ~ CallHolds(j, p)
  PROVE  PicturesKnown'
<1> SUFFICES ASSUME ~ muddled' PROVE PicturesKnown'
  BY DEF PicturesKnown
<1>1. PICK n \in Ids \ InFlight :
               /\ InFlight' = InFlight \cup {n} /\ calls'[n] = j
               /\ \A i \in InFlight : calls'[i] = calls[i]
  BY DEF Sent
<1>2. \A d \in DishIds : \A p \in Some : Refers(d, p)' => Refers(d, p)
  <2> SUFFICES ASSUME NEW d \in DishIds, NEW p \in Some, Refers(d, p)'
               PROVE  Refers(d, p)
    OBVIOUS
  <2>1. PageRefers(d, p)' \/ \E i \in InFlight' : CallRefers(calls'[i], d, p)
    BY DEF Refers, CallRefers
  <2>2. PageRefers(d, p)' => Refers(d, p)
    BY DEF PageRefers, Refers, Known
  <2>3. \A i \in InFlight : CallRefers(calls'[i], d, p) => Refers(d, p)
    BY <1>1 DEF Refers
  <2> QED  BY <1>1, <2>1, <2>2, <2>3
<1>3. \A i \in InFlight' : \A p \in Some :
        CallHolds(calls'[i], p) => i \in InFlight /\ CallHolds(calls[i], p)
  BY <1>1
<1>4. \A p \in Some : FormHolds(p)' => FormHolds(p) /\ sheet'
  BY DEF FormHolds
<1> QED  BY <1>1, <1>2, <1>3, <1>4, PicturesShrink

\* A new dish is saved: the form's picture is the call's as well.
LEMMA PicturesSaved ==
  ASSUME Types, DishAsked, PicturesKnown, Save, editing = NoDish
  PROVE  PicturesKnown'
<1> SUFFICES ASSUME ~ muddled' PROVE PicturesKnown'
  BY DEF PicturesKnown
<1>1. ~ saving /\ sheet /\ UNCHANGED <<stored, madeFor, dishes, sheet, form, subject>>
  BY DEF Save, listVars
<1>2. ~ muddled /\ subject = NoDish
  BY DEF Save
<1>3. PICK j : j = Call("create_dish",
                        [dish |-> editing, text |-> form.text, picture |-> form.picture,
                         filter |-> filter, form |-> TRUE])
  OBVIOUS
<1>4. Sent(j)
  BY <1>3, DishShapes
<1>5. j.op = "create_dish" /\ j.answer = "none" /\ j.live /\ j.arg.form
      /\ j.arg.picture = form.picture
  BY <1>3 DEF Call
<1>6. PICK n \in Ids \ InFlight :
               /\ InFlight' = InFlight \cup {n} /\ calls'[n] = j
               /\ \A i \in InFlight : calls'[i] = calls[i]
  BY <1>4 DEF Sent
<1>7. \A i \in InFlight : ~ Creating(calls[i])
  BY <1>1 DEF DishAsked, Creating
<1>8. Creating(calls'[n])
  BY <1>5, <1>6 DEF Creating, InForm
<1>9. \A d \in DishIds : \A p \in Some : Refers(d, p)' => Refers(d, p)
  <2> SUFFICES ASSUME NEW d \in DishIds, NEW p \in Some, Refers(d, p)'
               PROVE  Refers(d, p)
    OBVIOUS
  <2>1. PageRefers(d, p)' \/ \E i \in InFlight' : CallRefers(calls'[i], d, p)
    BY DEF Refers, CallRefers
  <2>2. PageRefers(d, p)' => Refers(d, p)
    BY <1>1 DEF PageRefers, Refers, Known
  <2>3. \A i \in InFlight : CallRefers(calls'[i], d, p) => Refers(d, p)
    BY <1>6 DEF Refers
  <2>4. ~ CallRefers(calls'[n], d, p)
    BY <1>5, <1>6 DEF CallRefers
  <2> QED  BY <1>6, <2>1, <2>2, <2>3, <2>4
<1>10. \A p : CallHolds(calls'[n], p) => FormHolds(p)
  BY <1>1, <1>2, <1>5, <1>6 DEF CallHolds, FormHolds
<1>11. \A p : FormHolds(p)' => FormHolds(p)
  BY <1>1 DEF FormHolds
<1>12. ASSUME NEW p \in Some, FormHolds(p)
       PROVE  /\ p \in Pictures' /\ madeFor'[p] = NoDish
              /\ \A i \in InFlight : ~ CallHolds(calls[i], p)
              /\ \A d \in DishIds : ~ Refers(d, p)
  <2>1. Pictures' = Pictures /\ UNCHANGED madeFor
    BY <1>1 DEF Pictures
  <2> QED  BY <1>2, <1>7, <1>12, <2>1 DEF PicturesKnown
<1>13. \A i \in InFlight : \A p : CallHolds(calls'[i], p) <=> CallHolds(calls[i], p)
  BY <1>6
<1>14. Pictures' = Pictures /\ UNCHANGED madeFor
  BY <1>1 DEF Pictures
<1>15. \A d \in DishIds : \A p \in Some : Refers(d, p)' =>
          p \in Pictures' /\ madeFor'[p] \in {d, NoDish}
  BY <1>2, <1>9, <1>14 DEF PicturesKnown
<1>16. \A d, e \in DishIds : \A p \in Some : Refers(d, p)' /\ Refers(e, p)' => d = e
  BY <1>2, <1>9 DEF PicturesKnown
<1>17. ASSUME NEW i \in InFlight', NEW p \in Some, CallHolds(calls'[i], p)
       PROVE  /\ p \in Pictures' /\ madeFor'[p] = NoDish
              /\ \A d \in DishIds : ~ Refers(d, p)'
  <2>1. CASE i = n
    BY <1>9, <1>10, <1>12, <1>17, <2>1
  <2>2. CASE i \in InFlight
    BY <1>2, <1>9, <1>13, <1>14, <1>17, <2>2 DEF PicturesKnown
  <2> QED  BY <1>6, <2>1, <2>2
<1>18. ASSUME NEW i \in InFlight', NEW k \in InFlight', NEW p \in Some,
              CallHolds(calls'[i], p), CallHolds(calls'[k], p)
       PROVE  i = k
  <2>1. CASE i \in InFlight /\ k \in InFlight
    BY <1>2, <1>13, <1>18, <2>1 DEF PicturesKnown
  <2>2. CASE i = n \/ k = n
    BY <1>6, <1>10, <1>12, <1>13, <1>18, <2>2
  <2> QED  BY <1>6, <2>1, <2>2
<1>19. ASSUME NEW p \in Some, FormHolds(p)'
       PROVE  /\ p \in Pictures' /\ madeFor'[p] = NoDish
              /\ \A i \in InFlight' : CallHolds(calls'[i], p) => Creating(calls'[i])
              /\ \A d \in DishIds : ~ Refers(d, p)'
  BY <1>6, <1>8, <1>9, <1>11, <1>12, <1>13, <1>19
<1> QED  BY <1>15, <1>16, <1>17, <1>18, <1>19 DEF PicturesKnown, Creating, FormHolds

\* The clicks of the page.
LEMMA PicturesClicks ==
  ASSUME Types, DishAsked, PicturesKnown, DishClicks \/ \E d \in Cards : Archive(d)
  PROVE  PicturesKnown'
<1>1. \A j : Alike(j, j)
  BY DEF Alike
<1>2. ASSUME NEW f, SetFilter(f) PROVE PicturesKnown'
  <2> DEFINE Load(i) == calls[i].op = "dishes" /\ calls[i].arg.effect
  <2>1. PICK n \in Ids :
               /\ InFlight' = {i \in InFlight : ~ Load(i)} \cup {n}
               /\ n \notin {i \in InFlight : ~ Load(i)}
               /\ calls'[n] = Call("dishes", [filter |-> f, effect |-> TRUE, form |-> FALSE])
               /\ \A i \in InFlight : ~ Load(i) => calls'[i] = calls[i]
    BY <1>2, SetFilterShape
  <2>2. calls'[n].op = "dishes" /\ calls'[n].answer = "none"
    BY <2>1 DEF Call
  <2>3. UNCHANGED <<stored, madeFor, dishes, sheet, form, subject, muddled>>
    BY <1>2 DEF SetFilter, formVars
  <2>4. \A i \in InFlight' : \/ i \in InFlight /\ Alike(calls'[i], calls[i])
                             \/ Blank(calls'[i])
    BY <1>1, <2>1, <2>2 DEF Blank
  <2>5. \A i \in InFlight : Creating(calls[i]) => i \in InFlight' /\ calls'[i] = calls[i]
    BY <2>1 DEF Creating
  <2>6. \A d \in DishIds : \A p \in Some : PageRefers(d, p)' => Refers(d, p)
    BY <2>3 DEF PageRefers, Refers, Known
  <2>7. \A p \in Some : FormHolds(p)' => FormHolds(p) /\ sheet'
    BY <2>3 DEF FormHolds
  <2> HIDE DEF Load
  <2> QED  BY <2>3, <2>4, <2>5, <2>6, <2>7, PicturesQuiet
<1>3. ASSUME NEW d, Archive(d) PROVE PicturesKnown'
  <2>1. PICK j : j = Call("archive_dish", [dish |-> d, filter |-> filter])
    OBVIOUS
  <2>2. Sent(j) /\ j.op = "archive_dish"
    BY <1>3, <2>1, DishShapes DEF Call
  <2>3. UNCHANGED <<stored, madeFor, dishes, sheet, form, subject, muddled>>
    BY <1>3 DEF Archive, listVars, formVars
  <2>4. \A e, p : ~ CallRefers(j, e, p) /\ ~ CallHolds(j, p)
    BY <2>2 DEF CallRefers, CallHolds
  <2> QED  BY <2>2, <2>3, <2>4, PicturesSent
<1>4. CASE PickFile
  <2>1. PICK j : j = Call("upload", [subject |-> subject, picture |-> form.picture])
    OBVIOUS
  <2>2. Sent(j) /\ j.op = "upload" /\ j.answer = "none"
    BY <1>4, <2>1, DishShapes DEF Call
  <2>3. UNCHANGED <<stored, madeFor, dishes, sheet, form, subject, muddled>>
    BY <1>4 DEF PickFile, listVars
  <2>4. \A e, p : ~ CallRefers(j, e, p) /\ ~ CallHolds(j, p)
    BY <2>2 DEF CallRefers, CallHolds
  <2> QED  BY <2>2, <2>3, <2>4, PicturesSent
<1>5. CASE Save /\ editing # NoDish
  <2>1. PICK j : j = Call("update_dish",
                          [dish |-> editing, text |-> form.text, picture |-> form.picture,
                           filter |-> filter, form |-> TRUE])
    OBVIOUS
  <2>2. Sent(j)
    BY <1>5, <2>1, DishShapes
  <2>3. j.op = "update_dish" /\ j.arg.dish = editing /\ j.arg.picture = form.picture
    BY <2>1 DEF Call
  <2>4. UNCHANGED <<stored, madeFor, dishes, sheet, form, subject>> /\ sheet
    BY <1>5 DEF Save, listVars
  <2>5. (muddled => muddled') /\ (~ muddled' => subject = editing)
    BY <1>5 DEF Save
  <2>6. \A d \in DishIds : \A p \in Some : ~ muddled' /\ CallRefers(j, d, p) => Refers(d, p)
    BY <2>3, <2>4, <2>5 DEF CallRefers, PageRefers, Refers
  <2>7. \A p \in Some : ~ CallHolds(j, p)
    BY <2>3 DEF CallHolds
  <2> QED  BY <2>2, <2>4, <2>5, <2>6, <2>7, PicturesSent
<1>6. ASSUME UNCHANGED <<calls, stored, madeFor, dishes, muddled>>,
             \A d \in DishIds : \A p \in Some : PageRefers(d, p)' => Refers(d, p),
             \A p \in Some : FormHolds(p)' => FormHolds(p) /\ sheet'
      PROVE  PicturesKnown'
  <2>1. \A i \in InFlight' : i \in InFlight /\ Alike(calls'[i], calls[i])
    BY <1>1, <1>6 DEF InFlight
  <2> QED  BY <1>6, <2>1, PicturesQuiet DEF InFlight
<1>7. ASSUME NEW d, Opens(d), d = NoDish \/ d \in DOMAIN dishes PROVE PicturesKnown'
  <2>1. /\ UNCHANGED <<calls, stored, madeFor, dishes, muddled>>
        /\ sheet => UNCHANGED <<sheet, form, subject>>
        /\ ~ sheet => /\ form' = IF d = NoDish THEN EmptyForm ELSE dishes[d]
                      /\ subject' = d
    BY <1>7 DEF Opens, browser, listVars, formVars, Types, DishTypeOK
  <2>2. ASSUME NEW e \in DishIds, NEW p \in Some, PageRefers(e, p)' PROVE Refers(e, p)
    <3>1. e # NoDish
      BY DEF DishIds, NoDish
    <3> QED  BY <1>7, <2>1, <2>2, <3>1 DEF PageRefers, Refers, Known
  <2>3. ASSUME NEW p \in Some, FormHolds(p)' PROVE FormHolds(p) /\ sheet'
    <3>1. CASE sheet
      BY <2>1, <2>3, <3>1 DEF FormHolds
    <3>2. CASE ~ sheet
      BY <2>1, <2>3, <3>2 DEF FormHolds, EmptyForm, Some
    <3> QED  BY <3>1, <3>2
  <2> QED  BY <1>6, <2>1, <2>2, <2>3
<1>8. OpenCreate \/ (\E d \in Known : OpenEdit(d)) => PicturesKnown'
  BY <1>7 DEF OpenCreate, OpenEdit, Cards
<1>9. CASE SaveIncomplete \/ ClearImage \/ \E t \in Texts : Fill(t)
  <2>1. UNCHANGED <<calls, stored, madeFor, dishes, sheet, subject, muddled>>
    BY <1>9 DEF SaveIncomplete, ClearImage, Fill, browser, listVars
  <2>2. form'.picture \in {form.picture, NoPicture}
    BY <1>9 DEF SaveIncomplete, ClearImage, Fill, Types, DishTypeOK
  <2>3. \A p \in Some : form'.picture = p => form.picture = p
    BY <2>2 DEF Some
  <2>4. \A d \in DishIds : \A p \in Some : PageRefers(d, p)' => Refers(d, p)
    BY <2>1, <2>3 DEF PageRefers, Refers, Known
  <2>5. \A p \in Some : FormHolds(p)' => FormHolds(p) /\ sheet'
    BY <2>1, <2>3 DEF FormHolds
  <2> QED  BY <1>6, <2>1, <2>4, <2>5
<1>10. CASE Close
  <2>1. InFlight' = InFlight /\ \A i \in InFlight : FormLeft(i)
    BY <1>10, FormGoneShapes
  <2>2. sheet' = FALSE /\ UNCHANGED <<stored, madeFor, dishes, muddled>>
    BY <1>10 DEF Close, listVars
  <2>3. \A d \in DishIds : \A p \in Some : PageRefers(d, p)' => Refers(d, p)
    BY <2>2 DEF PageRefers, Refers, Known
  <2>4. \A p \in Some : ~ FormHolds(p)'
    BY <2>2 DEF FormHolds
  <2> QED  BY <2>1, <2>2, <2>3, <2>4, PicturesFormLeft, PicturesQuiet
<1> QED  BY <1>2, <1>3, <1>4, <1>5, <1>8, <1>9, <1>10, PicturesSaved DEF DishClicks

\* When the page appears, there is no form, nor a list.
LEMMA PicturesFresh ==
  ASSUME PicturesKnown, DishPageAppears, UNCHANGED <<stored, madeFor, muddled>>,
         \A i \in InFlight' :
           \/ i \in InFlight /\ calls'[i] \in {calls[i], Dead(calls[i])}
           \/ calls'[i].op \in {"dishes", "slot", "history", "session"} /\ calls'[i].answer = "none"
  PROVE  PicturesKnown'
<1>1. sheet' = FALSE /\ dishes' = [d \in {} |-> EmptyForm]
  BY DEF DishPageAppears
<1>2. \A d \in DishIds : \A p \in Some : PageRefers(d, p)' => Refers(d, p)
  BY <1>1 DEF PageRefers, Refers, Known
<1>3. \A p \in Some : ~ FormHolds(p)'
  BY <1>1 DEF FormHolds
<1>4. \A j : Alike(j, j) /\ Alike(Dead(j), j)
  BY DEF Alike, Dead
<1>5. \A j : j.op \in {"dishes", "slot", "history", "session"} /\ j.answer = "none" => Blank(j)
  BY DEF Blank
<1>6. \A i \in InFlight' : \/ i \in InFlight /\ Alike(calls'[i], calls[i])
                           \/ Blank(calls'[i])
  BY <1>4, <1>5
<1> QED  BY <1>1, <1>2, <1>3, <1>6, PicturesQuiet

\* Every step keeps it.
LEMMA PicturesNext ==
  ASSUME Types, SessionWaits, DishAsked, PicturesKnown, [Next]_vars
  PROVE  PicturesKnown'
<1>1. Kept(DishOps) => DishLeft
  BY KeptCalls DEF DishLeft
<1>2. CASE SessionStep \/ ChooseStep \/ HistoryStep
  <2>1. Kept(DishOps)
    BY <1>2, SessionKeeps, ChooseKeeps, HistoryKeeps
       DEF SessionOps, DishOps, HistoryOps, ChooseOps
  <2>2. UNCHANGED <<stored, madeFor, dishes, sheet, form, subject, muddled>>
    BY <1>2 DEF SessionStep, ChooseStep, HistoryStep, dishVars, listVars, formVars
  <2> QED  BY <1>1, <2>1, <2>2, PicturesOthers
<1>3. CASE DishStep
  BY <1>3, PicturesServed, PicturesHandlers, PicturesClicks DEF DishStep
<1>4. CASE ShellStep
  <2>1. DishLeft
    BY <1>4, ShellShape DEF DishLeft, Removed, InFlight
  <2>2. UNCHANGED <<stored, madeFor, dishes, sheet, form, subject, muddled>>
    BY <1>4 DEF ShellStep, dishVars, listVars, formVars
  <2> QED  BY <2>1, <2>2, PicturesOthers
<1>5. \A t, j : Asked(t, j) =>
        j.op \in {"dishes", "slot", "history", "session"} /\ j.answer = "none"
  BY DEF Asked
<1>6. ASSUME NEW c \in InFlight, Enter(c) PROVE PicturesKnown'
  <2>1. DishPageAppears /\ UNCHANGED <<stored, madeFor, muddled>>
    BY <1>6 DEF Enter, Appears
  <2>2. \A i \in InFlight' : (i \in InFlight /\ calls'[i] = calls[i]) \/ Asked(tab, calls'[i])
    BY <1>6, EnterShape
  <2> QED  BY <1>5, <2>1, <2>2, PicturesFresh
<1>7. ASSUME NEW t \in Tabs, Navigate(t) PROVE PicturesKnown'
  <2>1. DishPageAppears /\ UNCHANGED <<stored, madeFor, muddled>>
    BY <1>7 DEF Navigate, Appears
  <2>2. \A i \in InFlight' :
              (i \in InFlight /\ calls'[i] = Dead(calls[i])) \/ Asked(t, calls'[i])
    BY <1>7, NavigateShape
  <2> QED  BY <1>5, <2>1, <2>2, PicturesFresh
<1>8. CASE Refresh
  <2>1. DishPageAppears /\ UNCHANGED <<stored, madeFor, muddled>>
    BY <1>8 DEF Refresh
  <2>2. \A i \in InFlight' :
              \/ i \in InFlight /\ calls'[i] = Dead(calls[i])
              \/ calls'[i].op = "session" /\ calls'[i].answer = "none"
    BY <1>8, RefreshShape
  <2> QED  BY <2>1, <2>2, PicturesFresh
<1>9. CASE Event
  <2>1. UNCHANGED dishVars /\ DishLeft
    BY <1>1, <1>9, EventKinds, KeptOthers
  <2> QED  BY <2>1, PicturesOthers DEF dishVars, listVars, formVars
<1>10. CASE Idle
  <2>1. UNCHANGED dishVars /\ DishLeft
    BY <1>1, <1>10, KeptOthers DEF Idle
  <2> QED  BY <2>1, PicturesOthers DEF dishVars, listVars, formVars
<1> QED  BY <1>2, <1>3, <1>4, <1>6, <1>7, <1>8, <1>9, <1>10, StepKinds

\* So it is at first: there is no picture yet.
LEMMA PicturesFirst == Init => PicturesKnown
<1> SUFFICES ASSUME Init PROVE PicturesKnown
  OBVIOUS
<1>1. InFlight = {1} /\ calls[1].op = "session"
  BY DEF Init, InFlight, Call
<1>2. /\ sheet = FALSE /\ dishes = [d \in {} |-> EmptyForm]
      /\ \A d \in Known : stored[d].picture = NoPicture
  BY DEF Init, DishInit, FreshDishPage, Known
<1>3. \A c \in InFlight : \A d, p : ~ CallRefers(calls[c], d, p) /\ ~ CallHolds(calls[c], p)
  BY <1>1 DEF CallRefers, CallHolds
<1>4. \A d : \A p \in Some : ~ PageRefers(d, p) /\ ~ FormHolds(p)
  BY <1>2 DEF PageRefers, FormHolds, Some
<1>5. \A d : \A p \in Some : ~ Refers(d, p)
  BY <1>3, <1>4 DEF Refers
<1> QED  BY <1>3, <1>4, <1>5 DEF PicturesKnown

\* What is known of pictures is what keeps those of the dishes apart.
LEMMA PicturesKeptApart == Types /\ PicturesKnown => PicturesApart
<1> SUFFICES ASSUME Types, PicturesKnown, ~ muddled,
                    NEW d \in Known, stored[d].picture # NoPicture
             PROVE  /\ madeFor[stored[d].picture] \in {d, NoDish}
                    /\ \A e \in Known \ {d} : stored[e].picture # stored[d].picture
  BY DEF PicturesApart
<1>1. PICK p : p = stored[d].picture
  OBVIOUS
<1>2. Known \subseteq DishIds /\ p \in Some
  BY <1>1, StoredTypes DEF Types, Dishes, Some
<1>3. Refers(d, p) /\ \A e \in Known : stored[e].picture = p => Refers(e, p)
  BY <1>1 DEF Refers, PageRefers
<1> QED  BY <1>1, <1>2, <1>3 DEF PicturesKnown

-----------------------------------------------------------------------------
(* All of it together, in every run.                                       *)

\* What is known of the calls in flight, and with it of the pages and the buttons.
AppKnown ==
  /\ Types /\ events \in 0 .. MaxEvents /\ Follows
  /\ SessionWaits /\ CodeKnown /\ LiveHere
  /\ PatientOne /\ HistoryAsked /\ SavedFirst
  /\ SlotsAsked /\ WishesAsked
  /\ DishAsked /\ ListKnown /\ PicturesKnown

\* The events are counted up to their bound.
LEMMA EventsCounted == events \in 0 .. MaxEvents /\ [Next]_vars => (events \in 0 .. MaxEvents)'
<1> SUFFICES ASSUME events \in 0 .. MaxEvents, [Next]_vars PROVE events' \in 0 .. MaxEvents
  OBVIOUS
<1>1. events' = events \/ (events < MaxEvents /\ events' = events + 1)
  BY DEF Next, Event, vars
<1> QED  BY <1>1, EventsAssumption

\* It holds at first.
LEMMA FirstKnown == Init => AppKnown
BY InitTypes, InitFollows, EventsAssumption, SessionFirst, HistoryFirst, ChooseFirst,
   DishAskedFirst, ListFirst, PicturesFirst DEF AppKnown

\* Every step keeps it.
LEMMA NextKnown == AppKnown /\ [Next]_vars => AppKnown'
<1> SUFFICES ASSUME AppKnown, [Next]_vars PROVE AppKnown'
  OBVIOUS
<1>1. Types' /\ (events \in 0 .. MaxEvents)' /\ Follows'
  BY NextTypes, EventsCounted, StepFollows DEF AppKnown
<1>2. SessionWaits' /\ CodeKnown' /\ LiveHere'
  BY SessionNext, LiveNext DEF AppKnown
<1>3. PatientOne' /\ HistoryAsked' /\ SavedFirst'
  BY PatientNext, HistoryNext DEF AppKnown
<1>4. SlotsAsked' /\ WishesAsked'
  BY ChooseNext DEF AppKnown
<1>5. DishAsked' /\ ListKnown' /\ PicturesKnown'
  BY DishAskedNext, ListNext, PicturesNext DEF AppKnown
<1> QED  BY <1>1, <1>2, <1>3, <1>4, <1>5 DEF AppKnown

\* So it holds in every run.
LEMMA AlwaysKnown == Spec => []AppKnown
<1> QED  BY FirstKnown, NextKnown, PTL DEF Spec

\* Every variable of every page has its type, in every run.
THEOREM AppTypes == Spec => []AppTypeOK
<1>1. AppKnown => AppTypeOK
  <2> SUFFICES ASSUME AppKnown PROVE AppTypeOK
    OBVIOUS
  <2>1. SessionTypeOK /\ DishTypeOK /\ ChooseTypeOK /\ CheckInTypeOK /\ CountsTypeOK
    BY DEF AppKnown, Types
  <2>2. InFlight \subseteq Ids
    BY DEF AppKnown, Types, AllTyped, InFlight
  <2>3. due \in BOOLEAN /\ DOMAIN controls = DOMAIN Buttons
    BY DEF AppKnown, Follows
  <2>4. events \in 0 .. MaxEvents
    BY DEF AppKnown
  <2> QED  BY <2>1, <2>2, <2>3, <2>4 DEF AppTypeOK, CountsTypeOK
<1> QED  BY <1>1, AlwaysKnown, PTL

\* The calls that the pages wait for are awaited.
LEMMA ReadsLive ==
  ASSUME Types, NEW c \in InFlight, calls[c].op \in Reads
  PROVE  calls[c].live
BY CallTypes DEF Shaped

\* On no page, however the member came to it, is anything disabled or loading
\* without a call whose end frees it, in every run.
THEOREM AppNotStuck == Spec => []NothingStuck
<1>1. AppKnown => NothingStuck
  <2> SUFFICES ASSUME AppKnown PROVE NothingStuck
    OBVIOUS
  <2>1. Types
    BY DEF AppKnown
  <2>2. SessionNotStuck
    <3>1. Screen = "loading" => session = Unknown /\ ~ appError
      BY <2>1 DEF Screen, Types, SessionTypeOK, Tabs
    <3>2. Screen = "onboarding" => session = Nobody
      BY <2>1 DEF Screen, Types, SessionTypeOK, Tabs
    <3>3. Screen = "loading" => Awaited("session")
      BY <2>1, <3>1, ReadsLive DEF AppKnown, SessionWaits, Awaited, Reads
    <3>4. submitting => Awaited("create") \/ Awaited("join")
      BY DEF AppKnown, SessionWaits, Awaited
    <3>5. Screen = "onboarding" => ~ cookie
      BY <3>2 DEF AppKnown, SessionWaits
    <3> QED  BY <3>3, <3>4, <3>5 DEF SessionNotStuck
  <2>3. Screen = "dishes" => DishNotStuck
    <3>1. Screen = "dishes" /\ listing => Awaited("dishes")
      BY <2>1, ReadsLive DEF AppKnown, DishAsked, Awaited, Reads
    <3>2. uploading => Awaited("upload")
      BY DEF AppKnown, DishAsked, Uploads, Awaited
    <3>3. saving => \E c \in InFlight :
                      /\ calls[c].op \in {"create_dish", "update_dish", "dishes"}
                      /\ calls[c].arg.form
      BY DEF AppKnown, DishAsked, InForm
    <3> QED  BY <3>1, <3>2, <3>3 DEF DishNotStuck
  <2>4. ChooseNotStuck
    BY DEF AppKnown, SlotsAsked, Frees, ChooseNotStuck
  <2>5. Screen = "family" => CheckInNotStuck
    <3>1. Screen = "family" /\ loading => Awaited("history")
      BY <2>1, ReadsLive DEF AppKnown, HistoryAsked, Awaited, Reads
    <3>2. sending => Awaited("checkin")
      BY DEF AppKnown, HistoryAsked, Awaited
    <3> QED  BY <3>1, <3>2 DEF AppKnown, HistoryAsked, CheckInNotStuck
  <2> QED  BY <2>2, <2>3, <2>4, <2>5 DEF NothingStuck
<1> QED  BY <1>1, AlwaysKnown, PTL

\* The family page shows the code that admits to the household once a rotation of
\* this browser has ended, in every run.
THEOREM RotationFollowed == Spec => []CodeFollows
<1>1. AppKnown => CodeFollows
  BY DEF AppKnown, CodeKnown, CodeFollows
<1> QED  BY <1>1, AlwaysKnown, PTL

\* A check-in that the page says is saved is in the summary that it shows, on
\* whichever day of the week, in every run.
THEOREM CheckInCounted == Spec => []SavedIsCounted
<1>1. AppKnown => SavedIsCounted
  <2> SUFFICES ASSUME AppKnown, patient, saved, ~ historyError, ~ Awaited("history")
               PROVE  summary >= savedRow
    BY DEF SavedIsCounted
  <2>1. \A c \in InFlight : calls[c].op # "history"
    BY ReadsLive DEF AppKnown, Awaited, Reads
  <2>2. savedRow <= summary /\ savedRow \in Int /\ summary \in Int
    BY <2>1, BrowserAssumption DEF AppKnown, SavedFirst, Types, CheckInTypeOK, NoSummary
  <2> QED  BY <2>2
<1> QED  BY <1>1, AlwaysKnown, PTL

\* Once no slot is asked for any more, the slot id is that of the meal that is
\* selected, or there is none, in every run.
THEOREM SlotsSettle == Spec => []SlotSettles
<1>1. AppKnown => SlotSettles
  <2> SUFFICES ASSUME AppKnown, ~ hasty, ~ Awaited("slot")
               PROVE  slotId \in {mealType, NoSlot}
    BY DEF SlotSettles
  <2>1. \A c \in InFlight : calls[c].op # "slot"
    BY ReadsLive DEF AppKnown, Awaited, Reads
  <2> QED  BY <2>1 DEF AppKnown, SlotsAsked
<1> QED  BY <1>1, AlwaysKnown, PTL

\* A dish becomes a wish for no meal but the one that was selected when the member
\* accepted it, in every run in which no dish is accepted while the slot of its meal
\* is still being asked for or the page is busy (WishesFollow fails without that).
\* The member may leave the page before the slot is there, or before the wish is.
THEOREM MeantWishes == Spec => []WishesMeant
<1>1. AppKnown => WishesMeant
  BY DEF AppKnown, WishesAsked, WishesMeant
<1> QED  BY <1>1, AlwaysKnown, PTL

\* A list at rest is the server's list for the filter that is chosen, in every run.
THEOREM ListsSettle == Spec => []ListSettles
<1>1. AppKnown => ListSettles
  <2> SUFFICES ASSUME AppKnown, ~ crossed, ~ listing, ~ listError, ~ Writing,
                      ~ Awaited("dishes")
               PROVE  dishes = Listing(filter)
    BY DEF ListSettles
  <2>1. \A c \in InFlight : calls[c].op # "dishes" /\ calls[c].op \notin Writes
    BY ReadsLive DEF AppKnown, Awaited, Reads, Writing
  <2> QED  BY <2>1 DEF AppKnown, ListKnown
<1> QED  BY <1>1, AlwaysKnown, PTL

\* No two dishes have the same picture, nor one the picture of another's form, in
\* every run.
THEOREM PicturesStayApart == Spec => []PicturesApart
<1>1. AppKnown => PicturesApart
  BY PicturesKeptApart DEF AppKnown
<1> QED  BY <1>1, AlwaysKnown, PTL
=============================================================================
