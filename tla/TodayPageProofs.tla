--------------------------- MODULE TodayPageProofs ---------------------------
(***************************************************************************)
(* Proofs about TodayPage for every set of meals and dishes, every number  *)
(* of clicks and of changes by others.                                     *)
(***************************************************************************)
EXTENDS TodayPage, TLAPS

-----------------------------------------------------------------------------
(* Types.                                                                  *)

\* The calls in flight were started by the clicks so far.
Numbered == InFlight \subseteq 0 .. clicks

\* A click adds a call under a number of its own.
LEMMA ClickCalls ==
  ASSUME TypeOK, Numbered, NEW j, Click(j)
  PROVE  /\ clicks + 1 \in Clicks \ InFlight
         /\ InFlight' = InFlight \cup {clicks + 1}
         /\ call'[clicks + 1] = j
         /\ \A c \in InFlight : call'[c] = call[c]
         /\ clicks' = clicks + 1
  <1> QED BY BoundsAssumption DEF TypeOK, Numbered, Click, InFlight, Clicks

\* An answer changes one call, and of it the answer.
LEMMA ReplyCalls ==
  ASSUME TypeOK, NEW c \in InFlight, NEW kind, NEW t, Reply(c, kind, t)
  PROVE  /\ InFlight' = InFlight
         /\ \A d \in InFlight \ {c} : call'[d] = call[d]
         /\ call'[c] = [call[c] EXCEPT !.answer = kind,
                                       !.shot = [meal |-> call[c].meal, version |-> t.version,
                                                 menu |-> t.menu, wishes |-> t.wishes]]
         /\ slots' = [slots EXCEPT ![call[c].meal] = t]
         /\ call[c].meal \in Meals
  <1> QED BY DEF TypeOK, Reply, InFlight, Calls

\* What a call becomes when the server answers has the type of a call.
LEMMA ReplyTypes ==
  ASSUME TypeOK, NEW c \in InFlight, NEW kind \in {"ok", "conflict"}, NEW t \in Slots,
         Reply(c, kind, t)
  PROVE  TypeOK'
  <1>1. call[c] \in Calls /\ call[c].meal \in Meals
    BY DEF TypeOK, Calls
  <1>2. [meal |-> call[c].meal, version |-> t.version, menu |-> t.menu,
         wishes |-> t.wishes] \in Shots
    BY <1>1 DEF Slots, Shots
  <1>3. call'[c] \in Calls
    <2>1. call'[c] = [call[c] EXCEPT !.answer = kind,
                                     !.shot = [meal |-> call[c].meal, version |-> t.version,
                                               menu |-> t.menu, wishes |-> t.wishes]]
      BY DEF Reply, InFlight
    <2> QED BY <1>1, <1>2, <2>1 DEF Calls
  <1>4. \A d \in InFlight' : call'[d] \in Calls
    BY <1>3, ReplyCalls DEF TypeOK
  <1>5. slots' \in [Meals -> Slots]
    <2>1. slots' = [slots EXCEPT ![call[c].meal] = t]
      BY DEF Reply
    <2> QED BY <1>1, <2>1 DEF TypeOK
  <1> QED BY <1>4, <1>5, ReplyCalls DEF TypeOK, Reply, page

\* The slot that each handler leaves behind has its type.
LEMMA ServeTypes ==
  ASSUME TypeOK, NEW c \in InFlight, Serve(c)
  PROVE  TypeOK'
  <1> DEFINE s == slots[call[c].meal]
  <1>1. s \in Slots /\ call[c].dishes \subseteq Dishes
    BY DEF TypeOK, Calls
  <1>2. {Me} \X call[c].dishes \subseteq People \X Dishes
    BY <1>1 DEF People
  <1>3. CASE ServeLoad(c)
    BY <1>1, <1>3, ReplyTypes DEF ServeLoad
  <1>4. CASE ServeWish(c)
    <2>1. [s EXCEPT !.wishes = @ \cup ({Me} \X call[c].dishes)] \in Slots
      BY <1>1, <1>2 DEF Slots
    <2> QED BY <1>4, <2>1, ReplyTypes DEF ServeWish
  <1>5. CASE ServeWithdraw(c)
    <2>1. [s EXCEPT !.wishes = @ \ ({Me} \X call[c].dishes)] \in Slots
      BY <1>1 DEF Slots
    <2> QED BY <1>5, <2>1, ReplyTypes DEF ServeWithdraw
  <1>6. CASE ServeConfirm(c)
    <2>1. [s EXCEPT !.version = @ + 1, !.editor = Me, !.menu = call[c].dishes] \in Slots
      <3>1. s.version + 1 \in Nat
        BY <1>1 DEF Slots
      <3> HIDE DEF s
      <3> QED BY <1>1, <3>1 DEF Slots, People
    <2> QED BY <1>1, <1>6, <2>1, ReplyTypes DEF ServeConfirm
  <1> QED BY <1>3, <1>4, <1>5, <1>6 DEF Serve

\* What the buttons send is a call.
LEMMA AskedTypes ==
  ASSUME TypeOK, Usable, NEW op \in {"wish", "withdraw", "confirm"},
         NEW ds \in SUBSET Dishes
  PROVE  /\ Asked(op, ds) \in Calls
         /\ shown \in Shots
  <1> QED BY DEF TypeOK, Usable, Asked, Calls, Shots

\* A load that was just sent is a call.
LEMMA LoadTypes ==
  ASSUME NEW m \in Meals
  PROVE  NewLoad(m) \in Calls
  <1> QED BY DEF NewLoad, Calls

\* The draft of a page that was loaded has dishes.
LEMMA PrefillTypes ==
  ASSUME NEW s \in Shots \cup {NoShot}
  PROVE  Prefill(s) \subseteq Dishes
  <1> QED BY DEF Prefill, Shots, NoShot

\* A click whose fields have their types.
LEMMA ClickTypes ==
  ASSUME TypeOK, Numbered, NEW j \in Calls, Click(j),
         at' \in Meals, shown' \in Shots \cup {NoShot}, loading' \in BOOLEAN,
         conflict' \in BOOLEAN, section' \in {"order", "menu"}, draft' \subseteq Dishes,
         busy' \in Clicks \cup {NoClick}
  PROVE  TypeOK'
  <1>1. InFlight' \subseteq Clicks /\ \A c \in InFlight' : call'[c] \in Calls
    BY ClickCalls DEF TypeOK
  <1>2. clicks' \in Clicks
    BY ClickCalls
  <1>3. /\ error' = FALSE /\ slots' = slots /\ others' = others /\ lost' = lost
        /\ patient' = (patient /\ InFlight = {} /\ ~ error)
    BY DEF Click
  <1>4. patient' \in BOOLEAN
    BY <1>3
  <1> QED BY <1>1, <1>2, <1>3, <1>4 DEF TypeOK

\* A call that is over, and one that goes on with a load.
LEMMA WithoutCalls ==
  ASSUME TypeOK, NEW c \in InFlight, call' = Without(c)
  PROVE  /\ InFlight' = InFlight \ {c}
         /\ \A d \in InFlight' : call'[d] = call[d]
         /\ InFlight' \subseteq Clicks /\ \A d \in InFlight' : call'[d] \in Calls
  <1> QED BY DEF TypeOK, Without, InFlight

\* A handler that asks for the meal again keeps its number.
LEMMA AgainCalls ==
  ASSUME TypeOK, NEW c \in InFlight, call' = [call EXCEPT ![c] = NewLoad(call[c].from)]
  PROVE  /\ InFlight' = InFlight
         /\ \A d \in InFlight \ {c} : call'[d] = call[d]
         /\ call'[c] = NewLoad(call[c].from)
         /\ \A d \in InFlight' : call'[d] \in Calls
  <1>1. InFlight' = InFlight /\ call'[c] = NewLoad(call[c].from)
        /\ \A d \in InFlight \ {c} : call'[d] = call[d]
    BY DEF InFlight
  <1>2. call[c].from \in Meals
    BY DEF TypeOK, Calls
  <1> QED BY <1>1, <1>2, LoadTypes DEF TypeOK

\* What an answer shows is a shot.
LEMMA SettleTypes ==
  ASSUME TypeOK, NEW c \in InFlight, Settle(c)
  PROVE  TypeOK'
  <1>1. /\ call[c].shot \in Shots \cup {NoShot}
        /\ call[c].meal \in Meals /\ call[c].expected \in Nat
    BY DEF TypeOK, Calls
  <1>2. Prefill(call[c].shot) \subseteq Dishes /\ Prefill(shown) \subseteq Dishes
    BY <1>1, PrefillTypes DEF TypeOK
  <1>3. NoClick \in Clicks \cup {NoClick}
    OBVIOUS
  <1>4. CASE Loaded(c)
    <2>1. call' = Without(c)
      BY <1>4 DEF Loaded
    <2> QED BY <1>1, <1>2, <1>4, <2>1, WithoutCalls
            DEF TypeOK, Loaded, NewEditor, ReplaceSlot
  <1>5. CASE Updated(c)
    <2>1. call' = Without(c)
      BY <1>5 DEF Updated
    <2> QED BY <1>1, <1>2, <1>5, <2>1, WithoutCalls DEF TypeOK, Updated, ReplaceSlot
  <1>6. CASE Withdrawn(c)
    <2>1. call' = [call EXCEPT ![c] = NewLoad(call[c].from)]
      BY <1>6 DEF Withdrawn, LoadAgain
    <2> QED BY <1>6, <2>1, AgainCalls DEF TypeOK, Withdrawn, LoadAgain, NoEditor
  <1>7. CASE Conflict(c)
    <2>1. call' = [call EXCEPT ![c] = NewLoad(call[c].from)]
      BY <1>7 DEF Conflict, LoadAgain
    <2> QED BY <1>1, <1>7, <2>1, AgainCalls DEF TypeOK, Conflict, LoadAgain, NoEditor
  <1>8. CASE Fail(c)
    <2>1. call' = Without(c)
      BY <1>8 DEF Fail
    <2> QED BY <1>2, <1>8, <2>1, WithoutCalls DEF TypeOK, Fail, NewEditor, NoEditor
  <1> QED BY <1>4, <1>5, <1>6, <1>7, <1>8 DEF Settle

\* What others and other devices do keeps the types.
LEMMA OtherTypes ==
  ASSUME TypeOK, NEW m \in Meals, OtherActs(m)
  PROVE  TypeOK'
  <1>1. slots' \in [Meals -> Slots]
    <2>1. slots \in [Meals -> Slots] /\ slots[m] \in Slots
      BY DEF TypeOK
    <2>2. \A d \in Dishes : /\ [slots[m] EXCEPT !.wishes = @ \cup {<<You, d>>}] \in Slots
                           /\ [slots[m] EXCEPT !.wishes = @ \ {<<You, d>>}] \in Slots
      BY <2>1 DEF Slots, People
    <2>3. slots[m].version + 1 \in Nat
      BY <2>1 DEF Slots
    <2>4. \A ds \in SUBSET Dishes :
            [slots[m] EXCEPT !.version = @ + 1, !.menu = ds, !.editor = You] \in Slots
      BY <2>1, <2>3 DEF Slots, People
    <2>5. \E t \in Slots : slots' = [slots EXCEPT ![m] = t]
      <3>1. \A d \in Dishes :
              /\ slots' = [slots EXCEPT ![m].wishes = @ \cup {<<You, d>>}] =>
                   slots' = [slots EXCEPT ![m] = [slots[m] EXCEPT !.wishes = @ \cup {<<You, d>>}]]
              /\ slots' = [slots EXCEPT ![m].wishes = @ \ {<<You, d>>}] =>
                   slots' = [slots EXCEPT ![m] = [slots[m] EXCEPT !.wishes = @ \ {<<You, d>>}]]
        OBVIOUS
      <3>2. CASE \E d \in Dishes : \/ slots' = [slots EXCEPT ![m].wishes = @ \cup {<<You, d>>}]
                                  \/ slots' = [slots EXCEPT ![m].wishes = @ \ {<<You, d>>}]
        BY <2>2, <3>1, <3>2
      <3>3. CASE \E ds \in (SUBSET Dishes) \ {{}} :
                   slots' = [slots EXCEPT ![m] = [slots[m] EXCEPT !.version = @ + 1,
                                                                  !.menu = ds, !.editor = You]]
        BY <2>4, <3>3
      <3> QED BY <3>2, <3>3 DEF OtherActs
    <2> QED BY <2>1, <2>5
  <1>2. others' \in 0 .. MaxOthers
    <2>1. others \in 0 .. MaxOthers /\ others < MaxOthers /\ others' = others + 1
      BY DEF TypeOK, OtherActs
    <2> QED BY <2>1, BoundsAssumption
  <1> QED BY <1>1, <1>2 DEF TypeOK, OtherActs, page, InFlight

\* The page as it is opened.
LEMMA InitTypes == Init => TypeOK /\ Numbered
  <1> SUFFICES ASSUME Init PROVE TypeOK /\ Numbered
    OBVIOUS
  <1>1. DOMAIN call = {0} /\ call[0] = NewLoad(at) /\ call[0] \in Calls
    BY LoadTypes DEF Init
  <1>2. 0 \in Clicks
    BY BoundsAssumption DEF Clicks
  <1>3. slots \in [Meals -> Slots]
    BY DEF Init, Slots
  <1>4. \A c \in InFlight : call[c] \in Calls /\ c = 0
    BY <1>1 DEF InFlight
  <1>5. 0 \in 0 .. MaxOthers /\ 0 \in 0 .. clicks
    BY BoundsAssumption DEF Init
  <1> QED BY <1>2, <1>3, <1>4, <1>5 DEF Init, TypeOK, Numbered

\* Every step keeps the types.
LEMMA StepTypes ==
  ASSUME TypeOK, Numbered, [Next]_vars
  PROVE  TypeOK' /\ Numbered'
  <1>1. TypeOK'
    <2>1. CASE \E m \in Meals : Select(m)
      BY <2>1, ClickTypes, LoadTypes DEF Select, NoEditor, TypeOK
    <2>2. CASE \E m \in Meals : OtherActs(m)
      BY <2>2, OtherTypes
    <2>3. CASE \E d \in Dishes : Wish(d) \/ Withdraw(d)
      <3>1. PICK d \in Dishes : Wish(d) \/ Withdraw(d)
        BY <2>3
      <3>2. {d} \in SUBSET Dishes /\ Usable
        BY <3>1 DEF Wish, Withdraw
      <3>3. Asked("wish", {d}) \in Calls /\ Asked("withdraw", {d}) \in Calls
        BY <3>2, AskedTypes
      <3> QED BY <3>1, <3>3, ClickTypes DEF Wish, Withdraw, TypeOK
    <2>4. CASE \E d \in Dishes : Toggle(d)
      BY <2>4 DEF Toggle, TypeOK, InFlight
    <2>5. CASE Switch
      BY <2>5, PrefillTypes DEF Switch, TypeOK, NoEditor, InFlight
    <2>6. CASE Confirm
      <3>1. draft \in SUBSET Dishes /\ Usable
        BY <2>6 DEF Confirm, TypeOK
      <3>2. Asked("confirm", draft) \in Calls
        BY <3>1, AskedTypes
      <3>3. clicks + 1 \in Clicks
        BY <2>6, ClickCalls DEF Confirm
      <3> QED BY <2>6, <3>2, <3>3, ClickTypes DEF Confirm, TypeOK
    <2>7. CASE \E c \in InFlight : Serve(c) \/ Settle(c)
      BY <2>7, ServeTypes, SettleTypes
    <2>8. CASE UNCHANGED vars
      BY <2>8 DEF vars, page, TypeOK, InFlight
    <2> QED BY <2>1, <2>2, <2>3, <2>4, <2>5, <2>6, <2>7, <2>8 DEF Next
  <1>2. Numbered'
    <2>1. CASE \E j : Click(j)
      <3>1. PICK j : Click(j)
        BY <2>1
      <3>2. InFlight' = InFlight \cup {clicks + 1} /\ clicks' = clicks + 1
        BY <3>1, ClickCalls
      <3>3. clicks \in Nat
        BY BoundsAssumption DEF TypeOK, Clicks
      <3> QED BY <3>2, <3>3 DEF Numbered
    <2>2. CASE InFlight' \subseteq InFlight /\ clicks' = clicks
      BY <2>2 DEF Numbered
    <2>3. (\E j : Click(j)) \/ (InFlight' \subseteq InFlight /\ clicks' = clicks)
      BY DEF Next, Select, Wish, Withdraw, Confirm, OtherActs, Toggle, Switch, Serve,
             ServeLoad, ServeWish, ServeWithdraw, ServeConfirm, Reply, Settle, Loaded,
             Updated, Withdrawn, Conflict, LoadAgain, Fail, Without, InFlight, vars
    <2> QED BY <2>1, <2>2, <2>3
  <1> QED BY <1>1, <1>2

\* Every variable of the page, of its calls and of the server has its type.
THEOREM TypeCorrect == Spec => []TypeOK
  <1>1. TypeOK /\ Numbered /\ [Next]_vars => TypeOK' /\ Numbered'
    BY StepTypes
  <1> QED BY <1>1, InitTypes, PTL DEF Spec

-----------------------------------------------------------------------------
(* Nothing is waited for in vain.                                          *)

\* A step of the server changes no call but for its answer.
LEMMA ServeCalls ==
  ASSUME TypeOK, NEW c \in InFlight, Serve(c)
  PROVE  /\ UNCHANGED <<page, clicks, others, lost, patient>>
         /\ InFlight' = InFlight
         /\ \A d \in InFlight : /\ call'[d].op = call[d].op
                               /\ call'[d].meal = call[d].meal
                               /\ call'[d].from = call[d].from
                               /\ call'[d].dishes = call[d].dishes
                               /\ call'[d].expected = call[d].expected
                               /\ call'[d].seen = call[d].seen
  <1>1. PICK kind, t : Reply(c, kind, t)
    BY DEF Serve, ServeLoad, ServeWish, ServeWithdraw, ServeConfirm
  <1>2. call' = [call EXCEPT ![c].answer = kind,
                             ![c].shot = [meal |-> call[c].meal, version |-> t.version,
                                          menu |-> t.menu, wishes |-> t.wishes]]
    BY <1>1 DEF Reply
  <1>3. /\ InFlight' = InFlight
        /\ \A d \in InFlight \ {c} : call'[d] = call[d]
        /\ call'[c] = [call[c] EXCEPT !.answer = kind,
                                      !.shot = [meal |-> call[c].meal, version |-> t.version,
                                                menu |-> t.menu, wishes |-> t.wishes]]
    BY <1>2 DEF InFlight
  <1>4. call[c] \in Calls
    BY DEF TypeOK
  <1>5. /\ call'[c].op = call[c].op /\ call'[c].meal = call[c].meal
        /\ call'[c].from = call[c].from /\ call'[c].dishes = call[c].dishes
        /\ call'[c].expected = call[c].expected /\ call'[c].seen = call[c].seen
    BY <1>3, <1>4 DEF Calls
  <1> QED BY <1>1, <1>3, <1>5 DEF Reply

\* No editor has a busy button behind the skeleton.
Waiting == NeverStuck /\ (loading => busy = NoClick)

\* What a click sends, by its button.
LEMMA ClickStep ==
  ASSUME TypeOK, Numbered, Waiting, NEW j, Click(j),
         \/ j.op = "load" /\ loading' = TRUE /\ busy' = NoClick
         \/ loading' = loading /\ busy' = busy
         \/ j.op = "confirm" /\ loading = FALSE /\ loading' = FALSE /\ busy' = clicks + 1
  PROVE  Waiting'
  <1>1. /\ clicks + 1 \notin InFlight
        /\ InFlight' = InFlight \cup {clicks + 1}
        /\ call'[clicks + 1] = j
        /\ \A c \in InFlight : call'[c] = call[c]
    BY ClickCalls
  <1> QED BY <1>1 DEF Waiting, NeverStuck

\* Every step leaves the page something to wait for.
LEMMA StepWaits ==
  ASSUME TypeOK, Numbered, Waiting, [Next]_vars
  PROVE  Waiting'
  <1>1. CASE \E m \in Meals : Select(m)
    <2>1. PICK m \in Meals : Click(NewLoad(m)) /\ loading' = TRUE /\ busy' = NoClick
      BY <1>1 DEF Select, NoEditor
    <2>2. NewLoad(m).op = "load"
      BY DEF NewLoad
    <2>3. PICK j : Click(j) /\ j.op = "load"
      BY <2>1, <2>2, Zenon
    <2> QED BY <2>1, <2>3, ClickStep
  <1>2. CASE \E m \in Meals : OtherActs(m)
    <2>1. UNCHANGED <<loading, busy, call>>
      BY <1>2 DEF OtherActs, page
    <2> QED BY <2>1 DEF Waiting, NeverStuck, InFlight
  <1>3. CASE \E d \in Dishes : Wish(d) \/ Withdraw(d)
    <2>1. PICK j : Click(j) /\ loading' = loading /\ busy' = busy
      BY <1>3 DEF Wish, Withdraw
    <2> QED BY <2>1, ClickStep
  <1>4. CASE \E d \in Dishes : Toggle(d)
    BY <1>4 DEF Toggle, Waiting, NeverStuck, InFlight
  <1>5. CASE Switch
    BY <1>5 DEF Switch, NoEditor, Waiting, NeverStuck, InFlight
  <1>6. CASE Confirm
    <2>1. Click(Asked("confirm", draft)) /\ busy' = clicks + 1
      BY <1>6 DEF Confirm
    <2>2. Asked("confirm", draft).op = "confirm"
      BY DEF Asked
    <2>3. PICK j : Click(j) /\ j.op = "confirm" /\ busy' = clicks + 1
      BY <2>1, <2>2, Zenon
    <2>4. loading = FALSE /\ loading' = FALSE
      BY <1>6 DEF Confirm, Usable, TypeOK
    <2> QED BY <2>3, <2>4, ClickStep
  <1>7. CASE \E c \in InFlight : Serve(c)
    <2>1. PICK c \in InFlight : Serve(c)
      BY <1>7
    <2>2. /\ loading' = loading /\ busy' = busy
          /\ InFlight' = InFlight
          /\ \A d \in InFlight : call'[d].op = call[d].op
      BY <2>1, ServeCalls DEF page
    <2> QED BY <2>2 DEF Waiting, NeverStuck
  <1>8. ASSUME NEW c \in InFlight, Settle(c)
        PROVE  Waiting'
    <2>1. CASE Loaded(c) \/ Updated(c) \/ Fail(c)
      <3>1. call' = Without(c)
        BY <2>1 DEF Loaded, Updated, Fail
      <3>2. /\ InFlight' = InFlight \ {c}
            /\ \A d \in InFlight' : call'[d] = call[d]
        BY <3>1, WithoutCalls
      <3>3. CASE loading' = FALSE
        <4>1. busy' = NoClick \/ (busy' = busy /\ busy # c)
          BY <2>1, <3>3 DEF Waiting, NeverStuck, Loaded, Updated, Fail, NewEditor, NoEditor, ReplaceSlot
        <4> QED BY <3>2, <3>3, <4>1 DEF Waiting, NeverStuck
      <3>4. CASE loading' = loading /\ ~ (loading /\ call[c].op = "load")
        BY <2>1, <3>2, <3>4 DEF Waiting, NeverStuck, Loaded, Updated, Fail, ReplaceSlot
      <3> QED BY <2>1, <3>3, <3>4 DEF Loaded, Updated, Fail
    <2>2. CASE Withdrawn(c) \/ Conflict(c)
      <3>1. /\ call' = [call EXCEPT ![c] = NewLoad(call[c].from)]
            /\ loading' = TRUE /\ busy' = NoClick
        BY <2>2 DEF Withdrawn, Conflict, LoadAgain, NoEditor
      <3>2. c \in InFlight' /\ call'[c].op = "load"
        BY <3>1 DEF InFlight, NewLoad
      <3> QED BY <3>1, <3>2 DEF Waiting, NeverStuck
    <2> QED BY <1>8, <2>1, <2>2 DEF Settle
  <1>9. CASE UNCHANGED vars
    BY <1>9 DEF vars, page, Waiting, NeverStuck, InFlight
  <1> QED BY <1>1, <1>2, <1>3, <1>4, <1>5, <1>6, <1>7, <1>8, <1>9 DEF Next

\* Behind every skeleton there is a load in flight, and behind a disabled button
\* the confirmation that keeps it so, however many calls overtake each other or
\* fail.
THEOREM WaitsForSomething == Spec => []NeverStuck
  <1>1. Init => Waiting
    <2> SUFFICES ASSUME Init PROVE Waiting
      OBVIOUS
    <2>1. 0 \in InFlight /\ call[0] = NewLoad(at) /\ NewLoad(at).op = "load"
      BY DEF Init, InFlight, NewLoad
    <2> QED BY <2>1 DEF Init, Waiting, NeverStuck
  <1>2. TypeOK /\ Numbered /\ Waiting /\ [Next]_vars =>
          TypeOK' /\ Numbered' /\ Waiting'
    BY StepTypes, StepWaits
  <1>3. Waiting => NeverStuck
    BY DEF Waiting
  <1> QED BY <1>1, <1>2, <1>3, InitTypes, PTL DEF Spec

-----------------------------------------------------------------------------
(* What the page has seen of the menus.                                    *)

\* Version v of meal m had the menu M; the server may have gone on.
Past(m, v, M) ==
  /\ m \in Meals /\ v \in Nat
  /\ v <= slots[m].version
  /\ v = slots[m].version => M = slots[m].menu

\* So it was with what call j brings, and with what it is to replace.
CallCurrent(j) ==
  /\ j.answer # "none" =>
       j.shot.meal = j.meal /\ Past(j.meal, j.shot.version, j.shot.menu)
  /\ j.op = "confirm" => Past(j.meal, j.expected, j.seen) /\ j.dishes # {}
  /\ j.op \in {"wish", "withdraw"} => \E d \in Dishes : j.dishes = {d}
  /\ j.answer = "conflict" => j.expected < slots[j.meal].version

\* What is shown, answered, or to be replaced was so on the server, and the menu
\* of a conflict has been replaced.
Current ==
  /\ shown # NoShot => Past(shown.meal, shown.version, shown.menu)
  /\ \A c \in InFlight : CallCurrent(call[c])
  /\ conflict => lost.meal \in Meals /\ lost.version < slots[lost.meal].version

\* Unless it confirms, the server changes no more of a slot than its wishes.
LEMMA WishesOnly ==
  ASSUME TypeOK, NEW c \in InFlight, Serve(c),
         ~ (ServeConfirm(c) /\ call[c].expected = slots[call[c].meal].version)
  PROVE  \E W : slots' = [slots EXCEPT ![call[c].meal] =
                            [slots[call[c].meal] EXCEPT !.wishes = W]]
  <1> DEFINE k == call[c].meal
  <1>1. k \in Meals /\ slots[k] \in Slots
    BY DEF TypeOK, Calls
  <1>2. slots' = [slots EXCEPT ![k] = slots[k]] =>
          slots' = [slots EXCEPT ![k] = [slots[k] EXCEPT !.wishes = slots[k].wishes]]
    BY <1>1 DEF Slots
  <1> QED BY <1>2 DEF Serve, ServeLoad, ServeWish, ServeWithdraw, ServeConfirm, Reply

\* The server only goes on, and a menu changes with its version.
LEMMA SlotsAdvance ==
  ASSUME TypeOK, [Next]_vars, NEW m \in Meals
  PROVE  /\ slots[m].version \in Nat /\ slots'[m].version \in Nat
         /\ slots[m].version <= slots'[m].version
         /\ slots'[m].version = slots[m].version => slots'[m].menu = slots[m].menu
  <1>1. slots \in [Meals -> Slots] /\ slots[m] \in Slots
    BY DEF TypeOK
  <1>2. slots[m].version \in Nat
    BY <1>1 DEF Slots
  <1>3. CASE slots' = slots
    BY <1>2, <1>3
  <1>4. ASSUME NEW k \in Meals, OtherActs(k)
        PROVE  /\ slots[m].version <= slots'[m].version /\ slots'[m].version \in Nat
               /\ slots'[m].version = slots[m].version => slots'[m].menu = slots[m].menu
    <2>1. slots[k] \in Slots
      BY <1>1
    <2>2. CASE \E d \in Dishes : \/ slots' = [slots EXCEPT ![k].wishes = @ \cup {<<You, d>>}]
                                \/ slots' = [slots EXCEPT ![k].wishes = @ \ {<<You, d>>}]
      <3>1. slots'[m].version = slots[m].version /\ slots'[m].menu = slots[m].menu
        BY <1>1, <2>1, <2>2 DEF Slots
      <3> QED BY <1>2, <3>1
    <2>3. CASE \E ds \in (SUBSET Dishes) \ {{}} :
                 slots' = [slots EXCEPT ![k] = [slots[k] EXCEPT !.version = @ + 1, !.menu = ds,
                                                                !.editor = You]]
      <3>1. IF m = k THEN slots'[m].version = slots[m].version + 1 ELSE slots'[m] = slots[m]
        BY <1>1, <2>1, <2>3 DEF Slots
      <3> QED BY <1>2, <3>1
    <2> QED BY <1>4, <2>2, <2>3 DEF OtherActs
  <1>5. ASSUME NEW c \in InFlight, Serve(c)
        PROVE  /\ slots[m].version <= slots'[m].version /\ slots'[m].version \in Nat
               /\ slots'[m].version = slots[m].version => slots'[m].menu = slots[m].menu
    <2> DEFINE k == call[c].meal
    <2>1. k \in Meals /\ slots[k] \in Slots
      BY <1>1 DEF TypeOK, Calls
    <2>2. CASE ServeConfirm(c) /\ call[c].expected = slots[k].version
      <3>1. slots' = [slots EXCEPT ![k] = [slots[k] EXCEPT !.version = @ + 1, !.editor = Me,
                                                           !.menu = call[c].dishes]]
        BY <2>2 DEF ServeConfirm, Reply
      <3>2. IF m = k THEN slots'[m].version = slots[m].version + 1 ELSE slots'[m] = slots[m]
        BY <1>1, <2>1, <3>1 DEF Slots
      <3> QED BY <1>2, <3>2
    <2>3. CASE ~ (ServeConfirm(c) /\ call[c].expected = slots[k].version)
      <3>1. \E W : slots' = [slots EXCEPT ![k] = [slots[k] EXCEPT !.wishes = W]]
        BY <1>5, <2>3, WishesOnly
      <3>2. slots'[m].version = slots[m].version /\ slots'[m].menu = slots[m].menu
        BY <1>1, <2>1, <3>1 DEF Slots
      <3> QED BY <1>2, <3>2
    <2> QED BY <2>2, <2>3
  <1>6. \/ slots' = slots
        \/ \E k \in Meals : OtherActs(k)
        \/ \E c \in InFlight : Serve(c)
    BY DEF Next, Select, Click, Wish, Withdraw, Confirm, Toggle, Switch, Settle, Loaded,
           Updated, Withdrawn, Conflict, Fail, vars
  <1> QED BY <1>2, <1>3, <1>4, <1>5, <1>6

\* What was so stays past.
LEMMA PastStays ==
  ASSUME TypeOK, [Next]_vars, NEW m, NEW v, NEW M, Past(m, v, M)
  PROVE  /\ m \in Meals /\ v \in Nat
         /\ v <= slots'[m].version
         /\ v = slots'[m].version => M = slots'[m].menu
  <1>1. m \in Meals /\ v \in Nat /\ v <= slots[m].version
        /\ (v = slots[m].version => M = slots[m].menu)
    BY DEF Past
  <1> QED BY <1>1, SlotsAdvance

\* A call that is not ahead of the server is not so later.
LEMMA CallStays ==
  ASSUME TypeOK, [Next]_vars, NEW j \in Calls, CallCurrent(j)
  PROVE  CallCurrent(j)'
  <1>1. j.answer # "none" => Past(j.meal, j.shot.version, j.shot.menu)'
    BY PastStays DEF CallCurrent, Past
  <1>2. j.op = "confirm" => Past(j.meal, j.expected, j.seen)'
    BY PastStays DEF CallCurrent, Past
  <1>3. j.meal \in Meals /\ j.expected \in Nat
    BY DEF Calls
  <1>4. j.answer = "conflict" => j.expected < slots'[j.meal].version
    BY <1>3, SlotsAdvance DEF CallCurrent
  <1> QED BY <1>1, <1>2, <1>4 DEF CallCurrent

\* An answer is current when it is given.
LEMMA ServeCurrent ==
  ASSUME TypeOK, Current, NEW c \in InFlight, Serve(c)
  PROVE  CallCurrent(call[c])'
  <1> DEFINE k == call[c].meal
  <1>1. call[c] \in Calls /\ k \in Meals /\ slots[k] \in Slots /\ CallCurrent(call[c])
    BY DEF TypeOK, Calls, Current
  <1>2. PICK kind \in {"ok", "conflict"}, t \in Slots :
          /\ Reply(c, kind, t)
          /\ kind = "conflict" => t = slots[k] /\ call[c].op = "confirm"
                                 /\ call[c].expected # t.version
    <2> USE <1>1
    <2>1. CASE ServeLoad(c)
      BY <2>1 DEF ServeLoad
    <2>2. CASE ServeWish(c)
      <3>1. {Me} \X call[c].dishes \subseteq People \X Dishes
        BY DEF Calls, People
      <3>2. [slots[k] EXCEPT !.wishes = @ \cup ({Me} \X call[c].dishes)] \in Slots
        BY <3>1 DEF Slots
      <3> QED BY <2>2, <3>2 DEF ServeWish
    <2>3. CASE ServeWithdraw(c)
      <3>1. [slots[k] EXCEPT !.wishes = @ \ ({Me} \X call[c].dishes)] \in Slots
        BY DEF Slots
      <3> QED BY <2>3, <3>1 DEF ServeWithdraw
    <2>4. CASE ServeConfirm(c)
      <3>1. slots[k].version + 1 \in Nat /\ call[c].dishes \subseteq Dishes
        BY DEF Slots, Calls
      <3>2. [slots[k] EXCEPT !.version = @ + 1, !.editor = Me,
                             !.menu = call[c].dishes] \in Slots
        BY <3>1 DEF Slots, People
      <3> QED BY <2>4, <3>2 DEF ServeConfirm, Arrived
    <2> QED BY <2>1, <2>2, <2>3, <2>4 DEF Serve
  <1>3. [Next]_vars /\ call[c].meal \in Meals
    BY <1>1 DEF Next
  <1>4. call[c].op = "confirm" => Past(k, call[c].expected, call[c].seen)
                                  /\ call[c].dishes # {}
    BY <1>1 DEF CallCurrent
  <1>5. /\ call' = [call EXCEPT ![c].answer = kind,
                                ![c].shot = [meal |-> k, version |-> t.version,
                                             menu |-> t.menu, wishes |-> t.wishes]]
        /\ slots' = [slots EXCEPT ![k] = t]
    BY <1>2 DEF Reply
  <1>6. /\ call'[c].answer = kind /\ call'[c].op = call[c].op /\ call'[c].meal = k
        /\ call'[c].expected = call[c].expected /\ call'[c].seen = call[c].seen
        /\ call'[c].dishes = call[c].dishes
        /\ call'[c].shot.meal = k /\ call'[c].shot.version = t.version
        /\ call'[c].shot.menu = t.menu
    BY <1>1, <1>5 DEF InFlight, Calls
  <1>7. slots'[k] = t /\ t.version \in Nat
    BY <1>1, <1>2, <1>5 DEF TypeOK, Slots
  <1>8. Past(call[c].meal, call[c].shot.version, call[c].shot.menu)'
    BY <1>1, <1>6, <1>7 DEF Past
  <1>9. call[c].op = "confirm" =>
           /\ k \in Meals /\ call[c].expected \in Nat
           /\ call[c].expected <= slots'[k].version
           /\ call[c].expected = slots'[k].version => call[c].seen = slots'[k].menu
    BY <1>3, <1>4, PastStays
  <1>10. call'[c].op = "confirm" => Past(call[c].meal, call[c].expected, call[c].seen)'
    BY <1>6, <1>9 DEF Past
  <1>11. kind = "conflict" => call'[c].expected < slots'[k].version
    BY <1>2, <1>4, <1>6, <1>7 DEF Past
  <1>12. call'[c].op \in {"wish", "withdraw"} => \E d \in Dishes : call'[c].dishes = {d}
    BY <1>1, <1>6 DEF CallCurrent
  <1> QED BY <1>4, <1>6, <1>8, <1>10, <1>11, <1>12 DEF CallCurrent

\* A click that leaves page and conflict as they were adds a current call.
LEMMA ClickCurrent ==
  ASSUME TypeOK, Numbered, Current, [Next]_vars, NEW j, Click(j), CallCurrent(j)',
         shown' = shown, conflict' => conflict
  PROVE  Current'
  <1>1. /\ InFlight' = InFlight \cup {clicks + 1}
        /\ call'[clicks + 1] = j
        /\ \A c \in InFlight : call'[c] = call[c]
    BY ClickCalls
  <1>2. \A c \in InFlight : CallCurrent(call[c]) /\ call[c] \in Calls
    BY DEF Current, TypeOK
  <1>3. \A k \in Calls : CallCurrent(k) => CallCurrent(k)'
    BY CallStays
  <1>4. \A c \in InFlight' : CallCurrent(call[c])'
    BY <1>1, <1>2, <1>3
  <1>5. shown' # NoShot => Past(shown.meal, shown.version, shown.menu)'
    BY PastStays DEF Current, Past
  <1>6. conflict' => lost'.meal \in Meals /\ lost'.version < slots'[lost'.meal].version
    <2>1. lost' = lost /\ lost.version \in Nat
      BY DEF Click, TypeOK
    <2>2. conflict => lost.meal \in Meals /\ lost.version < slots'[lost.meal].version
      BY <2>1, SlotsAdvance DEF Current
    <2> QED BY <2>1, <2>2
  <1> QED BY <1>4, <1>5, <1>6 DEF Current

\* Every step leaves what is shown, and what is on its way, not ahead of the server.
LEMMA StepCurrent ==
  ASSUME TypeOK, Numbered, Current, [Next]_vars
  PROVE  Current'
  <1>1. \A j \in Calls : CallCurrent(j) => CallCurrent(j)'
    BY CallStays
  <1>2. \A c \in InFlight : CallCurrent(call[c]) /\ call[c] \in Calls
    BY DEF Current, TypeOK
  <1>3. shown # NoShot => /\ shown.meal \in Meals /\ shown.version \in Nat
                          /\ shown.version <= slots'[shown.meal].version
                          /\ shown.version = slots'[shown.meal].version =>
                               shown.menu = slots'[shown.meal].menu
    BY PastStays DEF Current
  <1>4. conflict => lost.meal \in Meals /\ lost.version < slots'[lost.meal].version
    <2>1. lost.version \in Nat
      BY DEF TypeOK
    <2> QED BY <2>1, SlotsAdvance DEF Current
  <1>5. CASE UNCHANGED <<shown, conflict, lost, call>>
    BY <1>1, <1>2, <1>3, <1>4, <1>5 DEF Current, Past, InFlight
  <1>6. CASE \E m \in Meals : Select(m)
    <2>1. PICK m \in Meals : Select(m)
      BY <1>6
    <2>2. CallCurrent(NewLoad(m))'
      BY DEF CallCurrent, NewLoad
    <2> QED BY <2>1, <2>2, ClickCurrent DEF Select
  <1>7. CASE Confirm \/ \E d \in Dishes : Wish(d) \/ Withdraw(d)
    <2>1. shown # NoShot /\ shown' = shown /\ (conflict' => conflict)
      <3>1. CASE Confirm
        BY <3>1 DEF Confirm, Usable
      <3>2. CASE \E d \in Dishes : Wish(d) \/ Withdraw(d)
        BY <3>2 DEF Wish, Withdraw, Usable
      <3> QED BY <1>7, <3>1, <3>2
    <2> DEFINE Sent(op, ds) == /\ Click(Asked(op, ds)) /\ ds # {}
                               /\ op = "confirm" \/ \E d \in Dishes : ds = {d}
    <2>2. \E op, ds : Sent(op, ds)
      <3>1. CASE Confirm
        BY <3>1, Zenon DEF Confirm
      <3>2. CASE \E d \in Dishes : Wish(d) \/ Withdraw(d)
        <4>1. PICK d \in Dishes : Wish(d) \/ Withdraw(d)
          BY <3>2
        <4>2. {d} # {}
          OBVIOUS
        <4>3. Click(Asked("wish", {d})) \/ Click(Asked("withdraw", {d}))
          BY <4>1 DEF Wish, Withdraw
        <4>4. Sent("wish", {d}) \/ Sent("withdraw", {d})
          BY <4>2, <4>3
        <4> QED BY <4>4, Zenon
      <3> QED BY <1>7, <3>1, <3>2
    <2>3. PICK op, ds : Sent(op, ds)
      BY <2>2
    <2>4. PICK j : j = Asked(op, ds)
      OBVIOUS
    <2>5. /\ j.meal = shown.meal /\ j.expected = shown.version /\ j.seen = shown.menu
          /\ j.answer = "none" /\ j.dishes # {}
          /\ j.op \in {"wish", "withdraw"} => \E d \in Dishes : j.dishes = {d}
      BY <2>3, <2>4 DEF Asked
    <2>6. CallCurrent(j)'
      BY <1>3, <2>1, <2>5 DEF CallCurrent, Past
    <2>7. Click(j)
      BY <2>3, <2>4, Zenon
    <2> QED BY <2>1, <2>6, <2>7, ClickCurrent
  <1>8. ASSUME NEW c \in InFlight, Serve(c)
        PROVE  Current'
    <2>1. CallCurrent(call[c])' /\ UNCHANGED <<shown, conflict, lost>>
      BY <1>8, ServeCurrent, ServeCalls DEF page
    <2>2. InFlight' = InFlight /\ \A d \in InFlight \ {c} : call'[d] = call[d]
      BY <1>8 DEF Serve, ServeLoad, ServeWish, ServeWithdraw, ServeConfirm, Reply, InFlight
    <2>3. \A d \in InFlight' : CallCurrent(call[d])'
      BY <1>1, <1>2, <2>1, <2>2
    <2> QED BY <1>3, <1>4, <2>1, <2>3 DEF Current, Past
  <1>9. ASSUME NEW c \in InFlight, Settle(c)
        PROVE  Current'
    <2>1. CASE Loaded(c) \/ Updated(c) \/ Fail(c)
      <3>1. call' = Without(c)
        BY <2>1 DEF Loaded, Updated, Fail
      <3>2. \A d \in InFlight' : d \in InFlight /\ call'[d] = call[d]
        BY <3>1, WithoutCalls
      <3>3. \A d \in InFlight' : CallCurrent(call[d])'
        BY <1>1, <1>2, <3>2
      <3>4. shown' = shown \/ (shown' = call[c].shot /\ call[c].answer # "none")
        BY <2>1 DEF Loaded, Updated, Fail, ReplaceSlot
      <3>5. call[c].answer # "none" =>
              Past(call[c].shot.meal, call[c].shot.version, call[c].shot.menu)
        BY <1>2 DEF CallCurrent
      <3>6. shown' # NoShot => /\ shown'.meal \in Meals /\ shown'.version \in Nat
                               /\ shown'.version <= slots'[shown'.meal].version
                               /\ shown'.version = slots'[shown'.meal].version =>
                                    shown'.menu = slots'[shown'.meal].menu
        BY <1>3, <3>4, <3>5, PastStays
      <3>7. UNCHANGED <<conflict, lost>>
        BY <2>1 DEF Loaded, Updated, Fail
      <3> QED BY <1>4, <3>3, <3>6, <3>7 DEF Current, Past
    <2>2. CASE Withdrawn(c) \/ Conflict(c)
      <3>1. call' = [call EXCEPT ![c] = NewLoad(call[c].from)] /\ slots' = slots
            /\ shown' = shown
        BY <2>2 DEF Withdrawn, Conflict, LoadAgain
      <3>2. InFlight' = InFlight /\ call'[c] = NewLoad(call[c].from)
            /\ \A d \in InFlight \ {c} : call'[d] = call[d]
        BY <3>1 DEF InFlight
      <3>3. CallCurrent(call[c])'
        BY <3>2 DEF CallCurrent, NewLoad
      <3>4. \A d \in InFlight' : CallCurrent(call[d])'
        BY <1>1, <1>2, <3>2, <3>3
      <3>5. call[c].answer = "conflict" => call[c].meal \in Meals
                                           /\ call[c].expected < slots[call[c].meal].version
        BY <1>2 DEF CallCurrent, Calls
      <3>6. conflict' => lost'.meal \in Meals /\ lost'.version < slots'[lost'.meal].version
        <4>1. CASE Withdrawn(c)
          BY <1>4, <4>1 DEF Withdrawn
        <4>2. CASE Conflict(c)
          <5>1. lost'.meal = call[c].meal /\ lost'.version = call[c].expected
                /\ call[c].answer = "conflict"
            BY <4>2 DEF Conflict
          <5> QED BY <3>1, <3>5, <5>1
        <4> QED BY <2>2, <4>1, <4>2
      <3> QED BY <1>3, <3>1, <3>4, <3>6 DEF Current, Past
    <2> QED BY <1>9, <2>1, <2>2 DEF Settle
  <1>10. \/ UNCHANGED <<shown, conflict, lost, call>>
         \/ \E m \in Meals : Select(m)
         \/ Confirm \/ (\E d \in Dishes : Wish(d) \/ Withdraw(d))
         \/ \E c \in InFlight : Serve(c) \/ Settle(c)
    BY DEF Next, OtherActs, Toggle, Switch, page, vars
  <1> QED BY <1>5, <1>6, <1>7, <1>8, <1>9, <1>10

\* The first load is not ahead of the server.
LEMMA InitCurrent == Init => Current
  <1> SUFFICES ASSUME Init PROVE Current
    OBVIOUS
  <1>1. \A c \in InFlight : call[c] = NewLoad(at)
    BY DEF Init, InFlight
  <1>2. CallCurrent(NewLoad(at))
    BY DEF CallCurrent, NewLoad
  <1> QED BY <1>1, <1>2 DEF Init, Current

\* However old the page is, and however late the call arrives: the menu that a
\* confirmation of this member replaces is the one that the page showed then.
LEMMA StepSees ==
  ASSUME TypeOK, Current, Next, NEW m \in Meals,
         slots'[m].version # slots[m].version, slots'[m].editor = Me
  PROVE  \E c \in InFlight : /\ call[c].op = "confirm" /\ call[c].meal = m
                             /\ call[c].seen = slots[m].menu
  <1>1. slots \in [Meals -> Slots]
    BY DEF TypeOK
  <1>2. ASSUME NEW k \in Meals, OtherActs(k)
        PROVE  FALSE
    <2>1. slots[k] \in Slots
      BY <1>1
    <2>2. CASE \E d \in Dishes : \/ slots' = [slots EXCEPT ![k].wishes = @ \cup {<<You, d>>}]
                                \/ slots' = [slots EXCEPT ![k].wishes = @ \ {<<You, d>>}]
      BY <1>1, <2>1, <2>2 DEF Slots
    <2>3. CASE \E ds \in (SUBSET Dishes) \ {{}} :
                 slots' = [slots EXCEPT ![k] = [slots[k] EXCEPT !.version = @ + 1, !.menu = ds,
                                                                !.editor = You]]
      BY <1>1, <2>1, <2>3, PeopleAssumption DEF Slots
    <2> QED BY <1>2, <2>2, <2>3 DEF OtherActs
  <1>3. ASSUME NEW c \in InFlight, Serve(c)
        PROVE  /\ call[c].op = "confirm" /\ call[c].meal = m
               /\ call[c].seen = slots[m].menu
    <2>1. call[c].meal \in Meals /\ slots[call[c].meal] \in Slots
      BY <1>1 DEF TypeOK, Calls
    <2>2. CASE ServeConfirm(c) /\ call[c].expected = slots[call[c].meal].version
      <3>1. slots' = [slots EXCEPT ![call[c].meal] =
                        [slots[call[c].meal] EXCEPT !.version = @ + 1, !.editor = Me,
                                                    !.menu = call[c].dishes]]
        BY <2>2 DEF ServeConfirm, Reply
      <3>2. call[c].meal = m
        BY <1>1, <3>1
      <3>3. call[c].op = "confirm" /\ CallCurrent(call[c])
        BY <2>2 DEF ServeConfirm, Arrived, Current
      <3> QED BY <2>2, <3>2, <3>3 DEF CallCurrent, Past
    <2>3. CASE ~ (ServeConfirm(c) /\ call[c].expected = slots[call[c].meal].version)
      <3>1. slots'[m].version = slots[m].version
        <4>1. PICK W : slots' = [slots EXCEPT ![call[c].meal] =
                                   [slots[call[c].meal] EXCEPT !.wishes = W]]
          BY <1>3, <2>3, WishesOnly
        <4> QED BY <1>1, <2>1, <4>1 DEF Slots
      <3> QED BY <3>1
    <2> QED BY <2>2, <2>3
  <1>4. \/ slots' = slots
        \/ \E k \in Meals : OtherActs(k)
        \/ \E c \in InFlight : Serve(c)
    BY DEF Next, Select, Click, Wish, Withdraw, Confirm, Toggle, Switch, Settle, Loaded,
           Updated, Withdrawn, Conflict, Fail
  <1> QED BY <1>2, <1>3, <1>4

\* Nobody's menu is overwritten unseen (TodayPage.handleConfirm with the version
\* of the slot that it shows).
THEOREM SeenBeforeReplaced == Spec => NoBlindOverwrite
  <1> DEFINE Seen == \A m \in Meals :
        slots'[m].version # slots[m].version /\ slots'[m].editor = Me =>
          \E c \in InFlight : /\ call[c].op = "confirm" /\ call[c].meal = m
                              /\ call[c].seen = slots[m].menu
  <1>1. TypeOK /\ Numbered /\ Current /\ [Next]_vars => TypeOK' /\ Numbered' /\ Current'
    BY StepTypes, StepCurrent
  <1>2. TypeOK /\ Current /\ [Next]_vars => [Seen]_vars
    BY StepSees
  <1>3. Init => TypeOK /\ Numbered /\ Current
    BY InitTypes, InitCurrent
  <1> QED BY <1>1, <1>2, <1>3, PTL DEF Spec, NoBlindOverwrite

-----------------------------------------------------------------------------
(* The server's meals are boards.                                          *)

\* A step of a board, of the page's variables.
LEMMA BoardStep ==
  ASSUME NEW m \in Meals,
         \/ slots'[m] = slots[m]
         \/ \E p \in People, d \in Dishes :
              \/ /\ <<p, d>> \notin slots[m].wishes
                 /\ slots'[m].wishes = slots[m].wishes \cup {<<p, d>>}
                 /\ slots'[m].version = slots[m].version
                 /\ slots'[m].menu = slots[m].menu /\ slots'[m].editor = slots[m].editor
              \/ /\ slots'[m].wishes = slots[m].wishes \ {<<p, d>>}
                 /\ slots'[m].version = slots[m].version
                 /\ slots'[m].menu = slots[m].menu /\ slots'[m].editor = slots[m].editor
         \/ \E p \in People, ds \in SUBSET Dishes :
              /\ ds # {} /\ slots[m].version \in Nat
              /\ slots'[m].version = slots[m].version + 1 /\ slots'[m].menu = ds
              /\ slots'[m].editor = p /\ slots'[m].wishes = slots[m].wishes
  PROVE  [Board(m)!Next]_(Board(m)!board)
  <1>1. CASE slots'[m] = slots[m]
    BY <1>1 DEF Board!board
  <1>2. ASSUME NEW p \in People, NEW d \in Dishes,
               <<p, d>> \notin slots[m].wishes,
               slots'[m].wishes = slots[m].wishes \cup {<<p, d>>},
               slots'[m].version = slots[m].version,
               slots'[m].menu = slots[m].menu, slots'[m].editor = slots[m].editor
        PROVE  Board(m)!Wish(p, d)
    BY <1>2 DEF Board!Wish
  <1>3. ASSUME NEW p \in People, NEW d \in Dishes,
               slots'[m].wishes = slots[m].wishes \ {<<p, d>>},
               slots'[m].version = slots[m].version,
               slots'[m].menu = slots[m].menu, slots'[m].editor = slots[m].editor
        PROVE  Board(m)!Withdraw(p, d)
    BY <1>3 DEF Board!Withdraw
  <1>4. ASSUME NEW p \in People, NEW ds \in SUBSET Dishes,
               ds # {}, slots[m].version \in Nat,
               slots'[m].version = slots[m].version + 1, slots'[m].menu = ds,
               slots'[m].editor = p, slots'[m].wishes = slots[m].wishes
        PROVE  Board(m)!Confirm(p, slots[m].version, ds)
    BY <1>4 DEF Board!Confirm
  <1>5. (slots'[m] = slots[m]) \/ Board(m)!Next
    BY <1>2, <1>3, <1>4 DEF Board!Next
  <1> QED BY <1>1, <1>5

\* A wish or a withdrawal.
LEMMA WishStep ==
  ASSUME NEW m \in Meals, slots[m] \in Slots, NEW p \in People, NEW d \in Dishes,
         \/ slots'[m] = [slots[m] EXCEPT !.wishes = @ \cup {<<p, d>>}]
         \/ slots'[m] = [slots[m] EXCEPT !.wishes = @ \ {<<p, d>>}]
  PROVE  [Board(m)!Next]_(Board(m)!board)
  <1>1. /\ slots'[m].version = slots[m].version
        /\ slots'[m].menu = slots[m].menu /\ slots'[m].editor = slots[m].editor
        /\ \/ slots'[m].wishes = slots[m].wishes \cup {<<p, d>>}
           \/ slots'[m].wishes = slots[m].wishes \ {<<p, d>>}
    BY DEF Slots
  <1>2. CASE <<p, d>> \in slots[m].wishes
             /\ slots'[m].wishes = slots[m].wishes \cup {<<p, d>>}
    <2>1. slots'[m].wishes = slots[m].wishes
      BY <1>2
    <2>2. slots'[m] = slots[m]
      BY <2>1 DEF Slots
    <2> QED BY <2>2, BoardStep
  <1>3. CASE <<p, d>> \notin slots[m].wishes
             /\ slots'[m].wishes = slots[m].wishes \cup {<<p, d>>}
    BY <1>1, <1>3, BoardStep
  <1>4. CASE slots'[m].wishes = slots[m].wishes \ {<<p, d>>}
    BY <1>1, <1>4, BoardStep
  <1> QED BY <1>1, <1>2, <1>3, <1>4

\* For every meal a step of the page or of the others is a board's, or none.
LEMMA StepBoards ==
  ASSUME TypeOK, Current, Next, NEW m \in Meals
  PROVE  [Board(m)!Next]_(Board(m)!board)
  <1>1. slots \in [Meals -> Slots] /\ slots[m] \in Slots
    BY DEF TypeOK
  <1>2. ASSUME NEW k \in Meals, OtherActs(k)
        PROVE  [Board(m)!Next]_(Board(m)!board)
    <2>1. slots[k] \in Slots
      BY <1>1
    <2>2. CASE \E d \in Dishes : \/ slots' = [slots EXCEPT ![k].wishes = @ \cup {<<You, d>>}]
                                \/ slots' = [slots EXCEPT ![k].wishes = @ \ {<<You, d>>}]
      <3>1. PICK d \in Dishes : \/ slots' = [slots EXCEPT ![k].wishes = @ \cup {<<You, d>>}]
                                \/ slots' = [slots EXCEPT ![k].wishes = @ \ {<<You, d>>}]
        BY <2>2
      <3>2. CASE m # k
        <4>1. slots'[m] = slots[m]
          BY <1>1, <3>1, <3>2
        <4> QED BY <4>1, BoardStep
      <3>3. CASE m = k
        <4>1. \/ slots'[m] = [slots[m] EXCEPT !.wishes = @ \cup {<<You, d>>}]
              \/ slots'[m] = [slots[m] EXCEPT !.wishes = @ \ {<<You, d>>}]
          BY <1>1, <3>1, <3>3
        <4> QED BY <1>1, <4>1, WishStep DEF People
      <3> QED BY <3>2, <3>3
    <2>3. CASE \E ds \in (SUBSET Dishes) \ {{}} :
                 slots' = [slots EXCEPT ![k] = [slots[k] EXCEPT !.version = @ + 1, !.menu = ds,
                                                                !.editor = You]]
      <3>1. PICK ds \in (SUBSET Dishes) \ {{}} :
                 slots' = [slots EXCEPT ![k] = [slots[k] EXCEPT !.version = @ + 1, !.menu = ds,
                                                                !.editor = You]]
        BY <2>3
      <3>2. \/ slots'[m] = slots[m]
            \/ /\ slots[m].version \in Nat
               /\ slots'[m].version = slots[m].version + 1 /\ slots'[m].menu = ds
               /\ slots'[m].editor = You /\ slots'[m].wishes = slots[m].wishes
        BY <1>1, <2>1, <3>1 DEF Slots
      <3> QED BY <3>1, <3>2, BoardStep DEF People
    <2> QED BY <1>2, <2>2, <2>3 DEF OtherActs
  <1>3. ASSUME NEW c \in InFlight, Serve(c)
        PROVE  [Board(m)!Next]_(Board(m)!board)
    <2> DEFINE k == call[c].meal
    <2>1. k \in Meals /\ slots[k] \in Slots /\ call[c].dishes \in SUBSET Dishes
      BY <1>1 DEF TypeOK, Calls
    <2>2. CASE k # m
      <3>1. slots'[m] = slots[m]
        BY <1>1, <1>3, <2>1, <2>2
           DEF Serve, ServeLoad, ServeWish, ServeWithdraw, ServeConfirm, Reply
      <3> QED BY <3>1, BoardStep
    <2>3. CASE k = m /\ ServeLoad(c)
      <3>1. slots'[m] = slots[m]
        BY <1>1, <2>3 DEF ServeLoad, Reply
      <3> QED BY <3>1, BoardStep
    <2>4. CASE k = m /\ ServeConfirm(c)
      <3>1. call[c].dishes # {}
        BY <2>4 DEF ServeConfirm, Arrived, Current, CallCurrent
      <3>2. \/ slots'[m] = slots[m]
            \/ slots'[m] = [slots[m] EXCEPT !.version = @ + 1, !.editor = Me,
                                            !.menu = call[c].dishes]
        BY <1>1, <2>4 DEF ServeConfirm, Reply
      <3>3. \/ slots'[m] = slots[m]
            \/ /\ slots[m].version \in Nat
               /\ slots'[m].version = slots[m].version + 1 /\ slots'[m].menu = call[c].dishes
               /\ slots'[m].editor = Me /\ slots'[m].wishes = slots[m].wishes
        BY <1>1, <3>2 DEF Slots
      <3> QED BY <2>1, <3>1, <3>3, BoardStep DEF People
    <2>5. CASE k = m /\ (ServeWish(c) \/ ServeWithdraw(c))
      <3>1. PICK d \in Dishes : call[c].dishes = {d}
        BY <2>5 DEF ServeWish, ServeWithdraw, Arrived, Current, CallCurrent
      <3>2. {Me} \X call[c].dishes = {<<Me, d>>}
        BY <3>1
      <3>3. \/ slots' = [slots EXCEPT ![m] = [slots[m] EXCEPT !.wishes = @ \cup {<<Me, d>>}]]
            \/ slots' = [slots EXCEPT ![m] = [slots[m] EXCEPT !.wishes = @ \ {<<Me, d>>}]]
        BY <2>5, <3>2 DEF ServeWish, ServeWithdraw, Reply
      <3>4. \/ slots'[m] = [slots[m] EXCEPT !.wishes = @ \cup {<<Me, d>>}]
            \/ slots'[m] = [slots[m] EXCEPT !.wishes = @ \ {<<Me, d>>}]
        BY <1>1, <3>3
      <3> QED BY <1>1, <3>4, WishStep DEF People
    <2> QED BY <1>3, <2>2, <2>3, <2>4, <2>5 DEF Serve
  <1>4. CASE slots' = slots
    <2>1. slots'[m] = slots[m]
      BY <1>4
    <2> QED BY <2>1, BoardStep
  <1>5. \/ slots' = slots
        \/ \E k \in Meals : OtherActs(k)
        \/ \E c \in InFlight : Serve(c)
    BY DEF Next, Select, Click, Wish, Withdraw, Confirm, Toggle, Switch, Settle, Loaded,
           Updated, Withdrawn, Conflict, Fail
  <1> QED BY <1>2, <1>3, <1>4, <1>5

\* The server that the page talks to is, for each meal, the board of MealSlot.
THEOREM ServesBoards == Spec => ServerBoards
  <1> DEFINE Boards == \A m \in Meals : [Board(m)!Next]_(Board(m)!board)
  <1>1. Init => \A m \in Meals : Board(m)!Init
    BY DEF Init, Board!Init
  <1>2. TypeOK /\ Numbered /\ Current /\ [Next]_vars => TypeOK' /\ Numbered' /\ Current'
    BY StepTypes, StepCurrent
  <1>3. TypeOK /\ Current /\ [Next]_vars => [Boards]_vars
    BY StepBoards
  <1>4. Init => TypeOK /\ Numbered /\ Current
    BY InitTypes, InitCurrent
  <1> QED BY <1>1, <1>2, <1>3, <1>4, PTL DEF Spec, ServerBoards

-----------------------------------------------------------------------------
(* What a member sees who waits for each answer.                           *)

\* Two wish lists agree on this member's own wishes.
OwnAlike(V, W) == \A d \in Dishes : <<Me, d>> \in V <=> <<Me, d>> \in W

\* The answer s is about the meal that is selected, with the own wishes as the
\* server has them, and later than a conflict about that meal.
Fresh(s) ==
  /\ s.meal = at
  /\ OwnAlike(s.wishes, slots[at].wishes)
  /\ conflict /\ lost.meal = at => s.version > lost.version

\* Patience is one call at a time, about the meal that is selected.
Patience ==
  patient =>
    /\ \A c, d \in InFlight : c = d
    /\ InFlight # {} => ~ error
    /\ \A c \in InFlight : /\ call[c].meal = at /\ call[c].from = at
                           /\ call[c].answer # "none" => Fresh(call[c].shot)
    /\ InFlight = {} /\ ~ error => Fresh(shown)

\* Only this member's calls change their wishes.
LEMMA OthersOwn ==
  ASSUME TypeOK, NEW k \in Meals, OtherActs(k), NEW m \in Meals
  PROVE  OwnAlike(slots[m].wishes, slots'[m].wishes)
  <1>1. slots \in [Meals -> Slots] /\ slots[m] \in Slots /\ slots[k] \in Slots
    BY DEF TypeOK
  <1>2. CASE \E d \in Dishes : \/ slots' = [slots EXCEPT ![k].wishes = @ \cup {<<You, d>>}]
                              \/ slots' = [slots EXCEPT ![k].wishes = @ \ {<<You, d>>}]
    <2>1. PICK d \in Dishes : \/ slots' = [slots EXCEPT ![k].wishes = @ \cup {<<You, d>>}]
                              \/ slots' = [slots EXCEPT ![k].wishes = @ \ {<<You, d>>}]
      BY <1>2
    <2>2. \/ slots'[m].wishes = slots[m].wishes
          \/ slots'[m].wishes = slots[m].wishes \cup {<<You, d>>}
          \/ slots'[m].wishes = slots[m].wishes \ {<<You, d>>}
      BY <1>1, <2>1 DEF Slots
    <2>3. \A e \in Dishes : <<Me, e>> # <<You, d>>
      BY PeopleAssumption
    <2> QED BY <2>2, <2>3 DEF OwnAlike
  <1>3. CASE \E ds \in (SUBSET Dishes) \ {{}} :
               slots' = [slots EXCEPT ![k] = [slots[k] EXCEPT !.version = @ + 1, !.menu = ds,
                                                              !.editor = You]]
    <2>1. slots'[m].wishes = slots[m].wishes
      BY <1>1, <1>3 DEF Slots
    <2> QED BY <2>1 DEF OwnAlike
  <1> QED BY <1>2, <1>3 DEF OtherActs

\* A click of a patient member, whose page is fresh.
LEMMA ClickPatience ==
  ASSUME TypeOK, Numbered, Patience, NEW j, Click(j), j.answer = "none",
         (patient /\ InFlight = {} /\ ~ error => j.meal = at' /\ j.from = at')
  PROVE  Patience'
  <1>1. /\ InFlight' = InFlight \cup {clicks + 1}
        /\ call'[clicks + 1] = j
        /\ error' = FALSE /\ patient' = (patient /\ InFlight = {} /\ ~ error)
    BY ClickCalls DEF Click
  <1> SUFFICES ASSUME patient' PROVE /\ \A c, d \in InFlight' : c = d
                                     /\ ~ error' /\ InFlight' # {}
                                     /\ \A c \in InFlight' : /\ call'[c].meal = at'
                                                              /\ call'[c].from = at'
                                                              /\ call'[c].answer = "none"
    BY DEF Patience
  <1>2. InFlight' = {clicks + 1} /\ j.meal = at' /\ j.from = at'
    BY <1>1
  <1> QED BY <1>1, <1>2

\* Every step of a patient member leaves the page at the selected meal.
LEMMA StepPatience ==
  ASSUME TypeOK, Numbered, Current, Patience, [Next]_vars
  PROVE  Patience'
  <1>1. CASE \E m \in Meals : Select(m)
    <2>1. PICK m \in Meals : Click(NewLoad(m)) /\ at' = m
      BY <1>1 DEF Select
    <2>2. NewLoad(m).answer = "none" /\ NewLoad(m).meal = m /\ NewLoad(m).from = m
      BY DEF NewLoad
    <2>3. PICK j : j = NewLoad(m)
      OBVIOUS
    <2> QED BY <2>1, <2>2, <2>3, ClickPatience
  <1>2. CASE Confirm \/ \E d \in Dishes : Wish(d) \/ Withdraw(d)
    <2>1. at' = at /\ \E op, ds : Click(Asked(op, ds))
      <3>1. CASE Confirm
        BY <3>1, Zenon DEF Confirm
      <3>2. CASE \E d \in Dishes : Wish(d) \/ Withdraw(d)
        BY <3>2, Zenon DEF Wish, Withdraw
      <3> QED BY <1>2, <3>1, <3>2
    <2>2. PICK op, ds : Click(Asked(op, ds))
      BY <2>1
    <2>3. PICK j : j = Asked(op, ds)
      OBVIOUS
    <2>4. j.answer = "none" /\ j.meal = shown.meal /\ j.from = at
      BY <2>3 DEF Asked
    <2>5. Click(j)
      BY <2>2, <2>3, Zenon
    <2>6. patient /\ InFlight = {} /\ ~ error => shown.meal = at
      BY DEF Patience, Fresh
    <2> QED BY <2>1, <2>4, <2>5, <2>6, ClickPatience
  <1>3. CASE \E m \in Meals : OtherActs(m)
    <2>1. at \in Meals
      BY DEF TypeOK
    <2>2. OwnAlike(slots[at].wishes, slots'[at].wishes)
      BY <1>3, <2>1, OthersOwn
    <2>3. UNCHANGED <<page, call, lost, patient>>
      BY <1>3 DEF OtherActs
    <2> QED BY <2>2, <2>3 DEF Patience, Fresh, OwnAlike, page, InFlight
  <1>4. CASE UNCHANGED <<slots, at, shown, conflict, call, lost, patient, error>>
    BY <1>4 DEF Patience, Fresh, OwnAlike, InFlight
  <1>5. ASSUME NEW c \in InFlight, Serve(c)
        PROVE  Patience'
    <2>1. /\ UNCHANGED <<at, error, conflict, lost, patient>>
          /\ InFlight' = InFlight
          /\ call'[c].meal = call[c].meal /\ call'[c].from = call[c].from
      BY <1>5, ServeCalls DEF page
    <2> SUFFICES ASSUME patient' PROVE /\ call'[c].meal = at /\ call'[c].from = at
                                       /\ Fresh(call[c].shot)'
      BY <2>1 DEF Patience
    <2>2. call[c].meal = at /\ call[c].from = at
      BY <2>1 DEF Patience
    <2>3. PICK kind, t : Reply(c, kind, t)
      BY <1>5 DEF Serve, ServeLoad, ServeWish, ServeWithdraw, ServeConfirm
    <2>4. /\ call' = [call EXCEPT ![c].answer = kind,
                                  ![c].shot = [meal |-> call[c].meal, version |-> t.version,
                                               menu |-> t.menu, wishes |-> t.wishes]]
          /\ slots' = [slots EXCEPT ![call[c].meal] = t]
      BY <2>3 DEF Reply
    <2>5. call[c] \in Calls /\ at \in Meals /\ slots \in [Meals -> Slots]
      BY DEF TypeOK
    <2>6. /\ call'[c].shot.meal = at /\ call'[c].shot.wishes = t.wishes
          /\ call'[c].shot.version = t.version
      BY <2>2, <2>4, <2>5 DEF InFlight, Calls
    <2>7. slots'[at] = t
      BY <2>2, <2>4, <2>5
    <2>8. conflict /\ lost.meal = at => t.version > lost.version
      <3>1. slots[at].version <= slots'[at].version /\ slots[at].version \in Nat
            /\ slots'[at].version \in Nat /\ lost.version \in Nat
        BY <1>5, <2>5, SlotsAdvance DEF Next, TypeOK
      <3>2. conflict /\ lost.meal = at => lost.version < slots[at].version
        BY DEF Current
      <3> QED BY <2>7, <3>1, <3>2
    <2> QED BY <2>1, <2>2, <2>6, <2>7, <2>8 DEF Fresh, OwnAlike
  <1>6. ASSUME NEW c \in InFlight, Settle(c)
        PROVE  Patience'
    <2> SUFFICES ASSUME patient' PROVE Patience'
      BY DEF Patience
    <2>1. patient /\ UNCHANGED <<slots, at>>
      BY <1>6 DEF Settle, Loaded, Updated, Withdrawn, Conflict, Fail
    <2>2. /\ InFlight = {c} /\ ~ error /\ call[c].from = at
          /\ call[c].answer # "none" => Fresh(call[c].shot)
      BY <2>1 DEF Patience
    <2>3. CASE Loaded(c) \/ Updated(c) \/ Fail(c)
      <3>1. call' = Without(c)
        BY <2>3 DEF Loaded, Updated, Fail
      <3>2. InFlight' = {}
        BY <2>2, <3>1, WithoutCalls
      <3>3. \/ error' = TRUE
            \/ /\ shown' = call[c].shot /\ call[c].answer # "none"
               /\ UNCHANGED <<conflict, lost>>
        BY <2>3 DEF Loaded, Updated, Fail, ReplaceSlot
      <3> QED BY <2>1, <2>2, <3>2, <3>3 DEF Patience, Fresh, OwnAlike
    <2>4. CASE Withdrawn(c) \/ Conflict(c)
      <3>1. call' = [call EXCEPT ![c] = NewLoad(call[c].from)] /\ error' = FALSE
        BY <2>4 DEF Withdrawn, Conflict, LoadAgain
      <3>2. InFlight' = {c} /\ call'[c] = NewLoad(at)
        BY <2>2, <3>1 DEF InFlight
      <3>3. call'[c].meal = at /\ call'[c].from = at /\ call'[c].answer = "none"
        BY <3>2 DEF NewLoad
      <3> QED BY <2>1, <3>1, <3>2, <3>3 DEF Patience
    <2> QED BY <1>6, <2>3, <2>4 DEF Settle
  <1>7. \/ UNCHANGED <<slots, at, shown, conflict, call, lost, patient, error>>
        \/ \E m \in Meals : Select(m) \/ OtherActs(m)
        \/ Confirm \/ (\E d \in Dishes : Wish(d) \/ Withdraw(d))
        \/ \E c \in InFlight : Serve(c) \/ Settle(c)
    BY DEF Next, Toggle, Switch, page, vars
  <1> QED BY <1>1, <1>2, <1>3, <1>4, <1>5, <1>6, <1>7

\* The page is opened at the meal that it asks for.
LEMMA InitPatience == Init => Patience
  <1> SUFFICES ASSUME Init PROVE Patience
    OBVIOUS
  <1>1. InFlight = {0} /\ call[0] = NewLoad(at) /\ ~ error
    BY DEF Init, InFlight
  <1>2. NewLoad(at).meal = at /\ NewLoad(at).from = at /\ NewLoad(at).answer = "none"
    BY DEF NewLoad
  <1> QED BY <1>1, <1>2 DEF Patience

\* A member who waits for each answer sees the meal that they selected.
THEOREM PatientSelection == Spec => []PatientShowsSelected
  <1>1. TypeOK /\ Numbered /\ Current /\ Patience /\ [Next]_vars =>
          TypeOK' /\ Numbered' /\ Current' /\ Patience'
    BY StepTypes, StepCurrent, StepPatience
  <1>2. Patience => PatientShowsSelected
    BY DEF Patience, Fresh, PatientShowsSelected, ShowsSelected
  <1>3. Init => TypeOK /\ Numbered /\ Current /\ Patience
    BY InitTypes, InitCurrent, InitPatience
  <1> QED BY <1>1, <1>2, <1>3, PTL DEF Spec

\* Such a member sees their own wishes as the server has them.
THEOREM PatientWishes == Spec => []PatientSeesOwn
  <1>1. TypeOK /\ Numbered /\ Current /\ Patience /\ [Next]_vars =>
          TypeOK' /\ Numbered' /\ Current' /\ Patience'
    BY StepTypes, StepCurrent, StepPatience
  <1>2. Patience => PatientSeesOwn
    BY DEF Patience, Fresh, OwnAlike, PatientSeesOwn
  <1>3. Init => TypeOK /\ Numbered /\ Current /\ Patience
    BY InitTypes, InitCurrent, InitPatience
  <1> QED BY <1>1, <1>2, <1>3, PTL DEF Spec

\* After a conflict such a member has a later version before them.
THEOREM ConflictShowsLater == Spec => []ConflictRefreshed
  <1>1. TypeOK /\ Numbered /\ Current /\ Patience /\ [Next]_vars =>
          TypeOK' /\ Numbered' /\ Current' /\ Patience'
    BY StepTypes, StepCurrent, StepPatience
  <1>2. Patience => ConflictRefreshed
    BY DEF Patience, Fresh, ConflictRefreshed
  <1>3. Init => TypeOK /\ Numbered /\ Current /\ Patience
    BY InitTypes, InitCurrent, InitPatience
  <1> QED BY <1>1, <1>2, <1>3, PTL DEF Spec
=============================================================================
