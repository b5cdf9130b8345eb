----------------------------- MODULE AppCallProofs ---------------------------
(***************************************************************************)
(* The calls that are in flight in App, for all values of the constants:   *)
(* their types and the types of all that the pages keep, what each step    *)
(* does to the calls, and which calls the session and the open page own.   *)
(***************************************************************************)
EXTENDS App, SequenceTheorems, WellFoundedInduction, TLAPS

-----------------------------------------------------------------------------
(* Calls.                                                                  *)

SessionOps == {"session", "create", "join", "rotate"}
DishOps    == {"dishes", "create_dish", "update_dish", "archive_dish", "upload"}
ChooseOps  == {"slot", "search", "random", "ensure", "wish", "opened"}
HistoryOps == {"history", "checkin"}
Ops        == SessionOps \cup DishOps \cup ChooseOps \cup HistoryOps

\* Some number of a set is the least.
LEMMA LeastNumber ==
  ASSUME NEW T \in SUBSET Nat, T # {}
  PROVE  \E x \in T : \A y \in T : x <= y
<1> DEFINE R == {ss \in Nat \X Nat : ss[1] < ss[2]}
<1>1. IsWellFoundedOn(R, Nat)
  BY NatLessThanWellFounded DEF OpToRel
<1>2. PICK x \in T : \A y \in T : ~ (<<y, x>> \in R)
  BY <1>1, WFMin
<1>3. \A y \in T : ~ (y < x)
  <2> TAKE y \in T
  <2>1. y < x => <<y, x>> \in R
    OBVIOUS
  <2> QED  BY <2>1, <1>2
<1> QED  BY <1>3

\* A call that is added takes a place of its own.
LEMMA AddingTo ==
  ASSUME NEW f, NEW j, Room(f)
  PROVE  /\ Free(f) \in Ids \ DOMAIN f
         /\ DOMAIN Adding(f, j) = DOMAIN f \cup {Free(f)}
         /\ Adding(f, j)[Free(f)] = j
         /\ \A i \in DOMAIN f : Adding(f, j)[i] = f[i]
<1>1. Ids \ DOMAIN f \in SUBSET Nat /\ Ids \ DOMAIN f # {}
  BY BrowserAssumption DEF Ids, Room
<1>2. \E i \in Ids \ DOMAIN f : \A k \in Ids \ DOMAIN f : i <= k
  BY <1>1, LeastNumber
<1>3. Free(f) \in Ids \ DOMAIN f
  BY <1>2 DEF Free
<1> QED  BY <1>3 DEF Adding

\* What a step may do with the calls: end one, make another of it, or send one.
Removed(c)   == /\ InFlight' = InFlight \ {c}
                /\ \A i \in InFlight \ {c} : calls'[i] = calls[i]
Became(c, j) == /\ InFlight' = InFlight /\ calls'[c] = j
                /\ \A i \in InFlight \ {c} : calls'[i] = calls[i]
Sent(j)      == \E n \in Ids \ InFlight :
                  /\ InFlight' = InFlight \cup {n} /\ calls'[n] = j
                  /\ \A i \in InFlight : calls'[i] = calls[i]

\* Call j with another answer, as one that nobody awaits, and with other arguments.
With(j, kind, body) == [op |-> j.op, arg |-> j.arg, live |-> j.live, answer |-> kind,
                        body |-> body]
Dead(j)             == [op |-> j.op, arg |-> j.arg, live |-> FALSE, answer |-> j.answer,
                        body |-> j.body]
Meaning(j, arg)     == [op |-> j.op, arg |-> arg, live |-> j.live, answer |-> j.answer,
                        body |-> j.body]

\* What every call has.
Shaped(j) ==
  /\ j = [op |-> j.op, arg |-> j.arg, live |-> j.live, answer |-> j.answer, body |-> j.body]
  /\ j.op \in Ops /\ j.live \in BOOLEAN
  /\ j.answer \in {"none", "refused", "found", "ok"}
  /\ j.op \in Reads => j.live
  /\ j.op = "opened" => ~ j.live

\* What the calls of each page carry, and what their answers bring; K are the
\* dishes that the server has.
SessionCall(j) == j.op \in SessionOps /\ j.answer = "ok" => j.body \in Codes

Filters == Categories \cup {All}
Lines   == [text : Texts, picture : Nat]
DishCall(j, K) ==
  /\ j.op = "dishes" =>
       /\ j.arg \in [filter : Filters, effect : BOOLEAN, form : BOOLEAN]
       /\ j.arg.effect => ~ j.arg.form
       /\ j.answer = "ok" =>
            DOMAIN j.body \subseteq K /\ \A d \in DOMAIN j.body : j.body[d] \in Lines
  /\ j.op \in {"create_dish", "update_dish"} =>
       j.arg \in [dish : K \cup {NoDish}, text : Texts, picture : Nat, filter : Filters,
                  form : BOOLEAN]
  /\ j.op = "create_dish" => j.arg.dish = NoDish
  /\ j.op = "update_dish" => j.arg.dish \in K
  /\ j.op = "archive_dish" => j.arg \in [dish : K, filter : Filters]
  /\ j.op = "upload" =>
       /\ j.arg \in [subject : K \cup {NoDish}, picture : Nat]
       /\ j.answer = "ok" => j.body \in Nat

ChooseCall(j) ==
  /\ j.op = "slot" => j.arg \in [meal : Meals]
  /\ j.op = "ensure" => j.arg \in [meal : Meals, dish : Nat \ {NoPick}]
  /\ j.op \in {"slot", "ensure"} /\ j.answer = "ok" => j.body = j.arg.meal
  /\ j.op = "search" /\ j.answer = "ok" => j.body \in SUBSET (Nat \ {NoPick})
  /\ j.op = "random" /\ j.answer = "ok" => j.body \in Nat \ {NoPick}
  /\ j.op = "wish" => j.arg \in [slot : Meals, dish : Nat \ {NoPick}]

HistoryCall(j) ==
  /\ j.op = "history" /\ j.answer = "ok" => j.body \in 0 .. MaxSaves
  /\ j.op = "checkin" /\ j.answer \in {"found", "ok"} => j.body \in 0 .. MaxSaves

Typed(j, K) ==
  Shaped(j) /\ SessionCall(j) /\ DishCall(j, K) /\ ChooseCall(j) /\ HistoryCall(j)

AllTyped(f, K) == DOMAIN f \subseteq Ids /\ \A i \in DOMAIN f : Typed(f[i], K)

-----------------------------------------------------------------------------
(* What the operations on calls do.                                        *)

\* A call that was just sent.
LEMMA CallFields ==
  ASSUME NEW op, NEW arg
  PROVE  /\ Call(op, arg).op = op /\ Call(op, arg).arg = arg
         /\ Call(op, arg).live = TRUE /\ Call(op, arg).answer = "none"
         /\ op \in Ops \ {"opened"} => Shaped(Call(op, arg))
BY DEF Call, Shaped, Ops, SessionOps, DishOps, ChooseOps, HistoryOps

\* A click sends one call.
LEMMA SendSends ==
  ASSUME NEW op, NEW arg, Send(op, arg)
  PROVE  Sent(Call(op, arg))
<1>1. Room(calls) /\ calls' = Adding(calls, Call(op, arg))
  BY DEF Send, Click
<1>2. PICK j : j = Call(op, arg)
  OBVIOUS
<1>3. /\ Free(calls) \in Ids \ DOMAIN calls
      /\ DOMAIN Adding(calls, j) = DOMAIN calls \cup {Free(calls)}
      /\ Adding(calls, j)[Free(calls)] = j
      /\ \A i \in DOMAIN calls : Adding(calls, j)[i] = calls[i]
  BY <1>1, AddingTo
<1> QED  BY <1>1, <1>2, <1>3 DEF Sent, InFlight

\* A handler that ends takes its call away; so does one that throws.
LEMMA EndRemoves ==
  ASSUME NEW c, calls' = Without(calls, {c})
  PROVE  Removed(c)
BY DEF Without, Removed, InFlight

\* A handler that goes on with another call puts it in the place of its own.
LEMMA NextBecomes ==
  ASSUME NEW c \in InFlight, NEW j, calls' = [calls EXCEPT ![c] = j]
  PROVE  Became(c, j)
BY DEF Became, InFlight

\* An answer changes one call, and of that the answer.
LEMMA AnswerBecomes ==
  ASSUME NEW c \in InFlight, Shaped(calls[c]), NEW kind, NEW body, Answer(c, kind, body)
  PROVE  Became(c, With(calls[c], kind, body))
<1> DEFINE f == [calls EXCEPT ![c] = [@ EXCEPT !.answer = kind]]
<1>1. calls' = [f EXCEPT ![c] = [@ EXCEPT !.body = body]]
  BY DEF Answer
<1>2. DOMAIN f = InFlight /\ f[c] = [calls[c] EXCEPT !.answer = kind]
      /\ \A d \in InFlight \ {c} : f[d] = calls[d]
  BY DEF InFlight
<1>3. f[c] = [op |-> calls[c].op, arg |-> calls[c].arg, live |-> calls[c].live,
              answer |-> kind, body |-> calls[c].body]
  BY <1>2 DEF Shaped
<1> HIDE DEF f
<1>4. DOMAIN calls' = InFlight /\ calls'[c] = [f[c] EXCEPT !.body = body]
      /\ \A d \in InFlight \ {c} : calls'[d] = f[d]
  BY <1>1, <1>2
<1> QED  BY <1>2, <1>3, <1>4 DEF InFlight, Became, With

\* A call that nobody awaits any more.
LEMMA Killed ==
  ASSUME NEW j, Shaped(j)
  PROVE  [j EXCEPT !.live = FALSE] = Dead(j)
<1>1. PICK k : k = [j EXCEPT !.live = FALSE]
  OBVIOUS
<1>2. k = [op |-> j.op, arg |-> j.arg, live |-> FALSE, answer |-> j.answer, body |-> j.body]
  BY <1>1 DEF Shaped
<1> QED  BY <1>1, <1>2 DEF Dead

\* A component that is gone leaves no reads, and its other calls to nobody.
LEMMA AbandoningLeaves ==
  ASSUME NEW S, \A i \in InFlight : Shaped(calls[i])
  PROVE  /\ DOMAIN Abandoning(S) = {i \in InFlight : i \in S => calls[i].op \notin Reads}
         /\ \A i \in DOMAIN Abandoning(S) :
              Abandoning(S)[i] = IF i \in S THEN Dead(calls[i]) ELSE calls[i]
<1>1. \A i \in InFlight : [calls[i] EXCEPT !.live = FALSE] = Dead(calls[i])
  BY Killed
<1> QED  BY <1>1 DEF Abandoning

\* Without its form, a call of the page is one of the page alone.
LEMMA FormGoneLeaves ==
  ASSUME NEW K, AllTyped(calls, K)
  PROVE  /\ DOMAIN FormGone = InFlight
         /\ \A i \in InFlight :
              FormGone[i] =
                CASE calls[i].op = "upload" -> Dead(calls[i])
                  [] calls[i].op \in {"create_dish", "update_dish"} ->
                       Meaning(calls[i], [dish |-> calls[i].arg.dish, text |-> calls[i].arg.text,
                                          picture |-> calls[i].arg.picture,
                                          filter |-> calls[i].arg.filter, form |-> FALSE])
                  [] calls[i].op = "dishes" ->
                       Meaning(calls[i], [filter |-> calls[i].arg.filter,
                                          effect |-> calls[i].arg.effect, form |-> FALSE])
                  [] OTHER -> calls[i]
<1>1. DOMAIN FormGone = InFlight
  BY DEF FormGone
<1> SUFFICES ASSUME NEW i \in InFlight
    PROVE FormGone[i] =
                CASE calls[i].op = "upload" -> Dead(calls[i])
                  [] calls[i].op \in {"create_dish", "update_dish"} ->
                       Meaning(calls[i], [dish |-> calls[i].arg.dish, text |-> calls[i].arg.text,
                                          picture |-> calls[i].arg.picture,
                                          filter |-> calls[i].arg.filter, form |-> FALSE])
                  [] calls[i].op = "dishes" ->
                       Meaning(calls[i], [filter |-> calls[i].arg.filter,
                                          effect |-> calls[i].arg.effect, form |-> FALSE])
                  [] OTHER -> calls[i]
  BY <1>1
<1>2. Shaped(calls[i]) /\ DishCall(calls[i], K)
  BY DEF AllTyped, Typed, InFlight
<1>3. CASE calls[i].op = "upload"
  <2>1. FormGone[i] = [calls[i] EXCEPT !.live = FALSE]
    BY <1>3 DEF FormGone
  <2> QED  BY <1>2, <1>3, <2>1, Killed
<1>4. CASE calls[i].op \in {"create_dish", "update_dish"}
  <2>1. FormGone[i] = [calls[i] EXCEPT !.arg = [@ EXCEPT !.form = FALSE]]
    BY <1>4 DEF FormGone
  <2>2. FormGone[i] = Meaning(calls[i], [calls[i].arg EXCEPT !.form = FALSE])
    BY <1>2, <2>1 DEF Shaped, Meaning
  <2>3. calls[i].arg \in [dish : K \cup {NoDish}, text : Texts, picture : Nat,
                          filter : Filters, form : BOOLEAN]
    BY <1>2, <1>4 DEF DishCall
  <2>4. [calls[i].arg EXCEPT !.form = FALSE] =
          [dish |-> calls[i].arg.dish, text |-> calls[i].arg.text,
           picture |-> calls[i].arg.picture, filter |-> calls[i].arg.filter, form |-> FALSE]
    <3> DEFINE a == calls[i].arg
    <3>1. a = [dish |-> a.dish, text |-> a.text, picture |-> a.picture, filter |-> a.filter,
               form |-> a.form]
      BY <2>3
    <3> HIDE DEF a
    <3>2. PICK b : b = [a EXCEPT !.form = FALSE]
      OBVIOUS
    <3>3. b = [dish |-> a.dish, text |-> a.text, picture |-> a.picture, filter |-> a.filter,
               form |-> FALSE]
      BY <3>1, <3>2
    <3> QED  BY <3>2, <3>3 DEF a
  <2> QED  BY <1>4, <2>2, <2>4
<1>5. CASE calls[i].op = "dishes"
  <2>1. FormGone[i] = [calls[i] EXCEPT !.arg = [@ EXCEPT !.form = FALSE]]
    BY <1>5 DEF FormGone
  <2>2. FormGone[i] = Meaning(calls[i], [calls[i].arg EXCEPT !.form = FALSE])
    BY <1>2, <2>1 DEF Shaped, Meaning
  <2>3. calls[i].arg \in [filter : Filters, effect : BOOLEAN, form : BOOLEAN]
    BY <1>2, <1>5 DEF DishCall
  <2>4. [calls[i].arg EXCEPT !.form = FALSE] =
          [filter |-> calls[i].arg.filter, effect |-> calls[i].arg.effect, form |-> FALSE]
    <3> DEFINE a == calls[i].arg
    <3>1. a = [filter |-> a.filter, effect |-> a.effect, form |-> a.form]
      BY <2>3
    <3> HIDE DEF a
    <3>2. PICK b : b = [a EXCEPT !.form = FALSE]
      OBVIOUS
    <3>3. b = [filter |-> a.filter, effect |-> a.effect, form |-> FALSE]
      BY <3>1, <3>2
    <3> QED  BY <3>2, <3>3 DEF a
  <2> QED  BY <1>5, <2>2, <2>4
<1>6. CASE calls[i].op \notin {"upload", "create_dish", "update_dish", "dishes"}
  BY <1>6 DEF FormGone
<1> QED  BY <1>3, <1>4, <1>5, <1>6

-----------------------------------------------------------------------------
(* Typed calls stay typed.                                                 *)

\* The server's dishes are never fewer.
LEMMA TypedLater ==
  ASSUME NEW j, NEW K, NEW L, K \subseteq L, Typed(j, K)
  PROVE  Typed(j, L)
<1>1. DishCall(j, L)
  BY DEF Typed, DishCall
<1> QED  BY <1>1 DEF Typed

\* Those that are left over.
LEMMA TypedRemoved ==
  ASSUME NEW K, NEW c, AllTyped(calls, K), Removed(c)
  PROVE  AllTyped(calls', K)
BY DEF AllTyped, Removed, InFlight

\* With another in place of one.
LEMMA TypedBecame ==
  ASSUME NEW K, NEW L, K \subseteq L, NEW c \in InFlight, NEW j, Typed(j, L),
         AllTyped(calls, K), Became(c, j)
  PROVE  AllTyped(calls', L)
<1>1. \A i \in InFlight : Typed(calls[i], L)
  BY TypedLater DEF AllTyped, InFlight
<1> QED  BY <1>1 DEF AllTyped, Became, InFlight

\* With one more.
LEMMA TypedSent ==
  ASSUME NEW K, NEW j, Typed(j, K), AllTyped(calls, K), Sent(j)
  PROVE  AllTyped(calls', K)
BY DEF AllTyped, Sent, InFlight

\* With one more, whichever they are.
LEMMA TypedAdding ==
  ASSUME NEW K, NEW f, NEW j, Typed(j, K), AllTyped(f, K), Room(f)
  PROVE  AllTyped(Adding(f, j), K)
<1>1. /\ Free(f) \in Ids \ DOMAIN f
      /\ DOMAIN Adding(f, j) = DOMAIN f \cup {Free(f)}
      /\ Adding(f, j)[Free(f)] = j
      /\ \A i \in DOMAIN f : Adding(f, j)[i] = f[i]
  BY AddingTo
<1> QED  BY <1>1 DEF AllTyped

\* A call that nobody awaits, unless it reads.
LEMMA TypedDead ==
  ASSUME NEW K, NEW j, Typed(j, K), j.op \notin Reads
  PROVE  Typed(Dead(j), K)
<1>1. /\ Dead(j).op = j.op /\ Dead(j).arg = j.arg /\ Dead(j).live = FALSE
      /\ Dead(j).answer = j.answer /\ Dead(j).body = j.body
  BY DEF Dead
<1>2. Shaped(Dead(j))
  BY <1>1 DEF Dead, Shaped, Typed
<1>3. SessionCall(Dead(j)) /\ ChooseCall(Dead(j)) /\ HistoryCall(Dead(j))
  BY <1>1 DEF Typed, SessionCall, ChooseCall, HistoryCall
<1>4. DishCall(Dead(j), K)
  BY <1>1 DEF Typed, DishCall
<1> QED  BY <1>2, <1>3, <1>4 DEF Typed

\* Those that a component leaves behind.
LEMMA TypedAbandoning ==
  ASSUME NEW K, NEW S, AllTyped(calls, K)
  PROVE  AllTyped(Abandoning(S), K)
<1>1. \A i \in InFlight : Shaped(calls[i])
  BY DEF AllTyped, Typed, InFlight
<1>2. /\ DOMAIN Abandoning(S) = {i \in InFlight : i \in S => calls[i].op \notin Reads}
      /\ \A i \in DOMAIN Abandoning(S) :
           Abandoning(S)[i] = IF i \in S THEN Dead(calls[i]) ELSE calls[i]
  BY <1>1, AbandoningLeaves
<1>3. ASSUME NEW i \in DOMAIN Abandoning(S)
      PROVE  Typed(Abandoning(S)[i], K)
  <2>1. i \in InFlight /\ Typed(calls[i], K) /\ (i \in S => calls[i].op \notin Reads)
    BY <1>2, <1>3 DEF AllTyped, InFlight
  <2>2. CASE i \in S
    <3>1. PICK j : j = calls[i]
      OBVIOUS
    <3>2. Typed(Dead(j), K)
      BY <2>1, <2>2, <3>1, TypedDead
    <3> QED  BY <1>2, <2>2, <3>1, <3>2
  <2> QED  BY <1>2, <2>1, <2>2
<1> QED  BY <1>2, <1>3 DEF AllTyped, InFlight

\* Those of the page without its form.
LEMMA TypedFormGone ==
  ASSUME NEW K, AllTyped(calls, K)
  PROVE  AllTyped(FormGone, K)
<1>1. DOMAIN FormGone = InFlight
  BY FormGoneLeaves
<1>2. ASSUME NEW i \in InFlight
      PROVE  Typed(FormGone[i], K)
  <2>1. PICK j : j = calls[i]
    OBVIOUS
  <2>2. Typed(j, K)
    BY <2>1 DEF AllTyped, InFlight
  <2>3. CASE j.op = "upload"
    <3>1. FormGone[i] = Dead(j)
      BY <2>1, <2>3, FormGoneLeaves
    <3> QED  BY <2>2, <2>3, <3>1, TypedDead DEF Reads
  <2>4. CASE j.op \in {"create_dish", "update_dish"}
    <3>1. PICK a : a = [dish |-> j.arg.dish, text |-> j.arg.text, picture |-> j.arg.picture,
                        filter |-> j.arg.filter, form |-> FALSE]
      OBVIOUS
    <3>2. FormGone[i] = Meaning(j, a)
      BY <2>1, <2>4, <3>1, FormGoneLeaves
    <3>3. /\ a \in [dish : K \cup {NoDish}, text : Texts, picture : Nat, filter : Filters,
                    form : BOOLEAN]
          /\ a.dish = j.arg.dish
      BY <2>2, <2>4, <3>1 DEF Typed, DishCall
    <3>4. Shaped(Meaning(j, a)) /\ DishCall(Meaning(j, a), K)
      BY <2>2, <2>4, <3>3 DEF Typed, Shaped, DishCall, Meaning
    <3>5. SessionCall(Meaning(j, a)) /\ ChooseCall(Meaning(j, a)) /\ HistoryCall(Meaning(j, a))
      BY <2>4 DEF SessionCall, SessionOps, ChooseCall, HistoryCall, Meaning
    <3> QED  BY <3>2, <3>4, <3>5 DEF Typed
  <2>5. CASE j.op = "dishes"
    <3>1. PICK a : a = [filter |-> j.arg.filter, effect |-> j.arg.effect, form |-> FALSE]
      OBVIOUS
    <3>2. FormGone[i] = Meaning(j, a)
      BY <2>1, <2>5, <3>1, FormGoneLeaves
    <3>3. a \in [filter : Filters, effect : BOOLEAN, form : BOOLEAN] /\ ~ a.form
      BY <2>2, <2>5, <3>1 DEF Typed, DishCall
    <3>4. Shaped(Meaning(j, a)) /\ DishCall(Meaning(j, a), K)
      BY <2>2, <2>5, <3>3 DEF Typed, Shaped, DishCall, Meaning
    <3>5. SessionCall(Meaning(j, a)) /\ ChooseCall(Meaning(j, a)) /\ HistoryCall(Meaning(j, a))
      BY <2>5 DEF SessionCall, SessionOps, ChooseCall, HistoryCall, Meaning
    <3> QED  BY <3>2, <3>4, <3>5 DEF Typed
  <2>6. CASE j.op \notin {"upload", "create_dish", "update_dish", "dishes"}
    <3>1. FormGone[i] = j
      BY <2>1, <2>6, FormGoneLeaves
    <3> QED  BY <2>2, <3>1
  <2> QED  BY <2>3, <2>4, <2>5, <2>6
<1> QED  BY <1>1, <1>2 DEF AllTyped, InFlight

-----------------------------------------------------------------------------
(* Types.                                                                  *)

CountsTypeOK == online \in BOOLEAN /\ patient \in BOOLEAN /\ clicks \in 0 .. MaxClicks

\* The types of App but for what the shell keeps.
Types ==
  /\ SessionTypeOK /\ DishTypeOK /\ CheckInTypeOK
  /\ ChooseTypeOK /\ NoPick \notin results
  /\ CountsTypeOK
  /\ AllTyped(calls, Known)

\* The session's steps.
LEMMA SessionTypes ==
  ASSUME Types, SessionStep
  PROVE  SessionTypeOK' /\ CountsTypeOK' /\ AllTyped(calls', Known)
<1> USE DEF Codes, Nobody, Unknown
<1>0. /\ SessionTypeOK /\ CountsTypeOK /\ AllTyped(calls, Known)
      /\ MaxCodes \in Nat \ {0} /\ MaxClicks \in Nat
  BY CodesAssumption, BrowserAssumption DEF Types
<1>1. ASSUME NEW c \in InFlight, SessionServer(c)
      PROVE  SessionTypeOK' /\ CountsTypeOK' /\ AllTyped(calls', Known)
  <2>1. Typed(calls[c], Known) /\ Shaped(calls[c])
    BY <1>0 DEF AllTyped, Typed, InFlight
  <2>2. PICK j : j = calls[c]
    OBVIOUS
  <2>3. ASSUME NEW kind \in {"ok", "refused"}, NEW body, kind = "ok" => body \in Codes,
               Answer(c, kind, body), j.op \in SessionOps
        PROVE  AllTyped(calls', Known)
    <3>1. Became(c, With(j, kind, body))
      BY <2>1, <2>2, <2>3, AnswerBecomes
    <3>2. PICK k : k = With(j, kind, body)
      OBVIOUS
    <3>3. Shaped(k) /\ k.op = j.op /\ k.arg = j.arg /\ k.answer = kind /\ k.body = body
      BY <2>1, <2>2, <2>3, <3>2 DEF With, Shaped
    <3>4. Typed(k, Known)
      BY <2>3, <3>3 DEF Typed, SessionCall, DishCall, ChooseCall, HistoryCall, SessionOps
    <3> QED  BY <1>0, <3>1, <3>2, <3>4, TypedBecame
  <2>4. CASE ServeSession(c)
    <3>1. AllTyped(calls', Known)
      BY <1>0, <2>2, <2>3, <2>4 DEF ServeSession, Arrived, SessionOps, SessionTypeOK
    <3> QED  BY <1>0, <2>4, <3>1
      DEF ServeSession, Answer, SessionTypeOK, CountsTypeOK, screenVars, onboarding, family
  <2>5. CASE ServeCreate(c)
    <3>1. handed + 1 \in Codes
      BY <1>0, <2>5 DEF ServeCreate, SessionTypeOK
    <3>2. AllTyped(calls', Known)
      BY <2>2, <2>3, <2>5, <3>1 DEF ServeCreate, Arrived, SessionOps
    <3> QED  BY <1>0, <2>5, <3>1, <3>2
      DEF ServeCreate, Answer, SessionTypeOK, CountsTypeOK, screenVars, onboarding, family
  <2>6. CASE ServeJoin(c)
    <3>1. AllTyped(calls', Known)
      BY <1>0, <2>2, <2>3, <2>6 DEF ServeJoin, Arrived, SessionOps, SessionTypeOK
    <3> QED  BY <1>0, <2>6, <3>1
      DEF ServeJoin, Answer, SessionTypeOK, CountsTypeOK, sessionVars
  <2>7. CASE ServeRotate(c)
    <3>1. handed + 1 \in Codes
      BY <1>0, <2>7 DEF ServeRotate, SessionTypeOK
    <3>2. AllTyped(calls', Known)
      BY <2>2, <2>3, <2>7, <3>1 DEF ServeRotate, Arrived, SessionOps
    <3> QED  BY <1>0, <2>7, <3>1, <3>2
      DEF ServeRotate, Answer, SessionTypeOK, CountsTypeOK, screenVars, onboarding, family
  <2> QED  BY <1>1, <2>4, <2>5, <2>6, <2>7 DEF SessionServer
<1>2. ASSUME NEW c \in InFlight, calls' = Without(calls, {c})
      PROVE  AllTyped(calls', Known)
  BY <1>0, <1>2, EndRemoves, TypedRemoved
<1>3. ASSUME NEW op \in SessionOps, NEW j, j = Call(op, Nothing)
      PROVE  Typed(j, Known)
  <2>1. Shaped(j) /\ j.op = op /\ j.answer = "none"
    BY <1>3, CallFields DEF SessionOps, Ops
  <2> QED  BY <2>1 DEF Typed, SessionCall, DishCall, ChooseCall, HistoryCall, SessionOps
<1>4. ASSUME NEW op \in SessionOps, Send(op, Nothing)
      PROVE  AllTyped(calls', Known) /\ CountsTypeOK'
  <2>1. PICK j : j = Call(op, Nothing)
    OBVIOUS
  <2>2. Sent(j)
    BY <1>4, <2>1, SendSends
  <2>3. CountsTypeOK'
    BY <1>0, <1>4 DEF Send, Click, CountsTypeOK
  <2> QED  BY <1>0, <1>3, <2>1, <2>2, <2>3, TypedSent
<1>5. ASSUME NEW c \in InFlight, SessionHandlers(c)
      PROVE  SessionTypeOK' /\ CountsTypeOK' /\ AllTyped(calls', Known)
  <2>1. calls[c].answer = "ok" /\ calls[c].op \in SessionOps => calls[c].body \in Codes
    BY <1>0 DEF AllTyped, Typed, SessionCall, InFlight
  <2>2. CASE SessionRefused(c)
    BY <1>0, <1>2, <2>2
      DEF SessionRefused, End, SessionTypeOK, CountsTypeOK, onboarding, family, account
  <2>3. CASE SessionFails(c)
    BY <1>0, <1>2, <2>3
      DEF SessionFails, Throws, SessionTypeOK, CountsTypeOK, onboarding, family, account
  <2>4. CASE Authenticated(c)
    <3>1. PICK j : j = Call("session", Nothing)
      OBVIOUS
    <3>2. Typed(j, Known)
      BY <1>3, <3>1 DEF SessionOps
    <3>3. Became(c, j)
      BY <2>4, <3>1, NextBecomes DEF Authenticated, Next1
    <3>4. AllTyped(calls', Known)
      BY <1>0, <3>2, <3>3, TypedBecame
    <3> QED  BY <1>0, <2>1, <2>4, <3>4
      DEF Authenticated, Good, Next1, SessionOps, SessionTypeOK, CountsTypeOK, family
  <2>5. CASE AuthenticationFails(c)
    BY <1>0, <1>2, <2>5
      DEF AuthenticationFails, Throws, SessionTypeOK, CountsTypeOK, screenVars, family, account
  <2>6. CASE Rotated(c)
    BY <1>0, <1>2, <2>1, <2>6
      DEF Rotated, End, SessionOps, SessionTypeOK, CountsTypeOK, onboarding, account
  <2>7. CASE RotateFails(c)
    BY <1>0, <1>2, <2>7
      DEF RotateFails, SessionTypeOK, CountsTypeOK, screenVars, onboarding
  <2> QED  BY <1>5, <2>2, <2>3, <2>4, <2>5, <2>6, <2>7 DEF SessionHandlers
<1>6. CASE SessionClicks \/ Rotate
  <2>1. CASE Retry
    BY <1>0, <1>4, <2>1 DEF Retry, SessionOps, SessionTypeOK, onboarding, family, account
  <2>2. CASE SwitchMode
    BY <1>0, <2>2
      DEF SwitchMode, browser, SessionTypeOK, CountsTypeOK, screenVars, family, account
  <2>3. CASE Submit
    <3>1. mode \in SessionOps
      BY <1>0 DEF SessionOps, SessionTypeOK
    <3> QED  BY <1>0, <1>4, <2>3, <3>1 DEF Submit, SessionTypeOK, screenVars, family, account
  <2>4. CASE Rotate
    BY <1>0, <1>4, <2>4 DEF Rotate, SessionOps, SessionTypeOK, screenVars, onboarding
  <2> QED  BY <1>6, <2>1, <2>2, <2>3, <2>4 DEF SessionClicks
<1> QED  BY <1>1, <1>5, <1>6 DEF SessionStep

\* The server's answer to a call of a page other than the session's.
LEMMA TypedAnswer ==
  ASSUME NEW K, NEW L, K \subseteq L, NEW c \in InFlight, AllTyped(calls, K),
         NEW kind \in {"ok", "refused", "found"}, NEW body, Answer(c, kind, body),
         NEW j, j = calls[c], j.op \notin SessionOps,
         kind = "ok" => /\ j.op = "dishes" =>
                             /\ DOMAIN body \subseteq L
                             /\ \A d \in DOMAIN body : body[d] \in Lines
                        /\ j.op = "upload" => body \in Nat
                        /\ j.op \in {"slot", "ensure"} => body = j.arg.meal
                        /\ j.op = "search" => body \in SUBSET (Nat \ {NoPick})
                        /\ j.op = "random" => body \in Nat \ {NoPick}
                        /\ j.op = "history" => body \in 0 .. MaxSaves,
         kind \in {"found", "ok"} /\ j.op = "checkin" => body \in 0 .. MaxSaves
  PROVE  AllTyped(calls', L)
<1>1. Typed(j, K) /\ Shaped(j)
  BY DEF AllTyped, Typed, InFlight
<1>2. PICK k : k = With(j, kind, body)
  OBVIOUS
<1>3. Became(c, k)
  BY <1>1, <1>2, AnswerBecomes
<1>4. Shaped(k) /\ k.op = j.op /\ k.arg = j.arg /\ k.answer = kind /\ k.body = body
  BY <1>1, <1>2 DEF With, Shaped
<1>5. Typed(j, L)
  BY <1>1, TypedLater
<1>6. SessionCall(k) /\ ChooseCall(k) /\ HistoryCall(k)
  BY <1>4, <1>5 DEF Typed, SessionCall, ChooseCall, HistoryCall
<1>7. DishCall(k, L)
  BY <1>4, <1>5 DEF Typed, DishCall
<1>8. Typed(k, L)
  BY <1>4, <1>6, <1>7 DEF Typed
<1> QED  BY <1>3, <1>8, TypedBecame

\* What the server knows of its dishes.
LEMMA StoredTypes ==
  ASSUME DishTypeOK
  PROVE  /\ Known = 1 .. Len(stored) /\ Len(stored) \in Nat /\ Known \subseteq DishIds
         /\ MaxDishes \in Nat
         /\ \A d \in Known : stored[d] \in Dishes
<1>1. stored \in Seq(Dishes) /\ Len(stored) <= MaxDishes /\ MaxDishes \in Nat
  BY DishesAssumption DEF DishTypeOK
<1>2. Len(stored) \in Nat /\ DOMAIN stored = 1 .. Len(stored)
  BY <1>1, LenProperties
<1>3. \A d \in 1 .. Len(stored) : stored[d] \in Dishes
  BY <1>1, ElementOfSeq
<1> QED  BY <1>1, <1>2, <1>3 DEF Known, DishIds

\* What the server does with the calls of the page of the dishes.
LEMMA DishServerTypes ==
  ASSUME Types, NEW c \in InFlight, DishServer(c)
  PROVE  DishTypeOK' /\ CountsTypeOK' /\ AllTyped(calls', Known') /\ Known \subseteq Known'
<1>0. DishTypeOK /\ CountsTypeOK /\ AllTyped(calls, Known)
  BY DEF Types
<1>1. /\ Known = 1 .. Len(stored) /\ Len(stored) \in Nat /\ Known \subseteq DishIds
      /\ MaxDishes \in Nat
      /\ \A d \in Known : stored[d] \in Dishes
  BY <1>0, StoredTypes
<1>2. PICK j : j = calls[c]
  OBVIOUS
<1>3. Typed(j, Known) /\ DishCall(j, Known) /\ Shaped(j)
  BY <1>0, <1>2 DEF AllTyped, Typed, InFlight
<1>4. CASE ServeDishes(c)
  <2>1. j.op = "dishes" /\ Answer(c, "ok", Listing(j.arg.filter)) /\ UNCHANGED dishVars
    BY <1>2, <1>4 DEF ServeDishes, Arrived
  <2>2. PICK body : body = Listing(j.arg.filter)
    OBVIOUS
  <2>3. DOMAIN body \subseteq Known /\ \A d \in DOMAIN body : body[d] \in Lines
    BY <1>1, <2>2 DEF Listing, Lines, Dishes
  <2>4. AllTyped(calls', Known)
    BY <1>0, <1>2, <2>1, <2>2, <2>3, TypedAnswer DEF SessionOps
  <2> QED  BY <1>0, <2>1, <2>4 DEF dishVars, listVars, formVars, Known, Answer, CountsTypeOK, DishTypeOK, Texts
<1>5. ASSUME NEW d \in Known, NEW w \in Dishes, stored' = [stored EXCEPT ![d] = w]
      PROVE  /\ stored' \in Seq(Dishes) /\ Len(stored') = Len(stored)
             /\ Known' = Known
  <2>1. /\ stored' \in Seq(Dishes) /\ Len(stored') = Len(stored)
    BY <1>0, <1>1, <1>5, ExceptSeq DEF DishTypeOK
  <2> QED  BY <1>1, <1>5, <2>1 DEF Known
<1>6. CASE ServeCreateDish(c)
  <2>1. j.op = "create_dish" /\ Answer(c, "ok", Nothing) /\ Known # DishIds
        /\ Stores(Append(stored, Written(c)))
    BY <1>2, <1>6 DEF ServeCreateDish, Arrived
  <2>2. Written(c) \in Dishes
    BY <1>2, <1>3, <2>1 DEF DishCall, Written, Dishes
  <2>3. /\ stored' \in Seq(Dishes) /\ Len(stored') = Len(stored) + 1
        /\ Known' = 1 .. Len(stored) + 1
    BY <1>0, <1>1, <2>1, <2>2 DEF Stores, DishTypeOK, Known
  <2>4. Known \subseteq Known' /\ Len(stored') <= MaxDishes
    BY <1>0, <1>1, <2>1, <2>3 DEF DishIds, DishTypeOK
  <2>5. AllTyped(calls', Known')
    BY <1>0, <1>2, <2>1, <2>4, TypedAnswer DEF SessionOps
  <2> QED  BY <1>0, <2>1, <2>3, <2>4, <2>5
             DEF Stores, listVars, formVars, Answer, CountsTypeOK, DishTypeOK, Texts
<1>7. CASE ServeUpdateDish(c)
  <2>1. j.op = "update_dish" /\ j.arg.dish \in Known
    BY <1>2, <1>3, <1>7 DEF ServeUpdateDish, Arrived, DishCall
  <2>2. CASE stored[j.arg.dish].archived
    <3>1. Answer(c, "refused", Nothing) /\ UNCHANGED dishVars
      BY <1>2, <1>7, <2>2 DEF ServeUpdateDish
    <3>2. AllTyped(calls', Known)
      BY <1>0, <1>2, <2>1, <3>1, TypedAnswer DEF SessionOps
    <3> QED  BY <1>0, <3>1, <3>2 DEF dishVars, listVars, formVars, Known, Answer, CountsTypeOK, DishTypeOK, Texts
  <2>3. CASE ~ stored[j.arg.dish].archived
    <3>1. Answer(c, "ok", Nothing) /\ Stores([stored EXCEPT ![j.arg.dish] = Written(c)])
      BY <1>2, <1>7, <2>3 DEF ServeUpdateDish
    <3>2. Written(c) \in Dishes
      BY <1>2, <1>3, <2>1 DEF DishCall, Written, Dishes
    <3>3. stored' \in Seq(Dishes) /\ Len(stored') = Len(stored) /\ Known' = Known
      BY <1>5, <2>1, <3>1, <3>2 DEF Stores
    <3>4. AllTyped(calls', Known)
      BY <1>0, <1>2, <2>1, <3>1, TypedAnswer DEF SessionOps
    <3> QED  BY <1>0, <3>1, <3>3, <3>4
               DEF Stores, listVars, formVars, Answer, CountsTypeOK, DishTypeOK, Texts
  <2> QED  BY <2>2, <2>3
<1>8. CASE ServeArchiveDish(c)
  <2>1. j.op = "archive_dish" /\ j.arg.dish \in Known /\ Answer(c, "ok", Nothing)
        /\ Stores([stored EXCEPT ![j.arg.dish].archived = TRUE])
    BY <1>2, <1>3, <1>8 DEF ServeArchiveDish, Arrived, DishCall
  <2>2. PICK w : w = [stored[j.arg.dish] EXCEPT !.archived = TRUE]
    OBVIOUS
  <2>3. w \in Dishes
    BY <1>1, <2>1, <2>2 DEF Dishes
  <2>4. stored' = [stored EXCEPT ![j.arg.dish] = w]
    BY <2>1, <2>2 DEF Stores
  <2>5. stored' \in Seq(Dishes) /\ Len(stored') = Len(stored) /\ Known' = Known
    BY <1>5, <2>1, <2>3, <2>4
  <2>6. AllTyped(calls', Known)
    BY <1>0, <1>2, <2>1, TypedAnswer DEF SessionOps
  <2> QED  BY <1>0, <2>1, <2>5, <2>6
             DEF Stores, listVars, formVars, Answer, CountsTypeOK, DishTypeOK, Texts
<1>9. CASE ServeUpload(c)
  <2>1. /\ j.op = "upload" /\ Answer(c, "ok", Len(madeFor) + 1)
        /\ madeFor' = Append(madeFor, j.arg.subject)
        /\ UNCHANGED <<stored, listVars, editing, sheet, formVars, crossed, muddled>>
    BY <1>2, <1>9 DEF ServeUpload, Arrived
  <2>2. j.arg.subject \in DishIds \cup {NoDish} /\ madeFor \in Seq(DishIds \cup {NoDish})
    BY <1>0, <1>1, <1>3, <2>1 DEF DishCall, DishTypeOK
  <2>3. madeFor' \in Seq(DishIds \cup {NoDish}) /\ Len(madeFor) + 1 \in Nat
    BY <2>1, <2>2
  <2>4. AllTyped(calls', Known)
    BY <1>0, <1>2, <2>1, <2>3, TypedAnswer DEF SessionOps
  <2> QED  BY <1>0, <2>1, <2>3, <2>4
             DEF listVars, formVars, Known, Answer, CountsTypeOK, DishTypeOK, Texts
<1> QED  BY <1>4, <1>6, <1>7, <1>8, <1>9 DEF DishServer

\* What its handlers do.
LEMMA DishHandlerTypes ==
  ASSUME Types, NEW c \in InFlight, DishHandlers(c)
  PROVE  DishTypeOK' /\ CountsTypeOK' /\ AllTyped(calls', Known) /\ Known' = Known
<1> USE DEF Texts
<1>0. DishTypeOK /\ CountsTypeOK /\ AllTyped(calls, Known)
  BY DEF Types
<1>1. PICK j : j = calls[c]
  OBVIOUS
<1>2. Typed(j, Known) /\ DishCall(j, Known)
  BY <1>0, <1>1 DEF AllTyped, Typed, InFlight
<1>3. calls' = Without(calls, {c}) => AllTyped(calls', Known)
  BY <1>0, EndRemoves, TypedRemoved
<1>4. ASSUME NEW f \in BOOLEAN, j.arg.filter \in Filters, NEW k, k = ReloadOf(c, f)
      PROVE  Typed(k, Known) /\ Shaped(k)
  <2>1. PICK a : a = [filter |-> j.arg.filter, effect |-> FALSE, form |-> f]
    OBVIOUS
  <2>2. k = Call("dishes", a) /\ a \in [filter : Filters, effect : BOOLEAN, form : BOOLEAN]
        /\ ~ a.effect
    BY <1>1, <1>4, <2>1 DEF ReloadOf
  <2>3. Shaped(k) /\ k.op = "dishes" /\ k.arg = a /\ k.answer = "none"
    BY <2>2 DEF Call, Shaped, Ops, DishOps
  <2> QED  BY <2>2, <2>3 DEF Typed, SessionCall, SessionOps, DishCall, ChooseCall, HistoryCall
<1>5. CASE Listed(c)
  <2>1. j.op = "dishes" /\ j.answer = "ok" /\ dishes' = j.body /\ End(c)
    BY <1>1, <1>5 DEF Listed, Good
  <2>2. DOMAIN dishes' \subseteq Known /\ \A d \in DOMAIN dishes' : dishes'[d] \in Lines
    BY <1>2, <2>1 DEF DishCall
  <2>3. calls' = Without(calls, {c}) /\ UNCHANGED <<online, patient, clicks>>
    BY <2>1 DEF End
  <2>4. stored' = stored /\ Known' = Known
    BY <1>5 DEF Listed, Known
  <2>5. AllTyped(calls', Known)
    BY <1>3, <2>3
  <2>6. CountsTypeOK'
    BY <1>0, <2>3 DEF CountsTypeOK
  <2>7. DishTypeOK'
    BY <1>0, <1>5, <2>2, <2>4 DEF Listed, DishTypeOK, Lines
  <2> QED  BY <2>4, <2>5, <2>6, <2>7
<1>6. CASE ListFails(c)
  BY <1>0, <1>3, <1>6 DEF ListFails, Throws, DishTypeOK, CountsTypeOK, Known
<1>7. CASE Archived(c)
  <2>1. j.op = "archive_dish" /\ j.arg.filter \in Filters
    BY <1>1, <1>2, <1>7 DEF Archived, Good, DishCall
  <2>2. PICK k : k = ReloadOf(c, FALSE)
    OBVIOUS
  <2>3. Typed(k, Known) /\ Became(c, k)
    BY <1>4, <1>7, <2>1, <2>2, NextBecomes DEF Archived
  <2>4. AllTyped(calls', Known)
    BY <1>0, <2>3, TypedBecame
  <2> QED  BY <1>0, <1>7, <2>4
             DEF Archived, ShowsLoading, formVars, DishTypeOK, CountsTypeOK, Known
<1>8. CASE ArchiveFails(c)
  BY <1>0, <1>3, <1>8 DEF ArchiveFails, Throws, formVars, DishTypeOK, CountsTypeOK, Known
<1>9. CASE Created(c)
  <2>1. j.op = "create_dish" /\ j.arg.filter \in Filters
    BY <1>1, <1>2, <1>9 DEF Created, Good, DishCall
  <2>2. PICK k : k = ReloadOf(c, FALSE)
    OBVIOUS
  <2>3. Typed(k, Known) /\ calls' = [FormGone EXCEPT ![c] = k]
    BY <1>4, <1>9, <2>1, <2>2 DEF Created
  <2>4. DOMAIN FormGone = InFlight /\ AllTyped(FormGone, Known)
    BY <1>0, TypedFormGone, FormGoneLeaves
  <2>5. AllTyped(calls', Known)
    BY <2>3, <2>4 DEF AllTyped
  <2> QED  BY <1>0, <1>9, <2>5
             DEF Created, ClearsForm, EmptyForm, NoPicture, NoDish, ShowsLoading, DishTypeOK,
                 CountsTypeOK, Known
<1>10. CASE Updated(c)
  <2>1. j.op = "update_dish" /\ j.arg.filter \in Filters /\ j.arg.form \in BOOLEAN
    BY <1>1, <1>2, <1>10 DEF Updated, Good, DishCall
  <2>2. PICK k : k = ReloadOf(c, j.arg.form)
    OBVIOUS
  <2>3. Typed(k, Known) /\ Became(c, k)
    BY <1>1, <1>4, <1>10, <2>1, <2>2, NextBecomes DEF Updated
  <2>4. AllTyped(calls', Known)
    BY <1>0, <2>3, TypedBecame
  <2> QED  BY <1>0, <1>10, <2>4
             DEF Updated, ShowsLoading, formVars, DishTypeOK, CountsTypeOK, Known
<1>11. CASE SaveFails(c)
  BY <1>0, <1>3, <1>11 DEF SaveFails, Throws, listVars, DishTypeOK, CountsTypeOK, Known
<1>12. CASE Uploaded(c)
  <2>1. j.body \in Nat
    BY <1>1, <1>2, <1>12 DEF Uploaded, Good, DishCall
  <2> QED  BY <1>0, <1>1, <1>3, <1>12, <2>1
             DEF Uploaded, End, listVars, DishTypeOK, CountsTypeOK, Known
<1>13. CASE UploadFails(c)
  <2>1. j.arg.picture \in Nat
    BY <1>1, <1>2, <1>13 DEF UploadFails, Throws, DishCall
  <2> QED  BY <1>0, <1>1, <1>3, <1>13, <2>1
             DEF UploadFails, Throws, listVars, DishTypeOK, CountsTypeOK, Known
<1> QED  BY <1>5, <1>6, <1>7, <1>8, <1>9, <1>10, <1>11, <1>12, <1>13 DEF DishHandlers

\* What the clicks on its page do.
LEMMA DishClickTypes ==
  ASSUME Types, DishClicks \/ (\E d \in Cards : Archive(d))
  PROVE  DishTypeOK' /\ CountsTypeOK' /\ AllTyped(calls', Known) /\ Known' = Known
<1> USE DEF Texts
<1>0. DishTypeOK /\ CountsTypeOK /\ AllTyped(calls, Known) /\ MaxClicks \in Nat
  BY BrowserAssumption DEF Types
<1>1. ASSUME UNCHANGED browser
      PROVE  CountsTypeOK' /\ AllTyped(calls', Known)
  BY <1>0, <1>1 DEF browser, CountsTypeOK
<1>2. ASSUME NEW f, Click(f), AllTyped(f, Known)
      PROVE  CountsTypeOK' /\ AllTyped(calls', Known)
  BY <1>0, <1>2 DEF Click, CountsTypeOK
<1>3. ASSUME NEW op, NEW arg, NEW j, j = Call(op, arg), Typed(j, Known), Send(op, arg)
      PROVE  CountsTypeOK' /\ AllTyped(calls', Known)
  <2>1. Sent(j)
    BY <1>3, SendSends
  <2>2. CountsTypeOK'
    BY <1>0, <1>3 DEF Send, Click, CountsTypeOK
  <2> QED  BY <1>0, <1>3, <2>1, <2>2, TypedSent
<1>4. ASSUME NEW op \in DishOps, NEW arg, NEW j, j = Call(op, arg), DishCall(j, Known)
      PROVE  Typed(j, Known)
  <2>1. Shaped(j) /\ j.op = op /\ j.answer = "none"
    BY <1>4, CallFields DEF DishOps, Ops
  <2> QED  BY <1>4, <2>1 DEF Typed, SessionCall, ChooseCall, HistoryCall, SessionOps, DishOps
<1>5. ASSUME NEW f \in Filters, SetFilter(f)
      PROVE  DishTypeOK' /\ CountsTypeOK' /\ AllTyped(calls', Known) /\ Known' = Known
  <2> DEFINE S == {c \in InFlight : calls[c].op = "dishes" /\ calls[c].arg.effect}
  <2>1. PICK rest : rest = Abandoning(S)
    OBVIOUS
  <2>2. PICK a : a = [filter |-> f, effect |-> TRUE, form |-> FALSE]
    OBVIOUS
  <2>3. PICK j : j = Call("dishes", a)
    OBVIOUS
  <2>4. Room(rest) /\ Click(Adding(rest, j))
    BY <1>5, <2>1, <2>2, <2>3 DEF SetFilter
  <2>5. DishCall(j, Known)
    BY <2>2, <2>3 DEF Call, DishCall
  <2>6. Typed(j, Known)
    BY <1>4, <2>3, <2>5 DEF DishOps
  <2> HIDE DEF S
  <2>7. AllTyped(rest, Known)
    BY <1>0, <2>1, TypedAbandoning
  <2>8. AllTyped(Adding(rest, j), Known)
    BY <2>4, <2>6, <2>7, TypedAdding
  <2>9. CountsTypeOK' /\ AllTyped(calls', Known)
    BY <1>2, <2>4, <2>8
  <2> QED  BY <1>0, <1>5, <2>9 DEF SetFilter, Crosses, formVars, Writing, DishTypeOK, Filters, Known
<1>6. ASSUME NEW d, d = NoDish \/ d \in Cards, Opens(d)
      PROVE  DishTypeOK' /\ CountsTypeOK' /\ AllTyped(calls', Known) /\ Known' = Known
  <2>1. d \in Known \cup {NoDish}
        /\ (d # NoDish => dishes[d] \in [text : Texts, picture : Nat])
    BY <1>0, <1>6 DEF Cards, DishTypeOK
  <2>2. CountsTypeOK' /\ AllTyped(calls', Known) /\ Known' = Known
    BY <1>1, <1>6 DEF Opens, Known
  <2>3. CASE sheet
    BY <1>0, <1>6, <2>1, <2>2, <2>3 DEF Opens, listVars, formVars, DishTypeOK
  <2>4. CASE ~ sheet
    <3>1. \A r \in [text : Texts, picture : Nat] :
            r \in [text : Texts \cup {NoText}, picture : Nat]
      OBVIOUS
    <3>2. EmptyForm \in [text : Texts \cup {NoText}, picture : Nat]
      BY DEF EmptyForm, NoPicture
    <3>3. form' \in [text : Texts \cup {NoText}, picture : Nat]
      BY <1>6, <2>1, <2>4, <3>1, <3>2 DEF Opens
    <3> QED  BY <1>0, <1>6, <2>1, <2>2, <2>4, <3>3 DEF Opens, listVars, DishTypeOK
  <2> QED  BY <2>3, <2>4
<1>7. CASE Close
  <2>1. AllTyped(calls', Known)
    BY <1>0, <1>7, TypedFormGone DEF Close
  <2> QED  BY <1>0, <1>7, <2>1
             DEF Close, ClearsForm, EmptyForm, NoPicture, NoDish, listVars, DishTypeOK,
                 CountsTypeOK, Known
<1>8. ASSUME NEW t \in Texts, Fill(t)
      PROVE  DishTypeOK' /\ CountsTypeOK' /\ AllTyped(calls', Known) /\ Known' = Known
  BY <1>0, <1>1, <1>8 DEF Fill, listVars, DishTypeOK, Known
<1>9. CASE SaveIncomplete
  BY <1>0, <1>1, <1>9 DEF SaveIncomplete, listVars, DishTypeOK, Known
<1>10. CASE Save
  <2>1. PICK a : a = [dish |-> editing, text |-> form.text, picture |-> form.picture,
                      filter |-> filter, form |-> TRUE]
    OBVIOUS
  <2>2. PICK op : op = IF editing = NoDish THEN "create_dish" ELSE "update_dish"
    OBVIOUS
  <2>3. PICK j : j = Call(op, a)
    OBVIOUS
  <2>4. Send(op, a)
    BY <1>10, <2>1, <2>2 DEF Save
  <2>5. form.text \in Texts /\ form.picture \in Nat /\ filter \in Filters
        /\ editing \in Known \cup {NoDish}
    BY <1>0, <1>10 DEF Save, DishTypeOK, Filters
  <2>6. /\ a \in [dish : Known \cup {NoDish}, text : Texts, picture : Nat, filter : Filters,
                  form : BOOLEAN]
        /\ a.dish = editing
    BY <2>1, <2>5
  <2>7. DishCall(j, Known)
    BY <2>2, <2>3, <2>5, <2>6 DEF Call, DishCall
  <2>8. CountsTypeOK' /\ AllTyped(calls', Known)
    BY <1>3, <1>4, <2>2, <2>3, <2>4, <2>7 DEF DishOps
  <2> QED  BY <1>0, <1>10, <2>8
             DEF Save, Crosses, Writing, Awaited, listVars, DishTypeOK, Known
<1>11. CASE PickFile
  <2>1. PICK a : a = [subject |-> subject, picture |-> form.picture]
    OBVIOUS
  <2>2. PICK j : j = Call("upload", a)
    OBVIOUS
  <2>3. Send("upload", a) /\ a \in [subject : Known \cup {NoDish}, picture : Nat]
    BY <1>0, <1>11, <2>1 DEF PickFile, DishTypeOK
  <2>4. DishCall(j, Known)
    BY <2>2, <2>3 DEF Call, DishCall
  <2>5. CountsTypeOK' /\ AllTyped(calls', Known)
    BY <1>3, <1>4, <2>2, <2>3, <2>4 DEF DishOps
  <2> QED  BY <1>0, <1>11, <2>5 DEF PickFile, listVars, DishTypeOK, Known
<1>12. CASE ClearImage
  BY <1>0, <1>1, <1>12 DEF ClearImage, NoPicture, listVars, DishTypeOK, Known
<1>13. ASSUME NEW d \in Cards, Archive(d)
       PROVE  DishTypeOK' /\ CountsTypeOK' /\ AllTyped(calls', Known) /\ Known' = Known
  <2>1. PICK a : a = [dish |-> d, filter |-> filter]
    OBVIOUS
  <2>2. PICK j : j = Call("archive_dish", a)
    OBVIOUS
  <2>3. Send("archive_dish", a) /\ a \in [dish : Known, filter : Filters]
    BY <1>0, <1>13, <2>1 DEF Archive, Cards, DishTypeOK, Filters
  <2>4. DishCall(j, Known)
    BY <2>2, <2>3 DEF Call, DishCall
  <2>5. CountsTypeOK' /\ AllTyped(calls', Known)
    BY <1>3, <1>4, <2>2, <2>3, <2>4 DEF DishOps
  <2> QED  BY <1>0, <1>13, <2>5
             DEF Archive, Crosses, Writing, Awaited, listVars, formVars, DishTypeOK, Known
<1> QED  BY <1>5, <1>6, <1>7, <1>8, <1>9, <1>10, <1>11, <1>12, <1>13
         DEF DishClicks, OpenEdit, OpenCreate, Filters

ChooseTypes == ChooseTypeOK /\ NoPick \notin results

\* What the server does with the calls of the page that helps to choose.
LEMMA ChooseServerTypes ==
  ASSUME Types, NEW c \in InFlight, ChooseServer(c, Active)
  PROVE  ChooseTypes' /\ CountsTypeOK' /\ AllTyped(calls', Known)
<1>0. ChooseTypes /\ CountsTypeOK /\ AllTyped(calls, Known)
  BY DEF Types, ChooseTypes
<1>1. Active \subseteq Nat \ {NoPick}
  <2>1. Known = 1 .. Len(stored) /\ Len(stored) \in Nat
    BY StoredTypes DEF Types
  <2> QED  BY <2>1 DEF Active, NoPick
<1>2. PICK j : j = calls[c]
  OBVIOUS
<1>3. Typed(j, Known) /\ ChooseCall(j)
  BY <1>0, <1>2 DEF AllTyped, Typed, InFlight
<1>4. UNCHANGED chooseVars => ChooseTypes'
  BY <1>0 DEF chooseVars, ChooseTypes, ChooseTypeOK
<1>5. ASSUME NEW kind, NEW body, Answer(c, kind, body)
      PROVE  CountsTypeOK'
  BY <1>0, <1>5 DEF Answer, CountsTypeOK
<1>6. CASE ServeSlot(c)
  <2>1. j.op \in {"slot", "ensure"} /\ Answer(c, "ok", j.arg.meal)
    BY <1>2, <1>6 DEF ServeSlot, Arrived
  <2>2. AllTyped(calls', Known)
    BY <1>0, <1>2, <2>1, TypedAnswer DEF SessionOps
  <2> QED  BY <1>4, <1>5, <1>6, <2>1, <2>2 DEF ServeSlot
<1>7. CASE ServeSearch(c, Active)
  <2>1. PICK D \in SUBSET Active :
          IF D = {} THEN Answer(c, "refused", Nothing) ELSE Answer(c, "ok", D)
    BY <1>7 DEF ServeSearch
  <2>2. j.op = "search"
    BY <1>2, <1>7 DEF ServeSearch, Arrived
  <2>3. D \in SUBSET (Nat \ {NoPick})
    BY <1>1
  <2>4. AllTyped(calls', Known)
    BY <1>0, <1>2, <2>1, <2>2, <2>3, TypedAnswer DEF SessionOps
  <2> QED  BY <1>4, <1>5, <1>7, <2>1, <2>4 DEF ServeSearch
<1>8. CASE ServeRandom(c, Active)
  <2>1. Answer(c, "refused", Nothing) \/ \E d \in Active : Answer(c, "ok", d)
    BY <1>8 DEF ServeRandom
  <2>2. j.op = "random"
    BY <1>2, <1>8 DEF ServeRandom, Arrived
  <2>3. AllTyped(calls', Known)
    BY <1>0, <1>1, <1>2, <2>1, <2>2, TypedAnswer DEF SessionOps
  <2> QED  BY <1>4, <1>5, <1>8, <2>1, <2>3 DEF ServeRandom
<1>9. CASE ServeWish(c, Active)
  <2>1. j.op = "wish" /\ j.arg.slot \in Meals /\ j.arg.dish \in Nat
        /\ (Answer(c, "ok", Nothing) \/ Answer(c, "refused", Nothing))
    BY <1>2, <1>3, <1>9 DEF ServeWish, Arrived, ChooseCall
  <2>2. AllTyped(calls', Known) /\ CountsTypeOK'
    BY <1>0, <1>2, <1>5, <2>1, TypedAnswer DEF SessionOps
  <2>3. wishes' \in [Meals -> SUBSET Nat]
    BY <1>0, <1>2, <1>9, <2>1 DEF ServeWish, ChooseTypes, ChooseTypeOK
  <2> QED  BY <1>0, <1>9, <2>2, <2>3 DEF ServeWish, ChooseTypes, ChooseTypeOK, chosen
<1> QED  BY <1>6, <1>7, <1>8, <1>9 DEF ChooseServer

\* The wish that follows when call j has brought the slot.
Following(j) == [op |-> "wish", arg |-> [slot |-> j.body, dish |-> j.arg.dish],
                 live |-> j.live, answer |-> "none", body |-> Nothing]

LEMMA SlotEnsuredShape ==
  ASSUME NEW c \in InFlight, SlotEnsured(c)
  PROVE  Became(c, Following(calls[c]))
<1>1. PICK a : a = [slot |-> calls[c].body, dish |-> calls[c].arg.dish]
  OBVIOUS
<1>2. PICK j : j = Call("wish", a)
  OBVIOUS
<1>3. PICK k : k = [j EXCEPT !.live = calls[c].live]
  OBVIOUS
<1>4. Became(c, k)
  BY <1>1, <1>2, <1>3, NextBecomes DEF SlotEnsured, Wish
<1>5. k = Following(calls[c])
  BY <1>1, <1>2, <1>3 DEF Following, Call
<1> QED  BY <1>4, <1>5

\* What its handlers do.
LEMMA ChooseHandlerTypes ==
  ASSUME Types, NEW c \in InFlight, ChooseHandlers(c)
  PROVE  ChooseTypes' /\ CountsTypeOK' /\ AllTyped(calls', Known)
<1> USE DEF ChooseTypes, ChooseTypeOK, CountsTypeOK, chosen, wanted
<1>0. ChooseTypes /\ CountsTypeOK /\ AllTyped(calls, Known)
  BY DEF Types
<1>1. PICK j : j = calls[c]
  OBVIOUS
<1>2. Typed(j, Known) /\ ChooseCall(j) /\ Shaped(j)
  BY <1>0, <1>1 DEF AllTyped, Typed, InFlight
<1>3. calls' = Without(calls, {c}) => AllTyped(calls', Known)
  BY <1>0, EndRemoves, TypedRemoved
<1>4. NoPick \in Nat
  BY DEF NoPick
<1>5. CASE SlotResolved(c)
  <2>1. j.op = "slot" /\ j.body \in Meals
    BY <1>1, <1>2, <1>5 DEF SlotResolved, Good, ChooseCall
  <2> QED  BY <1>0, <1>1, <1>3, <1>5, <2>1 DEF SlotResolved, End
<1>6. CASE SlotFails(c)
  BY <1>0, <1>3, <1>6 DEF SlotFails, Throws
<1>7. CASE Drawn(c)
  <2>1. j.op = "random" /\ j.body \in Nat
    BY <1>1, <1>2, <1>7 DEF Drawn, Good, ChooseCall
  <2> QED  BY <1>0, <1>1, <1>3, <1>7, <2>1 DEF Drawn, End
<1>8. CASE DrawFails(c)
  BY <1>0, <1>3, <1>4, <1>8 DEF DrawFails, Throws
<1>9. CASE Found(c)
  <2>1. j.op = "search" /\ j.body \in SUBSET (Nat \ {NoPick})
    BY <1>1, <1>2, <1>9 DEF Found, Good, ChooseCall
  <2> QED  BY <1>0, <1>1, <1>3, <1>4, <1>9, <2>1 DEF Found, End
<1>10. CASE SearchFails(c)
  BY <1>0, <1>3, <1>10 DEF SearchFails, Throws
<1>11. CASE SlotEnsured(c)
  <2>1. j.op = "ensure" /\ j.body \in Meals /\ j.arg.dish \in Nat \ {NoPick}
    BY <1>1, <1>2, <1>11 DEF SlotEnsured, ChooseCall
  <2>2. PICK k : k = Following(j)
    OBVIOUS
  <2>3. Became(c, k)
    BY <1>1, <1>11, <2>2, SlotEnsuredShape
  <2>4. Shaped(k) /\ k.op = "wish" /\ k.answer = "none"
    BY <1>2, <2>2 DEF Following, Shaped, Ops, ChooseOps, Reads
  <2>5. k.arg \in [slot : Meals, dish : Nat \ {NoPick}]
    BY <2>1, <2>2 DEF Following
  <2>6. Typed(k, Known)
    BY <2>4, <2>5 DEF Typed, SessionCall, SessionOps, DishCall, ChooseCall, HistoryCall
  <2>7. AllTyped(calls', Known)
    BY <1>0, <2>3, <2>6, TypedBecame
  <2> QED  BY <1>0, <1>1, <1>11, <2>1, <2>7 DEF SlotEnsured
<1>12. CASE EnsureFails(c)
  BY <1>0, <1>3, <1>12 DEF EnsureFails, Throws
<1>13. CASE Accepted(c)
  <2>1. j.op = "wish" /\ j.arg.dish \in Nat
    BY <1>1, <1>2, <1>13 DEF Accepted, ChooseCall
  <2>2. PICK k : k = [Call("opened", Nothing) EXCEPT !.live = FALSE]
    OBVIOUS
  <2>3. Became(c, k)
    BY <1>13, <2>2, NextBecomes DEF Accepted
  <2>4. k = [op |-> "opened", arg |-> Nothing, live |-> FALSE, answer |-> "none",
             body |-> Nothing]
    BY <2>2 DEF Call
  <2>5. Typed(k, Known)
    BY <2>4 DEF Typed, Shaped, Ops, ChooseOps, Reads, SessionCall, SessionOps, DishCall,
                ChooseCall, HistoryCall
  <2>6. AllTyped(calls', Known)
    BY <1>0, <2>3, <2>5, TypedBecame
  <2> QED  BY <1>0, <1>1, <1>13, <2>1, <2>6 DEF Accepted
<1>14. CASE AcceptFails(c)
  BY <1>0, <1>3, <1>14 DEF AcceptFails, Throws
<1> QED  BY <1>5, <1>6, <1>7, <1>8, <1>9, <1>10, <1>11, <1>12, <1>13, <1>14 DEF ChooseHandlers

\* The calls that ask for a slot.
LEMMA AskSlotTyped ==
  ASSUME NEW K, NEW m \in Meals
  PROVE  Typed(AskSlot(m), K)
<1>1. PICK a : a = [meal |-> m]
  OBVIOUS
<1>2. PICK k : k = Call("slot", a)
  OBVIOUS
<1>3. Shaped(k) /\ k.op = "slot" /\ k.arg = a /\ k.answer = "none"
  BY <1>2 DEF Call, Shaped, Ops, ChooseOps
<1>4. a \in [meal : Meals]
  BY <1>1
<1>5. Typed(k, K)
  BY <1>3, <1>4 DEF Typed, SessionCall, SessionOps, DishCall, ChooseCall, HistoryCall
<1> QED  BY <1>1, <1>2, <1>5 DEF AskSlot

LEMMA EnsureSlotTyped ==
  ASSUME NEW K, NEW m \in Meals, NEW d \in Nat \ {NoPick}
  PROVE  Typed(EnsureSlot(m, d), K)
<1>1. PICK a : a = [meal |-> m, dish |-> d]
  OBVIOUS
<1>2. PICK k : k = Call("ensure", a)
  OBVIOUS
<1>3. Shaped(k) /\ k.op = "ensure" /\ k.arg = a /\ k.answer = "none"
  BY <1>2 DEF Call, Shaped, Ops, ChooseOps, Reads
<1>4. a \in [meal : Meals, dish : Nat \ {NoPick}]
  BY <1>1
<1>5. Typed(k, K)
  BY <1>3, <1>4 DEF Typed, SessionCall, SessionOps, DishCall, ChooseCall, HistoryCall
<1> QED  BY <1>1, <1>2, <1>5 DEF EnsureSlot

\* What the clicks on its page do.
LEMMA ChooseClickTypes ==
  ASSUME Types, ChooseClicks \/ (\E d \in Offered : Accept(d))
  PROVE  ChooseTypes' /\ CountsTypeOK' /\ AllTyped(calls', Known)
<1> USE DEF ChooseTypes, ChooseTypeOK, chosen, wanted
<1>0. ChooseTypes /\ CountsTypeOK /\ AllTyped(calls, Known) /\ MaxClicks \in Nat
  BY BrowserAssumption DEF Types
<1>1. ASSUME NEW f, Click(f), AllTyped(f, Known)
      PROVE  CountsTypeOK' /\ AllTyped(calls', Known)
  BY <1>0, <1>1 DEF Click, CountsTypeOK
<1>2. ASSUME NEW m \in Meals, SelectMeal(m)
      PROVE  ChooseTypes' /\ CountsTypeOK' /\ AllTyped(calls', Known)
  <2> DEFINE S == {c \in InFlight : calls[c].op = "slot"}
  <2>1. PICK rest : rest = Abandoning(S)
    OBVIOUS
  <2>2. PICK j : j = AskSlot(m)
    OBVIOUS
  <2>3. Room(rest) /\ Click(Adding(rest, j))
    BY <1>2, <2>1, <2>2 DEF SelectMeal
  <2> HIDE DEF S
  <2>4. Typed(j, Known) /\ AllTyped(rest, Known)
    BY <1>0, <2>1, <2>2, AskSlotTyped, TypedAbandoning
  <2>5. AllTyped(Adding(rest, j), Known)
    BY <2>3, <2>4, TypedAdding
  <2>6. CountsTypeOK' /\ AllTyped(calls', Known)
    BY <1>1, <2>3, <2>5
  <2> QED  BY <1>0, <1>2, <2>6 DEF SelectMeal
<1>3. CASE SwitchMethod
  BY <1>0, <1>3 DEF SwitchMethod, browser, CountsTypeOK
<1>4. CASE Suggest
  <2>1. PICK op \in {"random", "search"} : Send(op, Nothing)
    BY <1>4 DEF Suggest
  <2>2. PICK j : j = Call(op, Nothing)
    OBVIOUS
  <2>3. Shaped(j) /\ j.op = op /\ j.answer = "none"
    BY <2>2 DEF Call, Shaped, Ops, ChooseOps
  <2>4. Typed(j, Known)
    BY <2>3 DEF Typed, SessionCall, SessionOps, DishCall, ChooseCall, HistoryCall
  <2>5. Sent(j)
    BY <2>1, <2>2, SendSends
  <2>6. AllTyped(calls', Known) /\ CountsTypeOK'
    BY <1>0, <2>1, <2>4, <2>5, TypedSent DEF Send, Click, CountsTypeOK
  <2> QED  BY <1>0, <1>4, <2>6 DEF Suggest
<1>5. ASSUME NEW d \in Offered, Accept(d)
      PROVE  ChooseTypes' /\ CountsTypeOK' /\ AllTyped(calls', Known)
  <2>1. d \in Nat \ {NoPick}
    BY <1>0 DEF Offered
  <2>2. PICK j : j = IF slotId = NoSlot THEN EnsureSlot(mealType, d) ELSE Wish(slotId, d)
    OBVIOUS
  <2>3. Typed(j, Known)
    <3>1. CASE slotId = NoSlot
      BY <1>0, <2>1, <2>2, <3>1, EnsureSlotTyped
    <3>2. CASE slotId # NoSlot
      <4>1. PICK a : a = [slot |-> slotId, dish |-> d]
        OBVIOUS
      <4>2. a \in [slot : Meals, dish : Nat \ {NoPick}]
        BY <1>0, <2>1, <3>2, <4>1
      <4>3. j = Call("wish", a)
        BY <2>2, <3>2, <4>1 DEF Wish
      <4>4. Shaped(j) /\ j.op = "wish" /\ j.arg = a /\ j.answer = "none"
        BY <4>3 DEF Call, Shaped, Ops, ChooseOps, Reads
      <4> QED  BY <4>2, <4>4 DEF Typed, SessionCall, SessionOps, DishCall, ChooseCall, HistoryCall
    <3> QED  BY <3>1, <3>2
  <2>4. Room(calls) /\ Click(Adding(calls, j))
    BY <1>5, <2>2 DEF Accept
  <2>5. AllTyped(Adding(calls, j), Known)
    BY <1>0, <2>3, <2>4, TypedAdding
  <2>6. CountsTypeOK' /\ AllTyped(calls', Known)
    BY <1>1, <2>4, <2>5
  <2>7. meant' \in [Meals -> SUBSET Nat] /\ hasty' \in BOOLEAN
    BY <1>0, <1>5, <2>1 DEF Accept, Awaited
  <2> QED  BY <1>0, <1>5, <2>6, <2>7 DEF Accept
<1> QED  BY <1>2, <1>3, <1>4, <1>5 DEF ChooseClicks

\* A call for the history, the check-in, or the list of the page that appears.
LEMMA PlainTyped ==
  ASSUME NEW K, NEW op \in {"history", "checkin", "session"}, NEW j, j = Call(op, Nothing)
  PROVE  Typed(j, K) /\ j.op = op /\ j.answer = "none"
<1>1. Shaped(j) /\ j.op = op /\ j.answer = "none"
  BY DEF Call, Shaped, Ops, HistoryOps, SessionOps
<1> QED  BY <1>1 DEF Typed, SessionCall, DishCall, ChooseCall, HistoryCall

\* The steps of the history and the check-in.
LEMMA HistoryTypes ==
  ASSUME Types, HistoryStep
  PROVE  CheckInTypeOK' /\ CountsTypeOK' /\ AllTyped(calls', Known)
<1> USE DEF CheckInTypeOK, CountsTypeOK, NoRow, NoSummary
<1>0. CheckInTypeOK /\ CountsTypeOK /\ AllTyped(calls, Known)
      /\ MaxClicks \in Nat /\ MaxSaves \in Nat
  BY BrowserAssumption, DaysAssumption DEF Types
<1>1. ASSUME NEW c \in InFlight, CheckInServer(c)
      PROVE  CheckInTypeOK' /\ CountsTypeOK' /\ AllTyped(calls', Known)
  <2>1. PICK j : j = calls[c]
    OBVIOUS
  <2>2. CASE ServeHistory(c)
    <3>1. j.op = "history" /\ Answer(c, "ok", Counted)
      BY <2>1, <2>2 DEF ServeHistory, Arrived
    <3>2. Counted \in 0 .. MaxSaves
      BY <1>0 DEF Counted
    <3>3. AllTyped(calls', Known)
      BY <1>0, <2>1, <3>1, <3>2, TypedAnswer DEF SessionOps
    <3> QED  BY <1>0, <2>2, <3>1, <3>3
               DEF ServeHistory, Answer, checkInVars, historyVars, checkVars
  <2>3. CASE FindRow(c)
    <3>1. j.op = "checkin" /\ (Answer(c, "found", row) \/ Answer(c, "refused", Nothing))
      BY <2>1, <2>3 DEF FindRow, Arrived
    <3>2. AllTyped(calls', Known)
      BY <1>0, <2>1, <3>1, TypedAnswer DEF SessionOps
    <3> QED  BY <1>0, <2>3, <3>1, <3>2
               DEF FindRow, Answer, checkInVars, historyVars, checkVars
  <2>4. CASE StoreRow(c)
    <3>1. CASE Answer(c, "refused", Nothing) /\ UNCHANGED checkInVars
      <4>1. AllTyped(calls', Known)
        BY <1>0, <2>1, <2>4, <3>1, TypedAnswer DEF StoreRow, SessionOps
      <4> QED  BY <1>0, <3>1, <4>1 DEF Answer, checkInVars, historyVars, checkVars
    <3>2. CASE /\ row < MaxSaves /\ row' = row + 1 /\ Answer(c, "ok", row + 1)
               /\ UNCHANGED <<today, historyVars, checkVars>>
      <4>1. row + 1 \in 0 .. MaxSaves
        BY <1>0, <3>2
      <4>2. AllTyped(calls', Known)
        BY <1>0, <2>1, <2>4, <3>2, <4>1, TypedAnswer DEF StoreRow, SessionOps
      <4> QED  BY <1>0, <3>2, <4>1, <4>2 DEF Answer, historyVars, checkVars
    <3> QED  BY <2>4, <3>1, <3>2 DEF StoreRow
  <2> QED  BY <1>1, <2>2, <2>3, <2>4 DEF CheckInServer
<1>2. ASSUME NEW c \in InFlight, CheckInHandlers(c)
      PROVE  CheckInTypeOK' /\ CountsTypeOK' /\ AllTyped(calls', Known)
  <2>1. HistoryCall(calls[c])
    BY <1>0 DEF AllTyped, Typed, InFlight
  <2>2. calls' = Without(calls, {c}) => AllTyped(calls', Known)
    BY <1>0, EndRemoves, TypedRemoved
  <2>3. CASE HistoryLoaded(c)
    <3>1. calls[c].body \in 0 .. MaxSaves
      BY <2>1, <2>3 DEF HistoryLoaded, Good, HistoryCall
    <3> QED  BY <1>0, <2>2, <2>3, <3>1 DEF HistoryLoaded, End, checkVars
  <2>4. CASE HistoryFails(c)
    BY <1>0, <2>2, <2>4 DEF HistoryFails, Throws, checkVars
  <2>5. CASE CheckinSaved(c)
    <3>1. calls[c].body \in 0 .. MaxSaves
      BY <2>1, <2>5 DEF CheckinSaved, Good, HistoryCall
    <3>2. PICK j : j = Call("history", Nothing)
      OBVIOUS
    <3>3. Typed(j, Known) /\ Became(c, j)
      BY <2>5, <3>2, PlainTyped, NextBecomes DEF CheckinSaved, Next1
    <3>4. AllTyped(calls', Known)
      BY <1>0, <3>3, TypedBecame
    <3> QED  BY <1>0, <2>5, <3>1, <3>4 DEF CheckinSaved, Next1
  <2>6. CASE CheckinFails(c)
    BY <1>0, <2>2, <2>6 DEF CheckinFails, Throws, historyVars
  <2> QED  BY <1>2, <2>3, <2>4, <2>5, <2>6 DEF CheckInHandlers
<1>3. CASE SubmitNothing
  <2>1. savedRow' \in 0 .. MaxSaves
    BY <1>0, <1>3 DEF SubmitNothing
  <2>2. UNCHANGED <<today, row, summary, loading, historyError, sending>>
    BY <1>3 DEF SubmitNothing, historyVars
  <2>3. CheckInTypeOK'
    BY <1>0, <1>3, <2>1, <2>2 DEF SubmitNothing
  <2> QED  BY <1>0, <1>3, <2>3 DEF SubmitNothing, browser
<1>4. CASE SubmitCheckin
  <2>1. PICK j : j = Call("checkin", Nothing)
    OBVIOUS
  <2>2. Typed(j, Known) /\ Sent(j)
    BY <1>4, <2>1, PlainTyped, SendSends DEF SubmitCheckin
  <2>3. AllTyped(calls', Known)
    BY <1>0, <2>2, TypedSent
  <2>4. UNCHANGED <<today, row, summary, loading, historyError>> /\ savedRow' \in 0 .. MaxSaves
    BY <1>0, <1>4 DEF SubmitCheckin, historyVars
  <2>5. CheckInTypeOK'
    BY <1>0, <1>4, <2>4 DEF SubmitCheckin
  <2> QED  BY <1>0, <1>4, <2>3, <2>5 DEF SubmitCheckin, Send, Click
<1> QED  BY <1>1, <1>2, <1>3, <1>4 DEF HistoryStep

\* The page of the dishes as it appears.
LEMMA FreshDishTypes ==
  ASSUME DishTypeOK, DishPageAppears, UNCHANGED <<stored, madeFor>>
  PROVE  /\ Known' = Known
         /\ crossed' \in BOOLEAN /\ muddled' \in BOOLEAN => DishTypeOK'
<1>1. form' \in [text : Texts \cup {NoText}, picture : Nat]
  BY DEF DishPageAppears, ClearsForm, EmptyForm, NoPicture
<1>2. DOMAIN dishes' = {} /\ Known' = Known
  BY DEF DishPageAppears, Known
<1> QED  BY <1>1, <1>2 DEF DishPageAppears, ClearsForm, DishTypeOK

\* A page appears, and with it the call for what it shows.
LEMMA AppearsTypes ==
  ASSUME Types, NEW t, NEW f, AllTyped(f, Known), Appears(t, f),
         crossed' \in BOOLEAN, muddled' \in BOOLEAN
  PROVE  /\ DishTypeOK' /\ ChooseTypes' /\ CheckInTypeOK' /\ AllTyped(calls', Known)
         /\ Known' = Known
<1>0. DishTypeOK /\ ChooseTypes /\ CheckInTypeOK /\ MaxSaves \in Nat
  BY DaysAssumption DEF Types, ChooseTypes
<1>1. Known' = Known /\ DishTypeOK'
  <2>1. DishPageAppears /\ UNCHANGED <<stored, madeFor>>
    BY DEF Appears
  <2> QED  BY <1>0, <2>1, FreshDishTypes
<1>2. ChooseTypes' /\ mealType' \in Meals
  BY <1>0 DEF Appears, ChoosePageAppears, NoPick, wanted, ChooseTypes, ChooseTypeOK
<1>3. CheckInTypeOK'
  <2>1. savedRow' \in 0 .. MaxSaves /\ UNCHANGED <<today, row>>
    BY <1>0 DEF Appears, HistoryAppears, NoRow
  <2> QED  BY <1>0, <2>1 DEF Appears, HistoryAppears, CheckInTypeOK
<1>4. ASSUME NEW j, Typed(j, Known), Room(f), calls' = Adding(f, j)
      PROVE  AllTyped(calls', Known)
  BY <1>4, TypedAdding
<1>5. CASE t = "dishes"
  <2>1. PICK a : a = [filter |-> All, effect |-> TRUE, form |-> FALSE]
    OBVIOUS
  <2>2. PICK j : j = Call("dishes", a)
    OBVIOUS
  <2>3. DishCall(j, Known)
    BY <2>1, <2>2 DEF Call, DishCall, Filters
  <2>4. Shaped(j) /\ j.op = "dishes" /\ j.answer = "none"
    BY <2>2 DEF Call, Shaped, Ops, DishOps
  <2>5. Typed(j, Known)
    BY <2>3, <2>4 DEF Typed, SessionCall, SessionOps, ChooseCall, HistoryCall
  <2>6. Room(f) /\ calls' = Adding(f, j)
    BY <1>5, <2>1, <2>2 DEF Appears
  <2> QED  BY <1>1, <1>2, <1>3, <1>4, <2>5, <2>6
<1>6. CASE t = "choose"
  <2>1. PICK j : j = AskSlot(mealType')
    OBVIOUS
  <2>2. Typed(j, Known)
    BY <1>2, <2>1, AskSlotTyped
  <2>3. Room(f) /\ calls' = Adding(f, j)
    BY <1>6, <2>1 DEF Appears
  <2> QED  BY <1>1, <1>2, <1>3, <1>4, <2>2, <2>3
<1>7. CASE t = "family"
  <2>1. PICK j : j = Call("history", Nothing)
    OBVIOUS
  <2>2. Room(f) /\ calls' = Adding(f, j)
    BY <1>7, <2>1 DEF Appears
  <2> QED  BY <1>1, <1>2, <1>3, <1>4, <2>1, <2>2, PlainTyped
<1>8. CASE t \notin {"dishes", "choose", "family"}
  <2>1. calls' = f
    BY <1>8 DEF Appears
  <2> QED  BY <1>1, <1>2, <1>3, <2>1
<1> QED  BY <1>5, <1>6, <1>7, <1>8

\* The member goes to another page, or loads the page again.
LEMMA PageTypes ==
  ASSUME Types, (\E c \in InFlight : Enter(c)) \/ (\E t \in Tabs : Navigate(t)) \/ Refresh
  PROVE  /\ SessionTypeOK' /\ DishTypeOK' /\ ChooseTypes' /\ CheckInTypeOK'
         /\ CountsTypeOK' /\ AllTyped(calls', Known) /\ Known' = Known
<1>0. /\ SessionTypeOK /\ DishTypeOK /\ ChooseTypes /\ CheckInTypeOK
      /\ CountsTypeOK /\ AllTyped(calls, Known) /\ MaxClicks \in Nat /\ MaxSaves \in Nat
  BY BrowserAssumption, DaysAssumption DEF Types, ChooseTypes
<1>1. ASSUME NEW c \in InFlight, Enter(c)
      PROVE  /\ SessionTypeOK' /\ DishTypeOK' /\ ChooseTypes' /\ CheckInTypeOK'
             /\ CountsTypeOK' /\ AllTyped(calls', Known) /\ Known' = Known
  <2>1. PICK f : f = Without(calls, {c})
    OBVIOUS
  <2>2. AllTyped(f, Known)
    BY <1>0, <2>1 DEF AllTyped, Without
  <2>3. DishTypeOK' /\ ChooseTypes' /\ CheckInTypeOK' /\ AllTyped(calls', Known)
        /\ Known' = Known
    BY <1>0, <1>1, <2>1, <2>2, AppearsTypes DEF Enter, DishTypeOK
  <2>4. calls[c].body \in Codes
    BY <1>0, <1>1 DEF Enter, SessionLoaded, Good, AllTyped, Typed, SessionCall, SessionOps, InFlight
  <2>5. SessionTypeOK'
    BY <1>0, <1>1, <2>4 DEF Enter, SessionLoaded, onboarding, account, SessionTypeOK
  <2>6. CountsTypeOK'
    BY <1>0, <1>1 DEF Enter, Appears, CountsTypeOK
  <2> QED  BY <2>3, <2>5, <2>6
<1>2. ASSUME NEW t \in Tabs, Navigate(t)
      PROVE  /\ SessionTypeOK' /\ DishTypeOK' /\ ChooseTypes' /\ CheckInTypeOK'
             /\ CountsTypeOK' /\ AllTyped(calls', Known) /\ Known' = Known
  <2>1. PICK f : f = Abandoning(InFlight)
    OBVIOUS
  <2>2. AllTyped(f, Known)
    BY <1>0, <2>1, TypedAbandoning
  <2>3. Appears(t, f) /\ crossed' \in BOOLEAN /\ muddled' \in BOOLEAN
    BY <1>0, <1>2, <2>1 DEF Navigate, DishTypeOK
  <2>4. DishTypeOK /\ DishTypeOK' /\ ChooseTypes' /\ CheckInTypeOK' /\ AllTyped(calls', Known)
        /\ Known' = Known
    BY <1>0, <2>2, <2>3, AppearsTypes
  <2>5. session \in Codes
    BY <1>0, <1>2 DEF Navigate, Screen, SessionTypeOK, Tabs
  <2>6. SessionTypeOK'
    BY <1>0, <1>2, <2>5 DEF Navigate, onboarding, account, SessionTypeOK
  <2>7. CountsTypeOK'
    BY <1>0, <1>2, <2>3 DEF Navigate, Appears, CountsTypeOK
  <2> QED  BY <2>4, <2>6, <2>7
<1>3. CASE Refresh
  <2> DEFINE kept == {c \in InFlight : calls[c].op \notin Reads \cup {"ensure", "rotate"}}
  <2>1. PICK f : f = [c \in kept |-> [calls[c] EXCEPT !.live = FALSE]]
    OBVIOUS
  <2>2. PICK j : j = Call("session", Nothing)
    OBVIOUS
  <2>3. Room(f) /\ calls' = Adding(f, j)
    BY <1>3, <2>1, <2>2 DEF Refresh
  <2>4. ASSUME NEW c \in kept PROVE Typed(f[c], Known)
    <3>1. PICK k : k = calls[c]
      OBVIOUS
    <3>2. Typed(k, Known) /\ k.op \notin Reads
      BY <1>0, <3>1 DEF AllTyped, InFlight
    <3>3. f[c] = Dead(k)
      BY <2>1, <3>1, <3>2, Killed DEF Typed
    <3> QED  BY <3>2, <3>3, TypedDead
  <2>5. AllTyped(f, Known)
    BY <1>0, <2>1, <2>4 DEF AllTyped, InFlight
  <2>6. AllTyped(calls', Known)
    BY <2>2, <2>3, <2>5, PlainTyped, TypedAdding
  <2>7. /\ clicks < MaxClicks /\ clicks' = clicks + 1 /\ patient' \in BOOLEAN
        /\ session' = Unknown /\ inviteCode' = Nobody /\ rotateError' = FALSE
        /\ DishPageAppears /\ ChoosePageAppears /\ HistoryAppears
        /\ UNCHANGED <<online, tab, appError, onboarding, account, stored, madeFor, muddled,
                       mealType, wanted, today, row>>
        /\ crossed' \in BOOLEAN
    BY <1>3 DEF Refresh
  <2>8. SessionTypeOK' /\ CountsTypeOK'
    <3>1. CountsTypeOK'
      BY <1>0, <2>7 DEF CountsTypeOK
    <3>2. SessionTypeOK'
      BY <1>0, <2>7 DEF onboarding, account, SessionTypeOK
    <3> QED  BY <3>1, <3>2
  <2>9. Known' = Known /\ DishTypeOK'
    <3>1. muddled' \in BOOLEAN
      BY <1>0, <2>7 DEF DishTypeOK
    <3> QED  BY <1>0, <2>7, <3>1, FreshDishTypes
  <2>10. ChooseTypes'
    BY <1>0, <2>7 DEF ChoosePageAppears, NoPick, wanted, ChooseTypes, ChooseTypeOK
  <2>11. savedRow' \in 0 .. MaxSaves
    BY <1>0, <2>7 DEF HistoryAppears, NoRow
  <2>12. CheckInTypeOK'
    BY <1>0, <2>7, <2>11 DEF HistoryAppears, CheckInTypeOK
  <2> QED  BY <2>6, <2>8, <2>9, <2>10, <2>12
<1> QED  BY <1>1, <1>2, <1>3

\* What the pages start with.
LEMMA InitTypes == Init => Types /\ events = 0
<1> SUFFICES ASSUME Init PROVE Types /\ events = 0
  OBVIOUS
<1>1. SessionTypeOK
  <2>1. 1 \in Codes
    BY CodesAssumption DEF Codes
  <2> QED  BY <2>1 DEF Init, SessionInit, FreshOnboarding, SessionTypeOK
<1>2. DishTypeOK
  <2>1. PICK n \in 0 .. MaxDishes :
          stored \in [1 .. n -> [text : Texts, picture : {NoPicture}, archived : {FALSE}]]
    BY DEF Init, DishInit
  <2>2. n \in Nat /\ n <= MaxDishes
    BY DishesAssumption
  <2>3. stored \in [1 .. n -> Dishes]
    <3>1. \A r \in [text : Texts, picture : {NoPicture}, archived : {FALSE}] : r \in Dishes
      <4> TAKE r \in [text : Texts, picture : {NoPicture}, archived : {FALSE}]
      <4>1. r = [text |-> r.text, picture |-> r.picture, archived |-> r.archived]
        OBVIOUS
      <4>2. r.text \in Texts /\ r.picture \in Nat
        BY DEF NoPicture
      <4>3. r.archived \in BOOLEAN
        OBVIOUS
      <4> QED  BY <4>1, <4>2, <4>3 DEF Dishes
    <3> QED  BY <2>1, <3>1
  <2>4. stored \in Seq(Dishes) /\ Len(stored) = n
    BY <2>2, <2>3
  <2>5. madeFor \in Seq(DishIds \cup {NoDish})
    BY DEF Init, DishInit
  <2>6. form \in [text : Texts \cup {NoText}, picture : Nat] /\ DOMAIN dishes = {}
    BY DEF Init, DishInit, FreshDishPage, NoForm, EmptyForm, NoPicture
  <2> QED  BY <2>2, <2>4, <2>5, <2>6
             DEF Init, DishInit, FreshDishPage, NoForm, NoDish, DishTypeOK
<1>3. CheckInTypeOK
  <2>1. row \in 0 .. MaxSaves /\ savedRow \in 0 .. MaxSaves
    BY DaysAssumption DEF Init, CheckInInit, FreshHistory, NoRow
  <2> QED  BY <2>1 DEF Init, CheckInInit, FreshHistory, CheckInTypeOK
<1>4. ChooseTypeOK /\ NoPick \notin results
  BY DEF Init, ChooseInit, FreshChoosePage, NoPick, ChooseTypeOK
<1>5. CountsTypeOK
  BY BrowserAssumption DEF Init, CountsTypeOK
<1>6. AllTyped(calls, Known)
  <2>1. PICK j : j = Call("session", Nothing)
    OBVIOUS
  <2>2. Typed(j, Known) /\ DOMAIN calls = {1} /\ calls[1] = j
    BY <2>1, PlainTyped DEF Init
  <2> QED  BY <2>2, BrowserAssumption DEF AllTyped, Ids
<1> QED  BY <1>1, <1>2, <1>3, <1>4, <1>5, <1>6 DEF Init, Types

\* Every step keeps the types.
LEMMA NextTypes == Types /\ [Next]_vars => Types'
<1> SUFFICES ASSUME Types, [Next]_vars PROVE Types'
  OBVIOUS
<1> USE DEF ChooseTypes
<1>0. /\ SessionTypeOK /\ DishTypeOK /\ ChooseTypes /\ CheckInTypeOK
      /\ CountsTypeOK /\ AllTyped(calls, Known)
  BY DEF Types
<1>1. UNCHANGED sessionVars => SessionTypeOK'
  BY <1>0 DEF sessionVars, SessionTypeOK
<1>2. UNCHANGED dishVars => DishTypeOK' /\ Known' = Known
  BY <1>0 DEF dishVars, listVars, formVars, Known, DishTypeOK
<1>3. UNCHANGED chooseVars => ChooseTypes'
  BY <1>0 DEF chooseVars, ChooseTypeOK
<1>4. UNCHANGED checkInVars => CheckInTypeOK'
  BY <1>0 DEF checkInVars, historyVars, checkVars, CheckInTypeOK
<1>5. UNCHANGED browser => CountsTypeOK' /\ AllTyped(calls', Known)
  BY <1>0 DEF browser, CountsTypeOK
<1>6. CASE SessionStep
  <2>1. UNCHANGED <<dishVars, chooseVars, checkInVars>>
    BY <1>6 DEF SessionStep
  <2> QED  BY <1>2, <1>3, <1>4, <1>6, <2>1, SessionTypes DEF Types
<1>7. CASE DishStep
  <2>1. /\ UNCHANGED <<sessionVars, chooseVars, checkInVars>>
        /\ \/ \E c \in InFlight : DishServer(c) \/ DishHandlers(c)
           \/ DishClicks \/ \E d \in Cards : Archive(d)
    BY <1>7 DEF DishStep
  <2>2. DishTypeOK' /\ CountsTypeOK' /\ AllTyped(calls', Known')
    BY <2>1, DishServerTypes, DishHandlerTypes, DishClickTypes
  <2> QED  BY <1>1, <1>3, <1>4, <2>1, <2>2 DEF Types
<1>8. CASE ChooseStep
  <2>1. /\ UNCHANGED <<sessionVars, dishVars, checkInVars>>
        /\ \/ \E c \in InFlight : ChooseServer(c, Active) \/ ChooseHandlers(c)
           \/ ChooseClicks \/ \E d \in Offered : Accept(d)
    BY <1>8 DEF ChooseStep
  <2>2. ChooseTypes' /\ CountsTypeOK' /\ AllTyped(calls', Known)
    BY <2>1, ChooseServerTypes, ChooseHandlerTypes, ChooseClickTypes
  <2> QED  BY <1>1, <1>2, <1>4, <2>1, <2>2 DEF Types
<1>9. CASE HistoryStep
  <2>1. UNCHANGED <<sessionVars, dishVars, chooseVars>>
    BY <1>9 DEF HistoryStep
  <2> QED  BY <1>1, <1>2, <1>3, <1>9, <2>1, HistoryTypes DEF Types
<1>10. CASE ShellStep
  <2>1. /\ UNCHANGED <<sessionVars, dishVars, chooseVars, checkInVars>>
        /\ (\E c \in InFlight : Forgotten(c)) \/ GoOnline
    BY <1>10 DEF ShellStep
  <2>2. CountsTypeOK' /\ AllTyped(calls', Known)
    BY <1>0, <2>1, EndRemoves, TypedRemoved DEF Forgotten, End, GoOnline, CountsTypeOK
  <2> QED  BY <1>1, <1>2, <1>3, <1>4, <2>1, <2>2 DEF Types
<1>11. CASE (\E c \in InFlight : Enter(c)) \/ (\E t \in Tabs : Navigate(t)) \/ Refresh
  BY <1>11, PageTypes DEF Types
<1>12. CASE Event
  <2>1. UNCHANGED <<dishVars, chooseVars>>
    BY <1>12 DEF Event
  <2>2. CASE GoOffline /\ UNCHANGED <<sessionVars, checkInVars>>
    <3>1. CountsTypeOK' /\ AllTyped(calls', Known)
      BY <1>0, <2>2 DEF GoOffline, CountsTypeOK
    <3> QED  BY <1>1, <1>2, <1>3, <1>4, <2>1, <2>2, <3>1 DEF Types
  <2>3. CASE (RotateElsewhere \/ Expire) /\ UNCHANGED checkInVars
    <3>1. UNCHANGED browser
      BY <2>3 DEF RotateElsewhere, Expire
    <3>2. handed \in 1 .. MaxCodes /\ valid \in 1 .. MaxCodes /\ MaxCodes \in Nat
      BY <1>0, CodesAssumption DEF SessionTypeOK, Codes
    <3>3. ASSUME RotateElsewhere PROVE SessionTypeOK'
      <4>1. handed' \in Codes /\ valid' \in Codes
        BY <3>2, <3>3 DEF RotateElsewhere, Codes
      <4> QED  BY <1>0, <3>3, <4>1
                 DEF RotateElsewhere, screenVars, onboarding, family, SessionTypeOK
    <3>4. ASSUME Expire PROVE SessionTypeOK'
      BY <1>0, <3>4 DEF Expire, screenVars, onboarding, family, SessionTypeOK
    <3>5. SessionTypeOK'
      BY <2>3, <3>3, <3>4
    <3> QED  BY <1>2, <1>3, <1>4, <1>5, <2>1, <2>3, <3>1, <3>5 DEF Types
  <2>4. CASE OtherChecksIn /\ UNCHANGED sessionVars
    <3>1. UNCHANGED browser
      BY <2>4 DEF OtherChecksIn
    <3>2. CheckInTypeOK'
      BY <1>0, <2>4, DaysAssumption DEF OtherChecksIn, historyVars, checkVars, CheckInTypeOK
    <3> QED  BY <1>1, <1>2, <1>3, <1>5, <2>1, <2>4, <3>1, <3>2 DEF Types
  <2> QED  BY <1>12, <2>2, <2>3, <2>4 DEF Event
<1>13. CASE UNCHANGED <<sessionVars, dishVars, chooseVars, checkInVars, browser>>
  BY <1>1, <1>2, <1>3, <1>4, <1>5, <1>13 DEF Types
<1>14. CASE Observe /\ UNCHANGED <<sessionVars, dishVars, chooseVars, checkInVars>>
  BY <1>13, <1>14 DEF Observe
<1>15. CASE UNCHANGED vars
  BY <1>13, <1>15 DEF vars
<1> QED  BY <1>6, <1>7, <1>8, <1>9, <1>10, <1>11, <1>12, <1>14, <1>15 DEF Next, Step

-----------------------------------------------------------------------------
(* What a step leaves of the calls of others.                              *)

Of(K)   == {i \in InFlight : calls[i].op \in K}
Kept(K) == Of(K)' = Of(K) /\ \A i \in Of(K) : calls'[i] = calls[i]

\* To end a call, to make another of it and to send one is nothing to the others.
LEMMA KeptOthers ==
  ASSUME NEW K
  PROVE  /\ \A c \in InFlight : Removed(c) /\ calls[c].op \notin K => Kept(K)
         /\ \A c \in InFlight : \A j : Became(c, j) /\ calls[c].op \notin K /\ j.op \notin K => Kept(K)
         /\ \A j : Sent(j) /\ j.op \notin K => Kept(K)
         /\ UNCHANGED calls => Kept(K)
<1>1. ASSUME NEW c \in InFlight, Removed(c), calls[c].op \notin K PROVE Kept(K)
  BY <1>1 DEF Removed, Kept, Of
<1>2. ASSUME NEW c \in InFlight, NEW j, Became(c, j), calls[c].op \notin K, j.op \notin K
      PROVE  Kept(K)
  BY <1>2 DEF Became, Kept, Of
<1>3. ASSUME NEW j, Sent(j), j.op \notin K PROVE Kept(K)
  BY <1>3 DEF Sent, Kept, Of
<1>4. ASSUME UNCHANGED calls PROVE Kept(K)
  BY <1>4 DEF Kept, Of, InFlight
<1> QED  BY <1>1, <1>2, <1>3, <1>4

\* A call in flight, by its type.
LEMMA CallTypes ==
  ASSUME Types, NEW c \in InFlight
  PROVE  Typed(calls[c], Known) /\ Shaped(calls[c])
BY DEF Types, AllTyped, Typed, InFlight

\* The steps of the session as far as calls go.
LEMMA SessionShapes ==
  ASSUME Types
  PROVE  /\ \A c \in InFlight :
              /\ ServeSession(c) =>
                   \/ cookie /\ Became(c, With(calls[c], "ok", valid))
                   \/ ~ cookie /\ Became(c, With(calls[c], "refused", Nothing))
              /\ ServeCreate(c) => Became(c, With(calls[c], "ok", handed + 1))
              /\ ServeJoin(c) => \/ Became(c, With(calls[c], "ok", valid))
                                 \/ Became(c, With(calls[c], "refused", Nothing))
              /\ ServeRotate(c) => Became(c, With(calls[c], "ok", handed + 1))
              /\ SessionRefused(c) \/ SessionFails(c) \/ AuthenticationFails(c)
                   \/ Rotated(c) \/ RotateFails(c) => Removed(c)
              /\ Authenticated(c) => Became(c, Call("session", Nothing))
         /\ Retry => Sent(Call("session", Nothing))
         /\ SwitchMode => UNCHANGED calls
         /\ Submit => Sent(Call(mode, Nothing))
         /\ Rotate => Sent(Call("rotate", Nothing))
<1>1. ASSUME NEW c \in InFlight, NEW kind, NEW body, Answer(c, kind, body)
      PROVE  Became(c, With(calls[c], kind, body))
  BY <1>1, CallTypes, AnswerBecomes
<1>2. ASSUME NEW c \in InFlight
      PROVE  /\ ServeSession(c) =>
                   \/ cookie /\ Became(c, With(calls[c], "ok", valid))
                   \/ ~ cookie /\ Became(c, With(calls[c], "refused", Nothing))
             /\ ServeCreate(c) => Became(c, With(calls[c], "ok", handed + 1))
             /\ ServeJoin(c) => \/ Became(c, With(calls[c], "ok", valid))
                                \/ Became(c, With(calls[c], "refused", Nothing))
             /\ ServeRotate(c) => Became(c, With(calls[c], "ok", handed + 1))
  BY <1>1 DEF ServeSession, ServeCreate, ServeJoin, ServeRotate
<1>3. ASSUME NEW c \in InFlight,
             SessionRefused(c) \/ SessionFails(c) \/ AuthenticationFails(c)
             \/ Rotated(c) \/ RotateFails(c)
      PROVE  Removed(c)
  <2>1. calls' = Without(calls, {c})
    BY <1>3 DEF SessionRefused, SessionFails, AuthenticationFails, Rotated, RotateFails,
                End, Throws
  <2> QED  BY <2>1, EndRemoves
<1>4. ASSUME NEW c \in InFlight, Authenticated(c)
      PROVE  Became(c, Call("session", Nothing))
  <2>1. PICK j : j = Call("session", Nothing)
    OBVIOUS
  <2>2. calls' = [calls EXCEPT ![c] = j]
    BY <1>4, <2>1 DEF Authenticated, Next1
  <2> QED  BY <2>1, <2>2, NextBecomes
<1>5. Retry => Sent(Call("session", Nothing))
  BY SendSends DEF Retry
<1>6. Submit => Sent(Call(mode, Nothing))
  BY SendSends DEF Submit
<1>7. Rotate => Sent(Call("rotate", Nothing))
  BY SendSends DEF Rotate
<1>8. SwitchMode => UNCHANGED calls
  BY DEF SwitchMode, browser
<1> QED  BY <1>2, <1>3, <1>4, <1>5, <1>6, <1>7, <1>8

\* They are about the session's calls alone.
LEMMA SessionKeeps ==
  ASSUME Types, SessionStep, NEW K, K \cap SessionOps = {}
  PROVE  Kept(K)
<1>1. \A op, arg : Call(op, arg).op = op
  BY DEF Call
<1>2. \A j, kind, body : With(j, kind, body).op = j.op
  BY DEF With
<1>3. mode \in SessionOps
  BY DEF Types, SessionTypeOK, SessionOps
<1>4. CASE \E c \in InFlight : SessionServer(c)
  <2>1. PICK c \in InFlight : SessionServer(c)
    BY <1>4
  <2>2. calls[c].op \in SessionOps /\ \E kind, body : Became(c, With(calls[c], kind, body))
    BY <2>1, SessionShapes
      DEF SessionServer, ServeSession, ServeCreate, ServeJoin, ServeRotate, Arrived, SessionOps
  <2> QED  BY <1>2, <2>2, KeptOthers
<1>5. CASE \E c \in InFlight : SessionHandlers(c)
  <2>1. PICK c \in InFlight : SessionHandlers(c)
    BY <1>5
  <2>2. calls[c].op \in SessionOps /\ (Removed(c) \/ Became(c, Call("session", Nothing)))
    BY <2>1, SessionShapes
      DEF SessionHandlers, SessionRefused, SessionFails, Authenticated, AuthenticationFails,
          Rotated, RotateFails, Good, Throws, SessionOps
  <2>3. Call("session", Nothing).op \notin K /\ calls[c].op \notin K
    BY <1>1, <2>2 DEF SessionOps
  <2> QED  BY <2>2, <2>3, KeptOthers
<1>6. CASE SessionClicks \/ Rotate
  <2>1. UNCHANGED calls \/ \E op \in SessionOps : Sent(Call(op, Nothing))
    BY <1>3, <1>6, SessionShapes DEF SessionClicks, SessionOps
  <2> QED  BY <1>1, <2>1, KeptOthers
<1> QED  BY <1>4, <1>5, <1>6 DEF SessionStep

\* The steps of the page that helps to choose, as far as calls go; to select a
\* meal takes the effect's calls away.
LEMMA ChooseShapes ==
  ASSUME Types
  PROVE  /\ \A c \in InFlight :
              /\ ServeSlot(c) => Became(c, With(calls[c], "ok", calls[c].arg.meal))
              /\ ChooseServer(c, Active) =>
                   \E kind \in {"ok", "refused"} : \E body : Became(c, With(calls[c], kind, body))
              /\ SlotResolved(c) \/ SlotFails(c) \/ Drawn(c) \/ DrawFails(c) \/ Found(c)
                   \/ SearchFails(c) \/ EnsureFails(c) \/ AcceptFails(c) => Removed(c)
              /\ SlotEnsured(c) => Became(c, Following(calls[c]))
              /\ Accepted(c) => Became(c, Dead(Call("opened", Nothing)))
         /\ SwitchMethod => UNCHANGED calls
         /\ Suggest => \E op \in {"random", "search"} : Sent(Call(op, Nothing))
         /\ \A d : Accept(d) =>
              Sent(IF slotId = NoSlot THEN EnsureSlot(mealType, d) ELSE Wish(slotId, d))
<1>1. ASSUME NEW c \in InFlight, NEW kind, NEW body, Answer(c, kind, body)
      PROVE  Became(c, With(calls[c], kind, body))
  BY <1>1, CallTypes, AnswerBecomes
<1>2. ASSUME NEW c \in InFlight
      PROVE  /\ ServeSlot(c) => Became(c, With(calls[c], "ok", calls[c].arg.meal))
             /\ ChooseServer(c, Active) =>
                   \E kind \in {"ok", "refused"} : \E body : Became(c, With(calls[c], kind, body))
  <2>1. ServeSlot(c) => Became(c, With(calls[c], "ok", calls[c].arg.meal))
    BY <1>1 DEF ServeSlot
  <2>2. ChooseServer(c, Active) => \E kind \in {"ok", "refused"} : \E body : Answer(c, kind, body)
    BY DEF ChooseServer, ServeSlot, ServeSearch, ServeRandom, ServeWish
  <2> QED  BY <1>1, <2>1, <2>2
<1>3. ASSUME NEW c \in InFlight,
             SlotResolved(c) \/ SlotFails(c) \/ Drawn(c) \/ DrawFails(c) \/ Found(c)
             \/ SearchFails(c) \/ EnsureFails(c) \/ AcceptFails(c)
      PROVE  Removed(c)
  <2>1. calls' = Without(calls, {c})
    BY <1>3 DEF SlotResolved, SlotFails, Drawn, DrawFails, Found, SearchFails, EnsureFails,
                AcceptFails, End, Throws
  <2> QED  BY <2>1, EndRemoves
<1>4. ASSUME NEW c \in InFlight, SlotEnsured(c)
      PROVE  Became(c, Following(calls[c]))
  BY <1>4, SlotEnsuredShape
<1>5. ASSUME NEW c \in InFlight, Accepted(c)
      PROVE  Became(c, Dead(Call("opened", Nothing)))
  <2>1. PICK j : j = Call("opened", Nothing)
    OBVIOUS
  <2>2. PICK k : k = [j EXCEPT !.live = FALSE]
    OBVIOUS
  <2>3. calls' = [calls EXCEPT ![c] = k]
    BY <1>5, <2>1, <2>2 DEF Accepted
  <2>4. k = Dead(j)
    BY <2>1, <2>2 DEF Dead, Call
  <2> QED  BY <2>1, <2>3, <2>4, NextBecomes
<1>6. ASSUME Suggest PROVE \E op \in {"random", "search"} : Sent(Call(op, Nothing))
  BY <1>6, SendSends DEF Suggest
<1>7. ASSUME NEW d, Accept(d)
      PROVE  Sent(IF slotId = NoSlot THEN EnsureSlot(mealType, d) ELSE Wish(slotId, d))
  <2>1. PICK j : j = IF slotId = NoSlot THEN EnsureSlot(mealType, d) ELSE Wish(slotId, d)
    OBVIOUS
  <2>2. Room(calls) /\ calls' = Adding(calls, j)
    BY <1>7, <2>1 DEF Accept, Click
  <2>3. /\ Free(calls) \in Ids \ DOMAIN calls
        /\ DOMAIN Adding(calls, j) = DOMAIN calls \cup {Free(calls)}
        /\ Adding(calls, j)[Free(calls)] = j
        /\ \A i \in DOMAIN calls : Adding(calls, j)[i] = calls[i]
    BY <2>2, AddingTo
  <2>4. Sent(j)
    BY <2>2, <2>3 DEF Sent, InFlight
  <2> QED  BY <2>1, <2>4
<1>8. SwitchMethod => UNCHANGED calls
  BY DEF SwitchMethod, browser
<1> QED  BY <1>2, <1>3, <1>4, <1>5, <1>6, <1>7, <1>8

\* What selecting a meal leaves, and the call that it adds.
LEMMA SelectMealShape ==
  ASSUME Types, NEW m, SelectMeal(m)
  PROVE  \E n \in Ids :
           /\ InFlight' = {i \in InFlight : calls[i].op # "slot"} \cup {n}
           /\ n \notin {i \in InFlight : calls[i].op # "slot"}
           /\ calls'[n] = AskSlot(m)
           /\ \A i \in InFlight : calls[i].op # "slot" => calls'[i] = calls[i]
<1> DEFINE S == {c \in InFlight : calls[c].op = "slot"}
<1>1. PICK f : f = Abandoning(S)
  OBVIOUS
<1>2. PICK j : j = AskSlot(m)
  OBVIOUS
<1>3. Room(f) /\ calls' = Adding(f, j)
  BY <1>1, <1>2 DEF SelectMeal, Click
<1>4. \A i \in InFlight : Shaped(calls[i])
  BY CallTypes
<1>5. \A i \in S : i \in InFlight /\ calls[i].op \in Reads
  BY DEF Reads
<1>6. \A i \in InFlight : i \in S <=> calls[i].op = "slot"
  OBVIOUS
<1> HIDE DEF S
<1>7. DOMAIN f = {i \in InFlight : i \in S => calls[i].op \notin Reads}
      /\ \A i \in DOMAIN f : f[i] = IF i \in S THEN Dead(calls[i]) ELSE calls[i]
  BY <1>1, <1>4, AbandoningLeaves
<1>8. DOMAIN f = {i \in InFlight : calls[i].op # "slot"} /\ \A i \in DOMAIN f : f[i] = calls[i]
  BY <1>5, <1>6, <1>7
<1>9. /\ Free(f) \in Ids \ DOMAIN f
      /\ DOMAIN Adding(f, j) = DOMAIN f \cup {Free(f)}
      /\ Adding(f, j)[Free(f)] = j
      /\ \A i \in DOMAIN f : Adding(f, j)[i] = f[i]
  BY <1>3, AddingTo
<1> QED  BY <1>2, <1>3, <1>8, <1>9 DEF InFlight

\* They are about the calls of that page alone.
LEMMA ChooseKeeps ==
  ASSUME Types, ChooseStep, NEW K, K \cap ChooseOps = {}
  PROVE  Kept(K)
<1>1. \A op, arg : Call(op, arg).op = op /\ Dead(Call(op, arg)).op = op
  BY DEF Call, Dead
<1>2. \A j, kind, body : With(j, kind, body).op = j.op
  BY DEF With
<1>3. \A m, d : /\ AskSlot(m).op = "slot" /\ EnsureSlot(m, d).op = "ensure"
               /\ Wish(m, d).op = "wish"
  BY <1>1 DEF AskSlot, EnsureSlot, Wish
<1>4. CASE \E c \in InFlight : ChooseServer(c, Active)
  <2>1. PICK c \in InFlight : ChooseServer(c, Active)
    BY <1>4
  <2>2. calls[c].op \in ChooseOps /\ \E kind, body : Became(c, With(calls[c], kind, body))
    BY <2>1, ChooseShapes
      DEF ChooseServer, ServeSlot, ServeSearch, ServeRandom, ServeWish, Arrived, ChooseOps
  <2> QED  BY <1>2, <2>2, KeptOthers
<1>5. CASE \E c \in InFlight : ChooseHandlers(c)
  <2>1. PICK c \in InFlight : ChooseHandlers(c)
    BY <1>5
  <2>2. /\ calls[c].op \in ChooseOps
        /\ \/ Removed(c)
           \/ Became(c, Following(calls[c]))
           \/ Became(c, Dead(Call("opened", Nothing)))
    BY <2>1, ChooseShapes
      DEF ChooseHandlers, SlotResolved, SlotFails, Drawn, DrawFails, Found, SearchFails,
          SlotEnsured, EnsureFails, Accepted, AcceptFails, Good, Throws, ChooseOps
  <2>3. /\ calls[c].op \notin K
        /\ Following(calls[c]).op \notin K
        /\ Dead(Call("opened", Nothing)).op \notin K
    BY <1>1, <2>2 DEF ChooseOps, Following
  <2> QED  BY <2>2, <2>3, KeptOthers
<1>6. CASE \E m \in Meals : SelectMeal(m)
  <2>1. PICK m \in Meals : SelectMeal(m)
    BY <1>6
  <2>2. PICK n \in Ids :
           /\ InFlight' = {i \in InFlight : calls[i].op # "slot"} \cup {n}
           /\ n \notin {i \in InFlight : calls[i].op # "slot"}
           /\ calls'[n] = AskSlot(m)
           /\ \A i \in InFlight : calls[i].op # "slot" => calls'[i] = calls[i]
    BY <2>1, SelectMealShape
  <2>3. \A i \in InFlight : calls[i].op = "slot" => calls[i].op \notin K
    BY DEF ChooseOps
  <2>4. calls'[n].op \notin K
    BY <1>3, <2>2 DEF ChooseOps
  <2> QED  BY <2>2, <2>3, <2>4 DEF Kept, Of
<1>7. CASE SwitchMethod \/ Suggest \/ \E d \in Offered : Accept(d)
  <2>1. \/ UNCHANGED calls
        \/ \E op \in {"random", "search"} : Sent(Call(op, Nothing))
        \/ \E m, d : Sent(EnsureSlot(m, d)) \/ Sent(Wish(m, d))
    BY <1>7, ChooseShapes
  <2>2. \A op \in {"random", "search"} : Call(op, Nothing).op \notin K
    BY <1>1 DEF ChooseOps
  <2>3. \A m, d : EnsureSlot(m, d).op \notin K /\ Wish(m, d).op \notin K
    BY <1>3 DEF ChooseOps
  <2> QED  BY <2>1, <2>2, <2>3, KeptOthers
<1> QED  BY <1>4, <1>5, <1>6, <1>7 DEF ChooseStep, ChooseClicks

\* The steps of the history and the check-in, as far as calls go.
LEMMA HistoryShapes ==
  ASSUME Types
  PROVE  /\ \A c \in InFlight :
              /\ ServeHistory(c) => Became(c, With(calls[c], "ok", Counted))
              /\ FindRow(c) => \E kind \in {"found", "refused"} : \E body :
                                 Became(c, With(calls[c], kind, body))
              /\ StoreRow(c) =>
                   \/ Became(c, With(calls[c], "refused", Nothing)) /\ UNCHANGED checkInVars
                   \/ /\ Became(c, With(calls[c], "ok", row + 1)) /\ row' = row + 1
                      /\ UNCHANGED <<today, historyVars, checkVars>>
              /\ HistoryLoaded(c) \/ HistoryFails(c) \/ CheckinFails(c) => Removed(c)
              /\ CheckinSaved(c) => Became(c, Call("history", Nothing))
         /\ SubmitNothing => UNCHANGED calls
         /\ SubmitCheckin => Sent(Call("checkin", Nothing))
<1>1. ASSUME NEW c \in InFlight, NEW kind, NEW body, Answer(c, kind, body)
      PROVE  Became(c, With(calls[c], kind, body))
  BY <1>1, CallTypes, AnswerBecomes
<1>2. ASSUME NEW c \in InFlight, ServeHistory(c)
      PROVE  Became(c, With(calls[c], "ok", Counted))
  BY <1>1, <1>2 DEF ServeHistory
<1>3. ASSUME NEW c \in InFlight, FindRow(c)
      PROVE  \E kind \in {"found", "refused"} : \E body : Became(c, With(calls[c], kind, body))
  BY <1>1, <1>3 DEF FindRow
<1>4. ASSUME NEW c \in InFlight, StoreRow(c)
      PROVE  \/ Became(c, With(calls[c], "refused", Nothing)) /\ UNCHANGED checkInVars
             \/ /\ Became(c, With(calls[c], "ok", row + 1)) /\ row' = row + 1
                /\ UNCHANGED <<today, historyVars, checkVars>>
  BY <1>1, <1>4 DEF StoreRow
<1>5. ASSUME NEW c \in InFlight, HistoryLoaded(c) \/ HistoryFails(c) \/ CheckinFails(c)
      PROVE  Removed(c)
  <2>1. calls' = Without(calls, {c})
    BY <1>5 DEF HistoryLoaded, HistoryFails, CheckinFails, End, Throws
  <2> QED  BY <2>1, EndRemoves
<1>6. ASSUME NEW c \in InFlight, CheckinSaved(c)
      PROVE  Became(c, Call("history", Nothing))
  <2>1. PICK j : j = Call("history", Nothing)
    OBVIOUS
  <2>2. calls' = [calls EXCEPT ![c] = j]
    BY <1>6, <2>1 DEF CheckinSaved, Next1
  <2> QED  BY <2>1, <2>2, NextBecomes
<1>7. SubmitNothing => UNCHANGED calls
  BY DEF SubmitNothing, browser
<1>8. SubmitCheckin => Sent(Call("checkin", Nothing))
  BY SendSends DEF SubmitCheckin
<1> QED  BY <1>2, <1>3, <1>4, <1>5, <1>6, <1>7, <1>8

\* They are about their own calls.
LEMMA HistoryKeeps ==
  ASSUME Types, HistoryStep, NEW K, K \cap HistoryOps = {}
  PROVE  Kept(K)
<1>1. \A op, arg : Call(op, arg).op = op
  BY DEF Call
<1>2. \A j, kind, body : With(j, kind, body).op = j.op
  BY DEF With
<1>3. CASE \E c \in InFlight : CheckInServer(c)
  <2>1. PICK c \in InFlight : CheckInServer(c)
    BY <1>3
  <2>2. calls[c].op \in HistoryOps /\ \E kind, body : Became(c, With(calls[c], kind, body))
    BY <2>1, HistoryShapes
      DEF CheckInServer, ServeHistory, FindRow, StoreRow, Arrived, HistoryOps
  <2> QED  BY <1>2, <2>2, KeptOthers
<1>4. CASE \E c \in InFlight : CheckInHandlers(c)
  <2>1. PICK c \in InFlight : CheckInHandlers(c)
    BY <1>4
  <2>2. calls[c].op \in HistoryOps /\ (Removed(c) \/ Became(c, Call("history", Nothing)))
    BY <2>1, HistoryShapes
      DEF CheckInHandlers, HistoryLoaded, HistoryFails, CheckinSaved, CheckinFails, Good,
          Throws, HistoryOps
  <2>3. Call("history", Nothing).op \notin K /\ calls[c].op \notin K
    BY <1>1, <2>2 DEF HistoryOps
  <2> QED  BY <2>2, <2>3, KeptOthers
<1>5. CASE SubmitNothing \/ SubmitCheckin
  <2>1. UNCHANGED calls \/ Sent(Call("checkin", Nothing))
    BY <1>5, HistoryShapes
  <2>2. Call("checkin", Nothing).op \notin K
    BY <1>1 DEF HistoryOps
  <2> QED  BY <2>1, <2>2, KeptOthers
<1> QED  BY <1>3, <1>4, <1>5 DEF HistoryStep

\* The steps of the page of the dishes, as far as calls go.
LEMMA DishShapes ==
  ASSUME Types
  PROVE  /\ \A c \in InFlight :
              /\ ServeDishes(c) => Became(c, With(calls[c], "ok", Listing(calls[c].arg.filter)))
              /\ ServeCreateDish(c) => Became(c, With(calls[c], "ok", Nothing))
              /\ ServeUpdateDish(c) =>
                   \/ /\ stored[calls[c].arg.dish].archived
                      /\ Became(c, With(calls[c], "refused", Nothing)) /\ UNCHANGED dishVars
                   \/ /\ ~ stored[calls[c].arg.dish].archived
                      /\ Became(c, With(calls[c], "ok", Nothing))
                      /\ Stores([stored EXCEPT ![calls[c].arg.dish] = Written(c)])
              /\ ServeArchiveDish(c) => Became(c, With(calls[c], "ok", Nothing))
              /\ ServeUpload(c) => Became(c, With(calls[c], "ok", Len(madeFor) + 1))
              /\ Listed(c) \/ ListFails(c) \/ ArchiveFails(c) \/ SaveFails(c) \/ Uploaded(c)
                   \/ UploadFails(c) => Removed(c)
              /\ Archived(c) => Became(c, ReloadOf(c, FALSE))
              /\ Updated(c) => Became(c, ReloadOf(c, calls[c].arg.form))
         /\ OpenCreate \/ (\E d : OpenEdit(d)) \/ (\E t : Fill(t)) \/ SaveIncomplete
              \/ ClearImage => UNCHANGED calls
         /\ Save => Sent(Call(IF editing = NoDish THEN "create_dish" ELSE "update_dish",
                              [dish |-> editing, text |-> form.text, picture |-> form.picture,
                               filter |-> filter, form |-> TRUE]))
         /\ PickFile => Sent(Call("upload", [subject |-> subject, picture |-> form.picture]))
         /\ \A d : Archive(d) => Sent(Call("archive_dish", [dish |-> d, filter |-> filter]))
<1>1. ASSUME NEW c \in InFlight, NEW kind, NEW body, Answer(c, kind, body)
      PROVE  Became(c, With(calls[c], kind, body))
  BY <1>1, CallTypes, AnswerBecomes
<1>2. ASSUME NEW c \in InFlight
      PROVE  /\ ServeDishes(c) => Became(c, With(calls[c], "ok", Listing(calls[c].arg.filter)))
             /\ ServeCreateDish(c) => Became(c, With(calls[c], "ok", Nothing))
             /\ ServeArchiveDish(c) => Became(c, With(calls[c], "ok", Nothing))
             /\ ServeUpload(c) => Became(c, With(calls[c], "ok", Len(madeFor) + 1))
  BY <1>1 DEF ServeDishes, ServeCreateDish, ServeArchiveDish, ServeUpload
<1>3. ASSUME NEW c \in InFlight, ServeUpdateDish(c)
      PROVE  \/ /\ stored[calls[c].arg.dish].archived
                /\ Became(c, With(calls[c], "refused", Nothing)) /\ UNCHANGED dishVars
             \/ /\ ~ stored[calls[c].arg.dish].archived
                /\ Became(c, With(calls[c], "ok", Nothing))
                /\ Stores([stored EXCEPT ![calls[c].arg.dish] = Written(c)])
  BY <1>1, <1>3 DEF ServeUpdateDish
<1>4. ASSUME NEW c \in InFlight,
             Listed(c) \/ ListFails(c) \/ ArchiveFails(c) \/ SaveFails(c) \/ Uploaded(c)
             \/ UploadFails(c)
      PROVE  Removed(c)
  <2>1. calls' = Without(calls, {c})
    BY <1>4 DEF Listed, ListFails, ArchiveFails, SaveFails, Uploaded, UploadFails, End, Throws
  <2> QED  BY <2>1, EndRemoves
<1>5. ASSUME NEW c \in InFlight, NEW f, calls' = [calls EXCEPT ![c] = ReloadOf(c, f)]
      PROVE  Became(c, ReloadOf(c, f))
  <2>1. PICK j : j = ReloadOf(c, f)
    OBVIOUS
  <2> QED  BY <1>5, <2>1, NextBecomes
<1>6. \A c \in InFlight : /\ Archived(c) => Became(c, ReloadOf(c, FALSE))
                          /\ Updated(c) => Became(c, ReloadOf(c, calls[c].arg.form))
  BY <1>5 DEF Archived, Updated
<1>7. OpenCreate \/ (\E d : OpenEdit(d)) \/ (\E t : Fill(t)) \/ SaveIncomplete
        \/ ClearImage => UNCHANGED calls
  BY DEF OpenCreate, OpenEdit, Opens, Fill, SaveIncomplete, ClearImage, browser
<1>8. Save => Sent(Call(IF editing = NoDish THEN "create_dish" ELSE "update_dish",
                        [dish |-> editing, text |-> form.text, picture |-> form.picture,
                         filter |-> filter, form |-> TRUE]))
  <2>1. PICK op : op = IF editing = NoDish THEN "create_dish" ELSE "update_dish"
    OBVIOUS
  <2>2. PICK a : a = [dish |-> editing, text |-> form.text, picture |-> form.picture,
                      filter |-> filter, form |-> TRUE]
    OBVIOUS
  <2>3. Save => Send(op, a)
    BY <2>1, <2>2 DEF Save
  <2> QED  BY <2>1, <2>2, <2>3, SendSends
<1>9. PickFile => Sent(Call("upload", [subject |-> subject, picture |-> form.picture]))
  <2>1. PICK a : a = [subject |-> subject, picture |-> form.picture]
    OBVIOUS
  <2>2. PickFile => Send("upload", a)
    BY <2>1 DEF PickFile
  <2> QED  BY <2>1, <2>2, SendSends
<1>10. \A d : Archive(d) => Sent(Call("archive_dish", [dish |-> d, filter |-> filter]))
  <2> TAKE d
  <2>1. PICK a : a = [dish |-> d, filter |-> filter]
    OBVIOUS
  <2>2. Archive(d) => Send("archive_dish", a)
    BY <2>1 DEF Archive
  <2> QED  BY <2>1, <2>2, SendSends
<1> QED  BY <1>2, <1>3, <1>4, <1>6, <1>7, <1>8, <1>9, <1>10

\* What choosing a filter leaves, and the call that it adds.
LEMMA SetFilterShape ==
  ASSUME Types, NEW f, SetFilter(f)
  PROVE  LET Load(i) == calls[i].op = "dishes" /\ calls[i].arg.effect
         IN  \E n \in Ids :
               /\ InFlight' = {i \in InFlight : ~ Load(i)} \cup {n}
               /\ n \notin {i \in InFlight : ~ Load(i)}
               /\ calls'[n] = Call("dishes", [filter |-> f, effect |-> TRUE, form |-> FALSE])
               /\ \A i \in InFlight : ~ Load(i) => calls'[i] = calls[i]
<1> DEFINE Load(i) == calls[i].op = "dishes" /\ calls[i].arg.effect
           S == {c \in InFlight : Load(c)}
<1>1. PICK g : g = Abandoning(S)
  OBVIOUS
<1>2. PICK j : j = Call("dishes", [filter |-> f, effect |-> TRUE, form |-> FALSE])
  OBVIOUS
<1>3. Room(g) /\ calls' = Adding(g, j)
  BY <1>1, <1>2 DEF SetFilter, Click
<1>4. \A i \in InFlight : Shaped(calls[i])
  BY CallTypes
<1>5. \A i \in S : i \in InFlight /\ calls[i].op \in Reads
  BY DEF Reads
<1>6. \A i \in InFlight : i \in S <=> Load(i)
  OBVIOUS
<1> HIDE DEF S
<1>7. DOMAIN g = {i \in InFlight : i \in S => calls[i].op \notin Reads}
      /\ \A i \in DOMAIN g : g[i] = IF i \in S THEN Dead(calls[i]) ELSE calls[i]
  BY <1>1, <1>4, AbandoningLeaves
<1>8. DOMAIN g = {i \in InFlight : ~ Load(i)} /\ \A i \in DOMAIN g : g[i] = calls[i]
  BY <1>5, <1>6, <1>7
<1>9. /\ Free(g) \in Ids \ DOMAIN g
      /\ DOMAIN Adding(g, j) = DOMAIN g \cup {Free(g)}
      /\ Adding(g, j)[Free(g)] = j
      /\ \A i \in DOMAIN g : Adding(g, j)[i] = g[i]
  BY <1>3, AddingTo
<1> QED  BY <1>2, <1>3, <1>8, <1>9 DEF InFlight

\* What is left when the form is gone: an upload that nobody awaits, the page's
\* handlers with no form to free, and all others as they were.
FormLeft(i) ==
  /\ calls'[i].op = calls[i].op /\ calls'[i].answer = calls[i].answer
  /\ calls'[i].body = calls[i].body
  /\ IF calls[i].op = "upload" THEN calls'[i].live = FALSE /\ calls'[i].arg = calls[i].arg
     ELSE calls'[i].live = calls[i].live
  /\ calls[i].op = "dishes" =>
       calls'[i].arg = [filter |-> calls[i].arg.filter, effect |-> calls[i].arg.effect,
                        form |-> FALSE]
  /\ calls[i].op \in {"create_dish", "update_dish"} =>
       calls'[i].arg = [dish |-> calls[i].arg.dish, text |-> calls[i].arg.text,
                        picture |-> calls[i].arg.picture, filter |-> calls[i].arg.filter,
                        form |-> FALSE]
  /\ calls[i].op \notin {"upload", "dishes", "create_dish", "update_dish"} =>
       calls'[i] = calls[i]

\* What closing the sheet does to the calls, and the end of a dish's creation.
LEMMA FormGoneShapes ==
  ASSUME Types
  PROVE  /\ Close => InFlight' = InFlight /\ \A i \in InFlight : FormLeft(i)
         /\ \A c \in InFlight : Created(c) =>
              /\ InFlight' = InFlight /\ calls'[c] = ReloadOf(c, FALSE)
              /\ \A i \in InFlight \ {c} : FormLeft(i)
<1>1. AllTyped(calls, Known)
  BY DEF Types
<1>2. ASSUME NEW i \in InFlight, calls'[i] = FormGone[i]
      PROVE  FormLeft(i)
  <2>1. CASE calls[i].op = "upload"
    <3>1. calls'[i] = Dead(calls[i])
      BY <1>1, <1>2, <2>1, FormGoneLeaves
    <3> QED  BY <2>1, <3>1 DEF FormLeft, Dead
  <2>2. CASE calls[i].op \in {"create_dish", "update_dish"}
    <3>1. PICK a : a = [dish |-> calls[i].arg.dish, text |-> calls[i].arg.text,
                        picture |-> calls[i].arg.picture, filter |-> calls[i].arg.filter,
                        form |-> FALSE]
      OBVIOUS
    <3>2. calls'[i] = Meaning(calls[i], a)
      BY <1>1, <1>2, <2>2, <3>1, FormGoneLeaves
    <3>3. calls'[i].arg = a
      BY <3>2 DEF Meaning
    <3> QED  BY <2>2, <3>1, <3>2, <3>3 DEF FormLeft, Meaning
  <2>3. CASE calls[i].op = "dishes"
    <3>1. PICK a : a = [filter |-> calls[i].arg.filter, effect |-> calls[i].arg.effect,
                        form |-> FALSE]
      OBVIOUS
    <3>2. calls'[i] = Meaning(calls[i], a)
      BY <1>1, <1>2, <2>3, <3>1, FormGoneLeaves
    <3>3. calls'[i].arg = a
      BY <3>2 DEF Meaning
    <3> QED  BY <2>3, <3>1, <3>2, <3>3 DEF FormLeft, Meaning
  <2>4. CASE calls[i].op \notin {"upload", "create_dish", "update_dish", "dishes"}
    <3>1. calls'[i] = calls[i]
      BY <1>1, <1>2, <2>4, FormGoneLeaves
    <3> QED  BY <2>4, <3>1 DEF FormLeft
  <2> QED  BY <2>1, <2>2, <2>3, <2>4
<1>3. DOMAIN FormGone = InFlight
  BY <1>1, FormGoneLeaves
<1>4. ASSUME Close
      PROVE  InFlight' = InFlight /\ \A i \in InFlight : FormLeft(i)
  <2>1. calls' = FormGone
    BY <1>4 DEF Close
  <2> QED  BY <1>2, <1>3, <2>1 DEF InFlight
<1>5. ASSUME NEW c \in InFlight, Created(c)
      PROVE  /\ InFlight' = InFlight /\ calls'[c] = ReloadOf(c, FALSE)
             /\ \A i \in InFlight \ {c} : FormLeft(i)
  <2>1. PICK j : j = ReloadOf(c, FALSE)
    OBVIOUS
  <2>2. PICK g : g = FormGone
    OBVIOUS
  <2>3. calls' = [g EXCEPT ![c] = j]
    BY <1>5, <2>1, <2>2 DEF Created
  <2>4. DOMAIN calls' = InFlight /\ calls'[c] = j /\ \A i \in InFlight \ {c} : calls'[i] = g[i]
    BY <1>3, <2>2, <2>3
  <2>5. InFlight' = InFlight
    BY <2>4 DEF InFlight
  <2> QED  BY <1>2, <2>1, <2>2, <2>4, <2>5
<1> QED  BY <1>4, <1>5

\* The steps of that page are about its calls.
LEMMA DishKeeps ==
  ASSUME Types, DishStep, NEW K, K \cap DishOps = {}
  PROVE  Kept(K)
<1>1. \A op, arg : Call(op, arg).op = op
  BY DEF Call
<1>2. \A j, kind, body : With(j, kind, body).op = j.op
  BY DEF With
<1>3. \A c, f : ReloadOf(c, f).op = "dishes"
  BY <1>1 DEF ReloadOf
<1>4. CASE \E c \in InFlight : DishServer(c)
  <2>1. PICK c \in InFlight : DishServer(c)
    BY <1>4
  <2>2. calls[c].op \in DishOps /\ \E kind, body : Became(c, With(calls[c], kind, body))
    BY <2>1, DishShapes
      DEF DishServer, ServeDishes, ServeCreateDish, ServeUpdateDish, ServeArchiveDish,
          ServeUpload, Arrived, DishOps
  <2> QED  BY <1>2, <2>2, KeptOthers
<1>5. ASSUME NEW c \in InFlight, DishHandlers(c)
      PROVE  Kept(K)
  <2>1. calls[c].op \in DishOps
    BY <1>5 DEF DishHandlers, Listed, ListFails, Archived, ArchiveFails, Created, Updated,
                SaveFails, Uploaded, UploadFails, Good, Throws, DishOps
  <2>2. CASE Created(c)
    <3>1. /\ InFlight' = InFlight /\ calls'[c] = ReloadOf(c, FALSE)
          /\ \A i \in InFlight \ {c} : FormLeft(i)
      BY <2>2, FormGoneShapes
    <3>2. calls'[c].op \notin K
      BY <1>3, <3>1 DEF DishOps
    <3>3. \A i \in InFlight \ {c} : /\ calls'[i].op = calls[i].op
                                    /\ calls[i].op \in K => calls'[i] = calls[i]
      BY <3>1 DEF FormLeft, DishOps
    <3> QED  BY <2>1, <3>1, <3>2, <3>3 DEF Kept, Of
  <2>3. CASE ~ Created(c)
    <3>1. Removed(c) \/ \E f : Became(c, ReloadOf(c, f))
      BY <1>5, <2>3, DishShapes DEF DishHandlers
    <3>2. calls[c].op \notin K /\ \A f : ReloadOf(c, f).op \notin K
      BY <1>3, <2>1 DEF DishOps
    <3> QED  BY <3>1, <3>2, KeptOthers
  <2> QED  BY <2>2, <2>3
<1>6. ASSUME NEW f, SetFilter(f) PROVE Kept(K)
  <2> DEFINE Load(i) == calls[i].op = "dishes" /\ calls[i].arg.effect
  <2>1. PICK n \in Ids :
               /\ InFlight' = {i \in InFlight : ~ Load(i)} \cup {n}
               /\ n \notin {i \in InFlight : ~ Load(i)}
               /\ calls'[n] = Call("dishes", [filter |-> f, effect |-> TRUE, form |-> FALSE])
               /\ \A i \in InFlight : ~ Load(i) => calls'[i] = calls[i]
    BY <1>6, SetFilterShape
  <2>2. calls'[n].op \notin K /\ \A i \in InFlight : Load(i) => calls[i].op \notin K
    BY <1>1, <2>1 DEF DishOps
  <2> QED  BY <2>1, <2>2 DEF Kept, Of
<1>7. ASSUME Close PROVE Kept(K)
  <2>1. InFlight' = InFlight /\ \A i \in InFlight : FormLeft(i)
    BY <1>7, FormGoneShapes
  <2>2. \A i \in InFlight : /\ calls'[i].op = calls[i].op
                            /\ calls[i].op \in K => calls'[i] = calls[i]
    BY <2>1 DEF FormLeft, DishOps
  <2> QED  BY <2>1, <2>2 DEF Kept, Of
<1>8. CASE DishClicks \/ \E d \in Cards : Archive(d)
  <2>1. \/ \E f : SetFilter(f)
        \/ Close
        \/ UNCHANGED calls
        \/ \E op \in DishOps : \E arg : Sent(Call(op, arg))
    BY <1>8, DishShapes DEF DishClicks, DishOps
  <2>2. \A op \in DishOps : \A arg : Call(op, arg).op \notin K
    BY <1>1
  <2> QED  BY <1>6, <1>7, <2>1, <2>2, KeptOthers
<1> QED  BY <1>4, <1>5, <1>8 DEF DishStep

\* The call of page t as it appears.
Asked(t, j) ==
  /\ j.live = TRUE /\ j.answer = "none"
  /\ \/ t = "dishes" /\ j.op = "dishes" /\ j.arg = [filter |-> All, effect |-> TRUE, form |-> FALSE]
     \/ t = "choose" /\ j.op = "slot" /\ j.arg = [meal |-> mealType']
     \/ t = "family" /\ j.op = "history"

\* With page t that call is there, and no other is changed.
LEMMA AppearsShape ==
  ASSUME NEW t, NEW f, Appears(t, f)
  PROVE  \/ t \notin {"dishes", "choose", "family"} /\ calls' = f
         \/ \E n \in Ids \ DOMAIN f :
              /\ InFlight' = DOMAIN f \cup {n} /\ Asked(t, calls'[n])
              /\ \A i \in DOMAIN f : calls'[i] = f[i]
<1>1. ASSUME NEW j, Asked(t, j), Room(f), calls' = Adding(f, j)
      PROVE  \E n \in Ids \ DOMAIN f :
              /\ InFlight' = DOMAIN f \cup {n} /\ Asked(t, calls'[n])
              /\ \A i \in DOMAIN f : calls'[i] = f[i]
  <2>1. /\ Free(f) \in Ids \ DOMAIN f
        /\ DOMAIN Adding(f, j) = DOMAIN f \cup {Free(f)}
        /\ Adding(f, j)[Free(f)] = j
        /\ \A i \in DOMAIN f : Adding(f, j)[i] = f[i]
    BY <1>1, AddingTo
  <2> QED  BY <1>1, <2>1 DEF InFlight
<1>2. CASE t = "dishes"
  <2>1. PICK a : a = [filter |-> All, effect |-> TRUE, form |-> FALSE]
    OBVIOUS
  <2>2. PICK j : j = Call("dishes", a)
    OBVIOUS
  <2>3. Asked(t, j)
    BY <1>2, <2>1, <2>2 DEF Asked, Call
  <2>4. Room(f) /\ calls' = Adding(f, j)
    BY <1>2, <2>1, <2>2 DEF Appears
  <2> QED  BY <1>1, <2>3, <2>4
<1>3. CASE t = "choose"
  <2>1. PICK a : a = [meal |-> mealType']
    OBVIOUS
  <2>2. PICK j : j = Call("slot", a)
    OBVIOUS
  <2>3. Asked(t, j)
    BY <1>3, <2>1, <2>2 DEF Asked, Call
  <2>4. Room(f) /\ calls' = Adding(f, j)
    BY <1>3, <2>1, <2>2 DEF Appears, AskSlot
  <2> QED  BY <1>1, <2>3, <2>4
<1>4. CASE t = "family"
  <2>1. PICK j : j = Call("history", Nothing)
    OBVIOUS
  <2>2. Asked(t, j)
    BY <1>4, <2>1 DEF Asked, Call
  <2>3. Room(f) /\ calls' = Adding(f, j)
    BY <1>4, <2>1 DEF Appears
  <2> QED  BY <1>1, <2>2, <2>3
<1>5. CASE t \notin {"dishes", "choose", "family"}
  BY <1>5 DEF Appears
<1> QED  BY <1>2, <1>3, <1>4, <1>5

Loading == {"dishes", "choose", "family"}

\* Who goes to another page leaves the calls that are no reads to nobody.
LEMMA NavigateShape ==
  ASSUME Types, NEW t, Navigate(t)
  PROVE  /\ \A i \in InFlight : calls[i].op \notin Reads =>
              i \in InFlight' /\ calls'[i] = Dead(calls[i])
         /\ \A i \in InFlight' :
              \/ i \in InFlight /\ calls[i].op \notin Reads /\ calls'[i] = Dead(calls[i])
              \/ Asked(t, calls'[i])
         /\ \A i, k \in InFlight' : Asked(t, calls'[i]) /\ Asked(t, calls'[k]) => i = k
         /\ t \in Loading => \E i \in InFlight' : Asked(t, calls'[i])
<1>1. PICK S : S = InFlight
  OBVIOUS
<1>2. PICK f : f = Abandoning(S)
  OBVIOUS
<1>3. Appears(t, f)
  BY <1>2, <1>1 DEF Navigate
<1>4. \A i \in InFlight : Shaped(calls[i])
  BY CallTypes
<1>5. DOMAIN f = {i \in InFlight : i \in S => calls[i].op \notin Reads}
      /\ \A i \in DOMAIN f : f[i] = IF i \in S THEN Dead(calls[i]) ELSE calls[i]
  BY <1>2, <1>4, AbandoningLeaves
<1>6. DOMAIN f = {i \in InFlight : calls[i].op \notin Reads}
      /\ \A i \in DOMAIN f : f[i] = Dead(calls[i])
  BY <1>1, <1>5
<1>7. \A j : ~ Asked(t, Dead(j))
  BY DEF Asked, Dead
<1>8. \/ t \notin Loading /\ calls' = f
      \/ \E n \in Ids \ DOMAIN f :
              /\ InFlight' = DOMAIN f \cup {n} /\ Asked(t, calls'[n])
              /\ \A i \in DOMAIN f : calls'[i] = f[i]
  BY <1>3, AppearsShape DEF Loading
<1>9. CASE t \notin Loading /\ calls' = f
  BY <1>6, <1>7, <1>9 DEF InFlight
<1>10. CASE \E n \in Ids \ DOMAIN f :
              /\ InFlight' = DOMAIN f \cup {n} /\ Asked(t, calls'[n])
              /\ \A i \in DOMAIN f : calls'[i] = f[i]
  <2>1. PICK n \in Ids \ DOMAIN f :
              /\ InFlight' = DOMAIN f \cup {n} /\ Asked(t, calls'[n])
              /\ \A i \in DOMAIN f : calls'[i] = f[i]
    BY <1>10
  <2>2. \A i \in DOMAIN f : calls'[i] = Dead(calls[i]) /\ ~ Asked(t, calls'[i])
    BY <1>6, <1>7, <2>1
  <2> QED  BY <1>6, <2>1, <2>2
<1> QED  BY <1>8, <1>9, <1>10

\* When the session is there, its call is gone, and the page's has come.
LEMMA EnterShape ==
  ASSUME NEW c \in InFlight, Enter(c)
  PROVE  /\ \A i \in InFlight \ {c} : i \in InFlight' /\ calls'[i] = calls[i]
         /\ \A i \in InFlight' :
              \/ i \in InFlight \ {c} /\ calls'[i] = calls[i]
              \/ Asked(tab, calls'[i])
         /\ tab \in Loading =>
              \E n \in InFlight' : /\ Asked(tab, calls'[n])
                                   /\ \A i \in InFlight' \ {n} : i \in InFlight \ {c}
         /\ tab \notin Loading => InFlight' = InFlight \ {c}
         /\ calls[c].op = "session"
<1>1. PICK f : f = Without(calls, {c})
  OBVIOUS
<1>2. Appears(tab, f) /\ calls[c].op = "session"
  BY <1>1 DEF Enter, SessionLoaded, Good
<1>3. DOMAIN f = InFlight \ {c} /\ \A i \in DOMAIN f : f[i] = calls[i]
  BY <1>1 DEF Without, InFlight
<1>4. \/ tab \notin Loading /\ calls' = f
      \/ \E n \in Ids \ DOMAIN f :
              /\ InFlight' = DOMAIN f \cup {n} /\ Asked(tab, calls'[n])
              /\ \A i \in DOMAIN f : calls'[i] = f[i]
  BY <1>2, AppearsShape DEF Loading
<1>5. CASE tab \notin Loading /\ calls' = f
  BY <1>2, <1>3, <1>5 DEF InFlight
<1>6. CASE \E n \in Ids \ DOMAIN f :
              /\ InFlight' = DOMAIN f \cup {n} /\ Asked(tab, calls'[n])
              /\ \A i \in DOMAIN f : calls'[i] = f[i]
  <2>1. tab \in Loading
    BY <1>6 DEF Asked, Loading
  <2> QED  BY <1>2, <1>3, <1>6, <2>1
<1> QED  BY <1>4, <1>5, <1>6

\* When the page is loaded again, the calls that write are left to nobody, but for
\* the rotations and the dishes without a slot, and the session is asked for.
LEMMA RefreshShape ==
  ASSUME Types, Refresh
  PROVE  /\ \A i \in InFlight : calls[i].op \notin Reads \cup {"ensure", "rotate"} =>
              i \in InFlight' /\ calls'[i] = Dead(calls[i])
         /\ \E n \in InFlight' :
              /\ calls'[n].op = "session" /\ calls'[n].live /\ calls'[n].answer = "none"
              /\ \A i \in InFlight' \ {n} :
                   /\ i \in InFlight /\ calls[i].op \notin Reads \cup {"ensure", "rotate"}
                   /\ calls'[i] = Dead(calls[i])
<1> DEFINE kept == {c \in InFlight : calls[c].op \notin Reads \cup {"ensure", "rotate"}}
<1>1. PICK f : f = [c \in kept |-> [calls[c] EXCEPT !.live = FALSE]]
  OBVIOUS
<1>2. PICK j : j = Call("session", Nothing)
  OBVIOUS
<1>3. Room(f) /\ calls' = Adding(f, j)
  BY <1>1, <1>2 DEF Refresh
<1>4. \A c \in kept : f[c] = Dead(calls[c])
  BY <1>1, CallTypes, Killed
<1>5. /\ Free(f) \in Ids \ DOMAIN f
      /\ DOMAIN Adding(f, j) = DOMAIN f \cup {Free(f)}
      /\ Adding(f, j)[Free(f)] = j
      /\ \A i \in DOMAIN f : Adding(f, j)[i] = f[i]
  BY <1>3, AddingTo
<1>6. j.op = "session" /\ j.live /\ j.answer = "none"
  BY <1>2 DEF Call
<1>7. InFlight' = kept \cup {Free(f)} /\ Free(f) \notin kept /\ calls'[Free(f)] = j
      /\ \A i \in kept : calls'[i] = Dead(calls[i])
  BY <1>1, <1>3, <1>4, <1>5 DEF InFlight
<1>8. \A i \in InFlight : calls[i].op \notin Reads \cup {"ensure", "rotate"} =>
              i \in InFlight' /\ calls'[i] = Dead(calls[i])
  BY <1>7
<1> QED  BY <1>6, <1>7, <1>8

\* A call that is forgotten was awaited by nobody.
LEMMA ShellShape ==
  ASSUME ShellStep
  PROVE  \/ UNCHANGED calls
         \/ \E c \in InFlight : ~ calls[c].live /\ calls[c].op # "rotate" /\ Removed(c)
<1>1. ASSUME NEW c \in InFlight, Forgotten(c) PROVE ~ calls[c].live /\ Removed(c)
  BY <1>1, EndRemoves DEF Forgotten, End
<1> QED  BY <1>1 DEF ShellStep, GoOnline

\* What it means that calls are kept.
LEMMA KeptCalls ==
  ASSUME NEW K, Kept(K)
  PROVE  /\ \A i \in InFlight : calls[i].op \in K => i \in InFlight' /\ calls'[i] = calls[i]
         /\ \A i \in InFlight' : calls'[i].op \in K => i \in InFlight /\ calls'[i] = calls[i]
BY DEF Kept, Of

\* The steps in which nothing happens but to the buttons.
Idle == UNCHANGED <<sessionVars, dishVars, chooseVars, checkInVars, calls, online, patient>>

\* What a step is.
LEMMA StepKinds ==
  ASSUME [Next]_vars
  PROVE  \/ SessionStep \/ DishStep \/ ChooseStep \/ HistoryStep \/ ShellStep
         \/ (\E c \in InFlight : Enter(c)) \/ (\E t \in Tabs : Navigate(t)) \/ Refresh
         \/ Event \/ Idle
BY DEF Next, Step, Observe, browser, vars, Idle

\* What an event is: all but one leave the calls, and each a part of the pages.
LEMMA EventKinds ==
  ASSUME Event
  PROVE  /\ UNCHANGED <<calls, patient, dishVars, chooseVars>>
         /\ \/ UNCHANGED <<sessionVars, checkInVars>>
            \/ (RotateElsewhere \/ Expire) /\ UNCHANGED checkInVars
            \/ OtherChecksIn /\ UNCHANGED sessionVars
BY DEF Event, GoOffline, RotateElsewhere, Expire, OtherChecksIn, browser

-----------------------------------------------------------------------------
(* The session.                                                            *)

\* Whoever waits for the session, for one of the forms or for a new code has
\* asked for it, once for the first two, and nobody is logged in unnoticed.
SessionWaits ==
  /\ \A c, d \in InFlight : calls[c].op = "session" /\ calls[d].op = "session" => c = d
  /\ \A c \in InFlight : calls[c].op = "session" =>
       session = Unknown /\ ~ appError /\ (calls[c].answer = "refused" => ~ cookie)
  /\ session = Unknown /\ ~ appError => \E c \in InFlight : calls[c].op = "session"
  /\ appError => session = Unknown
  /\ session = Nobody => ~ cookie
  /\ \A c, d \in InFlight :
       calls[c].op \in {"create", "join"} /\ calls[d].op \in {"create", "join"} => c = d
  /\ \A c \in InFlight : calls[c].op \in {"create", "join"} =>
       calls[c].live /\ session = Nobody /\ submitting
  /\ submitting => \E c \in InFlight : calls[c].op \in {"create", "join"}
  /\ \A c \in InFlight : calls[c].op = "rotate" => session \in Codes

\* The page has the application's code; and unless it changed behind the
\* application's back, that is the code that is valid, or it is on its way.
CodeKnown ==
  /\ session \in Codes => inviteCode = session
  /\ ~ astray =>
       /\ \A c \in InFlight : calls[c].op = "session" /\ calls[c].answer = "ok" =>
            calls[c].body = valid
       /\ \A c, d \in InFlight : calls[c].op = "rotate" /\ calls[d].op = "rotate" => c = d
       /\ \A c \in InFlight : calls[c].op = "rotate" /\ calls[c].answer = "ok" =>
            calls[c].body = valid
       /\ session \in Codes =>
            \/ session = valid
            \/ \E c \in InFlight : calls[c].op = "rotate" /\ calls[c].answer = "ok"

\* The three kinds of session are apart.
LEMMA SessionKinds == Unknown \notin Codes /\ Nobody \notin Codes /\ Unknown # Nobody
BY CodesAssumption DEF Unknown, Nobody, Codes

\* The server's steps for the session keep that.
LEMMA SessionServerWaits ==
  ASSUME Types, SessionWaits, CodeKnown, NEW c \in InFlight, SessionServer(c)
  PROVE  SessionWaits' /\ CodeKnown'
<1>1. /\ session' = session /\ appError' = appError /\ submitting' = submitting
      /\ cookie' = cookie /\ inviteCode' = inviteCode
  BY DEF SessionServer, ServeSession, ServeCreate, ServeJoin, ServeRotate, sessionVars,
         screenVars, onboarding, family
<1>2. ASSUME NEW kind, NEW body, Became(c, With(calls[c], kind, body))
      PROVE  /\ InFlight' = InFlight
             /\ calls'[c].op = calls[c].op /\ calls'[c].live = calls[c].live
             /\ calls'[c].answer = kind /\ calls'[c].body = body
             /\ \A i \in InFlight \ {c} : calls'[i] = calls[i]
             /\ \A i \in InFlight : calls'[i].op = calls[i].op /\ calls'[i].live = calls[i].live
  BY <1>2 DEF Became, With
<1>3. CASE ServeSession(c)
  <2>1. calls[c].op = "session" /\ valid' = valid
    BY <1>3 DEF ServeSession, Arrived
  <2>2. \A i \in InFlight : calls[i].op # "rotate" /\ (calls[i].op = "session" => i = c)
    BY <2>1, SessionKinds DEF SessionWaits
  <2>3. session = Unknown
    BY <2>1 DEF SessionWaits
  <2>4. CASE cookie
    <3>1. Became(c, With(calls[c], "ok", valid))
      BY <1>3, <2>4, SessionShapes
    <3>2. SessionWaits'
      BY <1>1, <1>2, <3>1 DEF SessionWaits
    <3> QED  BY <1>1, <1>2, <2>1, <2>2, <2>3, <3>1, <3>2, SessionKinds DEF CodeKnown
  <2>5. CASE ~ cookie
    <3>1. Became(c, With(calls[c], "refused", Nothing))
      BY <1>3, <2>5, SessionShapes
    <3>2. SessionWaits'
      BY <1>1, <1>2, <2>5, <3>1 DEF SessionWaits
    <3> QED  BY <1>1, <1>2, <2>1, <2>2, <2>3, <3>1, <3>2, SessionKinds DEF CodeKnown
  <2> QED  BY <2>4, <2>5
<1>4. CASE ServeCreate(c) \/ ServeJoin(c)
  <2>1. calls[c].op \in {"create", "join"} /\ valid' = valid /\ astray' = astray
    BY <1>4 DEF ServeCreate, ServeJoin, Arrived, sessionVars
  <2>2. PICK kind, body : Became(c, With(calls[c], kind, body))
    BY <1>4, SessionShapes
  <2>3. SessionWaits'
    BY <1>1, <1>2, <2>1, <2>2 DEF SessionWaits
  <2>4. CodeKnown'
    BY <1>1, <1>2, <2>1, <2>2 DEF CodeKnown
  <2> QED  BY <2>3, <2>4
<1>5. CASE ServeRotate(c)
  <2>1. calls[c].op = "rotate" /\ valid' = handed + 1 /\ astray' = astray
    BY <1>5 DEF ServeRotate, Arrived
  <2>2. Became(c, With(calls[c], "ok", handed + 1))
    BY <1>5, SessionShapes
  <2>3. \A i \in InFlight : calls[i].op # "session"
    BY <2>1, SessionKinds DEF SessionWaits
  <2>4. SessionWaits'
    BY <1>1, <1>2, <2>1, <2>2 DEF SessionWaits
  <2>5. CodeKnown'
    BY <1>1, <1>2, <2>1, <2>2, <2>3 DEF CodeKnown
  <2> QED  BY <2>4, <2>5
<1> QED  BY <1>3, <1>4, <1>5 DEF SessionServer

\* So do the handlers...
LEMMA SessionHandlerWaits ==
  ASSUME Types, SessionWaits, CodeKnown, NEW c \in InFlight, SessionHandlers(c)
  PROVE  SessionWaits' /\ CodeKnown'
<1>0. /\ calls[c].answer = "ok" /\ calls[c].op \in SessionOps => calls[c].body \in Codes
      /\ calls[c].op = "session" => calls[c].live
  BY CallTypes DEF Typed, SessionCall, Shaped, Reads
<1>1. ASSUME Removed(c)
      PROVE  /\ InFlight' = InFlight \ {c}
             /\ \A i \in InFlight' : calls'[i] = calls[i]
  BY <1>1 DEF Removed
<1>2. CASE SessionRefused(c)
  <2>1. Removed(c) /\ calls[c].op = "session" /\ calls[c].answer = "refused"
        /\ session' = Nobody /\ UNCHANGED <<appError, onboarding, family, account>>
    BY <1>2, SessionShapes DEF SessionRefused
  <2> QED  BY <1>1, <2>1, SessionKinds
      DEF onboarding, family, account, SessionWaits, CodeKnown
<1>3. CASE SessionFails(c)
  <2>1. Removed(c) /\ calls[c].op = "session" /\ appError' = TRUE
        /\ UNCHANGED <<session, onboarding, family, account>>
    BY <1>3, SessionShapes DEF SessionFails, Throws
  <2> QED  BY <1>1, <2>1, SessionKinds
      DEF onboarding, family, account, SessionWaits, CodeKnown
<1>4. CASE Authenticated(c)
  <2>1. /\ calls[c].op \in {"create", "join"}
        /\ session' = Unknown /\ submitting' = FALSE
        /\ UNCHANGED <<appError, family, astray>>
    BY <1>4 DEF Authenticated, Good
  <2>2. InFlight' = InFlight /\ calls'[c].op = "session" /\ calls'[c].answer = "none"
        /\ \A i \in InFlight \ {c} : calls'[i] = calls[i]
    BY <1>4, SessionShapes DEF Became, Call
  <2>3. \A i \in InFlight \ {c} : calls[i].op \notin {"session", "create", "join", "rotate"}
    BY <2>1, SessionKinds DEF SessionWaits
  <2>4. ~ appError
    BY <2>1, SessionKinds DEF SessionWaits
  <2> QED  BY <2>1, <2>2, <2>3, <2>4, SessionKinds DEF SessionWaits, CodeKnown
<1>5. CASE AuthenticationFails(c)
  <2>1. /\ Removed(c) /\ calls[c].op \in {"create", "join"} /\ submitting' = FALSE
        /\ UNCHANGED <<session, appError, family, account>>
    BY <1>5, SessionShapes DEF AuthenticationFails, Throws, screenVars
  <2> QED  BY <1>1, <2>1, SessionKinds DEF family, account, SessionWaits, CodeKnown
<1>6. CASE Rotated(c)
  <2>1. /\ Removed(c) /\ calls[c].op = "rotate" /\ calls[c].answer = "ok"
        /\ inviteCode' = calls[c].body /\ session' = calls[c].body
        /\ UNCHANGED <<appError, submitting, account>>
    BY <1>6, SessionShapes DEF Rotated, onboarding
  <2>2. calls[c].body \in Codes
    BY <1>0, <2>1 DEF SessionOps
  <2>3. SessionWaits'
    BY <1>1, <2>1, <2>2, SessionKinds DEF account, SessionWaits
  <2> QED  BY <1>1, <2>1, <2>2, <2>3, SessionKinds DEF account, SessionWaits, CodeKnown
<1>7. CASE RotateFails(c)
  <2>1. /\ Removed(c) /\ calls[c].op = "rotate"
        /\ astray' = (astray \/ calls[c].answer = "ok")
        /\ UNCHANGED <<session, appError, submitting, inviteCode, cookie, valid>>
    BY <1>7, SessionShapes DEF RotateFails, screenVars, onboarding
  <2>2. SessionWaits'
    BY <1>1, <2>1, SessionKinds DEF SessionWaits
  <2> QED  BY <1>1, <2>1, <2>2, SessionKinds DEF SessionWaits, CodeKnown
<1> QED  BY <1>2, <1>3, <1>4, <1>5, <1>6, <1>7 DEF SessionHandlers

\* ...and the clicks.
LEMMA SessionClickWaits ==
  ASSUME Types, SessionWaits, CodeKnown, SessionClicks \/ Rotate
  PROVE  SessionWaits' /\ CodeKnown'
<1>1. ASSUME NEW op, Sent(Call(op, Nothing))
      PROVE  \E n \in Ids \ InFlight :
               /\ InFlight' = InFlight \cup {n}
               /\ calls'[n].op = op /\ calls'[n].live /\ calls'[n].answer = "none"
               /\ \A i \in InFlight : calls'[i] = calls[i]
  BY <1>1 DEF Sent, Call
<1>2. CASE Retry
  <2>1. PICK n \in Ids \ InFlight :
               /\ InFlight' = InFlight \cup {n}
               /\ calls'[n].op = "session" /\ calls'[n].live /\ calls'[n].answer = "none"
               /\ \A i \in InFlight : calls'[i] = calls[i]
    BY <1>1, <1>2, SessionShapes
  <2>2. appError /\ appError' = FALSE /\ session' = Unknown
        /\ UNCHANGED <<onboarding, family, account>>
    BY <1>2 DEF Retry, Screen, Types, SessionTypeOK, Tabs
  <2> QED  BY <2>1, <2>2, SessionKinds
      DEF onboarding, family, account, SessionWaits, CodeKnown
<1>3. CASE SwitchMode
  <2>1. UNCHANGED calls /\ UNCHANGED <<session, appError, submitting, family, account>>
    BY <1>3, SessionShapes DEF SwitchMode, screenVars
  <2> QED  BY <2>1 DEF family, account, InFlight, SessionWaits, CodeKnown
<1>4. CASE Submit
  <2>1. PICK n \in Ids \ InFlight :
               /\ InFlight' = InFlight \cup {n}
               /\ calls'[n].op = mode /\ calls'[n].live /\ calls'[n].answer = "none"
               /\ \A i \in InFlight : calls'[i] = calls[i]
    BY <1>1, <1>4, SessionShapes
  <2>2. session = Nobody /\ ~ appError /\ ~ submitting /\ submitting' = TRUE
        /\ mode \in {"create", "join"}
        /\ UNCHANGED <<session, appError, family, account>>
    BY <1>4 DEF Submit, FormUsable, Screen, screenVars, Types, SessionTypeOK, Tabs
  <2> QED  BY <2>1, <2>2, SessionKinds DEF family, account, SessionWaits, CodeKnown
<1>5. CASE Rotate
  <2>1. PICK n \in Ids \ InFlight :
               /\ InFlight' = InFlight \cup {n}
               /\ calls'[n].op = "rotate" /\ calls'[n].live /\ calls'[n].answer = "none"
               /\ \A i \in InFlight : calls'[i] = calls[i]
    BY <1>1, <1>5, SessionShapes
  <2>2. session \in Codes /\ ~ appError
    BY <1>5 DEF Rotate, Screen, Types, SessionTypeOK
  <2>3. /\ astray' = (astray \/ \E c \in InFlight : calls[c].op = "rotate")
        /\ UNCHANGED <<session, appError, submitting, inviteCode, cookie, valid>>
    BY <1>5 DEF Rotate, screenVars, onboarding
  <2>4. SessionWaits'
    BY <2>1, <2>2, <2>3, SessionKinds DEF SessionWaits
  <2>5. CodeKnown'
    BY <2>1, <2>2, <2>3, SessionKinds DEF SessionWaits, CodeKnown
  <2> QED  BY <2>4, <2>5
<1> QED  BY <1>2, <1>3, <1>4, <1>5 DEF SessionClicks

\* What the other pages do is nothing to the session.
LEMMA SessionOthers ==
  ASSUME SessionWaits, CodeKnown, UNCHANGED sessionVars, Kept(SessionOps)
  PROVE  SessionWaits' /\ CodeKnown'
<1>1. /\ \A i \in InFlight : calls[i].op \in SessionOps =>
           i \in InFlight' /\ calls'[i] = calls[i]
      /\ \A i \in InFlight' : calls'[i].op \in SessionOps =>
           i \in InFlight /\ calls'[i] = calls[i]
  BY KeptCalls
<1>2. UNCHANGED <<session, appError, submitting, inviteCode, cookie, valid, astray>>
  BY DEF sessionVars
<1>3. SessionWaits'
  BY <1>1, <1>2 DEF SessionWaits, SessionOps
<1>4. CodeKnown'
  BY <1>1, <1>2 DEF CodeKnown, SessionOps
<1> QED  BY <1>3, <1>4

\* Every step keeps it.
LEMMA SessionNext ==
  ASSUME Types, SessionWaits, CodeKnown, [Next]_vars
  PROVE  SessionWaits' /\ CodeKnown'
<1>1. CASE SessionStep
  BY <1>1, SessionServerWaits, SessionHandlerWaits, SessionClickWaits DEF SessionStep
<1>2. CASE DishStep \/ ChooseStep \/ HistoryStep
  <2>1. UNCHANGED sessionVars
    BY <1>2 DEF DishStep, ChooseStep, HistoryStep
  <2>2. Kept(SessionOps)
    BY <1>2, DishKeeps, ChooseKeeps, HistoryKeeps
      DEF SessionOps, DishOps, ChooseOps, HistoryOps
  <2> QED  BY <2>1, <2>2, SessionOthers
<1>3. CASE ShellStep
  <2>1. UNCHANGED sessionVars
    BY <1>3 DEF ShellStep
  <2>2. Kept(SessionOps)
    <3>1. ASSUME NEW c \in InFlight, ~ calls[c].live, calls[c].op # "rotate"
          PROVE  calls[c].op \notin SessionOps
      BY <3>1, CallTypes DEF Shaped, Reads, SessionWaits, SessionOps
    <3> QED  BY <1>3, <3>1, ShellShape, KeptOthers
  <2> QED  BY <2>1, <2>2, SessionOthers
<1>4. ASSUME NEW c \in InFlight, Enter(c) PROVE SessionWaits' /\ CodeKnown'
  <2>1. /\ calls[c].op = "session" /\ calls[c].answer = "ok" /\ session' = calls[c].body
        /\ inviteCode' = calls[c].body
        /\ UNCHANGED <<appError, submitting, cookie, valid, astray>>
    BY <1>4 DEF Enter, SessionLoaded, Good, onboarding, account
  <2>2. calls[c].body \in Codes
    BY <2>1, CallTypes DEF Typed, SessionCall, SessionOps
  <2>3. \A i \in InFlight \ {c} : calls[i].op \notin SessionOps
    BY <2>1, SessionKinds DEF SessionWaits, SessionOps
  <2>4. \A i \in InFlight' : calls'[i].op \notin SessionOps
    BY <1>4, <2>3, EnterShape DEF Asked, SessionOps
  <2>5. ~ appError
    BY <2>1 DEF SessionWaits
  <2>6. \A i \in InFlight : calls[i].op \notin {"create", "join"}
    BY <2>1, SessionKinds DEF SessionWaits
  <2>7. SessionWaits'
    BY <2>1, <2>2, <2>4, <2>5, <2>6, SessionKinds DEF SessionWaits, SessionOps
  <2>8. CodeKnown'
    BY <2>1, <2>4 DEF CodeKnown, SessionOps
  <2> QED  BY <2>7, <2>8
<1>5. ASSUME NEW t \in Tabs, Navigate(t) PROVE SessionWaits' /\ CodeKnown'
  <2>1. /\ ~ appError /\ session \in Codes
        /\ UNCHANGED <<session, appError, submitting, cookie, valid, astray>>
        /\ inviteCode' = session
    BY <1>5 DEF Navigate, Screen, Tabs, onboarding, account, Types, SessionTypeOK
  <2>2. \A i \in InFlight' : calls'[i].op \in SessionOps =>
          i \in InFlight /\ calls'[i] = Dead(calls[i])
    BY <1>5, NavigateShape DEF Asked, SessionOps
  <2>3. \A i \in InFlight : calls[i].op = "rotate" => i \in InFlight' /\ calls'[i] = Dead(calls[i])
    BY <1>5, NavigateShape DEF Reads
  <2>4. \A i \in InFlight : calls[i].op \notin {"session", "create", "join"}
    BY <2>1, SessionKinds DEF SessionWaits
  <2>5. \A j : Dead(j).op = j.op /\ Dead(j).answer = j.answer /\ Dead(j).body = j.body
    BY DEF Dead
  <2>6. SessionWaits'
    BY <2>1, <2>2, <2>4, <2>5, SessionKinds DEF SessionWaits, SessionOps
  <2>7. CodeKnown'
    BY <2>1, <2>2, <2>3, <2>4, <2>5 DEF CodeKnown, SessionOps
  <2> QED  BY <2>6, <2>7
<1>6. CASE Refresh
  <2>1. /\ session \in Codes /\ session' = Unknown /\ ~ appError
        /\ UNCHANGED <<appError, submitting, cookie, valid, astray>>
    BY <1>6 DEF Refresh, Screen, Tabs, onboarding, account, Types, SessionTypeOK
  <2>2. PICK n \in InFlight' :
              /\ calls'[n].op = "session" /\ calls'[n].live /\ calls'[n].answer = "none"
              /\ \A i \in InFlight' \ {n} :
                   /\ i \in InFlight /\ calls[i].op \notin Reads \cup {"ensure", "rotate"}
                   /\ calls'[i] = Dead(calls[i])
    BY <1>6, RefreshShape
  <2>3. \A i \in InFlight : calls[i].op \notin {"session", "create", "join"}
    BY <2>1, SessionKinds DEF SessionWaits
  <2>4. \A i \in InFlight' \ {n} : calls'[i].op \notin SessionOps
    <3>1. \A j : Dead(j).op = j.op
      BY DEF Dead
    <3> QED  BY <2>2, <2>3, <3>1 DEF SessionOps, Reads
  <2>5. SessionWaits'
    BY <2>1, <2>2, <2>3, <2>4, SessionKinds DEF SessionWaits, SessionOps
  <2>6. CodeKnown'
    BY <2>1, <2>2, <2>4, SessionKinds DEF CodeKnown, SessionOps
  <2> QED  BY <2>5, <2>6
<1>7. CASE Event
  <2>1. UNCHANGED calls
    BY <1>7, EventKinds
  <2>2. CASE UNCHANGED sessionVars
    BY <2>1, <2>2, KeptOthers, SessionOthers
  <2>3. CASE RotateElsewhere
    BY <2>1, <2>3 DEF RotateElsewhere, screenVars, onboarding, family, InFlight, SessionWaits,
                      CodeKnown
  <2>4. CASE Expire
    BY <2>1, <2>4 DEF Expire, screenVars, onboarding, family, InFlight, SessionWaits, CodeKnown
  <2> QED  BY <1>7, <2>2, <2>3, <2>4, EventKinds
<1>8. CASE Idle
  BY <1>8, KeptOthers, SessionOthers DEF Idle
<1> QED  BY <1>1, <1>2, <1>3, <1>4, <1>5, <1>6, <1>7, <1>8, StepKinds

\* So it is at first.
LEMMA SessionFirst == Init => SessionWaits /\ CodeKnown
<1> SUFFICES ASSUME Init PROVE SessionWaits /\ CodeKnown
  OBVIOUS
<1>1. InFlight = {1} /\ calls[1].op = "session" /\ calls[1].answer = "none"
  BY DEF Init, InFlight, Call
<1> QED  BY <1>1, SessionKinds DEF Init, SessionInit, FreshOnboarding, SessionWaits, CodeKnown

\* The screen is another than before only when the member goes elsewhere, or as
\* the session comes and goes; on a page it is never left otherwise.
LEMMA ScreenStays ==
  ASSUME Types, SessionWaits, SessionStep, Screen' \in Tabs
  PROVE  Screen' = Screen
<1>1. ASSUME session \in Codes, session' \in Codes, appError' = appError, tab' = tab
      PROVE  Screen' = Screen
  BY <1>1, SessionKinds DEF Screen
<1>2. session' \in Codes \cup {Unknown, Nobody} /\ session' \in Codes /\ ~ appError'
  <2>1. session' \in Codes \cup {Unknown, Nobody}
    BY SessionTypes DEF SessionTypeOK
  <2> QED  BY <2>1 DEF Screen, Tabs
<1>3. tab' = tab
  BY DEF SessionStep, SessionServer, ServeSession, ServeCreate, ServeJoin, ServeRotate,
         SessionHandlers, SessionRefused, SessionFails, Authenticated, AuthenticationFails,
         Rotated, RotateFails, SessionClicks, Retry, SwitchMode, Submit, Rotate, sessionVars,
         screenVars
<1>4. \/ session' = session /\ appError' = appError
      \/ session' \in {Unknown, Nobody} \/ appError' = TRUE
      \/ \E c \in InFlight : calls[c].op = "rotate" /\ appError' = appError
  BY DEF SessionStep, SessionServer, ServeSession, ServeCreate, ServeJoin, ServeRotate,
         SessionHandlers, SessionRefused, SessionFails, Authenticated, AuthenticationFails,
         Rotated, RotateFails, SessionClicks, Retry, SwitchMode, Submit, Rotate, sessionVars,
         screenVars
<1>5. session \in Codes /\ appError' = appError
  BY <1>2, <1>4, SessionKinds DEF SessionWaits
<1> QED  BY <1>1, <1>2, <1>3, <1>5

-----------------------------------------------------------------------------
(* The page that is there.                                                 *)

\* Nor is a page left by any of the session's steps.
LEMMA ScreenKept ==
  ASSUME Types, SessionWaits, SessionStep, Screen \in Tabs
  PROVE  Screen' = Screen
<1>1. session \in Codes /\ ~ appError
  BY DEF Screen, Tabs, Types, SessionTypeOK
<1>2. \A c \in InFlight : calls[c].op \notin {"session", "create", "join"}
  BY <1>1, SessionKinds DEF SessionWaits
<1>3. CASE \E c \in InFlight : SessionServer(c) \/ SessionHandlers(c)
  <2>1. PICK c \in InFlight : SessionServer(c) \/ SessionHandlers(c)
    BY <1>3
  <2>2. ServeRotate(c) \/ Rotated(c) \/ RotateFails(c)
    BY <1>2, <2>1 DEF SessionServer, ServeSession, ServeCreate, ServeJoin, Arrived,
         SessionHandlers, SessionRefused, SessionFails, Authenticated, AuthenticationFails,
         Good, Throws
  <2>3. UNCHANGED <<tab, appError>> /\ (session' = session \/ session' \in Codes)
    BY <2>2, CallTypes DEF ServeRotate, Rotated, RotateFails, screenVars, Typed, SessionCall,
         SessionOps
  <2> QED  BY <1>1, <2>3, SessionKinds DEF Screen
<1>4. CASE SessionClicks \/ Rotate
  <2>1. UNCHANGED screenVars
    BY <1>1, <1>4 DEF SessionClicks, Retry, SwitchMode, Submit, Rotate, Screen, Tabs
  <2> QED  BY <2>1 DEF screenVars, Screen
<1> QED  BY <1>3, <1>4 DEF SessionStep

\* Where the member is, and what page is asked for, only the session's steps and
\* those of the shell change.
LEMMA ScreenOf ==
  /\ UNCHANGED sessionVars => Screen' = Screen
  /\ Event => Screen' = Screen
<1>1. UNCHANGED <<session, appError, tab>> => Screen' = Screen
  BY DEF Screen
<1> QED  BY <1>1 DEF sessionVars, Event, RotateElsewhere, Expire, screenVars

\* An answer is awaited on the page that asked.
PageOf(op) == CASE op \in DishOps -> "dishes"
                [] op \in ChooseOps -> "choose"
                [] op \in HistoryOps -> "family"
                [] OTHER -> "none"
LiveHere ==
  \A c \in InFlight : calls[c].live /\ calls[c].op \notin SessionOps =>
    Screen = PageOf(calls[c].op)

\* The pages have operations of their own.
LEMMA PageOps ==
  /\ \A op \in DishOps : PageOf(op) = "dishes" /\ op \notin SessionOps \cup ChooseOps \cup HistoryOps
  /\ \A op \in ChooseOps : PageOf(op) = "choose" /\ op \notin SessionOps \cup DishOps \cup HistoryOps
  /\ \A op \in HistoryOps : PageOf(op) = "family" /\ op \notin SessionOps \cup ChooseOps \cup DishOps
BY DEF PageOf, SessionOps, DishOps, ChooseOps, HistoryOps

\* What the steps of a page do to the calls of its own: no new one of them is live
\* but while the page is there.
LEMMA OwnCalls ==
  ASSUME Types, LiveHere
  PROVE  /\ DishStep => \A i \in InFlight' : calls'[i].op \in DishOps /\ calls'[i].live =>
                          Screen = "dishes"
         /\ ChooseStep => \A i \in InFlight' : calls'[i].op \in ChooseOps /\ calls'[i].live =>
                          Screen = "choose"
         /\ HistoryStep => \A i \in InFlight' : calls'[i].op \in HistoryOps /\ calls'[i].live =>
                          Screen = "family"
<1> DEFINE Still(K) == \A i \in InFlight' : calls'[i].op \in K /\ calls'[i].live =>
                         \E k \in InFlight : calls[k].op \in K /\ calls[k].live
<1>0. ASSUME NEW K
      PROVE  /\ \A c \in InFlight : Removed(c) => Still(K)
             /\ \A c \in InFlight : \A kind, body : Became(c, With(calls[c], kind, body)) => Still(K)
             /\ \A c \in InFlight : \A j : Became(c, j) /\ calls[c].op \in K /\ calls[c].live => Still(K)
             /\ \A c \in InFlight : \A j : Became(c, j) /\ ~ j.live => Still(K)
             /\ UNCHANGED calls => Still(K)
  <2>1. ASSUME NEW c \in InFlight, Removed(c) PROVE Still(K)
    BY <2>1 DEF Removed
  <2>2. ASSUME NEW c \in InFlight, NEW kind, NEW body, Became(c, With(calls[c], kind, body))
        PROVE  Still(K)
    BY <2>2 DEF Became, With
  <2>3. ASSUME NEW c \in InFlight, NEW j, Became(c, j), calls[c].op \in K, calls[c].live
        PROVE  Still(K)
    BY <2>3 DEF Became
  <2>4. ASSUME NEW c \in InFlight, NEW j, Became(c, j), ~ j.live
        PROVE  Still(K)
    BY <2>4 DEF Became
  <2>5. UNCHANGED calls => Still(K)
    BY DEF InFlight
  <2> QED  BY <2>1, <2>2, <2>3, <2>4, <2>5
<1>1. ASSUME DishStep, Screen # "dishes" PROVE Still(DishOps)
  <2>1. PICK c \in InFlight : DishServer(c) \/ DishHandlers(c)
    BY <1>1 DEF DishStep
  <2>2. CASE DishServer(c)
    <3>1. \E kind, body : Became(c, With(calls[c], kind, body))
      BY <2>2, DishShapes DEF DishServer
    <3> HIDE DEF Still
    <3> QED  BY <3>1, <1>0
  <2>3. CASE DishHandlers(c)
    <3>1. calls[c].op \in DishOps /\ calls[c].live
      BY <2>3 DEF DishHandlers, Listed, ListFails, Archived, ArchiveFails, Created, Updated,
                SaveFails, Uploaded, UploadFails, Good, Throws, DishOps
    <3> QED  BY <3>1
  <2> QED  BY <2>1, <2>2, <2>3
<1>2. ASSUME ChooseStep, Screen # "choose" PROVE Still(ChooseOps)
  <2>1. PICK c \in InFlight : ChooseServer(c, Active) \/ ChooseHandlers(c)
    BY <1>2 DEF ChooseStep
  <2>2. CASE ChooseServer(c, Active)
    <3>1. \E kind, body : Became(c, With(calls[c], kind, body))
      BY <2>2, ChooseShapes
    <3> HIDE DEF Still
    <3> QED  BY <3>1, <1>0
  <2>3. CASE Accepted(c)
    <3>1. Became(c, Dead(Call("opened", Nothing))) /\ ~ Dead(Call("opened", Nothing)).live
      BY <2>3, ChooseShapes DEF Dead
    <3> HIDE DEF Still
    <3> QED  BY <3>1, <1>0
  <2>4. CASE SlotEnsured(c)
    <3>1. calls[c].op \in ChooseOps /\ Became(c, Following(calls[c]))
      BY <2>4, SlotEnsuredShape DEF SlotEnsured, ChooseOps
    <3>2. CASE calls[c].live
      BY <3>1, <3>2
    <3>3. CASE ~ calls[c].live
      <4>1. ~ Following(calls[c]).live
        BY <3>3 DEF Following
      <4> HIDE DEF Still
      <4> QED  BY <3>1, <4>1, <1>0
    <3> QED  BY <3>2, <3>3
  <2>5. CASE ChooseHandlers(c) /\ ~ Accepted(c) /\ ~ SlotEnsured(c)
    <3>1. calls[c].op \in ChooseOps /\ calls[c].live
      BY <2>5 DEF ChooseHandlers, SlotResolved, SlotFails, Drawn, DrawFails, Found, SearchFails,
          EnsureFails, AcceptFails, Good, Throws, ChooseOps
    <3> QED  BY <3>1
  <2> QED  BY <2>1, <2>2, <2>3, <2>4, <2>5
<1>3. ASSUME HistoryStep, Screen # "family" PROVE Still(HistoryOps)
  <2>1. PICK c \in InFlight : CheckInServer(c) \/ CheckInHandlers(c)
    BY <1>3 DEF HistoryStep
  <2>2. CASE CheckInServer(c)
    <3>1. \E kind, body : Became(c, With(calls[c], kind, body))
      BY <2>2, HistoryShapes DEF CheckInServer
    <3> HIDE DEF Still
    <3> QED  BY <3>1, <1>0
  <2>3. CASE CheckInHandlers(c)
    <3>1. calls[c].op \in HistoryOps /\ calls[c].live
      BY <2>3 DEF CheckInHandlers, HistoryLoaded, HistoryFails, CheckinSaved, CheckinFails, Good,
                  Throws, HistoryOps
    <3> QED  BY <3>1
  <2> QED  BY <2>1, <2>2, <2>3
<1>4. \A k \in InFlight : calls[k].live =>
        /\ calls[k].op \in DishOps => Screen = "dishes"
        /\ calls[k].op \in ChooseOps => Screen = "choose"
        /\ calls[k].op \in HistoryOps => Screen = "family"
  BY PageOps DEF LiveHere
<1> QED  BY <1>1, <1>2, <1>3, <1>4

\* A page that is left is left by its calls.
LEMMA LiveNext ==
  ASSUME Types, SessionWaits, LiveHere, [Next]_vars
  PROVE  LiveHere'
<1>0. \A i \in InFlight' : calls'[i].op \in Ops
  <2>1. AllTyped(calls', Known')
    BY NextTypes DEF Types
  <2> QED  BY <2>1 DEF AllTyped, Typed, Shaped, InFlight
<1>1. ASSUME NEW K, Kept(Ops \ (SessionOps \cup K)), Screen' = Screen,
             \A i \in InFlight' : calls'[i].op \in K /\ calls'[i].live => Screen = PageOf(calls'[i].op)
      PROVE  LiveHere'
  <2>1. \A i \in InFlight' : calls'[i].op \in Ops \ (SessionOps \cup K) =>
           i \in InFlight /\ calls'[i] = calls[i]
    BY <1>1, KeptCalls
  <2> QED  BY <1>0, <1>1, <2>1 DEF LiveHere
<1>2. CASE SessionStep
  <2>1. Kept(Ops \ SessionOps)
    BY <1>2, SessionKeeps
  <2>2. \A i \in InFlight' : calls'[i].op \in Ops \ SessionOps => i \in InFlight /\ calls'[i] = calls[i]
    BY <2>1, KeptCalls
  <2>3. ASSUME NEW i \in InFlight', calls'[i].live, calls'[i].op \notin SessionOps
        PROVE  Screen' = PageOf(calls'[i].op)
    <3>1. i \in InFlight /\ calls'[i] = calls[i]
      BY <1>0, <2>2, <2>3
    <3>2. Screen = PageOf(calls[i].op) /\ calls[i].op \in Ops
      BY <1>0, <2>3, <3>1 DEF LiveHere
    <3>3. PageOf(calls[i].op) \in Tabs
      BY <2>3, <3>1, <3>2, PageOps DEF Ops, Tabs
    <3> QED  BY <1>2, <3>1, <3>2, <3>3, ScreenKept
  <2> QED  BY <2>3 DEF LiveHere
<1>3. CASE DishStep
  <2>1. Kept(Ops \ (SessionOps \cup DishOps)) /\ Screen' = Screen
    BY <1>3, DishKeeps, ScreenOf DEF DishStep
  <2>2. \A i \in InFlight' : calls'[i].op \in DishOps /\ calls'[i].live => Screen = "dishes"
    BY <1>3, OwnCalls
  <2> QED  BY <1>1, <2>1, <2>2, PageOps
<1>4. CASE ChooseStep
  <2>1. Kept(Ops \ (SessionOps \cup ChooseOps)) /\ Screen' = Screen
    BY <1>4, ChooseKeeps, ScreenOf DEF ChooseStep
  <2>2. \A i \in InFlight' : calls'[i].op \in ChooseOps /\ calls'[i].live => Screen = "choose"
    BY <1>4, OwnCalls
  <2> QED  BY <1>1, <2>1, <2>2, PageOps
<1>5. CASE HistoryStep
  <2>1. Kept(Ops \ (SessionOps \cup HistoryOps)) /\ Screen' = Screen
    BY <1>5, HistoryKeeps, ScreenOf DEF HistoryStep
  <2>2. \A i \in InFlight' : calls'[i].op \in HistoryOps /\ calls'[i].live => Screen = "family"
    BY <1>5, OwnCalls
  <2> QED  BY <1>1, <2>1, <2>2, PageOps
<1>6. CASE ShellStep
  <2>1. Screen' = Screen
    BY <1>6, ScreenOf DEF ShellStep
  <2>2. \A i \in InFlight' : i \in InFlight /\ calls'[i] = calls[i]
    BY <1>6, ShellShape DEF Removed, InFlight
  <2> QED  BY <2>1, <2>2 DEF LiveHere
<1>7. ASSUME NEW c \in InFlight, Enter(c) PROVE LiveHere'
  <2>1. session = Unknown /\ ~ appError /\ session' \in Codes /\ UNCHANGED <<tab, appError>>
    <3>1. calls[c].op = "session" /\ calls[c].answer = "ok" /\ session' = calls[c].body
          /\ UNCHANGED <<tab, appError>>
      BY <1>7 DEF Enter, SessionLoaded, Good
    <3> QED  BY <3>1, CallTypes DEF SessionWaits, Typed, SessionCall, SessionOps
  <2>2. Screen = "loading" /\ Screen' = tab
    BY <2>1, SessionKinds DEF Screen
  <2>3. \A i \in InFlight : calls[i].live => calls[i].op \in SessionOps
    BY <2>2, CallTypes, PageOps DEF LiveHere, Typed, Shaped, Ops
  <2>4. \A i \in InFlight' : calls'[i].live =>
          calls'[i].op \in SessionOps \/ Asked(tab, calls'[i])
    BY <1>7, <2>3, EnterShape
  <2>5. \A j : Asked(tab, j) => PageOf(j.op) = tab
    BY DEF Asked, PageOf, DishOps, ChooseOps, HistoryOps
  <2> QED  BY <2>2, <2>4, <2>5 DEF LiveHere
<1>8. ASSUME NEW t \in Tabs, Navigate(t) PROVE LiveHere'
  <2>1. Screen' = t
    BY <1>8, SessionKinds DEF Navigate, Screen, Tabs, Types, SessionTypeOK
  <2>2. \A i \in InFlight' : calls'[i].live => Asked(t, calls'[i])
    <3>1. \A j : ~ Dead(j).live
      BY DEF Dead
    <3> QED  BY <1>8, <3>1, NavigateShape
  <2>3. \A j : Asked(t, j) => PageOf(j.op) = t
    BY DEF Asked, PageOf, DishOps, ChooseOps, HistoryOps
  <2> QED  BY <2>1, <2>2, <2>3 DEF LiveHere
<1>9. CASE Refresh
  <2>1. \A i \in InFlight' : calls'[i].live => calls'[i].op = "session"
    <3>1. \A j : ~ Dead(j).live
      BY DEF Dead
    <3> QED  BY <1>9, <3>1, RefreshShape
  <2> QED  BY <2>1 DEF LiveHere, SessionOps
<1>10. CASE Event
  <2>1. Screen' = Screen /\ UNCHANGED calls
    BY <1>10, EventKinds, ScreenOf
  <2> QED  BY <2>1 DEF LiveHere, InFlight
<1>11. CASE Idle
  <2>1. Screen' = Screen /\ UNCHANGED calls
    BY <1>11, ScreenOf DEF Idle
  <2> QED  BY <2>1 DEF LiveHere, InFlight
<1> QED  BY <1>2, <1>3, <1>4, <1>5, <1>6, <1>7, <1>8, <1>9, <1>10, <1>11, StepKinds
=============================================================================
