-------------------------- MODULE Recommendations ---------------------------
(***************************************************************************)
(* What the server recommends (backend/app/recommendations): the dishes    *)
(* that pass the filters of a request and can be cooked from the           *)
(* ingredients at hand, and one of them drawn by chance, with less weight  *)
(* the shorter ago it was on a confirmed menu.                             *)
(*                                                                         *)
(* The state is the history those answers depend on.  Dishes are numbers   *)
(* in the order of their names, a date is the number of a day, and a       *)
(* weight is in tenths.  The generator's number is a ticket below the sum  *)
(* of the weights: every ticket is as likely as any other.                 *)
(***************************************************************************)
EXTENDS Integers, FiniteSets, Sequences, Functions

CONSTANTS
  Menu,      (* Dishes, as numbers.                                         *)
  Needs,     (* The main ingredients of each dish.                          *)
  Kind,      (* The category of each dish.                                  *)
  CookedBy,  (* The members who cook each dish.                             *)
  Dates,     (* Dates that have a menu.                                     *)
  LastDay    (* Last day.  Bounds the model.                                *)

ASSUME MenuAssumption ==
  /\ Menu \subseteq Nat /\ IsFiniteSet(Menu)
  /\ DOMAIN Needs = Menu /\ \A d \in Menu : IsFiniteSet(Needs[d])
  /\ DOMAIN Kind = Menu /\ DOMAIN CookedBy = Menu
  /\ Dates \subseteq Nat /\ IsFiniteSet(Dates) /\ LastDay \in Nat

VARIABLES
  today,     (* The date in the household's time zone.                      *)
  archived,  (* Dishes taken out of the list.                               *)
  served     (* The dishes of the confirmed menu of each date.              *)

vars == <<today, archived, served>>

Foods   == UNION Range(Needs)
Kinds   == Range(Kind)
Cooks   == UNION Range(CookedBy)

\* A request: a filter that is empty lets every dish pass.
Filters == [kinds : SUBSET Kinds, cooks : SUBSET Cooks, foods : SUBSET Foods]

Init ==
  /\ today = 0
  /\ archived = {}
  /\ served = [t \in Dates |-> {}]

-----------------------------------------------------------------------------
(* Filters and ingredients.                                                *)

\* load_candidate_dishes
Candidates(f) ==
  {d \in Menu \ archived : /\ f.kinds = {} \/ Kind[d] \in f.kinds
                           /\ f.cooks = {} \/ CookedBy[d] \cap f.cooks # {}}

\* match_ingredients; without ingredients at hand nothing is asked of a dish.
Missing(d, f) == IF f.foods = {} THEN {} ELSE Needs[d] \ f.foods

\* Faulty: one that is missing is told from two by what is at hand.
AtHandInstead(d, f) ==
  LET n == Cardinality(Needs[d] \cap f.foods)
  IN  IF Missing(d, f) = {} THEN "ready" ELSE IF n > 0 THEN "one_missing" ELSE "hidden"

Visibility(d, f) ==
  LET n == Cardinality(Missing(d, f))
  IN  CASE n = 0 -> "ready" [] n = 1 -> "one_missing" [] OTHER -> "hidden"

\* build_matched_dishes
Ready(f)      == {d \in Candidates(f) : Visibility(d, f) = "ready"}
OneMissing(f) == {d \in Candidates(f) : Visibility(d, f) = "one_missing"}

-----------------------------------------------------------------------------
(* The draw.                                                               *)

\* Faulty: the first date on a menu counts.
FirstEaten(d) ==
  LET T == {t \in Dates : d \in served[t]}
  IN  IF T = {} THEN {} ELSE {CHOOSE t \in T : \A u \in T : t <= u}

\* load_last_eaten_dates: no date, or the last, which may be yet to come.
LastEaten(d) ==
  LET T == {t \in Dates : d \in served[t]}
  IN  {t \in T : \A u \in T : u <= t}

\* recency_weight
Recency(d) ==
  IF LastEaten(d) = {} THEN 10
  ELSE LET days == today - CHOOSE t \in LastEaten(d) : TRUE
       IN  IF days <= 3 THEN 2 ELSE IF days <= 7 THEN 5 ELSE IF days <= 14 THEN 8 ELSE 10

\* random_recommendation: what is ready, then what misses one, each by name.
ByName(D)  == CHOOSE s \in [1 .. Cardinality(D) -> D] :
                \A i, j \in DOMAIN s : i < j => s[i] < s[j]
Matched(f) == ByName(Ready(f)) \o ByName(OneMissing(f))

\* The sum of the weights of the first n dishes of s.
Cumulated(s) ==
  LET sum[n \in 0 .. Len(s)] == IF n = 0 THEN 0 ELSE sum[n - 1] + Recency(s[n])
  IN  sum

Tickets(s) == 0 .. Cumulated(s)[Len(s)] - 1

\* Faulty: a ticket that equals a sum goes to the dish before.
DrawEarlier(s, ticket) ==
  s[CHOOSE n \in DOMAIN s : /\ ticket <= Cumulated(s)[n]
                            /\ \A k \in 1 .. n - 1 : Cumulated(s)[k] < ticket]

\* choose_weighted: the first dish whose sum is above the ticket.
Draw(s, ticket) ==
  s[CHOOSE n \in DOMAIN s : /\ ticket < Cumulated(s)[n]
                            /\ \A k \in 1 .. n - 1 : Cumulated(s)[k] <= ticket]

-----------------------------------------------------------------------------
(* The history.                                                            *)

NextDay ==
  /\ today < LastDay /\ today' = today + 1
  /\ UNCHANGED <<archived, served>>

\* A menu is confirmed, or confirmed again, for a day gone by or to come.
ConfirmMenu(t, D) ==
  /\ D # {} /\ D \cap archived = {}
  /\ served' = [served EXCEPT ![t] = D]
  /\ UNCHANGED <<today, archived>>

ArchiveDish(d) ==
  /\ d \notin archived /\ archived' = archived \cup {d}
  /\ UNCHANGED <<today, served>>

Next ==
  \/ NextDay
  \/ \E t \in Dates, D \in SUBSET Menu : ConfirmMenu(t, D)
  \/ \E d \in Menu : ArchiveDish(d)

Spec == Init /\ [][Next]_vars

-----------------------------------------------------------------------------
(* Properties.                                                             *)

\* Every variable has its type.
TypeOK ==
  /\ today \in 0 .. LastDay
  /\ archived \subseteq Menu
  /\ served \in [Dates -> SUBSET Menu]

\* Whatever the filters, a dish is listed as one that can be cooked now exactly
\* if it passes them and all it needs is at hand, and as one ingredient short
\* exactly if buying one ingredient, which is not at hand, is enough for it and
\* necessary; an archived dish is in neither list.
SearchMatches ==
  \A f \in Filters :
    LET Fits == {d \in Menu : /\ d \notin archived
                              /\ f.kinds = {} \/ Kind[d] \in f.kinds
                              /\ f.cooks = {} \/ \E m \in f.cooks : m \in CookedBy[d]}
        Cook(foods) == {d \in Fits : Needs[d] \subseteq foods}
        AtHand == IF f.foods = {} THEN Foods ELSE f.foods
    IN  /\ Ready(f) = Cook(AtHand)
        /\ OneMissing(f) = (UNION {Cook(AtHand \cup {i}) : i \in Foods}) \ Cook(AtHand)

\* The design's table of weights, for a dish last eaten on date t.
Table(t) ==
  CASE today - t \in 4 .. 7 -> 5
    [] today - t \in 8 .. 14 -> 8
    [] today - t > 14 -> 10
    [] OTHER -> 2

\* Every dish that a search would list is drawn by as many tickets as the table
\* gives it weight, with the history and the day as they are, and no other dish
\* is drawn by any: so the first and the last candidate have their full share.
DrawProportional ==
  \A F \in {Matched(f) : f \in Filters} :
    \A d \in Menu :
      Cardinality({k \in Tickets(F) : Draw(F, k) = d}) =
        IF d \notin Range(F) THEN 0
        ELSE IF \A t \in Dates : d \notin served[t] THEN 10
        ELSE CHOOSE w \in {Table(t) : t \in Dates} :
               \E t \in Dates : /\ d \in served[t] /\ w = Table(t)
                                /\ \A u \in Dates : u > t => d \notin served[u]
=============================================================================
