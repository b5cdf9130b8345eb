------------------------------- MODULE MCApp --------------------------------
(* One member's browser, for model checking App.                           *)
EXTENDS App, TLC

CONSTANTS
  c1, c2,          (* Categories.                                           *)
  lunch, dinner,   (* Meal types.                                           *)
  Plans            (* What the member is going to do; a bound, see below.   *)

MCCategories == {c1, c2}
MCMeals      == {lunch, dinner}
MCSymmetry   == Permutations(MCCategories) \cup Permutations(MCMeals)

\* The pages that the member goes to, the clicks there, the events meanwhile, and
\* whether a household has to be found or joined first.
Plan(tabs, n, e, new) == [tabs |-> tabs, clicks |-> n, events |-> e, newcomer |-> new]

\* Far into each page, and not so far into all of them.
MCPlans ==
  {Plan({"today", "dishes"}, 2, 0, FALSE), Plan({"today", "choose"}, 4, 1, FALSE),
   Plan({"today", "family"}, 3, 0, FALSE), Plan({"today", "family"}, 2, 1, FALSE),
   Plan(Tabs, 1, 1, TRUE)}

\* One visit of the family page.
MCVisit == {Plan({"today", "family"}, 1, 1, FALSE)}

\* One visit of the page that helps to choose.
MCHasty == {Plan({"today", "choose"}, 3, 0, FALSE)}

VARIABLE plan

\* There is one dish; who has a household made it.
MCInit ==
  /\ plan \in Plans
  /\ Init
  /\ tab = "today" /\ owner = cookie /\ (plan.newcomer \/ cookie)
  /\ Len(stored) = 1

MCNext ==
  /\ Next
  /\ tab' \in plan.tabs /\ clicks' <= plan.clicks /\ events' <= plan.events
  /\ UNCHANGED plan

MCSpec     == MCInit /\ [][MCNext]_<<vars, plan>>
MCFairSpec == MCSpec /\ WF_observer(due /\ MCNext)
=============================================================================
