------------------------- MODULE MCRecommendations --------------------------
(* Three dishes, for model checking Recommendations.                        *)
EXTENDS Recommendations, TLC

MCMenu     == 1 .. 3
MCNeeds    == <<{"egg"}, {"egg", "rice"}, {"egg", "rice", "fish"}>>
MCKind     == <<"soup", "staple", "staple">>
MCCookedBy == <<{"ann"}, {"ann", "bob"}, {"bob"}>>
MCDates    == {0, 14}
=============================================================================
