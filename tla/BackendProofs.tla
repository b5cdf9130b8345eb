---------------------------- MODULE BackendProofs ----------------------------
(***************************************************************************)
(* Together on one server, the routers are what each of them is alone: the *)
(* server implements the specification of each, and so it keeps all that   *)
(* MealSlotProofs, HouseholdAccessProofs and DishCatalogueProofs show of   *)
(* them, for all values of the constants.                                  *)
(*                                                                         *)
(* Those theorems are about the instances MealsKept, HouseholdsKept and    *)
(* CatalogueKept of the modules that prove them.  They have the values of  *)
(* Meals, Households and Catalogue in Backend, and their definitions are   *)
(* the same.                                                               *)
(***************************************************************************)
EXTENDS Backend, TLAPS

-----------------------------------------------------------------------------
(* The meals.                                                              *)

MealsKept == INSTANCE MealSlotProofs WITH
  MaxArrivals <- MaxMeals, Dishes <- SlotDishes, status <- m_status,
  version <- m_version, editor <- m_editor, requests <- m_requests, menu <- m_menu,
  active <- m_active, events <- m_events, lock <- m_lock, pc <- m_pc, job <- m_job,
  saw <- m_saw, reply <- m_reply, arrivals <- m_arrivals, alone <- m_alone

\* The two instances are one.
LEMMA OneMeals ==
  /\ Meals!Init <=> MealsKept!Init
  /\ Meals!Next <=> MealsKept!Next
  /\ UNCHANGED Meals!vars => UNCHANGED MealsKept!vars
<1>1. Meals!Init <=> MealsKept!Init
  BY DEF Meals!Init, Meals!EventNames, Meals!NoJob, Meals!NoSight, Meals!NoReply,
     MealsKept!Init, MealsKept!EventNames, MealsKept!NoJob, MealsKept!NoSight,
     MealsKept!NoReply
<1>2. Meals!Next <=> MealsKept!Next
  BY DEF Meals!Next, Meals!Arrive, Meals!Proceed, Meals!Fail, Meals!ArchiveDish,
     Meals!Goto, Meals!Jobs, Meals!NoReply, Meals!tables, Meals!Load,
     Meals!CheckDish, Meals!FindOwn, Meals!CheckPrior, Meals!InsertRequest,
     Meals!Recover, Meals!Repair, Meals!Reload, Meals!DeleteRequest,
     Meals!CheckRemaining, Meals!WithdrawRequest, Meals!ClaimVersion,
     Meals!AnswerConflict, Meals!ReplaceMenu, Meals!Answer, Meals!slotRow,
     Meals!OneDish, Meals!Confirms, Meals!AfterDishes, Meals!Row, Meals!RowFree,
     Meals!Count, Meals!NoJob, Meals!NoSight, Meals!Deleting, MealsKept!Next,
     MealsKept!Arrive, MealsKept!Proceed, MealsKept!Fail, MealsKept!ArchiveDish,
     MealsKept!Goto, MealsKept!Jobs, MealsKept!NoReply, MealsKept!tables,
     MealsKept!Load, MealsKept!CheckDish, MealsKept!FindOwn, MealsKept!CheckPrior,
     MealsKept!InsertRequest, MealsKept!Recover, MealsKept!Repair, MealsKept!Reload,
     MealsKept!DeleteRequest, MealsKept!CheckRemaining, MealsKept!WithdrawRequest,
     MealsKept!ClaimVersion, MealsKept!AnswerConflict, MealsKept!ReplaceMenu,
     MealsKept!Answer, MealsKept!slotRow, MealsKept!OneDish, MealsKept!Confirms,
     MealsKept!AfterDishes, MealsKept!Row, MealsKept!RowFree, MealsKept!Count,
     MealsKept!NoJob, MealsKept!NoSight, MealsKept!Deleting
<1>3. UNCHANGED Meals!vars => UNCHANGED MealsKept!vars
  BY DEF Meals!vars, Meals!tables, MealsKept!vars, MealsKept!tables
<1> QED  BY <1>1, <1>2, <1>3

\* Whatever the other routers do, a step of the server is one of MealSlot or none.
THEOREM ServesMeals == Spec => Meals!Spec
<1>1. Init => Meals!Init
  BY DEF Init
<1>2. [Next]_vars => [Meals!Next]_(Meals!vars)
  <2>1. UNCHANGED meals => UNCHANGED Meals!vars
    BY DEF meals, Meals!vars, Meals!tables
  <2>2. [Next]_vars => Meals!Next \/ UNCHANGED meals
    BY DEF Next, vars
  <2> QED  BY <2>1, <2>2
<1> QED  BY <1>1, <1>2, PTL DEF Spec, Meals!Spec

\* On the whole server, too, whoever claimed a version writes its menu alone, no
\* menu is lost, and every answer about a meal is true: its router is still the
\* board that the household was promised.
THEOREM MealsHold ==
  Spec => /\ [](/\ MealsKept!ClaimHolds
                /\ MealsKept!MenuOfVersion
                /\ MealsKept!FirstRequestRecorded
                /\ MealsKept!SerialTable)
          /\ MealsKept!NoLostMenuUpdate
          /\ MealsKept!RepliesTruthful
          /\ MealsKept!BoardSpec
<1>1. Spec => MealsKept!Spec
  <2>1. Meals!Init => MealsKept!Init
    BY OneMeals
  <2>2. [Meals!Next]_(Meals!vars) => [MealsKept!Next]_(MealsKept!vars)
    BY OneMeals
  <2> QED  BY ServesMeals, <2>1, <2>2, PTL DEF Meals!Spec, MealsKept!Spec
<1>2. MealsKept!Spec => []MealsKept!ClaimHolds
  BY MealsKept!ClaimsExclude, MealsAssumption, TasksAssumption
<1>3. MealsKept!Spec => []MealsKept!MenuOfVersion
  BY MealsKept!MenuAgrees, MealsAssumption, TasksAssumption
<1>4. MealsKept!Spec => []MealsKept!FirstRequestRecorded
  BY MealsKept!FirstRequestSeen, MealsAssumption, TasksAssumption
<1>5. MealsKept!Spec => []MealsKept!SerialTable
  BY MealsKept!SerialAgrees, MealsAssumption, TasksAssumption
<1>6. MealsKept!Spec => MealsKept!NoLostMenuUpdate
  BY MealsKept!NoUpdateLost, MealsAssumption, TasksAssumption
<1>7. MealsKept!Spec => MealsKept!RepliesTruthful
  BY MealsKept!AnswersTrue, MealsAssumption, TasksAssumption
<1>8. MealsKept!Spec => MealsKept!BoardSpec
  BY MealsKept!ImplementsBoard, MealsAssumption, TasksAssumption
<1> QED  BY <1>1, <1>2, <1>3, <1>4, <1>5, <1>6, <1>7, <1>8, PTL

-----------------------------------------------------------------------------
(* The households.                                                         *)

HouseholdsKept == INSTANCE HouseholdAccessProofs WITH
  MaxArrivals <- MaxHouseholds, Nicks <- Members, owner <- h_owner, joined <- h_joined,
  disabled <- h_disabled, pin <- h_pin, invite <- h_invite, sessions <- h_sessions,
  expired <- h_expired, issued <- h_issued, failed <- h_failed, lock <- h_lock,
  pc <- h_pc, job <- h_job, view <- h_view, arrivals <- h_arrivals,
  expiries <- h_expiries, alone <- h_alone

\* The two instances are one.
LEMMA OneHouseholds ==
  /\ Households!Init <=> HouseholdsKept!Init
  /\ Households!Next <=> HouseholdsKept!Next
  /\ UNCHANGED Households!vars => UNCHANGED HouseholdsKept!vars
<1>1. Households!Init <=> HouseholdsKept!Init
  BY DEF Households!Init, Households!NoPin, Households!Keys, Households!NoJob,
     Households!NoView, Households!NoCode, HouseholdsKept!Init,
     HouseholdsKept!NoPin, HouseholdsKept!Keys, HouseholdsKept!NoJob,
     HouseholdsKept!NoView, HouseholdsKept!NoCode
<1>2. Households!Next <=> HouseholdsKept!Next
  BY DEF Households!Next, Households!CreateHousehold, Households!ArriveJoin,
     Households!ArriveOther, Households!Proceed, Households!Fail, Households!Expire,
     Households!Keys, Households!Forget, Households!bounds, Households!NoCode,
     Households!Arrive, Households!OwnerOps, Households!NoPin,
     Households!CheckJoinLimit, Households!FindInvite, Households!FindMember,
     Households!InsertMember, Households!RecoverMember, Households!Rejoin,
     Households!IssueSession, Households!Authenticate, Households!FindSession,
     Households!DropSession, Households!RotateInvite, Households!FindTarget,
     Households!DisableMember, Households!WipeSessions, Households!ResetPin,
     Households!RecordFailures, Households!Finish, Households!tables,
     Households!Goto, Households!IsLimited, Households!RejectJoin,
     Households!SignIn, Households!NickFree, Households!Mine, Households!MineFree,
     Households!NoJob, Households!NoView, HouseholdsKept!Next,
     HouseholdsKept!CreateHousehold, HouseholdsKept!ArriveJoin,
     HouseholdsKept!ArriveOther, HouseholdsKept!Proceed, HouseholdsKept!Fail,
     HouseholdsKept!Expire, HouseholdsKept!Keys, HouseholdsKept!Forget,
     HouseholdsKept!bounds, HouseholdsKept!NoCode, HouseholdsKept!Arrive,
     HouseholdsKept!OwnerOps, HouseholdsKept!NoPin, HouseholdsKept!CheckJoinLimit,
     HouseholdsKept!FindInvite, HouseholdsKept!FindMember,
     HouseholdsKept!InsertMember, HouseholdsKept!RecoverMember,
     HouseholdsKept!Rejoin, HouseholdsKept!IssueSession,
     HouseholdsKept!Authenticate, HouseholdsKept!FindSession,
     HouseholdsKept!DropSession, HouseholdsKept!RotateInvite,
     HouseholdsKept!FindTarget, HouseholdsKept!DisableMember,
     HouseholdsKept!WipeSessions, HouseholdsKept!ResetPin,
     HouseholdsKept!RecordFailures, HouseholdsKept!Finish, HouseholdsKept!tables,
     HouseholdsKept!Goto, HouseholdsKept!IsLimited, HouseholdsKept!RejectJoin,
     HouseholdsKept!SignIn, HouseholdsKept!NickFree, HouseholdsKept!Mine,
     HouseholdsKept!MineFree, HouseholdsKept!NoJob, HouseholdsKept!NoView
<1>3. UNCHANGED Households!vars => UNCHANGED HouseholdsKept!vars
  BY DEF Households!vars, Households!tables, Households!bounds, HouseholdsKept!vars,
     HouseholdsKept!tables, HouseholdsKept!bounds
<1> QED  BY <1>1, <1>2, <1>3

\* Whatever the other routers do, a step of the server is one of HouseholdAccess or
\* none.
THEOREM ServesHouseholds == Spec => Households!Spec
<1>1. Init => Households!Init
  BY DEF Init
<1>2. [Next]_vars => [Households!Next]_(Households!vars)
  <2>1. UNCHANGED households => UNCHANGED Households!vars
    BY DEF households, Households!vars, Households!tables, Households!bounds
  <2>2. [Next]_vars => Households!Next \/ UNCHANGED households
    BY DEF Next, vars
  <2> QED  BY <2>1, <2>2
<1> QED  BY <1>1, <1>2, PTL DEF Spec, Households!Spec

\* On the whole server, too, the owner stays in charge, nobody gets in but by the
\* code that is valid, and who was put out stays out.
THEOREM HouseholdsHold ==
  Spec => /\ [](/\ HouseholdsKept!OwnerInCharge
                /\ HouseholdsKept!LimitsHold
                /\ HouseholdsKept!SerialSessions)
          /\ HouseholdsKept!AdmittedByCode
          /\ HouseholdsKept!PinOnlyReset
          /\ HouseholdsKept!RevocationFinal
          /\ HouseholdsKept!SerialOwnerActs
<1>1. Spec => HouseholdsKept!Spec
  <2>1. Households!Init => HouseholdsKept!Init
    BY OneHouseholds
  <2>2. [Households!Next]_(Households!vars) => [HouseholdsKept!Next]_(HouseholdsKept!vars)
    BY OneHouseholds
  <2> QED  BY ServesHouseholds, <2>1, <2>2, PTL DEF Households!Spec, HouseholdsKept!Spec
<1>2. HouseholdsKept!IsFiniteSet(Tasks)
  BY TasksAssumption DEF IsFiniteSet, HouseholdsKept!IsFiniteSet
<1>3. HouseholdsKept!Spec => []HouseholdsKept!OwnerInCharge
  BY HouseholdsKept!OwnerStaysInCharge, <1>2, HouseholdsAssumption, MealsAssumption, TasksAssumption
<1>4. HouseholdsKept!Spec => []HouseholdsKept!LimitsHold
  BY HouseholdsKept!LimitsStay, <1>2, HouseholdsAssumption, MealsAssumption, TasksAssumption
<1>5. HouseholdsKept!Spec => []HouseholdsKept!SerialSessions
  BY HouseholdsKept!SessionsCurrent, <1>2, HouseholdsAssumption, MealsAssumption, TasksAssumption
<1>6. HouseholdsKept!Spec => HouseholdsKept!AdmittedByCode
  BY HouseholdsKept!CodeAdmits, <1>2, HouseholdsAssumption, MealsAssumption, TasksAssumption
<1>7. HouseholdsKept!Spec => HouseholdsKept!PinOnlyReset
  BY HouseholdsKept!PinChanges, <1>2, HouseholdsAssumption, MealsAssumption, TasksAssumption
<1>8. HouseholdsKept!Spec => HouseholdsKept!RevocationFinal
  BY HouseholdsKept!RevocationsLast, <1>2, HouseholdsAssumption, MealsAssumption, TasksAssumption
<1>9. HouseholdsKept!Spec => HouseholdsKept!SerialOwnerActs
  BY HouseholdsKept!OnlyOwnerActs, <1>2, HouseholdsAssumption, MealsAssumption, TasksAssumption
<1> QED  BY <1>1, <1>3, <1>4, <1>5, <1>6, <1>7, <1>8, <1>9, PTL

-----------------------------------------------------------------------------
(* The dishes.                                                             *)

CatalogueKept == INSTANCE DishCatalogueProofs WITH
  MaxArrivals <- MaxCatalogue, dishRow <- d_dishRow, columns <- d_columns,
  cooks <- d_cooks, links <- d_links, ingredients <- d_ingredients, aliasOf <- d_aliasOf,
  lock <- d_lock, pc <- d_pc, job <- d_job, view <- d_view, seen <- d_seen,
  asked <- d_asked, arrivals <- d_arrivals, alone <- d_alone

\* The two instances are one.
LEMMA OneCatalogue ==
  /\ Catalogue!Init <=> CatalogueKept!Init
  /\ Catalogue!Next <=> CatalogueKept!Next
  /\ UNCHANGED Catalogue!vars => UNCHANGED CatalogueKept!vars
<1>1. Catalogue!Init <=> CatalogueKept!Init
  BY DEF Catalogue!Init, Catalogue!NoJob, Catalogue!NoView, Catalogue!NoRow,
     Catalogue!NoColumns, Catalogue!NoSetting, CatalogueKept!Init, CatalogueKept!NoJob,
     CatalogueKept!NoView, CatalogueKept!NoRow, CatalogueKept!NoColumns,
     CatalogueKept!NoSetting
<1>2. Catalogue!Next <=> CatalogueKept!Next
  BY DEF Catalogue!Next, Catalogue!ArriveCreate, Catalogue!ArriveUpdate,
     Catalogue!ArriveArchive, Catalogue!ArriveIngredient, Catalogue!Proceed,
     Catalogue!Fail, Catalogue!Lists, Catalogue!Arrive, Catalogue!Load,
     Catalogue!InsertDish, Catalogue!ResolveCooks, Catalogue!ClearRelations,
     Catalogue!CommitDish, Catalogue!ArchiveDish, Catalogue!FindIngredient,
     Catalogue!FindAlias, Catalogue!InsertIngredient, Catalogue!InsertAlias,
     Catalogue!CommitIngredient, Catalogue!BreakDeadlock, Catalogue!Finish,
     Catalogue!tables, Catalogue!bounds, Catalogue!Goto, Catalogue!BlockedBy,
     Catalogue!IsDishJob, Catalogue!Wish, Catalogue!Current, Catalogue!Found,
     Catalogue!NextName, Catalogue!ToInsert, Catalogue!NoJob, Catalogue!NoView,
     Catalogue!NoRow, Catalogue!NoColumns, Catalogue!NoSetting, Catalogue!Written,
     Catalogue!Overtaken, Catalogue!contents,
     CatalogueKept!Next, CatalogueKept!ArriveCreate, CatalogueKept!ArriveUpdate,
     CatalogueKept!ArriveArchive, CatalogueKept!ArriveIngredient,
     CatalogueKept!Proceed, CatalogueKept!Fail, CatalogueKept!Lists,
     CatalogueKept!Arrive, CatalogueKept!Load, CatalogueKept!InsertDish,
     CatalogueKept!ResolveCooks, CatalogueKept!ClearRelations,
     CatalogueKept!CommitDish, CatalogueKept!ArchiveDish,
     CatalogueKept!FindIngredient, CatalogueKept!FindAlias,
     CatalogueKept!InsertIngredient, CatalogueKept!InsertAlias,
     CatalogueKept!CommitIngredient, CatalogueKept!BreakDeadlock,
     CatalogueKept!Finish, CatalogueKept!tables, CatalogueKept!bounds,
     CatalogueKept!Goto, CatalogueKept!BlockedBy, CatalogueKept!IsDishJob,
     CatalogueKept!Wish, CatalogueKept!Current, CatalogueKept!Found,
     CatalogueKept!NextName, CatalogueKept!ToInsert, CatalogueKept!NoJob,
     CatalogueKept!NoView, CatalogueKept!NoRow, CatalogueKept!NoColumns,
     CatalogueKept!NoSetting, CatalogueKept!Written, CatalogueKept!Overtaken,
     CatalogueKept!contents
<1>3. UNCHANGED Catalogue!vars => UNCHANGED CatalogueKept!vars
  BY DEF Catalogue!vars, Catalogue!tables, Catalogue!contents, Catalogue!bounds,
     CatalogueKept!vars, CatalogueKept!tables, CatalogueKept!contents,
     CatalogueKept!bounds
<1> QED  BY <1>1, <1>2, <1>3

\* Whatever the other routers do, a step of the server is one of DishCatalogue or none.
THEOREM ServesCatalogue == Spec => Catalogue!Spec
<1>1. Init => Catalogue!Init
  BY DEF Init
<1>2. [Next]_vars => [Catalogue!Next]_(Catalogue!vars)
  <2>1. UNCHANGED catalogue => UNCHANGED Catalogue!vars
    BY DEF catalogue, Catalogue!vars, Catalogue!tables, Catalogue!contents, Catalogue!bounds
  <2>2. [Next]_vars => Catalogue!Next \/ UNCHANGED catalogue
    BY DEF Next, vars
  <2> QED  BY <2>1, <2>2
<1> QED  BY <1>1, <1>2, PTL DEF Spec, Catalogue!Spec

\* On the whole server, too, the cooks and links of a dish are those of its last
\* request, and its columns are what was set last unless requests that had loaded the
\* row overlap (DishWhole); its links are those which that request asked for
\* (LinksMeant), a name is unambiguous one request at a time (SerialNames), and an
\* archived dish stays archived (ArchiveFinal).
THEOREM CatalogueHolds ==
  Spec => /\ [](/\ CatalogueKept!DishWhole
                /\ CatalogueKept!LinksMeant
                /\ CatalogueKept!SerialNames)
          /\ CatalogueKept!ArchiveFinal
<1>1. Spec => CatalogueKept!Spec
  <2>1. Catalogue!Init => CatalogueKept!Init
    BY OneCatalogue
  <2>2. [Catalogue!Next]_(Catalogue!vars) => [CatalogueKept!Next]_(CatalogueKept!vars)
    BY OneCatalogue
  <2> QED  BY ServesCatalogue, <2>1, <2>2, PTL DEF Catalogue!Spec, CatalogueKept!Spec
<1>2. CatalogueKept!Spec => []CatalogueKept!DishWhole
  BY CatalogueKept!DishesWhole, CatalogueAssumption, TasksAssumption
<1>3. CatalogueKept!Spec => []CatalogueKept!LinksMeant
  BY CatalogueKept!LinksAsAsked, CatalogueAssumption, TasksAssumption
<1>4. CatalogueKept!Spec => []CatalogueKept!SerialNames
  BY CatalogueKept!NamesUnambiguous, CatalogueAssumption, TasksAssumption
<1>5. CatalogueKept!Spec => CatalogueKept!ArchiveFinal
  BY CatalogueKept!ArchivedForGood, CatalogueAssumption, TasksAssumption
<1> QED  BY <1>1, <1>2, <1>3, <1>4, <1>5, PTL
==============================================================================
