--------------------------- MODULE MealSlotProofs ---------------------------
(***************************************************************************)
(* Proofs about MealSlot for every number of tasks, members and dishes,    *)
(* every set of expected versions and every bound on the arrivals.         *)
(***************************************************************************)
EXTENDS MealSlot, TLAPS

\* The fields of a job: a job without a member (NoJob) names no dish.
LEMMA JobFields ==
  ASSUME NEW j \in Jobs \cup {NoJob}
  PROVE  /\ j.member \in Members \cup {NoOne}
         /\ j.dishes \in SUBSET Dishes
         /\ j.expected \in Nat
         /\ {j.member} \X j.dishes \subseteq Members \X Dishes
         /\ j.op = "none" <=> j = NoJob
         /\ j # NoJob => j.member \in Members
         /\ j.op \in {"request", "withdraw"} => \E d \in Dishes : j.dishes = {d}
         /\ j.op \in {"none", "request", "withdraw", "confirm"}
  <1>1. CASE j = NoJob
    BY <1>1 DEF NoJob
  <1>2. CASE j \in OneDish("request") \cup OneDish("withdraw")
    BY <1>2 DEF OneDish, NoJob
  <1>3. CASE j \in Confirms
    <2>1. /\ j.op = "confirm" /\ j.member \in Members
          /\ j.dishes \in SUBSET Dishes /\ j.expected \in Expected
      BY <1>3 DEF Confirms
    <2>2. {j.member} \X j.dishes \subseteq Members \X Dishes
      BY <2>1
    <2>3. j # NoJob
      BY <2>1 DEF NoJob
    <2> QED BY <2>1, <2>2, <2>3, ExpectedAssumption
  <1> QED BY <1>1, <1>2, <1>3 DEF Jobs

\* The dish set, member and version of a task's job have their types.
LEMMA RowType ==
  ASSUME TypeOK, NEW t \in Tasks
  PROVE  /\ Row(t) \subseteq Members \X Dishes
         /\ job[t].dishes \in SUBSET Dishes
         /\ job[t].member \in Members \cup {NoOne}
         /\ job[t].expected \in Nat
  BY JobFields DEF TypeOK, Row

\* Answer keeps the types of what it changes.
LEMMA AnswerType ==
  ASSUME TypeOK, NEW t \in Tasks, NEW kind \in Replies, NEW v \in Nat, Answer(t, kind, v)
  PROVE  /\ pc' \in [Tasks -> Labels]
         /\ job' \in [Tasks -> Jobs \cup {NoJob}]
         /\ saw' \in [Tasks -> Sights]
         /\ reply' \in [Tasks -> [kind : Replies, version : Nat]]
  <1>1. NoSight \in Sights
    BY DEF NoSight, Sights, Statuses
  <1> QED BY <1>1 DEF Answer, TypeOK, Labels

\* Every step keeps the types.
LEMMA TypeStep == TypeOK /\ [Next]_vars => TypeOK'
  <1> SUFFICES ASSUME TypeOK, [Next]_vars PROVE TypeOK'
    OBVIOUS
  <1> USE DEF TypeOK, Sights
  <1>1. ASSUME NEW t \in Tasks, Arrive(t) PROVE TypeOK'
    BY <1>1 DEF Arrive, Goto, tables, Labels, NoReply, Replies
  <1>2. ASSUME NEW t \in Tasks, Load(t) PROVE TypeOK'
    <2>1. CASE job[t].op = "confirm" /\ job[t].dishes = {}
      BY <1>2, <2>1, AnswerType DEF Load, tables, Replies
    <2>2. CASE ~ (job[t].op = "confirm" /\ job[t].dishes = {})
      <3>1. pc' \in [Tasks -> Labels]
        BY <1>2, <2>2 DEF Load, Labels
      <3>2. saw' \in [Tasks -> Sights]
        <4>1. [status |-> status, version |-> version, todo |-> job[t].dishes,
               first |-> FALSE, last |-> FALSE] \in Sights
          BY RowType
        <4> QED BY <1>2, <2>2, <4>1 DEF Load
      <3> QED BY <1>2, <2>2, <3>1, <3>2 DEF Load, tables
    <2> QED BY <2>1, <2>2
  <1>3. ASSUME NEW t \in Tasks, CheckDish(t) PROVE TypeOK'
    <2>1. PICK d \in saw[t].todo : 
            IF d \in active
              THEN /\ saw' = [saw EXCEPT ![t].todo = @ \ {d}]
                   /\ pc' = [pc EXCEPT ![t] = IF saw[t].todo = {d} THEN AfterDishes(t)
                                                                  ELSE "dish"]
                   /\ UNCHANGED <<job, reply>>
              ELSE Answer(t, "invalid", 0)
      BY <1>3 DEF CheckDish
    <2>2. CASE d \in active
      <3>1. pc' \in [Tasks -> Labels]
        BY <2>1, <2>2 DEF AfterDishes, Labels
      <3>2. saw' \in [Tasks -> Sights]
        BY <2>1, <2>2
      <3> QED BY <1>3, <2>1, <2>2, <3>1, <3>2 DEF CheckDish, tables
    <2>3. CASE d \notin active
      BY <1>3, <2>1, <2>3, AnswerType DEF CheckDish, tables, Replies
    <2> QED BY <2>2, <2>3
  <1>4. ASSUME NEW t \in Tasks, FindOwn(t) PROVE TypeOK'
    <2>1. CASE Answer(t, "ok", 0)
      BY <1>4, <2>1, AnswerType DEF FindOwn, tables, Replies
    <2>2. CASE ~ Answer(t, "ok", 0)
      <3>1. /\ \/ pc' = [pc EXCEPT ![t] = "reload"]
               \/ pc' = [pc EXCEPT ![t] = "prior"]
               \/ pc' = [pc EXCEPT ![t] = "delete"]
            /\ UNCHANGED <<job, saw, reply>>
            /\ UNCHANGED <<tables, lock, arrivals, alone>>
        BY <1>4, <2>2 DEF FindOwn
      <3> QED BY <3>1 DEF tables, Labels
    <2> QED BY <2>1, <2>2
  <1>5. ASSUME NEW t \in Tasks, CheckPrior(t) PROVE TypeOK'
    <2>1. (requests = {}) \in BOOLEAN
      OBVIOUS
    <2>2. ASSUME NEW b \in BOOLEAN PROVE [saw EXCEPT ![t].first = b] \in [Tasks -> Sights]
      OBVIOUS
    <2>3. saw' \in [Tasks -> Sights]
      BY <1>5, <2>1, <2>2, Zenon DEF CheckPrior
    <2> QED BY <1>5, <2>3 DEF CheckPrior, Goto, tables, Labels
  <1>6. ASSUME NEW t \in Tasks, InsertRequest(t) PROVE TypeOK'
    <2>1. pc' \in [Tasks -> Labels] /\ status' \in Statuses /\ requests' \subseteq Members \X Dishes
      BY <1>6, RowType DEF InsertRequest, tables, Labels, Statuses
    <2>2. events' \in [EventNames -> Nat]
      BY <1>6 DEF InsertRequest, Count, tables, EventNames
    <2> QED BY <1>6, <2>1, <2>2 DEF InsertRequest, tables
  <1>7. ASSUME NEW t \in Tasks, Recover(t) PROVE TypeOK'
    BY <1>7 DEF Recover, Goto, tables, Labels
  <1>8. ASSUME NEW t \in Tasks, Repair(t) PROVE TypeOK'
    BY <1>8 DEF Repair, Goto, tables, Labels, Statuses
  <1>9. ASSUME NEW t \in Tasks, Reload(t) PROVE TypeOK'
    BY <1>9, AnswerType DEF Reload, tables, Replies
  <1>10. ASSUME NEW t \in Tasks, DeleteRequest(t) PROVE TypeOK'
    BY <1>10 DEF DeleteRequest, Goto, tables, Labels
  <1>11. ASSUME NEW t \in Tasks, CheckRemaining(t) PROVE TypeOK'
    <2>1. (requests \subseteq Row(t)) \in BOOLEAN
      OBVIOUS
    <2>2. saw' \in [Tasks -> Sights]
      BY <1>11, <2>1 DEF CheckRemaining
    <2> QED BY <1>11, <2>2 DEF CheckRemaining, Goto, tables, Labels
  <1>12. ASSUME NEW t \in Tasks, WithdrawRequest(t) PROVE TypeOK'
    BY <1>12, AnswerType DEF WithdrawRequest, Replies, Statuses
  <1>13. ASSUME NEW t \in Tasks, ClaimVersion(t) PROVE TypeOK'
    BY <1>13 DEF ClaimVersion, tables, Labels
  <1>14. ASSUME NEW t \in Tasks, AnswerConflict(t) PROVE TypeOK'
    BY <1>14, AnswerType DEF AnswerConflict, tables, Replies
  <1>15. ASSUME NEW t \in Tasks, ReplaceMenu(t) PROVE TypeOK'
    BY <1>15, RowType DEF ReplaceMenu, Goto, Count, Labels, Statuses, EventNames
  <1>16. ASSUME NEW t \in Tasks, Fail(t) PROVE TypeOK'
    BY <1>16, AnswerType DEF Fail, tables, Replies
  <1>17. ASSUME NEW d \in Dishes, ArchiveDish(d) PROVE TypeOK'
    BY <1>17 DEF ArchiveDish, slotRow
  <1>18. CASE UNCHANGED vars
    BY <1>18 DEF vars, tables
  <1> QED
    BY <1>1, <1>2, <1>3, <1>4, <1>5, <1>6, <1>7, <1>8, <1>9, <1>10, <1>11, <1>12,
       <1>13, <1>14, <1>15, <1>16, <1>17, <1>18 DEF Next, Proceed

LEMMA TypeInit == Init => TypeOK
  BY ArrivalsAssumption DEF Init, Sights, TypeOK, Statuses, EventNames, Labels, NoSight, NoReply, Replies

\* The variables of the slot, its rows, its tasks and its events keep their
\* types in every behaviour.
THEOREM TypeCorrect == Spec => []TypeOK
  <1>1. Init => TypeOK
    BY TypeInit
  <1>2. TypeOK /\ [Next]_vars => TypeOK'
    BY TypeStep
  <1> QED BY <1>1, <1>2, PTL DEF Spec

-----------------------------------------------------------------------------
(* The strengthening that makes the safety properties inductive.           *)

\* A task runs only the statements of the handler its job belongs to.
JobFits ==
  \A t \in Tasks :
    /\ pc[t] = "idle" <=> job[t] = NoJob
    /\ pc[t] \in {"prior", "insert", "recover", "repair"} => job[t].op = "request"
    /\ pc[t] \in {"delete", "remaining", "withdraw"} => job[t].op = "withdraw"
    /\ pc[t] \in {"claim", "conflict", "replace"} => job[t].op = "confirm" /\ job[t].dishes # {}
    /\ pc[t] = "dish" => job[t].op \in {"request", "confirm"} /\ job[t].dishes # {}
    /\ pc[t] = "own" => job[t].op \in {"request", "withdraw"}

\* A task that found earlier requests inserts after the event of the first.
PriorSeen == \A t \in Tasks : pc[t] = "insert" /\ ~ saw[t].first => events["first_request_added"] > 0

\* A confirmation has read a version no later than the committed one; once
\* its claim has failed or its menu is committed, its answer is settled.
AnswerSettled ==
  \A t \in Tasks :
    job[t].op = "confirm" =>
      /\ pc[t] \notin {"idle", "load"} => saw[t].version <= version
      /\ pc[t] = "conflict" => version > job[t].expected \/ saw[t].version < job[t].expected
      /\ pc[t] = "reload" => version > job[t].expected

\* Every step keeps tasks inside their handlers.
LEMMA JobFitsStep == TypeOK /\ JobFits /\ [Next]_vars => JobFits'
  <1> SUFFICES ASSUME TypeOK /\ JobFits, [Next]_vars PROVE JobFits'
    OBVIOUS
  <1> USE DEF TypeOK, JobFits, Labels
  <1>1. ASSUME NEW t \in Tasks, Arrive(t) PROVE JobFits'
    <2>1. NoJob \notin Jobs
      BY DEF NoJob, Jobs, OneDish, Confirms
    <2> QED BY <1>1, <2>1 DEF Arrive, Goto, tables
  <1>2. ASSUME NEW t \in Tasks, Load(t) PROVE JobFits'
    <2>1. /\ job[t].op \in {"request", "withdraw", "confirm"}
          /\ job[t].op = "request" => job[t].dishes # {}
      BY <1>2, JobFields DEF Load
    <2> QED BY <1>2, <2>1 DEF Load, Answer, tables
  <1>3. ASSUME NEW t \in Tasks, CheckDish(t) PROVE JobFits'
    BY <1>3 DEF CheckDish, Answer, AfterDishes, tables
  <1>4. ASSUME NEW t \in Tasks, FindOwn(t) PROVE JobFits'
    BY <1>4 DEF FindOwn, Answer, tables
  <1>5. ASSUME NEW t \in Tasks, CheckPrior(t) PROVE JobFits'
    BY <1>5 DEF CheckPrior, Goto, tables
  <1>6. ASSUME NEW t \in Tasks, InsertRequest(t) PROVE JobFits'
    BY <1>6 DEF InsertRequest, Count, tables
  <1>7. ASSUME NEW t \in Tasks, Recover(t) PROVE JobFits'
    BY <1>7 DEF Recover, Goto, tables
  <1>8. ASSUME NEW t \in Tasks, Repair(t) PROVE JobFits'
    BY <1>8 DEF Repair, Goto, tables
  <1>9. ASSUME NEW t \in Tasks, Reload(t) PROVE JobFits'
    BY <1>9 DEF Reload, Answer, tables
  <1>10. ASSUME NEW t \in Tasks, DeleteRequest(t) PROVE JobFits'
    BY <1>10 DEF DeleteRequest, Goto, tables
  <1>11. ASSUME NEW t \in Tasks, CheckRemaining(t) PROVE JobFits'
    BY <1>11 DEF CheckRemaining, Goto, tables
  <1>12. ASSUME NEW t \in Tasks, WithdrawRequest(t) PROVE JobFits'
    BY <1>12 DEF WithdrawRequest, Answer, tables
  <1>13. ASSUME NEW t \in Tasks, ClaimVersion(t) PROVE JobFits'
    BY <1>13 DEF ClaimVersion, tables
  <1>14. ASSUME NEW t \in Tasks, AnswerConflict(t) PROVE JobFits'
    BY <1>14 DEF AnswerConflict, Answer, tables
  <1>15. ASSUME NEW t \in Tasks, ReplaceMenu(t) PROVE JobFits'
    BY <1>15 DEF ReplaceMenu, Goto, Count, tables
  <1>16. ASSUME NEW t \in Tasks, Fail(t) PROVE JobFits'
    BY <1>16 DEF Fail, Answer, tables
  <1>17. ASSUME NEW d \in Dishes, ArchiveDish(d) PROVE JobFits'
    BY <1>17 DEF ArchiveDish, slotRow, tables
  <1>18. CASE UNCHANGED vars
    BY <1>18 DEF vars, tables
  <1> QED
    BY <1>1, <1>2, <1>3, <1>4, <1>5, <1>6, <1>7, <1>8, <1>9, <1>10, <1>11, <1>12,
       <1>13, <1>14, <1>15, <1>16, <1>17, <1>18 DEF Next, Proceed

\* The row lock belongs to the one task that may write the version.
LEMMA ClaimStep == TypeOK /\ JobFits /\ ClaimHolds /\ [Next]_vars => ClaimHolds'
  <1> SUFFICES ASSUME TypeOK /\ JobFits /\ ClaimHolds, [Next]_vars PROVE ClaimHolds'
    OBVIOUS
  <1> USE DEF TypeOK, ClaimHolds, Labels
  <1>1. ASSUME NEW t \in Tasks, Arrive(t) PROVE ClaimHolds'
    BY <1>1 DEF Arrive, Goto, tables
  <1>2. ASSUME NEW t \in Tasks, Load(t) PROVE ClaimHolds'
    BY <1>2 DEF Load, Answer, tables
  <1>3. ASSUME NEW t \in Tasks, CheckDish(t) PROVE ClaimHolds'
    BY <1>3 DEF CheckDish, Answer, AfterDishes, tables
  <1>4. ASSUME NEW t \in Tasks, FindOwn(t) PROVE ClaimHolds'
    BY <1>4 DEF FindOwn, Answer, tables
  <1>5. ASSUME NEW t \in Tasks, CheckPrior(t) PROVE ClaimHolds'
    BY <1>5 DEF CheckPrior, Goto, tables
  <1>6. ASSUME NEW t \in Tasks, InsertRequest(t) PROVE ClaimHolds'
    BY <1>6 DEF InsertRequest, Count, tables
  <1>7. ASSUME NEW t \in Tasks, Recover(t) PROVE ClaimHolds'
    BY <1>7 DEF Recover, Goto, tables
  <1>8. ASSUME NEW t \in Tasks, Repair(t) PROVE ClaimHolds'
    BY <1>8 DEF Repair, Goto, tables
  <1>9. ASSUME NEW t \in Tasks, Reload(t) PROVE ClaimHolds'
    BY <1>9 DEF Reload, Answer, tables
  <1>10. ASSUME NEW t \in Tasks, DeleteRequest(t) PROVE ClaimHolds'
    BY <1>10 DEF DeleteRequest, Goto, tables
  <1>11. ASSUME NEW t \in Tasks, CheckRemaining(t) PROVE ClaimHolds'
    BY <1>11 DEF CheckRemaining, Goto, tables
  <1>12. ASSUME NEW t \in Tasks, WithdrawRequest(t) PROVE ClaimHolds'
    BY <1>12 DEF WithdrawRequest, Answer, tables
  <1>13. ASSUME NEW t \in Tasks, ClaimVersion(t) PROVE ClaimHolds'
    BY <1>13, NoTaskAssumption DEF ClaimVersion, tables
  <1>14. ASSUME NEW t \in Tasks, AnswerConflict(t) PROVE ClaimHolds'
    BY <1>14 DEF AnswerConflict, Answer, tables
  <1>15. ASSUME NEW t \in Tasks, ReplaceMenu(t) PROVE ClaimHolds'
    BY <1>15, NoTaskAssumption DEF ReplaceMenu, Goto, Count, tables
  <1>16. ASSUME NEW t \in Tasks, Fail(t) PROVE ClaimHolds'
    BY <1>16, NoTaskAssumption DEF Fail, Answer, tables
  <1>17. ASSUME NEW d \in Dishes, ArchiveDish(d) PROVE ClaimHolds'
    BY <1>17 DEF ArchiveDish, slotRow, tables
  <1>18. CASE UNCHANGED vars
    BY <1>18 DEF vars, tables
  <1> QED
    BY <1>1, <1>2, <1>3, <1>4, <1>5, <1>6, <1>7, <1>8, <1>9, <1>10, <1>11, <1>12,
       <1>13, <1>14, <1>15, <1>16, <1>17, <1>18 DEF Next, Proceed

\* Only a committed claim changes what the version stands for.
LEMMA MenuStep == TypeOK /\ JobFits /\ ClaimHolds /\ MenuOfVersion /\ [Next]_vars => MenuOfVersion'
  <1> SUFFICES ASSUME TypeOK /\ JobFits /\ ClaimHolds /\ MenuOfVersion, [Next]_vars PROVE MenuOfVersion'
    OBVIOUS
  <1> USE DEF TypeOK, JobFits, ClaimHolds, MenuOfVersion, EventNames
  <1>1. ASSUME NEW t \in Tasks, Arrive(t) PROVE MenuOfVersion'
    BY <1>1 DEF Arrive, Goto, tables
  <1>2. ASSUME NEW t \in Tasks, Load(t) PROVE MenuOfVersion'
    BY <1>2 DEF Load, Answer, tables
  <1>3. ASSUME NEW t \in Tasks, CheckDish(t) PROVE MenuOfVersion'
    BY <1>3 DEF CheckDish, Answer, AfterDishes, tables
  <1>4. ASSUME NEW t \in Tasks, FindOwn(t) PROVE MenuOfVersion'
    BY <1>4 DEF FindOwn, Answer, tables
  <1>5. ASSUME NEW t \in Tasks, CheckPrior(t) PROVE MenuOfVersion'
    BY <1>5 DEF CheckPrior, Goto, tables
  <1>6. ASSUME NEW t \in Tasks, InsertRequest(t) PROVE MenuOfVersion'
    BY <1>6 DEF InsertRequest, Count, tables
  <1>7. ASSUME NEW t \in Tasks, Recover(t) PROVE MenuOfVersion'
    BY <1>7 DEF Recover, Goto, tables
  <1>8. ASSUME NEW t \in Tasks, Repair(t) PROVE MenuOfVersion'
    BY <1>8 DEF Repair, Goto, tables
  <1>9. ASSUME NEW t \in Tasks, Reload(t) PROVE MenuOfVersion'
    BY <1>9 DEF Reload, Answer, tables
  <1>10. ASSUME NEW t \in Tasks, DeleteRequest(t) PROVE MenuOfVersion'
    BY <1>10 DEF DeleteRequest, Goto, tables
  <1>11. ASSUME NEW t \in Tasks, CheckRemaining(t) PROVE MenuOfVersion'
    BY <1>11 DEF CheckRemaining, Goto, tables
  <1>12. ASSUME NEW t \in Tasks, WithdrawRequest(t) PROVE MenuOfVersion'
    BY <1>12 DEF WithdrawRequest, Answer, tables
  <1>13. ASSUME NEW t \in Tasks, ClaimVersion(t) PROVE MenuOfVersion'
    BY <1>13 DEF ClaimVersion, tables
  <1>14. ASSUME NEW t \in Tasks, AnswerConflict(t) PROVE MenuOfVersion'
    BY <1>14 DEF AnswerConflict, Answer, tables
  <1>15. ASSUME NEW t \in Tasks, ReplaceMenu(t) PROVE MenuOfVersion'
    BY <1>15, RowType, NoOneAssumption, JobFields DEF ReplaceMenu, Goto, Count, tables
  <1>16. ASSUME NEW t \in Tasks, Fail(t) PROVE MenuOfVersion'
    BY <1>16 DEF Fail, Answer, tables
  <1>17. ASSUME NEW d \in Dishes, ArchiveDish(d) PROVE MenuOfVersion'
    BY <1>17 DEF ArchiveDish, slotRow, tables
  <1>18. CASE UNCHANGED vars
    BY <1>18 DEF vars, tables
  <1> QED
    BY <1>1, <1>2, <1>3, <1>4, <1>5, <1>6, <1>7, <1>8, <1>9, <1>10, <1>11, <1>12,
       <1>13, <1>14, <1>15, <1>16, <1>17, <1>18 DEF Next, Proceed

\* Events are never removed, and the first insert records one.
LEMMA FirstStep == TypeOK /\ JobFits /\ FirstRequestRecorded /\ PriorSeen /\ [Next]_vars => (FirstRequestRecorded /\ PriorSeen)'
  <1> SUFFICES ASSUME TypeOK /\ JobFits /\ FirstRequestRecorded /\ PriorSeen, [Next]_vars PROVE (FirstRequestRecorded /\ PriorSeen)'
    OBVIOUS
  <1> USE DEF TypeOK, JobFits, FirstRequestRecorded, PriorSeen, EventNames
  <1>1. ASSUME NEW t \in Tasks, Arrive(t) PROVE (FirstRequestRecorded /\ PriorSeen)'
    BY <1>1 DEF Arrive, Goto, tables
  <1>2. ASSUME NEW t \in Tasks, Load(t) PROVE (FirstRequestRecorded /\ PriorSeen)'
    BY <1>2 DEF Load, Answer, tables
  <1>3. ASSUME NEW t \in Tasks, CheckDish(t) PROVE (FirstRequestRecorded /\ PriorSeen)'
    BY <1>3 DEF CheckDish, Answer, AfterDishes, tables
  <1>4. ASSUME NEW t \in Tasks, FindOwn(t) PROVE (FirstRequestRecorded /\ PriorSeen)'
    BY <1>4 DEF FindOwn, Answer, tables
  <1>5. ASSUME NEW t \in Tasks, CheckPrior(t) PROVE (FirstRequestRecorded /\ PriorSeen)'
    <2>1. /\ saw'[t].first = (requests = {})
          /\ \A u \in Tasks \ {t} : saw'[u] = saw[u] /\ pc'[u] = pc[u]
          /\ UNCHANGED <<requests, events>>
      BY <1>5 DEF CheckPrior, Goto, tables
    <2> QED BY <2>1, Zenon
  <1>6. ASSUME NEW t \in Tasks, InsertRequest(t) PROVE (FirstRequestRecorded /\ PriorSeen)'
    BY <1>6 DEF InsertRequest, Count, tables
  <1>7. ASSUME NEW t \in Tasks, Recover(t) PROVE (FirstRequestRecorded /\ PriorSeen)'
    BY <1>7 DEF Recover, Goto, tables
  <1>8. ASSUME NEW t \in Tasks, Repair(t) PROVE (FirstRequestRecorded /\ PriorSeen)'
    BY <1>8 DEF Repair, Goto, tables
  <1>9. ASSUME NEW t \in Tasks, Reload(t) PROVE (FirstRequestRecorded /\ PriorSeen)'
    BY <1>9 DEF Reload, Answer, tables
  <1>10. ASSUME NEW t \in Tasks, DeleteRequest(t) PROVE (FirstRequestRecorded /\ PriorSeen)'
    BY <1>10 DEF DeleteRequest, Goto, tables
  <1>11. ASSUME NEW t \in Tasks, CheckRemaining(t) PROVE (FirstRequestRecorded /\ PriorSeen)'
    BY <1>11 DEF CheckRemaining, Goto, tables
  <1>12. ASSUME NEW t \in Tasks, WithdrawRequest(t) PROVE (FirstRequestRecorded /\ PriorSeen)'
    BY <1>12 DEF WithdrawRequest, Answer, tables
  <1>13. ASSUME NEW t \in Tasks, ClaimVersion(t) PROVE (FirstRequestRecorded /\ PriorSeen)'
    BY <1>13 DEF ClaimVersion, tables
  <1>14. ASSUME NEW t \in Tasks, AnswerConflict(t) PROVE (FirstRequestRecorded /\ PriorSeen)'
    BY <1>14 DEF AnswerConflict, Answer, tables
  <1>15. ASSUME NEW t \in Tasks, ReplaceMenu(t) PROVE (FirstRequestRecorded /\ PriorSeen)'
    BY <1>15 DEF ReplaceMenu, Goto, Count, tables
  <1>16. ASSUME NEW t \in Tasks, Fail(t) PROVE (FirstRequestRecorded /\ PriorSeen)'
    BY <1>16 DEF Fail, Answer, tables
  <1>17. ASSUME NEW d \in Dishes, ArchiveDish(d) PROVE (FirstRequestRecorded /\ PriorSeen)'
    BY <1>17 DEF ArchiveDish, slotRow, tables
  <1>18. CASE UNCHANGED vars
    BY <1>18 DEF vars, tables
  <1> QED
    BY <1>1, <1>2, <1>3, <1>4, <1>5, <1>6, <1>7, <1>8, <1>9, <1>10, <1>11, <1>12,
       <1>13, <1>14, <1>15, <1>16, <1>17, <1>18 DEF Next, Proceed

\* The committed version only grows, so what a confirmation learnt stays true.
LEMMA AnswerStep == TypeOK /\ JobFits /\ ClaimHolds /\ AnswerSettled /\ [Next]_vars => AnswerSettled'
  <1> SUFFICES ASSUME TypeOK /\ JobFits /\ ClaimHolds /\ AnswerSettled, [Next]_vars PROVE AnswerSettled'
    OBVIOUS
  <1> USE DEF TypeOK, JobFits, ClaimHolds, AnswerSettled, Labels
  <1>1. ASSUME NEW t \in Tasks, Arrive(t) PROVE AnswerSettled'
    BY <1>1 DEF Arrive, Goto, tables
  <1>2. ASSUME NEW t \in Tasks, Load(t) PROVE AnswerSettled'
    BY <1>2, JobFields DEF Load, Answer, tables
  <1>3. ASSUME NEW t \in Tasks, CheckDish(t) PROVE AnswerSettled'
    <2>1. \/ job'[t] = NoJob /\ pc'[t] = "idle"
          \/ /\ job' = job
             /\ saw'[t].version = saw[t].version
             /\ pc'[t] \in {"dish", "own", "claim"}
      <3>1. PICK d \in saw[t].todo :
              IF d \in active
                THEN /\ saw' = [saw EXCEPT ![t].todo = @ \ {d}]
                     /\ pc' = [pc EXCEPT ![t] = IF saw[t].todo = {d} THEN AfterDishes(t)
                                                                    ELSE "dish"]
                     /\ UNCHANGED <<job, reply>>
                ELSE Answer(t, "invalid", 0)
        BY <1>3 DEF CheckDish
      <3>2. CASE d \in active
        BY <3>1, <3>2 DEF AfterDishes, Sights
      <3>3. CASE d \notin active
        BY <3>1, <3>3 DEF Answer
      <3> QED BY <3>2, <3>3
    <2>2. /\ \A u \in Tasks \ {t} : saw'[u] = saw[u] /\ pc'[u] = pc[u] /\ job'[u] = job[u]
          /\ pc[t] = "dish" /\ UNCHANGED version
      BY <1>3 DEF CheckDish, Answer, AfterDishes, tables
    <2>3. NoJob.op # "confirm"
      BY DEF NoJob
    <2> QED BY <2>1, <2>2, <2>3
  <1>4. ASSUME NEW t \in Tasks, FindOwn(t) PROVE AnswerSettled'
    BY <1>4 DEF FindOwn, Answer, tables
  <1>5. ASSUME NEW t \in Tasks, CheckPrior(t) PROVE AnswerSettled'
    BY <1>5 DEF CheckPrior, Goto, tables
  <1>6. ASSUME NEW t \in Tasks, InsertRequest(t) PROVE AnswerSettled'
    BY <1>6 DEF InsertRequest, Count, tables
  <1>7. ASSUME NEW t \in Tasks, Recover(t) PROVE AnswerSettled'
    BY <1>7 DEF Recover, Goto, tables
  <1>8. ASSUME NEW t \in Tasks, Repair(t) PROVE AnswerSettled'
    BY <1>8 DEF Repair, Goto, tables
  <1>9. ASSUME NEW t \in Tasks, Reload(t) PROVE AnswerSettled'
    BY <1>9 DEF Reload, Answer, tables
  <1>10. ASSUME NEW t \in Tasks, DeleteRequest(t) PROVE AnswerSettled'
    BY <1>10 DEF DeleteRequest, Goto, tables
  <1>11. ASSUME NEW t \in Tasks, CheckRemaining(t) PROVE AnswerSettled'
    BY <1>11 DEF CheckRemaining, Goto, tables
  <1>12. ASSUME NEW t \in Tasks, WithdrawRequest(t) PROVE AnswerSettled'
    BY <1>12 DEF WithdrawRequest, Answer, tables
  <1>13. ASSUME NEW t \in Tasks, ClaimVersion(t) PROVE AnswerSettled'
    <2>1. \A u \in Tasks : job[u].expected \in Nat /\ saw[u].version \in Nat
      BY RowType DEF Sights
    <2>2. /\ UNCHANGED <<version, job, saw>> /\ pc[t] = "claim"
          /\ \A u \in Tasks \ {t} : pc'[u] = pc[u]
          /\ \/ pc'[t] = "replace"
             \/ pc'[t] = "conflict" /\ version # job[t].expected
      BY <1>13 DEF ClaimVersion, tables
    <2>3. version > job[t].expected \/ saw[t].version < job[t].expected \/ version = job[t].expected
          \/ job[t].op # "confirm"
      <3>1. job[t].op = "confirm" => saw[t].version <= version
        BY <2>2
      <3>2. version \in Nat /\ job[t].expected \in Nat /\ saw[t].version \in Nat
        BY <2>1
      <3> HIDE DEF TypeOK, AnswerSettled
      <3> QED BY <3>1, <3>2
    <2> QED BY <2>1, <2>2, <2>3
  <1>14. ASSUME NEW t \in Tasks, AnswerConflict(t) PROVE AnswerSettled'
    BY <1>14 DEF AnswerConflict, Answer, tables
  <1>15. ASSUME NEW t \in Tasks, ReplaceMenu(t) PROVE AnswerSettled'
    <2>1. \A u \in Tasks : job[u].expected \in Nat /\ saw[u].version \in Nat
      BY RowType DEF Sights
    <2>2. version' = version + 1 /\ version = job[t].expected
      BY <1>15 DEF ReplaceMenu, Goto
    <2> QED BY <1>15, <2>1, <2>2 DEF ReplaceMenu, Goto
  <1>16. ASSUME NEW t \in Tasks, Fail(t) PROVE AnswerSettled'
    BY <1>16 DEF Fail, Answer, tables
  <1>17. ASSUME NEW d \in Dishes, ArchiveDish(d) PROVE AnswerSettled'
    BY <1>17 DEF ArchiveDish, slotRow, tables
  <1>18. CASE UNCHANGED vars
    BY <1>18 DEF vars, tables
  <1> QED
    BY <1>1, <1>2, <1>3, <1>4, <1>5, <1>6, <1>7, <1>8, <1>9, <1>10, <1>11, <1>12,
       <1>13, <1>14, <1>15, <1>16, <1>17, <1>18 DEF Next, Proceed

-----------------------------------------------------------------------------
(* The safety properties.                                                  *)

SlotInv ==
  /\ TypeOK
  /\ JobFits
  /\ ClaimHolds
  /\ MenuOfVersion
  /\ FirstRequestRecorded /\ PriorSeen
  /\ AnswerSettled

LEMMA SlotInvInit == Init => SlotInv
  <1> SUFFICES ASSUME Init PROVE SlotInv
    OBVIOUS
  <1>1. TypeOK
    BY TypeInit
  <1>2. JobFits /\ ClaimHolds /\ PriorSeen /\ AnswerSettled
    BY NoTaskAssumption DEF Init, JobFits, ClaimHolds, PriorSeen, AnswerSettled, NoJob
  <1>3. MenuOfVersion /\ FirstRequestRecorded
    BY DEF Init, MenuOfVersion, FirstRequestRecorded, EventNames
  <1> QED BY <1>1, <1>2, <1>3 DEF SlotInv

LEMMA SlotInvStep == SlotInv /\ [Next]_vars => SlotInv'
  BY TypeStep, JobFitsStep, ClaimStep, MenuStep, FirstStep, AnswerStep DEF SlotInv

LEMMA SlotInvariant == Spec => []SlotInv
  <1>1. Spec => Init /\ [][Next]_vars
    BY DEF Spec
  <1> QED BY <1>1, SlotInvInit, SlotInvStep, PTL

\* Two writers with the same expected_version cannot both commit.
THEOREM ClaimsExclude == Spec => []ClaimHolds
  <1>1. SlotInv => ClaimHolds
    BY DEF SlotInv
  <1> QED BY <1>1, SlotInvariant, PTL

\* Version, menu, last editor, status and event log agree in every state.
THEOREM MenuAgrees == Spec => []MenuOfVersion
  <1>1. SlotInv => MenuOfVersion
    BY DEF SlotInv
  <1> QED BY <1>1, SlotInvariant, PTL

\* No slot has requests without a first_request_added event.
THEOREM FirstRequestSeen == Spec => []FirstRequestRecorded
  <1>1. SlotInv => FirstRequestRecorded
    BY DEF SlotInv
  <1> QED BY <1>1, SlotInvariant, PTL

-----------------------------------------------------------------------------
(* The action properties and the refinement.                               *)

\* Of all steps only ReplaceMenu touches the menu, its version and editor.
LEMMA MenuUntouched ==
  ASSUME SlotInv, [Next]_vars, \A t \in Tasks : ~ ReplaceMenu(t)
  PROVE  UNCHANGED <<version, editor, menu>>
  <1>1. ASSUME NEW t \in Tasks, Arrive(t) PROVE UNCHANGED <<version, editor, menu>>
    BY <1>1 DEF Arrive, tables
  <1>2. ASSUME NEW t \in Tasks, Load(t) PROVE UNCHANGED <<version, editor, menu>>
    BY <1>2 DEF Load, tables
  <1>3. ASSUME NEW t \in Tasks, CheckDish(t) PROVE UNCHANGED <<version, editor, menu>>
    BY <1>3 DEF CheckDish, tables
  <1>4. ASSUME NEW t \in Tasks, FindOwn(t) PROVE UNCHANGED <<version, editor, menu>>
    BY <1>4 DEF FindOwn, tables
  <1>5. ASSUME NEW t \in Tasks, CheckPrior(t) PROVE UNCHANGED <<version, editor, menu>>
    BY <1>5 DEF CheckPrior, tables
  <1>6. ASSUME NEW t \in Tasks, InsertRequest(t) PROVE UNCHANGED <<version, editor, menu>>
    BY <1>6 DEF InsertRequest, tables
  <1>7. ASSUME NEW t \in Tasks, Recover(t) PROVE UNCHANGED <<version, editor, menu>>
    BY <1>7 DEF Recover, tables
  <1>8. ASSUME NEW t \in Tasks, Repair(t) PROVE UNCHANGED <<version, editor, menu>>
    BY <1>8 DEF Repair, tables
  <1>9. ASSUME NEW t \in Tasks, Reload(t) PROVE UNCHANGED <<version, editor, menu>>
    BY <1>9 DEF Reload, tables
  <1>10. ASSUME NEW t \in Tasks, DeleteRequest(t) PROVE UNCHANGED <<version, editor, menu>>
    BY <1>10 DEF DeleteRequest, tables
  <1>11. ASSUME NEW t \in Tasks, CheckRemaining(t) PROVE UNCHANGED <<version, editor, menu>>
    BY <1>11 DEF CheckRemaining, tables
  <1>12. ASSUME NEW t \in Tasks, WithdrawRequest(t) PROVE UNCHANGED <<version, editor, menu>>
    BY <1>12 DEF WithdrawRequest, tables
  <1>13. ASSUME NEW t \in Tasks, ClaimVersion(t) PROVE UNCHANGED <<version, editor, menu>>
    BY <1>13 DEF ClaimVersion, tables
  <1>14. ASSUME NEW t \in Tasks, AnswerConflict(t) PROVE UNCHANGED <<version, editor, menu>>
    BY <1>14 DEF AnswerConflict, tables
  <1>15. ASSUME NEW t \in Tasks, Fail(t) PROVE UNCHANGED <<version, editor, menu>>
    BY <1>15 DEF Fail, tables
  <1>16. ASSUME NEW d \in Dishes, ArchiveDish(d) PROVE UNCHANGED <<version, editor, menu>>
    BY <1>16 DEF ArchiveDish, tables, slotRow
  <1>17. CASE UNCHANGED vars
    BY <1>17 DEF vars, tables
  <1> QED
    BY <1>1, <1>2, <1>3, <1>4, <1>5, <1>6, <1>7, <1>8, <1>9, <1>10, <1>11, <1>12,
       <1>13, <1>14, <1>15, <1>16, <1>17 DEF Next, Proceed

\* What ReplaceMenu does to them.
LEMMA MenuReplaced ==
  ASSUME SlotInv, NEW t \in Tasks, ReplaceMenu(t)
  PROVE  /\ job[t].op = "confirm"
         /\ job[t].member \in Members
         /\ job[t].dishes \in SUBSET Dishes /\ job[t].dishes # {}
         /\ version = job[t].expected
         /\ version' = version + 1
         /\ menu' = job[t].dishes
         /\ editor' = job[t].member
  <1>1. pc[t] = "replace"
    BY DEF ReplaceMenu, Goto
  <1>2. job[t].op = "confirm" /\ job[t].dishes # {} /\ version = job[t].expected
    BY <1>1 DEF SlotInv, JobFits, ClaimHolds
  <1>3. job[t] \in Jobs \cup {NoJob} /\ job[t] # NoJob
    BY <1>2 DEF SlotInv, TypeOK, NoJob
  <1>4. job[t].member \in Members /\ job[t].dishes \in SUBSET Dishes
    BY <1>3, JobFields
  <1> QED BY <1>2, <1>4 DEF ReplaceMenu

\* The menu, its editor and the version change together, from the version
\* the writer had expected, and by one.
THEOREM NoUpdateLost == Spec => NoLostMenuUpdate
  <1> DEFINE Kept == menu' # menu \/ editor' # editor \/ version' # version
                       => \E t \in Tasks : /\ job[t].op = "confirm"
                                           /\ version = job[t].expected
                                           /\ version' = version + 1
                                           /\ menu' = job[t].dishes
                                           /\ editor' = job[t].member
  <1>1. ASSUME SlotInv, [Next]_vars PROVE Kept
    <2>1. CASE \E t \in Tasks : ReplaceMenu(t)
      BY <1>1, <2>1, MenuReplaced
    <2>2. CASE \A t \in Tasks : ~ ReplaceMenu(t)
      BY <1>1, <2>2, MenuUntouched
    <2> QED BY <2>1, <2>2
  <1>2. SlotInv /\ [Next]_vars => [Kept]_vars
    BY <1>1
  <1> QED BY <1>2, SlotInvariant, PTL DEF Spec, NoLostMenuUpdate

\* A task that ends a confirmation answers "ok" from Reload, a conflict from
\* AnswerConflict, and every other kind from elsewhere.
LEMMA ConfirmAnswer ==
  ASSUME SlotInv, [Next]_vars, NEW t \in Tasks, job[t].op = "confirm", job'[t] = NoJob
  PROVE  \/ /\ pc[t] = "reload"
            /\ reply'[t] = [kind |-> "ok", version |-> version]
         \/ /\ pc[t] = "conflict"
            /\ reply'[t] = [kind |-> "conflict", version |-> version]
         \/ reply'[t].kind \in {"invalid", "error"}
  <1> USE DEF SlotInv, TypeOK
  <1> DEFINE Goal == \/ /\ pc[t] = "reload"
                       /\ reply'[t] = [kind |-> "ok", version |-> version]
                    \/ /\ pc[t] = "conflict"
                       /\ reply'[t] = [kind |-> "conflict", version |-> version]
                    \/ reply'[t].kind \in {"invalid", "error"}
  <1>0. job[t] # NoJob
    BY DEF NoJob
  <1>1. ASSUME NEW u \in Tasks, Arrive(u) PROVE Goal
    BY <1>1, <1>0 DEF Arrive, Goto, JobFits, tables
  <1>2. ASSUME NEW u \in Tasks, Load(u) PROVE Goal
    BY <1>2, <1>0 DEF Load, Answer, JobFits, tables
  <1>3. ASSUME NEW u \in Tasks, CheckDish(u) PROVE Goal
    BY <1>3, <1>0 DEF CheckDish, Answer, AfterDishes, JobFits, tables
  <1>4. ASSUME NEW u \in Tasks, FindOwn(u) PROVE Goal
    BY <1>4, <1>0 DEF FindOwn, Answer, JobFits, tables
  <1>5. ASSUME NEW u \in Tasks, CheckPrior(u) PROVE Goal
    BY <1>5, <1>0 DEF CheckPrior, Goto, JobFits, tables
  <1>6. ASSUME NEW u \in Tasks, InsertRequest(u) PROVE Goal
    BY <1>6, <1>0 DEF InsertRequest, Count, JobFits, tables
  <1>7. ASSUME NEW u \in Tasks, Recover(u) PROVE Goal
    BY <1>7, <1>0 DEF Recover, Goto, JobFits, tables
  <1>8. ASSUME NEW u \in Tasks, Repair(u) PROVE Goal
    BY <1>8, <1>0 DEF Repair, Goto, JobFits, tables
  <1>9. ASSUME NEW u \in Tasks, Reload(u) PROVE Goal
    BY <1>9, <1>0 DEF Reload, Answer, JobFits, tables
  <1>10. ASSUME NEW u \in Tasks, DeleteRequest(u) PROVE Goal
    BY <1>10, <1>0 DEF DeleteRequest, Goto, JobFits, tables
  <1>11. ASSUME NEW u \in Tasks, CheckRemaining(u) PROVE Goal
    BY <1>11, <1>0 DEF CheckRemaining, Goto, JobFits, tables
  <1>12. ASSUME NEW u \in Tasks, WithdrawRequest(u) PROVE Goal
    BY <1>12, <1>0 DEF WithdrawRequest, Answer, JobFits, tables
  <1>13. ASSUME NEW u \in Tasks, ClaimVersion(u) PROVE Goal
    BY <1>13, <1>0 DEF ClaimVersion, JobFits, tables
  <1>14. ASSUME NEW u \in Tasks, AnswerConflict(u) PROVE Goal
    BY <1>14, <1>0 DEF AnswerConflict, Answer, JobFits, tables
  <1>15. ASSUME NEW u \in Tasks, ReplaceMenu(u) PROVE Goal
    BY <1>15, <1>0 DEF ReplaceMenu, Goto, Count, JobFits, tables
  <1>16. ASSUME NEW u \in Tasks, Fail(u) PROVE Goal
    BY <1>16, <1>0 DEF Fail, Answer, JobFits, tables
  <1>17. ASSUME NEW d \in Dishes, ArchiveDish(d) PROVE Goal
    BY <1>17, <1>0 DEF ArchiveDish, slotRow, JobFits, tables
  <1>18. CASE UNCHANGED vars
    BY <1>18, <1>0 DEF vars, tables
  <1> QED
    BY <1>1, <1>2, <1>3, <1>4, <1>5, <1>6, <1>7, <1>8, <1>9, <1>10, <1>11, <1>12,
       <1>13, <1>14, <1>15, <1>16, <1>17, <1>18 DEF Next, Proceed

\* "ok" shows a later version than expected, and a conflict a version that
\* the client had not seen.
THEOREM AnswersTrue == Spec => RepliesTruthful
  <1> DEFINE Truthful == \A t \in Tasks :
        job[t].op = "confirm" /\ job'[t] = NoJob =>
          CASE reply'[t].kind = "ok"       -> reply'[t].version > job[t].expected
            [] reply'[t].kind = "conflict" -> \/ reply'[t].version > job[t].expected
                                              \/ saw[t].version < job[t].expected
            [] OTHER                       -> TRUE
  <1>1. ASSUME SlotInv, [Next]_vars PROVE Truthful
    <2>1. ASSUME NEW t \in Tasks, job[t].op = "confirm", job'[t] = NoJob
          PROVE  CASE reply'[t].kind = "ok"       -> reply'[t].version > job[t].expected
                   [] reply'[t].kind = "conflict" -> \/ reply'[t].version > job[t].expected
                                                     \/ saw[t].version < job[t].expected
                   [] OTHER                       -> TRUE
      <3>1. CASE pc[t] = "reload" /\ reply'[t] = [kind |-> "ok", version |-> version]
        BY <1>1, <2>1, <3>1 DEF SlotInv, AnswerSettled
      <3>2. CASE pc[t] = "conflict" /\ reply'[t] = [kind |-> "conflict", version |-> version]
        BY <1>1, <2>1, <3>2 DEF SlotInv, AnswerSettled
      <3>3. CASE reply'[t].kind \in {"invalid", "error"}
        BY <3>3
      <3> QED BY <1>1, <2>1, <3>1, <3>2, <3>3, ConfirmAnswer
    <2> QED BY <2>1
  <1>2. SlotInv /\ [Next]_vars => [Truthful]_vars
    BY <1>1
  <1> QED BY <1>2, SlotInvariant, PTL DEF Spec, RepliesTruthful

\* The singleton row of a request or withdrawal.
LEMMA RowOf ==
  ASSUME SlotInv, NEW t \in Tasks, job[t].op \in {"request", "withdraw"}
  PROVE  \E m \in Members, d \in Dishes : Row(t) = {<<m, d>>}
  <1>1. job[t] \in Jobs \cup {NoJob} /\ job[t] # NoJob
    BY DEF SlotInv, TypeOK, NoJob
  <1>2. PICK d \in Dishes : job[t].dishes = {d}
    BY <1>1, JobFields
  <1>3. job[t].member \in Members
    BY <1>1, JobFields
  <1> QED BY <1>2, <1>3 DEF Row

\* Every step of the handlers is a step of the board, or none.
LEMMA BoardStep == SlotInv /\ [Next]_vars => [Board!Next]_(Board!board)
  <1> SUFFICES ASSUME SlotInv, [Next]_vars PROVE [Board!Next]_(Board!board)
    OBVIOUS
  <1> DEFINE count == events["menu_confirmed"] + events["menu_modified"]
  <1> USE DEF SlotInv, TypeOK, Board!board
  <1>1. ASSUME NEW t \in Tasks, Arrive(t) PROVE UNCHANGED Board!board
    BY <1>1 DEF Arrive, tables
  <1>2. ASSUME NEW t \in Tasks, Load(t) PROVE UNCHANGED Board!board
    BY <1>2 DEF Load, tables
  <1>3. ASSUME NEW t \in Tasks, CheckDish(t) PROVE UNCHANGED Board!board
    BY <1>3 DEF CheckDish, tables
  <1>4. ASSUME NEW t \in Tasks, FindOwn(t) PROVE UNCHANGED Board!board
    BY <1>4 DEF FindOwn, tables
  <1>5. ASSUME NEW t \in Tasks, CheckPrior(t) PROVE UNCHANGED Board!board
    BY <1>5 DEF CheckPrior, tables
  <1>6. ASSUME NEW t \in Tasks, Recover(t) PROVE UNCHANGED Board!board
    BY <1>6 DEF Recover, tables
  <1>7. ASSUME NEW t \in Tasks, Reload(t) PROVE UNCHANGED Board!board
    BY <1>7 DEF Reload, tables
  <1>8. ASSUME NEW t \in Tasks, DeleteRequest(t) PROVE UNCHANGED Board!board
    BY <1>8 DEF DeleteRequest, tables
  <1>9. ASSUME NEW t \in Tasks, CheckRemaining(t) PROVE UNCHANGED Board!board
    BY <1>9 DEF CheckRemaining, tables
  <1>10. ASSUME NEW t \in Tasks, ClaimVersion(t) PROVE UNCHANGED Board!board
    BY <1>10 DEF ClaimVersion, tables
  <1>11. ASSUME NEW t \in Tasks, AnswerConflict(t) PROVE UNCHANGED Board!board
    BY <1>11 DEF AnswerConflict, tables
  <1>12. ASSUME NEW t \in Tasks, Fail(t) PROVE UNCHANGED Board!board
    BY <1>12 DEF Fail, tables
  <1>13. ASSUME NEW d \in Dishes, ArchiveDish(d) PROVE UNCHANGED Board!board
    BY <1>13 DEF ArchiveDish, tables, slotRow
  <1>14. ASSUME NEW t \in Tasks, InsertRequest(t) PROVE [Board!Next]_(Board!board)
    <2>1. PICK m \in Members, d \in Dishes : Row(t) = {<<m, d>>}
      BY <1>14, RowOf DEF InsertRequest, JobFits
    <2>2. CASE <<m, d>> \in requests
      BY <1>14, <2>1, <2>2 DEF InsertRequest, tables
    <2>3. CASE <<m, d>> \notin requests
      <3>1. count' = count
        BY <1>14, <2>1, <2>3 DEF InsertRequest, Count, EventNames
      <3>2. Board!Wish(m, d)
        BY <1>14, <2>1, <2>3, <3>1 DEF InsertRequest, Board!Wish
      <3> QED BY <3>2 DEF Board!Next
    <2> QED BY <2>2, <2>3
  <1>15. ASSUME NEW t \in Tasks, Repair(t) PROVE Board!MarkPending
    BY <1>15 DEF Repair, Board!MarkPending
  <1>16. ASSUME NEW t \in Tasks, WithdrawRequest(t) PROVE Board!Next
    <2>1. PICK m \in Members, d \in Dishes : Row(t) = {<<m, d>>}
      BY <1>16, RowOf DEF WithdrawRequest, JobFits
    <2>2. Board!Withdraw(m, d)
      BY <1>16, <2>1 DEF WithdrawRequest, Board!Withdraw
    <2> QED BY <2>2 DEF Board!Next
  <1>17. ASSUME NEW t \in Tasks, ReplaceMenu(t) PROVE Board!Next
    <2>1. count' = count + 1
      BY <1>17 DEF ReplaceMenu, Count, EventNames
    <2>2. Board!Confirm(job[t].member, version, job[t].dishes)
      BY <1>17, <2>1, MenuReplaced DEF ReplaceMenu, Board!Confirm
    <2> QED BY <1>17, <2>2, MenuReplaced DEF Board!Next
  <1>18. CASE UNCHANGED vars
    BY <1>18 DEF vars, tables
  <1> QED
    BY <1>1, <1>2, <1>3, <1>4, <1>5, <1>6, <1>7, <1>8, <1>9,
       <1>10, <1>11, <1>12, <1>13, <1>14, <1>15, <1>16, <1>17, <1>18
    DEF Next, Proceed, Board!Next

\* The handlers together implement a compare-and-swap menu with a wish list.
THEOREM ImplementsBoard == Spec => BoardSpec
  <1>1. Init => Board!Init
    BY DEF Init, Board!Init, EventNames
  <1>2. SlotInv /\ [Next]_vars => [Board!Next]_(Board!board)
    BY BoardStep
  <1> QED BY <1>1, <1>2, SlotInvariant, PTL DEF Spec, BoardSpec, Board!Spec

-----------------------------------------------------------------------------
(* One request at a time.                                                  *)

\* While no two requests have overlapped, at most one task is busy ...
OneBusy == alone => \A t, u \in Tasks : pc[t] # "idle" /\ pc[u] # "idle" => t = u

\* ... what it has read is still so, and it never finds its row taken.
ViewFresh ==
  alone => \A t \in Tasks :
    /\ pc[t] \notin {"recover", "repair"}
    /\ pc[t] \notin {"idle", "load", "reload"} => saw[t].status = status
    /\ pc[t] \in {"prior", "insert"} => ~ (Row(t) \subseteq requests)
    /\ pc[t] = "withdraw" => (saw[t].last <=> requests \subseteq Row(t))

\* A second task cannot become busy without ending the history of solitude.
LEMMA BusyStep == TypeOK /\ OneBusy /\ [Next]_vars => OneBusy'
  <1> SUFFICES ASSUME TypeOK /\ OneBusy, [Next]_vars PROVE OneBusy'
    OBVIOUS
  <1> USE DEF OneBusy
  <1>0. pc \in [Tasks -> Labels]
    BY DEF TypeOK
  <1>1. ASSUME NEW t \in Tasks, Arrive(t) PROVE OneBusy'
    BY <1>0, <1>1 DEF Arrive, Goto
  <1>2. ASSUME NEW t \in Tasks, Load(t) PROVE OneBusy'
    BY <1>0, <1>2 DEF Load, Answer
  <1>3. ASSUME NEW t \in Tasks, CheckDish(t) PROVE OneBusy'
    BY <1>0, <1>3 DEF CheckDish, Answer, AfterDishes
  <1>4. ASSUME NEW t \in Tasks, FindOwn(t) PROVE OneBusy'
    BY <1>0, <1>4 DEF FindOwn, Answer
  <1>5. ASSUME NEW t \in Tasks, CheckPrior(t) PROVE OneBusy'
    BY <1>0, <1>5 DEF CheckPrior, Goto
  <1>6. ASSUME NEW t \in Tasks, InsertRequest(t) PROVE OneBusy'
    BY <1>0, <1>6 DEF InsertRequest, Count
  <1>7. ASSUME NEW t \in Tasks, Recover(t) PROVE OneBusy'
    BY <1>0, <1>7 DEF Recover, Goto
  <1>8. ASSUME NEW t \in Tasks, Repair(t) PROVE OneBusy'
    BY <1>0, <1>8 DEF Repair, Goto
  <1>9. ASSUME NEW t \in Tasks, Reload(t) PROVE OneBusy'
    BY <1>0, <1>9 DEF Reload, Answer
  <1>10. ASSUME NEW t \in Tasks, DeleteRequest(t) PROVE OneBusy'
    BY <1>0, <1>10 DEF DeleteRequest, Goto
  <1>11. ASSUME NEW t \in Tasks, CheckRemaining(t) PROVE OneBusy'
    BY <1>0, <1>11 DEF CheckRemaining, Goto
  <1>12. ASSUME NEW t \in Tasks, WithdrawRequest(t) PROVE OneBusy'
    BY <1>0, <1>12 DEF WithdrawRequest, Answer
  <1>13. ASSUME NEW t \in Tasks, ClaimVersion(t) PROVE OneBusy'
    BY <1>0, <1>13 DEF ClaimVersion
  <1>14. ASSUME NEW t \in Tasks, AnswerConflict(t) PROVE OneBusy'
    BY <1>0, <1>14 DEF AnswerConflict, Answer
  <1>15. ASSUME NEW t \in Tasks, ReplaceMenu(t) PROVE OneBusy'
    BY <1>0, <1>15 DEF ReplaceMenu, Goto, Count
  <1>16. ASSUME NEW t \in Tasks, Fail(t) PROVE OneBusy'
    BY <1>0, <1>16 DEF Fail, Answer
  <1>17. ASSUME NEW d \in Dishes, ArchiveDish(d) PROVE OneBusy'
    BY <1>0, <1>17 DEF ArchiveDish
  <1>18. CASE UNCHANGED vars
    BY <1>18 DEF vars, tables
  <1> QED
    BY <1>1, <1>2, <1>3, <1>4, <1>5, <1>6, <1>7, <1>8, <1>9, <1>10, <1>11, <1>12,
       <1>13, <1>14, <1>15, <1>16, <1>17, <1>18 DEF Next, Proceed

\* Nothing changes between what the only busy task reads and writes.
LEMMA ViewStep == SlotInv /\ OneBusy /\ ViewFresh /\ [Next]_vars => ViewFresh'
  <1> SUFFICES ASSUME SlotInv /\ OneBusy /\ ViewFresh, [Next]_vars PROVE ViewFresh'
    OBVIOUS
  <1>0. TypeOK /\ JobFits
    BY DEF SlotInv
  <1> USE <1>0 DEF TypeOK, OneBusy, ViewFresh, Row
  <1>1. ASSUME NEW t \in Tasks, Arrive(t) PROVE ViewFresh'
    BY <1>1 DEF Arrive, Goto, tables
  <1>2. ASSUME NEW t \in Tasks, Load(t) PROVE ViewFresh'
    BY <1>2 DEF Load, Answer, tables
  <1>3. ASSUME NEW t \in Tasks, CheckDish(t) PROVE ViewFresh'
    <2>1. \/ pc'[t] = "idle"
          \/ saw'[t].status = saw[t].status /\ pc'[t] \in {"dish", "own", "claim"}
      <3>1. PICK d \in saw[t].todo :
              IF d \in active
                THEN /\ saw' = [saw EXCEPT ![t].todo = @ \ {d}]
                     /\ pc' = [pc EXCEPT ![t] = IF saw[t].todo = {d} THEN AfterDishes(t)
                                                                    ELSE "dish"]
                     /\ UNCHANGED <<job, reply>>
                ELSE Answer(t, "invalid", 0)
        BY <1>3 DEF CheckDish
      <3>2. CASE d \in active
        BY <3>1, <3>2 DEF AfterDishes, Sights
      <3>3. CASE d \notin active
        BY <3>1, <3>3 DEF Answer
      <3> QED BY <3>2, <3>3
    <2>2. /\ \A u \in Tasks \ {t} : saw'[u] = saw[u] /\ pc'[u] = pc[u] /\ job'[u] = job[u]
          /\ pc[t] = "dish" /\ UNCHANGED <<requests, status, alone>>
      BY <1>3 DEF CheckDish, Answer, AfterDishes, tables
    <2> QED BY <2>1, <2>2
  <1>4. ASSUME NEW t \in Tasks, FindOwn(t) PROVE ViewFresh'
    BY <1>4 DEF FindOwn, Answer, tables
  <1>5. ASSUME NEW t \in Tasks, CheckPrior(t) PROVE ViewFresh'
    BY <1>5 DEF CheckPrior, Goto, tables
  <1>6. ASSUME NEW t \in Tasks, InsertRequest(t) PROVE ViewFresh'
    BY <1>6 DEF InsertRequest, Count, tables
  <1>7. ASSUME NEW t \in Tasks, Recover(t) PROVE ViewFresh'
    BY <1>7 DEF Recover, Goto, tables
  <1>8. ASSUME NEW t \in Tasks, Repair(t) PROVE ViewFresh'
    BY <1>8 DEF Repair, Goto, tables
  <1>9. ASSUME NEW t \in Tasks, Reload(t) PROVE ViewFresh'
    BY <1>9 DEF Reload, Answer, tables
  <1>10. ASSUME NEW t \in Tasks, DeleteRequest(t) PROVE ViewFresh'
    BY <1>10 DEF DeleteRequest, Goto, tables
  <1>11. ASSUME NEW t \in Tasks, CheckRemaining(t) PROVE ViewFresh'
    <2>1. /\ saw'[t].last = (requests \subseteq Row(t))
          /\ saw'[t].status = saw[t].status
          /\ pc[t] = "remaining" /\ pc'[t] = "withdraw"
          /\ \A u \in Tasks \ {t} : saw'[u] = saw[u] /\ pc'[u] = pc[u]
          /\ UNCHANGED <<requests, status, alone, job>>
      BY <1>11 DEF CheckRemaining, Goto, tables
    <2>2. Row(t)' = Row(t) /\ \A u \in Tasks : Row(u)' = Row(u)
      BY <2>1
    <2> QED BY <2>1, <2>2
  <1>12. ASSUME NEW t \in Tasks, WithdrawRequest(t) PROVE ViewFresh'
    BY <1>12 DEF WithdrawRequest, Answer, tables
  <1>13. ASSUME NEW t \in Tasks, ClaimVersion(t) PROVE ViewFresh'
    BY <1>13 DEF ClaimVersion, tables
  <1>14. ASSUME NEW t \in Tasks, AnswerConflict(t) PROVE ViewFresh'
    BY <1>14 DEF AnswerConflict, Answer, tables
  <1>15. ASSUME NEW t \in Tasks, ReplaceMenu(t) PROVE ViewFresh'
    BY <1>15 DEF ReplaceMenu, Goto, Count, tables
  <1>16. ASSUME NEW t \in Tasks, Fail(t) PROVE ViewFresh'
    BY <1>16 DEF Fail, Answer, tables
  <1>17. ASSUME NEW d \in Dishes, ArchiveDish(d) PROVE ViewFresh'
    BY <1>17 DEF ArchiveDish, slotRow, tables
  <1>18. CASE UNCHANGED vars
    BY <1>18 DEF vars, tables
  <1> QED
    BY <1>1, <1>2, <1>3, <1>4, <1>5, <1>6, <1>7, <1>8, <1>9, <1>10, <1>11, <1>12,
       <1>13, <1>14, <1>15, <1>16, <1>17, <1>18 DEF Next, Proceed

\* Steps that leave the tables alone leave the table's truth alone.
LEMMA TableKept ==
  ASSUME SerialTable, UNCHANGED <<status, requests, menu, events>>, alone' => alone
  PROVE  SerialTable'
  BY DEF SerialTable, StatusTable, MenuConfirmedOnce

\* Alone, an insert moves not_started to pending, the withdrawal of the last
\* request moves it back, and a confirmation ends both for good.
LEMMA TableStep == SlotInv /\ ViewFresh /\ SerialTable /\ [Next]_vars => SerialTable'
  <1> SUFFICES ASSUME SlotInv, ViewFresh, SerialTable, [Next]_vars PROVE SerialTable'
    OBVIOUS
  <1>0. TypeOK /\ JobFits /\ MenuOfVersion
    BY DEF SlotInv
  <1>1. ASSUME NEW t \in Tasks, Arrive(t) PROVE SerialTable'
    BY <1>1, TableKept DEF Arrive, tables
  <1>2. ASSUME NEW t \in Tasks, Load(t) PROVE SerialTable'
    BY <1>2, TableKept DEF Load, tables
  <1>3. ASSUME NEW t \in Tasks, CheckDish(t) PROVE SerialTable'
    BY <1>3, TableKept DEF CheckDish, tables
  <1>4. ASSUME NEW t \in Tasks, FindOwn(t) PROVE SerialTable'
    BY <1>4, TableKept DEF FindOwn, tables
  <1>5. ASSUME NEW t \in Tasks, CheckPrior(t) PROVE SerialTable'
    BY <1>5, TableKept DEF CheckPrior, tables
  <1>6. ASSUME NEW t \in Tasks, Recover(t) PROVE SerialTable'
    BY <1>6, TableKept DEF Recover, tables
  <1>7. ASSUME NEW t \in Tasks, Reload(t) PROVE SerialTable'
    BY <1>7, TableKept DEF Reload, tables
  <1>8. ASSUME NEW t \in Tasks, DeleteRequest(t) PROVE SerialTable'
    BY <1>8, TableKept DEF DeleteRequest, tables
  <1>9. ASSUME NEW t \in Tasks, CheckRemaining(t) PROVE SerialTable'
    BY <1>9, TableKept DEF CheckRemaining, tables
  <1>10. ASSUME NEW t \in Tasks, ClaimVersion(t) PROVE SerialTable'
    BY <1>10, TableKept DEF ClaimVersion, tables
  <1>11. ASSUME NEW t \in Tasks, AnswerConflict(t) PROVE SerialTable'
    BY <1>11, TableKept DEF AnswerConflict, tables
  <1>12. ASSUME NEW t \in Tasks, Fail(t) PROVE SerialTable'
    BY <1>12, TableKept DEF Fail, tables
  <1>13. ASSUME NEW d \in Dishes, ArchiveDish(d) PROVE SerialTable'
    BY <1>13, TableKept DEF ArchiveDish, tables, slotRow
  <1>14. ASSUME NEW t \in Tasks, InsertRequest(t) PROVE SerialTable'
    <2>1. Row(t) # {}
      BY <1>0, <1>14, RowOf DEF InsertRequest, JobFits
    <2>2. ASSUME alone PROVE saw[t].status = status
      BY <1>14, <2>2 DEF InsertRequest, ViewFresh
    <2>3. events'["menu_confirmed"] = events["menu_confirmed"]
      BY <1>0, <1>14 DEF InsertRequest, tables, Count, TypeOK, EventNames
    <2>4. CASE Row(t) \subseteq requests
      BY <1>14, <2>4, TableKept DEF InsertRequest, tables
    <2>5. CASE ~ (Row(t) \subseteq requests)
      BY <1>0, <1>14, <2>1, <2>2, <2>3, <2>5
         DEF InsertRequest, SerialTable, StatusTable, MenuConfirmedOnce, TypeOK, Statuses
    <2> QED BY <2>4, <2>5
  <1>15. ASSUME NEW t \in Tasks, Repair(t) PROVE SerialTable'
    BY <1>15 DEF Repair, Goto, ViewFresh, SerialTable
  <1>16. ASSUME NEW t \in Tasks, WithdrawRequest(t) PROVE SerialTable'
    <2>1. ASSUME alone PROVE saw[t].status = status /\ (saw[t].last <=> requests \subseteq Row(t))
      BY <1>16, <2>1 DEF WithdrawRequest, ViewFresh
    <2> QED BY <1>0, <1>16, <2>1
        DEF WithdrawRequest, SerialTable, StatusTable, MenuConfirmedOnce, TypeOK, Statuses
  <1>17. ASSUME NEW t \in Tasks, ReplaceMenu(t) PROVE SerialTable'
    <2>1. job[t].dishes # {}
      BY <1>17, MenuReplaced
    <2>2. ASSUME alone PROVE saw[t].status = status
      BY <1>17, <2>2 DEF ReplaceMenu, Goto, ViewFresh
    <2>3. ASSUME alone, status # "confirmed" PROVE events["menu_confirmed"] = 0
      <3>1. menu = {}
        BY <1>0, <2>3 DEF SerialTable, StatusTable, TypeOK, Statuses
      <3>2. events["menu_confirmed"] + events["menu_modified"] = 0
        BY <1>0, <3>1 DEF MenuOfVersion
      <3>3. events["menu_confirmed"] \in Nat /\ events["menu_modified"] \in Nat
        BY <1>0 DEF TypeOK, EventNames
      <3> QED BY <3>2, <3>3
    <2>4. ASSUME alone PROVE events'["menu_confirmed"] <= 1
      BY <1>0, <1>17, <2>2, <2>3, <2>4
         DEF ReplaceMenu, Goto, Count, TypeOK, EventNames, SerialTable, MenuConfirmedOnce
    <2>5. status' = "confirmed" /\ menu' # {} /\ alone' = alone
      BY <1>17, <2>1 DEF ReplaceMenu
    <2> QED BY <2>4, <2>5 DEF SerialTable, StatusTable, MenuConfirmedOnce
  <1>18. CASE UNCHANGED vars
    BY <1>18, TableKept DEF vars, tables
  <1> QED
    BY <1>1, <1>2, <1>3, <1>4, <1>5, <1>6, <1>7, <1>8, <1>9, <1>10, <1>11, <1>12,
       <1>13, <1>14, <1>15, <1>16, <1>17, <1>18 DEF Next, Proceed

\* One request at a time, status, requests and menu agree as the design
\* document has them, and menu_confirmed is recorded once.
THEOREM SerialAgrees == Spec => []SerialTable
  <1> DEFINE IInv == SlotInv /\ OneBusy /\ ViewFresh /\ SerialTable
  <1>1. Init => IInv
    <2> SUFFICES ASSUME Init PROVE IInv
      OBVIOUS
    <2>1. OneBusy /\ ViewFresh /\ SerialTable
      BY DEF Init, OneBusy, ViewFresh, SerialTable, StatusTable, MenuConfirmedOnce, EventNames
    <2> QED BY <2>1, SlotInvInit
  <1>2. IInv /\ [Next]_vars => IInv'
    BY SlotInvStep, BusyStep, ViewStep, TableStep DEF SlotInv
  <1>3. IInv => SerialTable
    OBVIOUS
  <1> QED BY <1>1, <1>2, <1>3, PTL DEF Spec
=============================================================================
