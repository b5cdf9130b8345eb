------------------------- MODULE DishCatalogueProofs ------------------------
(***************************************************************************)
(* Proofs about DishCatalogue for every number of tasks, dishes and names, *)
(* and every bound.                                                        *)
(***************************************************************************)
EXTENDS DishCatalogue, TLAPS

\* A list of names.
LEMMA ListFields ==
  ASSUME NEW m \in Nat, NEW names \in Lists(m)
  PROVE  /\ Len(names) \in 1 .. m
         /\ DOMAIN names = 1 .. Len(names)
         /\ \A i \in 1 .. Len(names) : names[i] \in Names
  <1>1. PICK k \in 1 .. m : names \in [1 .. k -> Names]
    BY DEF Lists
  <1>2. Len(names) = k
    BY <1>1
  <1> QED BY <1>1, <1>2

\* The fields of a job; one that has names has one at least.
LEMMA JobFields ==
  ASSUME NEW j \in Jobs \cup {NoJob}
  PROVE  /\ j.op \in {"none", "create", "update", "archive", "ingredient"}
         /\ j.op = "none" <=> j = NoJob
         /\ j.op # "none" => j.by \in Requests
         /\ j.op \in {"create", "update", "archive"} => j.dish \in Dishes
         /\ j.op \in {"create", "update", "ingredient"} =>
              /\ Len(j.names) \in 1 .. MaxNames + 1
              /\ DOMAIN j.names = 1 .. Len(j.names)
              /\ \A i \in 1 .. Len(j.names) : j.names[i] \in Names
         /\ j.op \in {"create", "update"} => j.setting \in [Columns -> Values]
         /\ j.op = "archive" => j.setting \in [{Editor} -> Values]
  <1>1. MaxNames \in Nat /\ MaxNames + 1 \in Nat
    BY BoundsAssumption
  <1>2. CASE j = NoJob
    BY <1>2 DEF NoJob
  <1>3. CASE j \in Archives
    BY <1>3 DEF Archives, NoJob
  <1>4. CASE j \in DishJobs
    <2>1. j.names \in Lists(MaxNames) /\ j.op \in {"create", "update"}
          /\ j.by \in Requests /\ j.dish \in Dishes /\ j.setting \in [Columns -> Values]
      BY <1>4 DEF DishJobs
    <2>2. Len(j.names) \in 1 .. MaxNames + 1
      BY <1>1, <2>1, ListFields
    <2> QED BY <1>1, <2>1, <2>2, ListFields DEF NoJob
  <1>5. CASE j \in Canonical
    <2>1. j.names \in Lists(MaxNames + 1) /\ j.op = "ingredient" /\ j.by \in Requests
      BY <1>5 DEF Canonical
    <2> QED BY <1>1, <2>1, ListFields DEF NoJob
  <1> QED BY <1>2, <1>3, <1>4, <1>5 DEF Jobs

\* A task runs only the statements of the handler its request belongs to, and
\* the name in hand is one of the list.
Fits(t) ==
  /\ pc[t] = "idle" <=> job[t] = NoJob
  /\ pc[t] \in {"idle", "load", "insert", "cooks", "clear", "archive"} => view[t] = NoView
  /\ pc[t] = "load" => job[t].op \in {"update", "archive"}
  /\ pc[t] = "insert" => job[t].op = "create"
  /\ pc[t] \in {"cooks", "clear"} => job[t].op \in {"create", "update"}
  /\ pc[t] \in {"find", "alias", "new", "commit"} => job[t].op \in {"create", "update", "ingredient"}
  /\ pc[t] = "nick" => job[t].op = "ingredient"
  /\ pc[t] = "archive" => job[t].op = "archive"
  /\ job[t].op \in {"create", "update", "ingredient"} => view[t].at \in 1 .. Len(job[t].names)

JobFits == \A t \in Tasks : Fits(t)

\* Finish keeps the types of what it changes.
LEMMA FinishType ==
  ASSUME TypeOK, NEW t \in Tasks, Finish(t)
  PROVE  /\ pc' \in [Tasks -> Labels]
         /\ job' \in [Tasks -> Jobs \cup {NoJob}]
         /\ view' \in [Tasks -> Views]
         /\ lock' \in [Dishes -> Tasks \cup {NoTask}]
  <1>1. NoView \in Views
    BY BoundsAssumption DEF NoView, Views
  <1> QED BY <1>1 DEF Finish, TypeOK, Labels

\* The current name and the one to insert are names.
LEMMA CurrentType ==
  ASSUME TypeOK, JobFits, NEW t \in Tasks, job[t].op \in {"create", "update", "ingredient"}
  PROVE  /\ Current(t) \in Names /\ ToInsert(t) \in Names
         /\ Len(job[t].names) \in 1 .. MaxNames + 1 /\ view[t].at \in 1 .. Len(job[t].names)
         /\ view[t] \in Views
  <1>1. /\ Len(job[t].names) \in 1 .. MaxNames + 1 /\ view[t].at \in 1 .. Len(job[t].names)
        /\ view[t] \in Views
        /\ \A i \in 1 .. Len(job[t].names) : job[t].names[i] \in Names
    BY JobFields DEF TypeOK, JobFits, Fits
  <1>2. 1 \in 1 .. Len(job[t].names)
    BY <1>1, BoundsAssumption
  <1> QED BY <1>1, <1>2 DEF Current, ToInsert

\* NextName keeps the types, from a view that has them.
LEMMA NextNameType ==
  ASSUME TypeOK, NEW t \in Tasks, NEW v \in Views, NextName(t, v),
         Len(job[t].names) \in 1 .. MaxNames + 1, v.at \in 1 .. Len(job[t].names)
  PROVE  /\ pc' \in [Tasks -> Labels]
         /\ job' \in [Tasks -> Jobs \cup {NoJob}]
         /\ view' \in [Tasks -> Views]
         /\ lock' \in [Dishes -> Tasks \cup {NoTask}]
  <1>1. CASE v.at = Len(job[t].names)
    BY <1>1 DEF NextName, TypeOK, Labels
  <1>2. CASE v.at # Len(job[t].names) /\ Finish(t)
    BY <1>2, FinishType
  <1>3. CASE v.at # Len(job[t].names) /\ ~ Finish(t)
    <2>1. [v EXCEPT !.at = v.at + 1] \in Views
      BY <1>3, BoundsAssumption DEF Views
    <2>2. view' = [view EXCEPT ![t] = [v EXCEPT !.at = v.at + 1]]
      BY <1>3 DEF NextName
    <2> QED BY <1>3, <2>1, <2>2 DEF NextName, TypeOK, Labels
  <1> QED BY <1>1, <1>2, <1>3

LEMMA FoundType ==
  ASSUME TypeOK, JobFits, NEW t \in Tasks, NEW n \in Names, Found(t, n),
         job[t].op \in {"create", "update", "ingredient"}
  PROVE  /\ pc' \in [Tasks -> Labels]
         /\ job' \in [Tasks -> Jobs \cup {NoJob}]
         /\ view' \in [Tasks -> Views]
         /\ lock' \in [Dishes -> Tasks \cup {NoTask}]
  <1>1. /\ view[t] \in Views /\ view[t].at \in 1 .. Len(job[t].names)
        /\ Len(job[t].names) \in 1 .. MaxNames + 1
    BY CurrentType
  <1>2. CASE IsDishJob(t)
    <2> DEFINE v == [view[t] EXCEPT !.use = @ \cup {n}]
    <2>1. v \in Views /\ v.at = view[t].at
      BY <1>1 DEF Views
    <2>2. NextName(t, v)
      BY <1>2 DEF Found
    <2> HIDE DEF v
    <2> QED BY <1>1, <2>1, <2>2, NextNameType
  <1>3. CASE ~ IsDishJob(t)
    BY <1>3, FinishType DEF Found
  <1> QED BY <1>2, <1>3

\* Every step keeps the types of the columns: Load reads a row, and the two commits
\* write one.
LEMMA ContentsStep == TypeOK /\ JobFits /\ [Next]_vars => ContentsOK'
  <1> SUFFICES ASSUME TypeOK, JobFits, [Next]_vars PROVE ContentsOK'
    OBVIOUS
  <1> DEFINE Stored == [Columns -> Values \cup {NoValue}]
  <1>1. NoRow \in [by : {0} \cup Requests, columns : Stored]
    BY DEF NoRow, NoColumns
  <1>2. ASSUME NEW t \in Tasks, UNCHANGED contents,
               seen' = seen \/ seen' = [seen EXCEPT ![t] = NoRow]
        PROVE  ContentsOK'
    BY <1>1, <1>2 DEF TypeOK, ContentsOK, contents
  <1>3. ASSUME NEW t \in Tasks,
               \/ ArriveCreate(t) \/ ArriveUpdate(t) \/ ArriveArchive(t) \/ ArriveIngredient(t)
               \/ InsertDish(t) \/ ResolveCooks(t) \/ ClearRelations(t)
        PROVE  ContentsOK'
    BY <1>2, <1>3 DEF ArriveCreate, ArriveUpdate, ArriveArchive, ArriveIngredient, Arrive,
       InsertDish, ResolveCooks, ClearRelations, Finish, tables
  <1>4. ASSUME NEW t \in Tasks,
               \/ FindIngredient(t) \/ FindAlias(t) \/ InsertIngredient(t) \/ InsertAlias(t)
               \/ CommitIngredient(t) \/ BreakDeadlock(t) \/ Fail(t)
        PROVE  ContentsOK'
    BY <1>2, <1>4 DEF FindIngredient, FindAlias, InsertIngredient, InsertAlias,
       CommitIngredient, BreakDeadlock, Fail, Found, NextName, Finish, tables
  <1>5. ASSUME NEW t \in Tasks, Load(t) PROVE ContentsOK'
    <2>1. CASE Finish(t)
      BY <1>2, <1>5, <2>1 DEF Load, Finish, tables
    <2>2. CASE ~ Finish(t)
      <3>1. job[t].dish \in Dishes
        BY <1>5, JobFields DEF Load, JobFits, Fits, TypeOK
      <3>2. UNCHANGED contents
            /\ seen' = [seen EXCEPT ![t] = [by |-> dishRow[job[t].dish].by,
                                            columns |-> columns[job[t].dish]]]
        BY <1>5, <2>2 DEF Load, tables
      <3> QED BY <3>1, <3>2 DEF TypeOK, ContentsOK, contents
    <2> QED BY <2>1, <2>2
  <1>6. ASSUME NEW t \in Tasks, CommitDish(t) \/ ArchiveDish(t) PROVE ContentsOK'
    <2>1. /\ job[t].dish \in Dishes /\ Finish(t)
          /\ \/ CommitDish(t) /\ job[t].setting \in [Columns -> Values]
             \/ ArchiveDish(t) /\ job[t].setting \in [{Editor} -> Values]
      BY <1>6, JobFields DEF CommitDish, ArchiveDish, IsDishJob, JobFits, Fits, TypeOK
    <2>2. Written(t) \in Stored
      BY <2>1, ColumnsAssumption DEF Written, TypeOK, ContentsOK
    <2>3. seen' = [seen EXCEPT ![t] = NoRow] /\ columns' = [columns EXCEPT ![job[t].dish] = Written(t)]
      BY <2>1 DEF Finish, CommitDish, ArchiveDish
    <2>4. asked' \in [Dishes -> [columns : Stored, overtaken : BOOLEAN]]
      <3>1. CASE CommitDish(t) /\ job[t].setting \in [Columns -> Values]
        <4>1. Overtaken(t) \in BOOLEAN
          BY <2>1 DEF Overtaken, TypeOK
        <4> QED BY <3>1, <4>1 DEF CommitDish, TypeOK, ContentsOK
      <3>2. CASE ArchiveDish(t) /\ job[t].setting \in [{Editor} -> Values]
        <4>1. Overtaken(t) \in BOOLEAN
          BY <2>1 DEF Overtaken, TypeOK
        <4> DEFINE a == asked[job[t].dish]
                   e == [a.columns EXCEPT ![Editor] = job[t].setting[Editor]]
        <4>2. a \in [columns : Stored, overtaken : BOOLEAN]
          BY <2>1 DEF TypeOK, ContentsOK
        <4>3. job[t].setting[Editor] \in Values
          BY <3>2
        <4>4. e \in Stored
          BY <4>2, <4>3
        <4>5. asked' = [asked EXCEPT ![job[t].dish] =
                          [a EXCEPT !.columns = e, !.overtaken = a.overtaken \/ Overtaken(t)]]
          <5>1. asked' = [asked EXCEPT
                  ![job[t].dish].columns[Editor] = job[t].setting[Editor],
                  ![job[t].dish].overtaken = @ \/ Overtaken(t)]
            BY <3>2 DEF ArchiveDish
          <5>2. asked = [x \in Dishes |-> asked[x]]
            BY DEF TypeOK, ContentsOK
          <5> QED BY <2>1, <5>1, <5>2
        <4> HIDE DEF a, e, Stored
        <4> QED BY <2>1, <4>1, <4>2, <4>4, <4>5 DEF TypeOK, ContentsOK, Stored
      <3> QED BY <2>1, <3>1, <3>2
    <2> QED BY <1>1, <2>2, <2>3, <2>4 DEF TypeOK, ContentsOK
  <1>7. CASE UNCHANGED vars
    BY <1>7 DEF TypeOK, ContentsOK, vars, tables, contents
  <1> QED BY <1>3, <1>4, <1>5, <1>6, <1>7 DEF Next, Proceed

\* Every step keeps the types.
LEMMA TypeStep == TypeOK /\ JobFits /\ [Next]_vars => TypeOK'
  <1> SUFFICES ASSUME TypeOK, JobFits, [Next]_vars PROVE TypeOK'
    OBVIOUS
  <1>0. ContentsOK'
    BY ContentsStep
  <1> USE <1>0
  <1>1. ASSUME NEW t \in Tasks, NEW op, NEW d, NEW names, NEW f, NEW label \in Labels,
               Arrive(t, op, d, names, f, label),
               arrivals + 1 \in Requests =>
                 [op |-> op, by |-> arrivals + 1, dish |-> d, names |-> names, setting |-> f] \in Jobs
        PROVE  TypeOK'
    <2>1. arrivals + 1 \in Requests /\ arrivals' \in 0 .. MaxArrivals
      BY <1>1, BoundsAssumption DEF Arrive, TypeOK, Requests
    <2> QED BY <1>1, <2>1 DEF Arrive, Goto, TypeOK, tables
  <1>2. ASSUME NEW t \in Tasks, ArriveCreate(t) \/ ArriveUpdate(t) PROVE TypeOK'
    <2>1. PICK d \in Dishes, names \in Lists(MaxNames), f \in [Columns -> Values],
               op \in {"create", "update"}, label \in {"insert", "load"} :
               Arrive(t, op, d, names, f, label)
      BY <1>2 DEF ArriveCreate, ArriveUpdate
    <2>2. arrivals + 1 \in Requests =>
            [op |-> op, by |-> arrivals + 1, dish |-> d, names |-> names, setting |-> f] \in Jobs
      BY DEF Jobs, DishJobs
    <2> QED BY <1>1, <2>1, <2>2 DEF Labels
  <1>3. ASSUME NEW t \in Tasks, ArriveArchive(t) PROVE TypeOK'
    <2>1. PICK d \in Dishes, f \in [{Editor} -> Values] : Arrive(t, "archive", d, <<>>, f, "load")
      BY <1>3 DEF ArriveArchive
    <2>2. arrivals + 1 \in Requests =>
            [op |-> "archive", by |-> arrivals + 1, dish |-> d, names |-> <<>>, setting |-> f] \in Jobs
      BY DEF Jobs, Archives
    <2> QED BY <1>1, <2>1, <2>2 DEF Labels
  <1>4. ASSUME NEW t \in Tasks, ArriveIngredient(t) PROVE TypeOK'
    <2>1. PICK names \in Lists(MaxNames + 1) : Arrive(t, "ingredient", NoDish, names, NoSetting, "find")
      BY <1>4 DEF ArriveIngredient
    <2>2. arrivals + 1 \in Requests =>
            [op |-> "ingredient", by |-> arrivals + 1, dish |-> NoDish, names |-> names,
             setting |-> NoSetting] \in Jobs
      BY DEF Jobs, Canonical
    <2> QED BY <1>1, <2>1, <2>2 DEF Labels
  <1>5. ASSUME NEW t \in Tasks, Load(t) PROVE TypeOK'
    BY <1>5, FinishType DEF Load, TypeOK, tables, bounds, Labels
  <1>6. ASSUME NEW t \in Tasks, InsertDish(t) PROVE TypeOK'
    BY <1>6 DEF InsertDish, Goto, TypeOK, tables, bounds, Labels
  <1>7. ASSUME NEW t \in Tasks, ResolveCooks(t) PROVE TypeOK'
    BY <1>7, FinishType DEF ResolveCooks, TypeOK, tables, bounds, Labels
  <1>8. ASSUME NEW t \in Tasks, ClearRelations(t) PROVE TypeOK'
    <2>1. {r.by : r \in {c \in cooks : c.dish = job[t].dish}}
            \cup {r.by : r \in {l \in links : l.dish = job[t].dish}} \subseteq Requests
      BY DEF TypeOK
    <2>2. view' \in [Tasks -> Views]
      BY <1>8, <2>1 DEF ClearRelations, TypeOK, Views
    <2> QED BY <1>8, <2>2 DEF ClearRelations, Goto, TypeOK, tables, bounds, Labels
  <1>9. ASSUME NEW t \in Tasks, CommitDish(t) PROVE TypeOK'
    <2>1. /\ job[t].dish \in Dishes /\ job[t].by \in Requests /\ Wish(t) \subseteq Names
          /\ view[t].use \subseteq Names /\ view[t].made \subseteq Names
      <3>1. job[t].op \in {"create", "update"} /\ job[t] \in Jobs \cup {NoJob} /\ view[t] \in Views
        BY <1>9 DEF CommitDish, IsDishJob, TypeOK
      <3>2. Wish(t) \subseteq Names
        BY <3>1, JobFields DEF Wish
      <3> QED BY <3>1, <3>2, JobFields DEF Views
    <2>2. dishRow' \in [Dishes -> [by : {0} \cup Requests, archived : BOOLEAN, wish : SUBSET Names]]
      BY <1>9, <2>1 DEF CommitDish, TypeOK
    <2>3. /\ cooks' \subseteq [dish : Dishes, by : Requests]
          /\ links' \subseteq [dish : Dishes, ingredient : Names, by : Requests]
          /\ ingredients' \subseteq Names
      BY <1>9, <2>1 DEF CommitDish, TypeOK
    <2> QED BY <1>9, <2>2, <2>3, FinishType DEF CommitDish, TypeOK, bounds
  <1>10. ASSUME NEW t \in Tasks, ArchiveDish(t) PROVE TypeOK'
    BY <1>10, FinishType DEF ArchiveDish, TypeOK, bounds
  <1>11. ASSUME NEW t \in Tasks, FindIngredient(t) PROVE TypeOK'
    <2>1. job[t].op \in {"create", "update", "ingredient"}
      BY <1>11 DEF FindIngredient, JobFits, Fits
    <2>2. CASE Found(t, Current(t))
      BY <1>11, <2>1, <2>2, FoundType, CurrentType DEF FindIngredient, TypeOK, tables, bounds
    <2>3. CASE pc' = [pc EXCEPT ![t] = "alias"] /\ UNCHANGED <<job, view, seen, lock>>
      BY <1>11, <2>3 DEF FindIngredient, TypeOK, tables, bounds, Labels
    <2> QED BY <1>11, <2>2, <2>3 DEF FindIngredient
  <1>12. ASSUME NEW t \in Tasks, FindAlias(t) PROVE TypeOK'
    <2>1. job[t].op \in {"create", "update", "ingredient"}
      BY <1>12 DEF FindAlias, JobFits, Fits
    <2>2. CASE aliasOf[Current(t)] # NoName /\ Found(t, aliasOf[Current(t)])
      <3>1. aliasOf[Current(t)] \in Names
        BY <2>1, <2>2, CurrentType DEF TypeOK
      <3> QED BY <1>12, <2>1, <2>2, <3>1, FoundType DEF FindAlias, TypeOK, tables, bounds
    <2>3. CASE pc' = [pc EXCEPT ![t] = "new"] /\ UNCHANGED <<job, view, seen, lock>>
      BY <1>12, <2>3 DEF FindAlias, TypeOK, tables, bounds, Labels
    <2>4. CASE NextName(t, view[t])
      BY <1>12, <2>1, <2>4, NextNameType, CurrentType DEF FindAlias, TypeOK, tables, bounds
    <2> QED BY <1>12, <2>2, <2>3, <2>4 DEF FindAlias
  <1>13. ASSUME NEW t \in Tasks, InsertIngredient(t) PROVE TypeOK'
    <2> DEFINE n == ToInsert(t)
               v == [view[t] EXCEPT !.made = @ \cup {n}]
               w == [v EXCEPT !.use = @ \cup {n}]
    <2>1. job[t].op \in {"create", "update", "ingredient"}
      BY <1>13 DEF InsertIngredient, JobFits, Fits
    <2>2. /\ n \in Names /\ Len(job[t].names) \in 1 .. MaxNames + 1
          /\ view[t].at \in 1 .. Len(job[t].names) /\ view[t] \in Views
      BY <2>1, CurrentType
    <2>3. v \in Views /\ w \in Views /\ w.at = view[t].at
      BY <2>2 DEF Views
    <2>4. CASE Finish(t)
      BY <1>13, <2>4, FinishType DEF InsertIngredient, TypeOK, tables, bounds
    <2>5. CASE NextName(t, w)
      BY <1>13, <2>2, <2>3, <2>5, NextNameType DEF InsertIngredient, TypeOK, tables, bounds
    <2>6. CASE /\ pc' = [pc EXCEPT ![t] = IF Len(job[t].names) = 1 THEN "commit" ELSE "nick"]
               /\ view' = [view EXCEPT ![t] = [v EXCEPT !.at = IF Len(job[t].names) = 1 THEN 1 ELSE 2]]
               /\ UNCHANGED <<job, seen, lock>>
      <3>1. [v EXCEPT !.at = IF Len(job[t].names) = 1 THEN 1 ELSE 2] \in Views
        <4>1. 1 \in 1 .. MaxNames + 1 /\ 2 \in 1 .. MaxNames + 1
          BY BoundsAssumption
        <4> HIDE DEF v
        <4> QED BY <2>3, <4>1 DEF Views
      <3> QED BY <1>13, <2>6, <3>1 DEF InsertIngredient, TypeOK, tables, bounds, Labels
    <2> QED BY <1>13, <2>4, <2>5, <2>6 DEF InsertIngredient
  <1>14. ASSUME NEW t \in Tasks, InsertAlias(t) PROVE TypeOK'
    <2>1. job[t].op = "ingredient"
      BY <1>14 DEF InsertAlias, JobFits, Fits
    <2>2. /\ Current(t) \in Names /\ Len(job[t].names) \in 1 .. MaxNames + 1
          /\ view[t].at \in 1 .. Len(job[t].names) /\ view[t] \in Views
      BY <2>1, CurrentType
    <2>3. CASE Finish(t)
      BY <1>14, <2>3, FinishType DEF InsertAlias, TypeOK, tables, bounds
    <2>4. CASE ~ Finish(t)
      <3> DEFINE a == IF view[t].at = Len(job[t].names) THEN view[t].at ELSE view[t].at + 1
      <3>1. view' = [view EXCEPT ![t].nicks = @ \cup {Current(t)}, ![t].at = a]
            /\ UNCHANGED <<job, seen, lock>>
        BY <1>14, <2>4 DEF InsertAlias
      <3>2. a \in 1 .. MaxNames + 1
        BY <2>2, BoundsAssumption
      <3>3. pc' \in [Tasks -> Labels]
        BY <1>14, <2>4 DEF InsertAlias, TypeOK, Labels
      <3> HIDE DEF a
      <3>4. view' \in [Tasks -> Views]
        BY <2>2, <3>1, <3>2 DEF TypeOK, Views
      <3> QED BY <1>14, <3>1, <3>3, <3>4 DEF InsertAlias, TypeOK, tables, bounds
    <2> QED BY <2>3, <2>4
  <1>15. ASSUME NEW t \in Tasks, CommitIngredient(t) PROVE TypeOK'
    <2>1. job[t].op = "ingredient"
      BY <1>15 DEF CommitIngredient, JobFits, Fits, IsDishJob
    <2>2. job[t].names[1] \in Names /\ view[t].made \subseteq Names
      BY <2>1, CurrentType DEF ToInsert, IsDishJob, Views
    <2> QED BY <1>15, <2>2, FinishType DEF CommitIngredient, TypeOK, bounds
  <1>16. ASSUME NEW t \in Tasks, BreakDeadlock(t) \/ Fail(t) PROVE TypeOK'
    BY <1>16, FinishType DEF BreakDeadlock, Fail, TypeOK, tables, bounds
  <1>17. CASE UNCHANGED vars
    BY <1>17 DEF TypeOK, vars, tables, bounds
  <1> QED
    BY <1>2, <1>3, <1>4, <1>5, <1>6, <1>7, <1>8, <1>9, <1>10, <1>11, <1>12, <1>13, <1>14,
       <1>15, <1>16, <1>17 DEF Next, Proceed

-----------------------------------------------------------------------------
(* What the steps of one task do, for the lemmas below.                    *)

\* A step of t leaves the other tasks alone, and takes a row only at "cooks".
OthersRest(t) ==
  /\ \A u \in Tasks \ {t} :
       pc'[u] = pc[u] /\ job'[u] = job[u] /\ view'[u] = view[u] /\ seen'[u] = seen[u]
  /\ \A d \in Dishes : lock[d] \notin {t, NoTask} => lock'[d] = lock[d]

\* t's handler ends.
Ended(t) == pc'[t] = "idle" /\ job'[t] = NoJob /\ view'[t] = NoView /\ seen'[t] = NoRow

\* A dish uses the ingredient that its name in hand stands for, and t goes on
\* to the next name, if there is one.
UseIngredient(t) ==
  \E n \in Names :
    /\ IsDishJob(t)
    /\ \/ /\ pc[t] = "find" /\ n = Current(t) /\ n \in ingredients \cup view[t].made
          /\ view'[t].made = view[t].made
       \/ /\ pc[t] = "alias" /\ n = aliasOf[Current(t)]
          /\ view'[t].made = view[t].made
       \/ /\ pc[t] = "new" /\ n = Current(t) /\ BlockedBy(t) = {}
          /\ view'[t].made = view[t].made \cup {n}
    /\ view'[t].use = view[t].use \cup {n}
    /\ view'[t].nicks = view[t].nicks /\ view'[t].gone = view[t].gone
    /\ \/ view[t].at = Len(job[t].names) /\ pc'[t] = "commit" /\ view'[t].at = view[t].at
       \/ view[t].at # Len(job[t].names) /\ pc'[t] = "find" /\ view'[t].at = view[t].at + 1

\* A canonical ingredient looks up its names, inserts the first, and then the
\* others.
LookedUp(t) ==
  /\ ~ IsDishJob(t) /\ pc[t] = "alias" /\ aliasOf[Current(t)] = NoName
  /\ view'[t].use = view[t].use /\ view'[t].made = view[t].made
  /\ view'[t].nicks = view[t].nicks /\ view'[t].gone = view[t].gone
  /\ \/ view[t].at = Len(job[t].names) /\ pc'[t] = "new" /\ view'[t].at = view[t].at
     \/ /\ view[t].at # Len(job[t].names) /\ pc'[t] = "find" /\ view'[t].at = view[t].at + 1
        /\ job[t].names[view[t].at + 1] # job[t].names[1]

NameInserted(t) ==
  /\ ~ IsDishJob(t) /\ pc[t] = "new" /\ BlockedBy(t) = {}
  /\ view'[t].made = view[t].made \cup {job[t].names[1]}
  /\ view'[t].use = view[t].use
  /\ view'[t].nicks = view[t].nicks /\ view'[t].gone = view[t].gone
  /\ \/ Len(job[t].names) = 1 /\ pc'[t] = "commit" /\ view'[t].at = 1
     \/ Len(job[t].names) # 1 /\ pc'[t] = "nick" /\ view'[t].at = 2

AliasInserted(t) ==
  /\ pc[t] = "nick" /\ BlockedBy(t) = {}
  /\ aliasOf[Current(t)] = NoName
  /\ view'[t].nicks = view[t].nicks \cup {Current(t)}
  /\ view'[t].use = view[t].use /\ view'[t].made = view[t].made /\ view'[t].gone = view[t].gone
  /\ \/ view[t].at = Len(job[t].names) /\ pc'[t] = "commit" /\ view'[t].at = view[t].at
     \/ view[t].at # Len(job[t].names) /\ pc'[t] = "nick" /\ view'[t].at = view[t].at + 1

\* t's handler goes on with the same request.
GoesOn(t) ==
  /\ job'[t] = job[t]
  /\ \/ /\ view'[t] = view[t]
        /\ \/ /\ pc[t] = "load" /\ dishRow[job[t].dish].by # 0 /\ ~ dishRow[job[t].dish].archived
              /\ pc'[t] = IF job[t].op = "update" THEN "cooks" ELSE "archive"
           \/ pc[t] = "insert" /\ pc'[t] = "cooks"
           \/ /\ pc[t] = "cooks" /\ pc'[t] = "clear" /\ BlockedBy(t) = {}
              /\ job[t].op = "update" => lock'[job[t].dish] = t
           \/ pc[t] = "find" /\ pc'[t] = "alias" /\ Current(t) \notin ingredients
           \/ pc[t] = "alias" /\ pc'[t] = "new" /\ IsDishJob(t) /\ aliasOf[Current(t)] = NoName
     \/ /\ pc[t] = "clear" /\ pc'[t] = "find"
        /\ view'[t] = [view[t] EXCEPT !.gone = {r.by : r \in {c \in cooks : c.dish = job[t].dish}}
                                        \cup {r.by : r \in {l \in links : l.dish = job[t].dish}}]
     \/ UseIngredient(t) \/ LookedUp(t) \/ NameInserted(t) \/ AliasInserted(t)
  /\ \A d \in Dishes : lock[d] = t => lock'[d] = t
  /\ seen'[t] = IF pc[t] = "load"
                  THEN [by |-> dishRow[job[t].dish].by, columns |-> columns[job[t].dish]]
                  ELSE seen[t]

\* A step of t's handler: only the three commits write tables.
Turn(t) ==
  /\ OthersRest(t) /\ UNCHANGED bounds /\ pc[t] # "idle"
  /\ \/ UNCHANGED tables /\ (Ended(t) \/ GoesOn(t))
     \/ Ended(t) /\ (CommitDish(t) \/ ArchiveDish(t) \/ CommitIngredient(t))

LEMMA FinishTurn ==
  ASSUME TypeOK, NEW t \in Tasks, Finish(t)
  PROVE  OthersRest(t) /\ Ended(t) /\ \A d \in Dishes : lock[d] = t => lock'[d] = NoTask
  BY DEF Finish, OthersRest, Ended, TypeOK, ContentsOK

\* One step to the next name with the view v.
LEMMA NextNameTurn ==
  ASSUME TypeOK, NEW t \in Tasks, NEW v \in Views, NextName(t, v)
  PROVE  /\ OthersRest(t)
         /\ \/ Ended(t)
            \/ /\ job'[t] = job[t] /\ lock' = lock /\ seen'[t] = seen[t]
               /\ view'[t].use = v.use /\ view'[t].made = v.made
               /\ view'[t].nicks = v.nicks /\ view'[t].gone = v.gone
               /\ \/ /\ v.at = Len(job[t].names) /\ view'[t].at = v.at
                     /\ pc'[t] = IF IsDishJob(t) THEN "commit" ELSE "new"
                  \/ /\ v.at # Len(job[t].names) /\ view'[t].at = v.at + 1
                     /\ pc'[t] = "find"
                     /\ ~ IsDishJob(t) => job[t].names[v.at + 1] # job[t].names[1]
  <1>1. CASE Finish(t)
    BY <1>1, FinishTurn
  <1>2. CASE v.at = Len(job[t].names)
    BY <1>2 DEF NextName, OthersRest, TypeOK
  <1>3. CASE v.at # Len(job[t].names) /\ ~ Finish(t)
    <2>1. /\ pc' = [pc EXCEPT ![t] = "find"]
          /\ view' = [view EXCEPT ![t] = [v EXCEPT !.at = v.at + 1]]
          /\ UNCHANGED <<job, seen, lock>>
          /\ ~ IsDishJob(t) => job[t].names[v.at + 1] # job[t].names[1]
      BY <1>3 DEF NextName
    <2>2. view'[t] = [v EXCEPT !.at = v.at + 1]
      BY <2>1 DEF TypeOK
    <2> QED BY <1>3, <2>1, <2>2 DEF OthersRest, TypeOK, Views
  <1> QED BY <1>1, <1>2, <1>3

LEMMA TaskStep ==
  ASSUME TypeOK, JobFits, NEW t \in Tasks, Proceed(t) \/ Fail(t)
  PROVE  Turn(t)
  <1> USE DEF Turn
  <1>1. CASE Load(t)
    <2>1. CASE Finish(t)
      BY <1>1, <2>1, FinishTurn DEF Load
    <2>2. CASE ~ Finish(t)
      BY <1>1, <2>2 DEF Load, JobFits, Fits, OthersRest, GoesOn, TypeOK, ContentsOK
    <2> QED BY <2>1, <2>2
  <1>2. CASE InsertDish(t)
    BY <1>2 DEF InsertDish, Goto, OthersRest, GoesOn, TypeOK, bounds
  <1>3. CASE ResolveCooks(t)
    <2>1. CASE Finish(t)
      BY <1>3, <2>1, FinishTurn DEF ResolveCooks, bounds
    <2>2. CASE ~ Finish(t)
      <3>1. /\ pc[t] = "cooks" /\ BlockedBy(t) = {}
            /\ pc' = [pc EXCEPT ![t] = "clear"]
            /\ lock' = IF job[t].op = "update" THEN [lock EXCEPT ![job[t].dish] = t] ELSE lock
            /\ UNCHANGED <<job, view, seen>>
        BY <1>3, <2>2 DEF ResolveCooks
      <3>2. job[t].op = "update" => job[t].dish \in Dishes /\ lock[job[t].dish] \in {t, NoTask}
        BY <3>1, JobFields DEF TypeOK, BlockedBy
      <3> QED BY <1>3, <3>1, <3>2 DEF ResolveCooks, OthersRest, GoesOn, TypeOK, bounds
    <2> QED BY <2>1, <2>2
  <1>4. CASE ClearRelations(t)
    BY <1>4 DEF ClearRelations, Goto, OthersRest, GoesOn, TypeOK, bounds
  <1>5. CASE CommitDish(t) \/ ArchiveDish(t) \/ CommitIngredient(t)
    <2>1. Finish(t) /\ pc[t] # "idle" /\ UNCHANGED bounds
      BY <1>5 DEF CommitDish, ArchiveDish, CommitIngredient, bounds
    <2> QED BY <1>5, <2>1, FinishTurn
  <1>6. CASE FindIngredient(t)
    <2>1. pc[t] = "find" /\ UNCHANGED tables /\ UNCHANGED bounds
      BY <1>6 DEF FindIngredient, bounds
    <2>2. job[t].op \in {"create", "update", "ingredient"}
      BY <2>1 DEF JobFits, Fits
    <2>3. CASE Found(t, Current(t)) /\ Current(t) \in ingredients \cup view[t].made
      <3>1. CASE IsDishJob(t)
        <4> DEFINE v == [view[t] EXCEPT !.use = @ \cup {Current(t)}]
        <4>1. /\ v \in Views /\ v.at = view[t].at /\ v.use = view[t].use \cup {Current(t)}
              /\ v.made = view[t].made /\ v.nicks = view[t].nicks /\ v.gone = view[t].gone
          BY <2>2, CurrentType DEF Views
        <4>2. NextName(t, v)
          BY <2>3, <3>1 DEF Found
        <4> HIDE DEF v
        <4> QED BY <2>1, <2>2, <2>3, <3>1, <4>1, <4>2, NextNameTurn, CurrentType DEF UseIngredient, GoesOn
      <3>2. CASE ~ IsDishJob(t)
        BY <2>1, <2>3, <3>2, FinishTurn DEF Found
      <3> QED BY <3>1, <3>2
    <2>4. CASE /\ pc' = [pc EXCEPT ![t] = "alias"] /\ UNCHANGED <<job, view, seen, lock>>
               /\ Current(t) \notin ingredients
      BY <2>1, <2>4 DEF OthersRest, GoesOn, TypeOK
    <2> QED BY <1>6, <2>3, <2>4 DEF FindIngredient
  <1>7. CASE FindAlias(t)
    <2>1. pc[t] = "alias" /\ UNCHANGED tables /\ UNCHANGED bounds
      BY <1>7 DEF FindAlias, bounds
    <2>2. job[t].op \in {"create", "update", "ingredient"}
      BY <2>1 DEF JobFits, Fits
    <2>3. CASE Found(t, aliasOf[Current(t)]) /\ aliasOf[Current(t)] # NoName
      <3>0. aliasOf[Current(t)] \in Names
        BY <2>2, <2>3, CurrentType DEF TypeOK
      <3>1. CASE IsDishJob(t)
        <4> DEFINE n == aliasOf[Current(t)]
                   v == [view[t] EXCEPT !.use = @ \cup {n}]
        <4>1. /\ v \in Views /\ v.at = view[t].at /\ v.use = view[t].use \cup {n}
              /\ v.made = view[t].made /\ v.nicks = view[t].nicks /\ v.gone = view[t].gone
          BY <2>2, <3>0, CurrentType DEF Views
        <4>2. NextName(t, v)
          BY <2>3, <3>1 DEF Found
        <4> HIDE DEF v
        <4> QED BY <2>1, <3>0, <3>1, <4>1, <4>2, NextNameTurn DEF UseIngredient, GoesOn
      <3>2. CASE ~ IsDishJob(t)
        BY <2>1, <2>3, <3>2, FinishTurn DEF Found
      <3> QED BY <3>1, <3>2
    <2>4. CASE /\ pc' = [pc EXCEPT ![t] = "new"] /\ UNCHANGED <<job, view, seen, lock>>
               /\ IsDishJob(t) /\ aliasOf[Current(t)] = NoName
      BY <2>1, <2>4 DEF OthersRest, GoesOn, TypeOK
    <2>5. CASE NextName(t, view[t]) /\ ~ IsDishJob(t) /\ aliasOf[Current(t)] = NoName
      BY <2>1, <2>2, <2>5, NextNameTurn, CurrentType DEF LookedUp, GoesOn
    <2> QED BY <1>7, <2>3, <2>4, <2>5 DEF FindAlias
  <1>8. CASE InsertIngredient(t)
    <2> DEFINE n == ToInsert(t)
               v == [view[t] EXCEPT !.made = @ \cup {n}]
               w == [v EXCEPT !.use = @ \cup {n}]
    <2>1. pc[t] = "new" /\ BlockedBy(t) = {} /\ UNCHANGED tables /\ UNCHANGED bounds
      BY <1>8 DEF InsertIngredient, bounds
    <2>2. job[t].op \in {"create", "update", "ingredient"}
      BY <2>1 DEF JobFits, Fits
    <2>3. n \in Names /\ view[t] \in Views
      BY <2>2, CurrentType
    <2>4. CASE Finish(t)
      BY <2>1, <2>4, FinishTurn
    <2>5. CASE IsDishJob(t) /\ NextName(t, w)
      <3>1. /\ w \in Views /\ w.at = view[t].at /\ w.use = view[t].use \cup {n}
            /\ w.made = view[t].made \cup {n} /\ w.nicks = view[t].nicks /\ w.gone = view[t].gone
        BY <2>3 DEF Views
      <3>2. n = Current(t)
        BY <2>5 DEF ToInsert
      <3> HIDE DEF w, v, n
      <3> QED BY <2>1, <2>3, <2>5, <3>1, <3>2, NextNameTurn DEF UseIngredient, GoesOn
    <2>6. CASE /\ ~ IsDishJob(t)
               /\ pc' = [pc EXCEPT ![t] = IF Len(job[t].names) = 1 THEN "commit" ELSE "nick"]
               /\ view' = [view EXCEPT ![t] = [v EXCEPT !.at = IF Len(job[t].names) = 1 THEN 1 ELSE 2]]
               /\ UNCHANGED <<job, seen, lock>>
      <3>1. view'[t] = [v EXCEPT !.at = IF Len(job[t].names) = 1 THEN 1 ELSE 2]
        BY <2>6 DEF TypeOK
      <3>2. n = job[t].names[1]
        BY <2>6 DEF ToInsert
      <3>3. NameInserted(t)
        BY <2>1, <2>3, <2>6, <3>1, <3>2 DEF NameInserted, TypeOK, Views
      <3> QED BY <2>1, <2>6, <3>3 DEF OthersRest, GoesOn, TypeOK
    <2> QED BY <1>8, <2>4, <2>5, <2>6 DEF InsertIngredient
  <1>9. CASE InsertAlias(t)
    <2>1. pc[t] = "nick" /\ BlockedBy(t) = {} /\ UNCHANGED tables /\ UNCHANGED bounds
      BY <1>9 DEF InsertAlias, bounds
    <2>2. CASE Finish(t)
      BY <2>1, <2>2, FinishTurn
    <2>3. CASE ~ Finish(t)
      <3> DEFINE a == IF view[t].at = Len(job[t].names) THEN view[t].at ELSE view[t].at + 1
      <3>1. /\ view' = [view EXCEPT ![t].nicks = @ \cup {Current(t)}, ![t].at = a]
            /\ UNCHANGED <<job, seen, lock>> /\ aliasOf[Current(t)] = NoName
            /\ pc' = [pc EXCEPT ![t] = IF view[t].at = Len(job[t].names) THEN "commit" ELSE "nick"]
        BY <1>9, <2>3 DEF InsertAlias
      <3>2. AliasInserted(t)
        BY <2>1, <3>1 DEF AliasInserted, TypeOK, Views
      <3> QED BY <2>1, <3>1, <3>2 DEF OthersRest, GoesOn, TypeOK
    <2> QED BY <2>2, <2>3
  <1>10. CASE BreakDeadlock(t)
    <2>1. pc[t] # "idle"
      <3>1. BlockedBy(t) # {}
        <4>1. \A C \in SUBSET Tasks :
                 BlockedBy(t) \subseteq C /\ (\A u \in C : BlockedBy(u) \subseteq C) => t \in C
          BY <1>10 DEF BreakDeadlock
        <4> QED BY <4>1
      <3> QED BY <3>1 DEF BlockedBy
    <2> QED BY <1>10, <2>1, FinishTurn DEF BreakDeadlock, bounds
  <1>11. CASE Fail(t)
    BY <1>11, FinishTurn DEF Fail, bounds
  <1> QED BY <1>1, <1>2, <1>3, <1>4, <1>5, <1>6, <1>7, <1>8, <1>9, <1>10, <1>11 DEF Proceed

\* A request arrives at t, which was idle.
Started(t) ==
  /\ pc[t] = "idle" /\ UNCHANGED <<tables, lock, view, seen>>
  /\ arrivals' = arrivals + 1 /\ job'[t].by = arrivals + 1
  /\ \A u \in Tasks \ {t} : pc'[u] = pc[u] /\ job'[u] = job[u]
  /\ alone' = (alone /\ \A u \in Tasks : pc[u] = "idle")
  /\ \/ /\ job'[t].op = "create" /\ pc'[t] = "insert"
        /\ dishRow[job'[t].dish].by = 0
        /\ \A u \in Tasks : job[u].op = "create" => job[u].dish # job'[t].dish
     \/ job'[t].op \in {"update", "archive"} /\ pc'[t] = "load"
     \/ job'[t].op = "ingredient" /\ pc'[t] = "find"

LEMMA ArrivalStep ==
  ASSUME TypeOK, NEW t \in Tasks,
         ArriveCreate(t) \/ ArriveUpdate(t) \/ ArriveArchive(t) \/ ArriveIngredient(t)
  PROVE  Started(t)
  BY DEF ArriveCreate, ArriveUpdate, ArriveArchive, ArriveIngredient, Arrive, Goto, Started, TypeOK

\* Every step of the specification is one of these.
LEMMA Steps ==
  ASSUME TypeOK, JobFits, [Next]_vars
  PROVE  \/ \E t \in Tasks : Started(t)
         \/ \E t \in Tasks : Turn(t)
         \/ UNCHANGED vars
  BY ArrivalStep, TaskStep DEF Next

\* What a request may need to start, and its fit.
LEMMA StartedFits ==
  ASSUME TypeOK, TypeOK', JobFits, NEW t \in Tasks, Started(t)
  PROVE  Fits(t)'
  <1>1. view'[t] = NoView /\ NoView.at = 1
    BY DEF Started, JobFits, Fits, NoView
  <1>2. job'[t] \in Jobs \cup {NoJob}
    BY DEF TypeOK
  <1>3. job'[t].op \in {"create", "update", "ingredient"} => 1 \in 1 .. Len(job'[t].names)
    BY <1>2, JobFields, BoundsAssumption
  <1>4. job'[t].op # "none" /\ job'[t] # NoJob
    BY <1>2, JobFields DEF Started
  <1> QED BY <1>1, <1>2, <1>3, <1>4, JobFields DEF Started, Fits

\* A handler that goes on runs a statement of its own next.
LEMMA GoesOnFits ==
  ASSUME TypeOK, TypeOK', JobFits, NEW t \in Tasks, pc[t] # "idle", GoesOn(t)
  PROVE  Fits(t)'
  <1>1. Fits(t) /\ job'[t] = job[t] /\ job[t] # NoJob
    BY DEF JobFits, Fits, GoesOn
  <1>2. job[t].op \in {"create", "update", "ingredient"} =>
          /\ Len(job[t].names) \in Nat /\ Len(job[t].names) >= 1
          /\ view[t].at \in Nat
    BY <1>1, CurrentType
  <1>3. CASE UseIngredient(t)
    BY <1>1, <1>2, <1>3 DEF UseIngredient, Fits, IsDishJob
  <1>4. CASE LookedUp(t)
    BY <1>1, <1>2, <1>4 DEF LookedUp, Fits, IsDishJob
  <1>5. CASE NameInserted(t)
    <2>1. job[t].op = "ingredient" /\ pc'[t] \in {"commit", "nick"}
      BY <1>1, <1>5 DEF NameInserted, Fits, IsDishJob
    <2>2. view'[t].at \in 1 .. Len(job[t].names)
      <3> DEFINE k == Len(job[t].names)
      <3>1. k \in Nat /\ k >= 1
        BY <1>2, <2>1
      <3>2. (k = 1 /\ view'[t].at = 1) \/ (k # 1 /\ view'[t].at = 2)
        BY <1>5 DEF NameInserted
      <3> HIDE DEF k
      <3>3. view'[t].at \in 1 .. k
        BY <3>1, <3>2
      <3> QED BY <3>3 DEF k
    <2> QED BY <1>1, <2>1, <2>2 DEF Fits
  <1>6. CASE AliasInserted(t)
    BY <1>1, <1>2, <1>6 DEF AliasInserted, Fits, IsDishJob
  <1>7. CASE /\ pc[t] = "clear" /\ pc'[t] = "find" /\ view'[t].at = view[t].at
    BY <1>1, <1>7 DEF Fits
  <1>8. CASE view'[t] = view[t] /\ GoesOn(t) /\ ~ UseIngredient(t) /\ ~ LookedUp(t)
             /\ ~ NameInserted(t) /\ ~ AliasInserted(t) /\ pc[t] # "clear"
    BY <1>1, <1>8 DEF Fits, GoesOn, IsDishJob
  <1>9. pc[t] = "clear" => pc'[t] = "find" /\ view'[t].at = view[t].at
    BY DEF GoesOn, UseIngredient, LookedUp, NameInserted, AliasInserted, TypeOK, Views
  <1> QED BY <1>3, <1>4, <1>5, <1>6, <1>7, <1>8, <1>9 DEF GoesOn

LEMMA FitsStep == TypeOK /\ TypeOK' /\ JobFits /\ [Next]_vars => JobFits'
  <1> SUFFICES ASSUME TypeOK, TypeOK', JobFits, [Next]_vars, NEW u \in Tasks
               PROVE  Fits(u)'
    BY DEF JobFits
  <1>1. ASSUME pc'[u] = pc[u], job'[u] = job[u], view'[u] = view[u] PROVE Fits(u)'
    BY <1>1 DEF JobFits, Fits
  <1>2. ASSUME NEW t \in Tasks, Started(t) PROVE Fits(u)'
    <2>1. CASE u = t
      BY <1>2, <2>1, StartedFits
    <2>2. CASE u # t
      BY <1>1, <1>2, <2>2 DEF Started
    <2> QED BY <2>1, <2>2
  <1>3. ASSUME NEW t \in Tasks, Turn(t) PROVE Fits(u)'
    <2>1. CASE u = t /\ Ended(t)
      BY <2>1 DEF Ended, Fits, NoJob
    <2>2. CASE u = t /\ GoesOn(t)
      BY <1>3, <2>2, GoesOnFits DEF Turn
    <2>3. CASE u # t
      BY <1>1, <1>3, <2>3 DEF OthersRest, Turn
    <2> QED BY <1>3, <2>1, <2>2, <2>3 DEF Turn
  <1>4. CASE UNCHANGED vars
    BY <1>1, <1>4 DEF vars
  <1> QED BY <1>2, <1>3, <1>4, Steps

LEMMA InitTypes == Init => TypeOK /\ JobFits
  <1>1. Init => TypeOK
    BY BoundsAssumption DEF Init, TypeOK, ContentsOK, Labels, Views, NoView, NoRow, NoColumns,
       Requests
  <1>2. Init => JobFits
    BY DEF Init, JobFits, Fits, NoJob
  <1> QED BY <1>1, <1>2

-----------------------------------------------------------------------------
(* The dishes.                                                             *)

Resolving == {"find", "alias", "new", "commit"}

\* What a handler knows of the row of its dish: a new dish has none; the row of
\* an update is there and, from its flush on, is held, so that the links it has
\* deleted are still all of them.
Owns(t) ==
  LET d == job[t].dish
  IN  /\ job[t].op = "create" =>
           /\ dishRow[d].by = 0
           /\ \A u \in Tasks \ {t} : job[u].op = "create" => job[u].dish # d
      /\ job[t].op \in {"update", "archive"} /\ pc[t] # "load" => dishRow[d].by # 0
      /\ job[t].op = "update" /\ pc[t] \in Resolving \cup {"clear"} => lock[d] = t
      /\ IsDishJob(t) /\ pc[t] \in Resolving => view[t].gone = {dishRow[d].by} \ {0}
      /\ IsDishJob(t) /\ pc[t] = "commit" => view[t].use # {}

Own == \A t \in Tasks : Owns(t)

\* No alias is inserted twice, and each maps to an ingredient that is there.
Nicks ==
  /\ \A t \in Tasks : \A n \in view[t].nicks :
       aliasOf[n] = NoName /\ \A u \in Tasks \ {t} : n \notin view[u].nicks
  /\ \A t \in Tasks : job[t].op = "ingredient" /\ pc[t] \in {"nick", "commit"} =>
       job[t].names[1] \in view[t].made
  /\ \A n \in Names : aliasOf[n] # NoName => aliasOf[n] \in ingredients

\* The ingredients a handler has for its dish are there or made by it, were
\* asked for, and cover the names before the one in hand.
Covers(t) ==
  /\ view[t].use \subseteq ingredients \cup view[t].made
  /\ \A i \in view[t].use : \E n \in Wish(t) : n = i \/ aliasOf[n] = i
  /\ \A k \in DOMAIN job[t].names :
       k < view[t].at \/ pc[t] = "commit" =>
         job[t].names[k] \in view[t].use \/ aliasOf[job[t].names[k]] \in view[t].use

Cover == \A t \in Tasks : IsDishJob(t) => Covers(t)

\* The commit of a dish replaces all its links, and leaves the other dishes.
LEMMA DishCommitted ==
  ASSUME TypeOK, JobFits, Own, LinksWhole, NEW t \in Tasks, CommitDish(t)
  PROVE  LET d == job[t].dish
             b == job[t].by
         IN  /\ d \in Dishes /\ b \in Requests /\ IsDishJob(t) /\ view[t].use # {}
             /\ {r \in cooks' : r.dish = d} = {[dish |-> d, by |-> b]}
             /\ {l \in links' : l.dish = d} = {[dish |-> d, ingredient |-> n, by |-> b] : n \in view[t].use}
             /\ dishRow'[d] = [by |-> b, archived |-> dishRow[d].archived, wish |-> Wish(t)]
             /\ \A e \in Dishes \ {d} :
                  /\ {r \in cooks' : r.dish = e} = {r \in cooks : r.dish = e}
                  /\ {l \in links' : l.dish = e} = {l \in links : l.dish = e}
                  /\ dishRow'[e] = dishRow[e]
  <1> DEFINE d == job[t].dish
             b == job[t].by
  <1>1. IsDishJob(t) /\ d \in Dishes /\ b \in Requests /\ view[t].use # {}
        /\ view[t].gone = {dishRow[d].by} \ {0}
    <2>1. pc[t] = "commit" /\ IsDishJob(t) /\ Owns(t)
      BY DEF CommitDish, Own
    <2>2. d \in Dishes /\ b \in Requests
      BY <2>1, JobFields DEF IsDishJob, TypeOK
    <2> QED BY <2>1, <2>2 DEF Owns, Resolving
  <1>2. /\ \A r \in cooks : r.dish = d => r.by \in view[t].gone
        /\ \A l \in links : l.dish = d => l.by \in view[t].gone
    <2>1. /\ {c.by : c \in {r \in cooks : r.dish = d}} = view[t].gone
          /\ {l.by : l \in {r \in links : r.dish = d}} = view[t].gone
      BY <1>1 DEF LinksWhole
    <2> QED BY <2>1
  <1>3. /\ cooks' = {c \in cooks : c.dish # d \/ c.by \notin view[t].gone} \cup {[dish |-> d, by |-> b]}
        /\ links' = {l \in links : l.dish # d \/ l.by \notin view[t].gone}
                       \cup {[dish |-> d, ingredient |-> n, by |-> b] : n \in view[t].use}
        /\ dishRow' = [dishRow EXCEPT ![d].by = b, ![d].wish = Wish(t)]
    BY DEF CommitDish
  <1>4. {r \in cooks' : r.dish = d} = {[dish |-> d, by |-> b]}
    BY <1>2, <1>3
  <1>5. {l \in links' : l.dish = d} = {[dish |-> d, ingredient |-> n, by |-> b] : n \in view[t].use}
    BY <1>2, <1>3
  <1>6. dishRow'[d] = [by |-> b, archived |-> dishRow[d].archived, wish |-> Wish(t)]
    <2>1. dishRow'[d] = [dishRow[d] EXCEPT !.by = b, !.wish = Wish(t)]
      BY <1>1, <1>3 DEF TypeOK
    <2>2. dishRow[d] \in [by : {0} \cup Requests, archived : BOOLEAN, wish : SUBSET Names]
      BY <1>1 DEF TypeOK
    <2> HIDE DEF d, b
    <2> QED BY <2>1, <2>2
  <1>7. ASSUME NEW e \in Dishes \ {d}
        PROVE  /\ {r \in cooks' : r.dish = e} = {r \in cooks : r.dish = e}
               /\ {l \in links' : l.dish = e} = {l \in links : l.dish = e}
               /\ dishRow'[e] = dishRow[e]
    BY <1>3, <1>7 DEF TypeOK
  <1> HIDE DEF d, b
  <1>8. /\ d \in Dishes /\ b \in Requests /\ IsDishJob(t) /\ view[t].use # {}
        /\ \A e \in Dishes \ {d} :
             /\ {r \in cooks' : r.dish = e} = {r \in cooks : r.dish = e}
             /\ {l \in links' : l.dish = e} = {l \in links : l.dish = e}
             /\ dishRow'[e] = dishRow[e]
    BY <1>1, <1>7
  <1> QED BY <1>4, <1>5, <1>6, <1>8 DEF d, b

LEMMA WholeStep ==
  ASSUME TypeOK, JobFits, Own, LinksWhole, [Next]_vars
  PROVE  LinksWhole'
  <1>1. CASE UNCHANGED tables
    BY <1>1 DEF LinksWhole, tables
  <1>2. ASSUME NEW t \in Tasks, CommitDish(t) PROVE LinksWhole'
    <2> DEFINE d == job[t].dish
               b == job[t].by
    <2>1. d \in Dishes /\ b # 0 /\ dishRow'[d].by = b
      <3>1. d \in Dishes /\ b \in Requests
            /\ dishRow'[d] = [by |-> b, archived |-> dishRow[d].archived, wish |-> Wish(t)]
        BY <1>2, DishCommitted
      <3> HIDE DEF d, b
      <3> QED BY <3>1, BoundsAssumption DEF Requests
    <2>2. {c.by : c \in {r \in cooks' : r.dish = d}} = {b}
      <3>1. {r \in cooks' : r.dish = d} = {[dish |-> d, by |-> b]}
        BY <1>2, DishCommitted
      <3> HIDE DEF d, b
      <3>2. \A c \in {r \in cooks' : r.dish = d} : c.by = b
        BY <3>1
      <3>3. {r \in cooks' : r.dish = d} # {}
        BY <3>1
      <3> QED BY <3>2, <3>3
    <2>3. {l.by : l \in {r \in links' : r.dish = d}} = {b}
      <3>1. {r \in links' : r.dish = d} = {[dish |-> d, ingredient |-> n, by |-> b] : n \in view[t].use}
            /\ view[t].use # {}
        BY <1>2, DishCommitted
      <3> HIDE DEF d, b
      <3>2. \A l \in {r \in links' : r.dish = d} : l.by = b
        BY <3>1
      <3>3. {r \in links' : r.dish = d} # {}
        BY <3>1
      <3> QED BY <3>2, <3>3
    <2>4. \A e \in Dishes \ {d} :
            /\ {r \in cooks' : r.dish = e} = {r \in cooks : r.dish = e}
            /\ {l \in links' : l.dish = e} = {l \in links : l.dish = e}
            /\ dishRow'[e] = dishRow[e]
      BY <1>2, DishCommitted
    <2> HIDE DEF d, b
    <2>5. ASSUME NEW e \in Dishes
          PROVE  /\ {c.by : c \in {r \in cooks' : r.dish = e}} = {dishRow'[e].by} \ {0}
                 /\ {l.by : l \in {r \in links' : r.dish = e}} = {dishRow'[e].by} \ {0}
      <3>1. CASE e = d
        BY <2>1, <2>2, <2>3, <3>1
      <3>2. CASE e # d
        BY <2>4, <3>2 DEF LinksWhole
      <3> QED BY <3>1, <3>2
    <2> QED BY <2>5 DEF LinksWhole
  <1>3. ASSUME NEW t \in Tasks, ArchiveDish(t) PROVE LinksWhole'
    <2>1. cooks' = cooks /\ links' = links /\ \A d \in Dishes : dishRow'[d].by = dishRow[d].by
      BY <1>3 DEF ArchiveDish, TypeOK
    <2> QED BY <2>1 DEF LinksWhole
  <1>4. ASSUME NEW t \in Tasks, CommitIngredient(t) PROVE LinksWhole'
    BY <1>4 DEF CommitIngredient, LinksWhole
  <1> QED BY <1>1, <1>2, <1>3, <1>4, Steps DEF Started, Turn, vars, tables

\* A handler's own steps keep what it knows of its dish ...
LEMMA OwnGoesOn ==
  ASSUME TypeOK, JobFits, Own, LinksWhole, NEW t \in Tasks, pc[t] # "idle",
         UNCHANGED tables, GoesOn(t), OthersRest(t)
  PROVE  Owns(t)'
  <1>1. /\ Owns(t) /\ Fits(t) /\ job'[t] = job[t] /\ job[t] # NoJob
        /\ dishRow' = dishRow /\ \A u \in Tasks \ {t} : job'[u] = job[u]
    BY DEF Own, JobFits, Fits, GoesOn, OthersRest, tables
  <1>2. job[t].op \in {"create", "update", "archive"} => job[t].dish \in Dishes
    BY JobFields DEF TypeOK
  <1>3. \A d \in Dishes : lock[d] = t => lock'[d] = t
    BY DEF GoesOn
  <1>4. CASE UseIngredient(t)
    BY <1>1, <1>2, <1>3, <1>4 DEF UseIngredient, Owns, Resolving, IsDishJob
  <1>5. CASE LookedUp(t) \/ NameInserted(t) \/ AliasInserted(t)
    <2>1. job[t].op = "ingredient"
      BY <1>1, <1>5 DEF LookedUp, NameInserted, AliasInserted, Fits, IsDishJob
    <2> QED BY <1>1, <2>1 DEF Owns, IsDishJob
  <1>6. CASE pc[t] = "clear"
    <2>1. /\ pc'[t] = "find" /\ IsDishJob(t) /\ job[t].dish \in Dishes
          /\ view'[t] = [view[t] EXCEPT !.gone = {r.by : r \in {c \in cooks : c.dish = job[t].dish}}
                                          \cup {r.by : r \in {l \in links : l.dish = job[t].dish}}]
      BY <1>1, <1>2, <1>6 DEF GoesOn, UseIngredient, LookedUp, NameInserted, AliasInserted, Fits, IsDishJob
    <2>2. view'[t].gone = {dishRow[job[t].dish].by} \ {0}
      <3>1. view[t] \in Views
        BY DEF TypeOK
      <3>2. view'[t].gone = {r.by : r \in {c \in cooks : c.dish = job[t].dish}}
                             \cup {r.by : r \in {l \in links : l.dish = job[t].dish}}
        BY <2>1, <3>1 DEF Views
      <3> QED BY <2>1, <3>2 DEF LinksWhole
    <2> QED BY <1>1, <1>2, <1>3, <1>6, <2>1, <2>2 DEF Owns, Resolving, IsDishJob
  <1>7. CASE view'[t] = view[t] /\ pc[t] # "clear"
             /\ ~ (UseIngredient(t) \/ LookedUp(t) \/ NameInserted(t) \/ AliasInserted(t))
    <2>1. /\ pc'[t] = "commit" => pc[t] = "commit"
          /\ pc[t] = "load" => job[t].op \in {"update", "archive"} /\ dishRow[job[t].dish].by # 0
          /\ job[t].op = "update" /\ pc'[t] = "clear" => lock'[job[t].dish] = t
          /\ pc'[t] \in Resolving => pc[t] \in Resolving
      BY <1>1, <1>7 DEF GoesOn, Fits, Resolving
    <2>2. pc'[t] # "load"
      BY <1>7 DEF GoesOn
    <2>3. pc'[t] = "clear" \/ pc'[t] \in Resolving \/ pc'[t] \in {"cooks", "archive"}
      BY <1>7 DEF GoesOn, Resolving
    <2> QED BY <1>1, <1>2, <1>3, <1>7, <2>1, <2>2, <2>3 DEF Owns, Resolving, IsDishJob
  <1> QED BY <1>4, <1>5, <1>6, <1>7 DEF GoesOn

\* ... and so do the steps of the others.
LEMMA OwnOthers ==
  ASSUME TypeOK, JobFits, Own, LinksWhole, NEW t \in Tasks, Turn(t), NEW u \in Tasks \ {t}
  PROVE  Owns(u)'
  <1>1. /\ Owns(u) /\ Owns(t) /\ pc'[u] = pc[u] /\ job'[u] = job[u] /\ view'[u] = view[u]
        /\ \A d \in Dishes : lock[d] = u => lock'[d] = u
    BY NobodyAssumption DEF Own, Turn, OthersRest
  <1>2. \A w \in Tasks : job'[w].op = "create" => job'[w] = job[w]
    BY DEF Turn, OthersRest, Ended, GoesOn, NoJob
  <1>3. job[u].op \in {"create", "update", "archive"} => job[u].dish \in Dishes
    BY JobFields DEF TypeOK
  <1>4. CASE \A d \in Dishes : dishRow'[d].by = dishRow[d].by
    BY <1>1, <1>2, <1>3, <1>4 DEF Owns, IsDishJob
  <1>5. CASE CommitDish(t)
    <2> DEFINE d == job[t].dish
    <2>1. /\ d \in Dishes /\ IsDishJob(t) /\ job[t].by \in Requests /\ pc[t] = "commit"
          /\ dishRow'[d].by # 0 /\ \A e \in Dishes \ {d} : dishRow'[e] = dishRow[e]
      <3>1. /\ d \in Dishes /\ IsDishJob(t) /\ job[t].by \in Requests
            /\ dishRow'[d] = [by |-> job[t].by, archived |-> dishRow[d].archived, wish |-> Wish(t)]
            /\ \A e \in Dishes \ {d} : dishRow'[e] = dishRow[e]
        BY <1>5, DishCommitted
      <3>2. pc[t] = "commit"
        BY <1>5 DEF CommitDish
      <3>3. job[t].by # 0
        BY <3>1, BoundsAssumption DEF Requests
      <3> QED BY <3>1, <3>2, <3>3
    <2>2. job[t].op \in {"create", "update"}
      BY <2>1 DEF IsDishJob
    <2>3. CASE job[u].op \in {"create", "update", "archive"} /\ job[u].dish = d
      <3>1. job[u].op = "create" => FALSE
        BY <1>1, <2>1, <2>2, <2>3 DEF Owns, Resolving
      <3>2. job[u].op = "update" => pc[u] \notin Resolving
        BY <1>1, <2>1, <2>2, <2>3 DEF Owns, Resolving
      <3> QED BY <1>1, <2>1, <2>3, <3>1, <3>2 DEF Owns, IsDishJob, Resolving
    <2>4. CASE job[u].op \in {"create", "update", "archive"} /\ job[u].dish # d
      <3>1. dishRow'[job[u].dish] = dishRow[job[u].dish]
        BY <1>3, <2>1, <2>4
      <3> QED BY <1>1, <1>2, <1>3, <3>1 DEF Owns, IsDishJob
    <2>5. CASE job[u].op \notin {"create", "update", "archive"}
      BY <1>1, <2>5 DEF Owns, IsDishJob
    <2> QED BY <2>3, <2>4, <2>5
  <1>6. ArchiveDish(t) => \A d \in Dishes : dishRow'[d].by = dishRow[d].by
    BY DEF ArchiveDish, TypeOK
  <1>7. CommitIngredient(t) \/ UNCHANGED tables => dishRow' = dishRow
    BY DEF CommitIngredient, tables
  <1> QED BY <1>4, <1>5, <1>6, <1>7 DEF Turn

LEMMA OwnStep ==
  ASSUME TypeOK, JobFits, Own, LinksWhole, [Next]_vars
  PROVE  Own'
  <1>1. ASSUME NEW t \in Tasks, Started(t), NEW u \in Tasks PROVE Owns(u)'
    <2>1. dishRow' = dishRow /\ lock' = lock /\ view' = view
          /\ \A w \in Tasks \ {t} : pc'[w] = pc[w] /\ job'[w] = job[w]
      BY <1>1 DEF Started, tables
    <2>2. CASE u = t
      BY <1>1, <2>1, <2>2 DEF Started, Owns, Resolving, IsDishJob
    <2>3. CASE u # t
      <3>1. Owns(u)
        BY DEF Own
      <3>2. job[u].op = "create" /\ job'[t].op = "create" => job[u].dish # job'[t].dish
        BY <1>1 DEF Started
      <3> QED BY <2>1, <2>3, <3>1, <3>2 DEF Owns, IsDishJob
    <2> QED BY <2>2, <2>3
  <1>2. ASSUME NEW t \in Tasks, Turn(t), NEW u \in Tasks PROVE Owns(u)'
    <2>1. CASE u = t /\ Ended(t)
      BY <2>1 DEF Ended, Owns, NoJob, IsDishJob
    <2>2. CASE u = t /\ ~ Ended(t)
      BY <1>2, <2>2, OwnGoesOn DEF Turn
    <2>3. CASE u # t
      BY <1>2, <2>3, OwnOthers
    <2> QED BY <2>1, <2>2, <2>3
  <1>3. ASSUME UNCHANGED vars, NEW u \in Tasks PROVE Owns(u)'
    BY <1>3 DEF vars, tables, Own, Owns, IsDishJob
  <1> QED BY <1>1, <1>2, <1>3, Steps DEF Own

-----------------------------------------------------------------------------
(* The columns.                                                            *)

\* Every request that runs has a number of its own, which no row has yet.
Numbered ==
  /\ \A t \in Tasks : pc[t] # "idle" =>
       /\ job[t].by \in 1 .. arrivals
       /\ \A u \in Tasks \ {t} : pc[u] # "idle" => job[u].by # job[t].by
       /\ \A u \in Tasks : seen[u].by # job[t].by
       /\ \A d \in Dishes : dishRow[d].by # job[t].by
  /\ \A d \in Dishes : dishRow[d].by <= arrivals
  /\ \A t \in Tasks : seen[t].by <= arrivals

\* As long as nobody has written the row that t has loaded, its columns are those
\* that t has loaded.  A row that is not there has none.
Knows(t) ==
  LET d == job[t].dish
  IN  /\ pc[t] \in {"idle", "load"} => seen[t] = NoRow
      /\ pc[t] \notin {"idle", "load"} /\ job[t].op # "ingredient" /\ ~ Overtaken(t) =>
           columns[d] = seen[t].columns

Known ==
  /\ \A t \in Tasks : Knows(t)
  /\ \A d \in Dishes : dishRow[d].by = 0 => columns[d] = NoColumns

LEMMA NumberedStep ==
  ASSUME TypeOK, JobFits, Own, LinksWhole, Numbered, [Next]_vars
  PROVE  Numbered'
  <1>0. /\ arrivals \in Nat
        /\ \A d \in Dishes : dishRow[d].by \in Nat
        /\ \A t \in Tasks : seen[t].by \in Nat
    BY BoundsAssumption DEF TypeOK, ContentsOK, Requests
  <1>1. CASE UNCHANGED vars
    BY <1>1 DEF Numbered, vars, tables, bounds
  <1>2. ASSUME NEW t \in Tasks, Started(t) PROVE Numbered'
    <2>1. /\ arrivals' = arrivals + 1 /\ job'[t].by = arrivals + 1
          /\ dishRow' = dishRow /\ seen' = seen
          /\ \A u \in Tasks \ {t} : pc'[u] = pc[u] /\ job'[u] = job[u]
      BY <1>2 DEF Started, tables
    <2> QED BY <1>0, <2>1 DEF Numbered
  <1>3. ASSUME NEW t \in Tasks, Turn(t) PROVE Numbered'
    <2>1. /\ arrivals' = arrivals /\ pc[t] # "idle"
          /\ \A u \in Tasks \ {t} : pc'[u] = pc[u] /\ job'[u] = job[u] /\ seen'[u] = seen[u]
      BY <1>3 DEF Turn, OthersRest, bounds
    <2>2. CASE GoesOn(t) /\ dishRow' = dishRow
      <3>1. job'[t] = job[t] /\ (seen'[t].by = seen[t].by \/ \E d \in Dishes : seen'[t].by = dishRow[d].by)
        <4>1. pc[t] = "load" => job[t].dish \in Dishes
          BY JobFields DEF JobFits, Fits, TypeOK
        <4> QED BY <2>2, <4>1 DEF GoesOn
      <3> QED BY <1>0, <2>1, <2>2, <3>1 DEF Numbered
    <2>3. CASE Ended(t)
      <3>1. pc'[t] = "idle" /\ seen'[t].by = 0
        BY <2>3 DEF Ended, NoRow
      <3>2. \A d \in Dishes : dishRow'[d].by \in {dishRow[d].by, job[t].by}
        <4>1. CASE CommitDish(t)
          <5>1. /\ dishRow'[job[t].dish] = [by |-> job[t].by,
                      archived |-> dishRow[job[t].dish].archived, wish |-> Wish(t)]
                /\ \A e \in Dishes \ {job[t].dish} : dishRow'[e] = dishRow[e]
            BY <4>1, DishCommitted
          <5> QED BY <5>1
        <4>2. CASE ArchiveDish(t)
          BY <4>2 DEF ArchiveDish, TypeOK
        <4>3. CASE dishRow' = dishRow
          BY <4>3
        <4> QED BY <1>3, <4>1, <4>2, <4>3 DEF Turn, CommitIngredient, GoesOn, tables
      <3> QED BY <1>0, <2>1, <3>1, <3>2 DEF Numbered
    <2> QED BY <1>3, <2>2, <2>3 DEF Turn, tables
  <1> QED BY <1>1, <1>2, <1>3, Steps

\* The UPDATE of a handler that nobody has overtaken sets what was asked for.
LEMMA WrittenMeant ==
  ASSUME TypeOK, Known, NEW t \in Tasks, ~ Overtaken(t), pc[t] \notin {"idle", "load"},
         job[t].dish \in Dishes, job[t].op # "ingredient"
  PROVE  /\ job[t].setting \in [Columns -> Values] => Written(t) = job[t].setting
         /\ job[t].setting \in [{Editor} -> Values] =>
              Written(t) = [columns[job[t].dish] EXCEPT ![Editor] = job[t].setting[Editor]]
  <1>1. columns[job[t].dish] = seen[t].columns
    BY DEF Known, Knows
  <1>2. columns[job[t].dish] \in [Columns -> Values \cup {NoValue}]
    BY DEF TypeOK, ContentsOK
  <1> QED BY <1>1, <1>2, ColumnsAssumption DEF Written

LEMMA ColumnsStep ==
  ASSUME TypeOK, JobFits, Own, LinksWhole, Known, ColumnsWhole, [Next]_vars
  PROVE  ColumnsWhole'
  <1>1. CASE UNCHANGED contents
    BY <1>1 DEF ColumnsWhole, contents
  <1>2. ASSUME NEW t \in Tasks, CommitDish(t) PROVE ColumnsWhole'
    <2>1. /\ pc[t] = "commit" /\ job[t].op \in {"create", "update"} /\ job[t].dish \in Dishes
          /\ job[t].setting \in [Columns -> Values]
      BY <1>2, JobFields DEF CommitDish, IsDishJob, TypeOK
    <2>2. ~ Overtaken(t) => Written(t) = job[t].setting
      BY <2>1, WrittenMeant
    <2> QED BY <1>2, <2>1, <2>2 DEF CommitDish, ColumnsWhole, TypeOK, ContentsOK
  <1>3. ASSUME NEW t \in Tasks, ArchiveDish(t) PROVE ColumnsWhole'
    <2> DEFINE d == job[t].dish
    <2>1. /\ pc[t] = "archive" /\ job[t].op = "archive" /\ d \in Dishes
          /\ job[t].setting \in [{Editor} -> Values]
      BY <1>3, JobFields DEF ArchiveDish, JobFits, Fits, TypeOK
    <2>2. /\ asked'[d].overtaken = (asked[d].overtaken \/ Overtaken(t))
          /\ asked'[d].columns = [asked[d].columns EXCEPT ![Editor] = job[t].setting[Editor]]
          /\ columns'[d] = Written(t)
          /\ \A e \in Dishes \ {d} : asked'[e] = asked[e] /\ columns'[e] = columns[e]
      BY <1>3, <2>1 DEF ArchiveDish, TypeOK, ContentsOK
    <2>3. ~ Overtaken(t) => Written(t) = [columns[d] EXCEPT ![Editor] = job[t].setting[Editor]]
      BY <2>1, WrittenMeant
    <2> HIDE DEF d
    <2> QED BY <2>2, <2>3 DEF ColumnsWhole
  <1> QED BY <1>1, <1>2, <1>3, Steps DEF Started, Turn, CommitIngredient, tables, vars

LEMMA KnownStep ==
  ASSUME TypeOK, JobFits, Own, LinksWhole, Numbered, Known, [Next]_vars
  PROVE  Known'
  <1>0. \A t \in Tasks : job[t].op \in {"create", "update", "archive"} => job[t].dish \in Dishes
    BY JobFields DEF TypeOK
  <1>1. CASE UNCHANGED vars
    BY <1>1 DEF Known, Knows, Overtaken, vars, tables, contents
  <1>2. ASSUME NEW t \in Tasks, Started(t) PROVE Known'
    <2>1. /\ UNCHANGED <<dishRow, columns, seen>> /\ seen[t] = NoRow
          /\ \A u \in Tasks \ {t} : pc'[u] = pc[u] /\ job'[u] = job[u]
      BY <1>2 DEF Started, Known, Knows, tables, contents
    <2>2. Knows(t)'
      <3>1. CASE job'[t].op = "create"
        <4>1. job'[t].dish \in Dishes
          <5>1. job'[t] \in Jobs \cup {NoJob}
            BY TypeStep DEF TypeOK
          <5> QED BY <3>1, <5>1, JobFields
        <4> QED BY <1>2, <2>1, <3>1, <4>1 DEF Started, Known, Knows, NoRow
      <3>2. CASE job'[t].op # "create"
        BY <1>2, <2>1, <3>2 DEF Started, Knows
      <3> QED BY <3>1, <3>2
    <2> QED BY <2>1, <2>2 DEF Known, Knows, Overtaken
  <1>3. ASSUME NEW t \in Tasks, Turn(t) PROVE Known'
    <2>1. /\ pc[t] # "idle"
          /\ \A u \in Tasks \ {t} : pc'[u] = pc[u] /\ job'[u] = job[u] /\ seen'[u] = seen[u]
      BY <1>3 DEF Turn, OthersRest
    <2>2. CASE Ended(t) /\ UNCHANGED <<dishRow, columns>>
      BY <2>1, <2>2 DEF Ended, Known, Knows, Overtaken
    <2>3. CASE GoesOn(t) /\ UNCHANGED <<dishRow, columns>>
      <3>1. pc'[t] \notin {"idle", "load"} /\ job'[t] = job[t]
        BY <2>3 DEF GoesOn, UseIngredient, LookedUp, NameInserted, AliasInserted
      <3>2. Knows(t)'
        <4>1. CASE pc[t] = "load"
          BY <2>3, <3>1, <4>1 DEF GoesOn, Knows
        <4>2. CASE pc[t] # "load"
          BY <2>1, <2>3, <3>1, <4>2 DEF GoesOn, Known, Knows, Overtaken
        <4> QED BY <4>1, <4>2
      <3> QED BY <2>1, <2>3, <3>2 DEF Known, Knows, Overtaken
    <2>4. CASE Ended(t) /\ (CommitDish(t) \/ ArchiveDish(t))
      <3> DEFINE d == job[t].dish
      <3>1. /\ d \in Dishes
            /\ \A e \in Dishes \ {d} : dishRow'[e] = dishRow[e] /\ columns'[e] = columns[e]
            /\ dishRow'[d].by # 0
            /\ dishRow'[d].by = job[t].by \/ dishRow'[d].archived
        <4>1. CASE CommitDish(t)
          <5>1. /\ d \in Dishes /\ job[t].by \in Requests
                /\ dishRow'[d] = [by |-> job[t].by, archived |-> dishRow[d].archived, wish |-> Wish(t)]
                /\ \A e \in Dishes \ {d} : dishRow'[e] = dishRow[e]
            BY <4>1, DishCommitted
          <5>2. columns' = [columns EXCEPT ![d] = Written(t)] /\ job[t].by # 0
            BY <4>1, <5>1, BoundsAssumption DEF CommitDish, Requests
          <5> HIDE DEF d
          <5> QED BY <5>1, <5>2 DEF TypeOK, ContentsOK
        <4>2. CASE ArchiveDish(t)
          <5>1. pc[t] = "archive" /\ job[t].op = "archive" /\ Owns(t)
            BY <4>2 DEF ArchiveDish, JobFits, Fits, Own
          <5>2. d \in Dishes /\ dishRow[d].by # 0
            BY <1>0, <5>1 DEF Owns
          <5> QED BY <4>2, <5>2 DEF ArchiveDish, TypeOK, ContentsOK
        <4> QED BY <2>4, <4>1, <4>2
      <3>2. ASSUME NEW u \in Tasks \ {t} PROVE Knows(u)'
        <4>1. CASE job[u].dish = d
          <5>1. seen[u].by # job[t].by
            BY <2>1 DEF Numbered
          <5> QED BY <2>1, <3>1, <4>1, <5>1 DEF Known, Knows, Overtaken
        <4>2. CASE job[u].dish # d
          <5>1. job[u].op \in {"none", "ingredient"} \/ job[u].dish \in Dishes
            BY <1>0, JobFields DEF TypeOK
          <5>2. job[u].op = "none" => pc[u] = "idle"
            BY JobFields DEF TypeOK, JobFits, Fits
          <5> HIDE DEF d
          <5> QED BY <2>1, <3>1, <4>2, <5>1, <5>2 DEF Known, Knows, Overtaken
        <4> QED BY <4>1, <4>2
      <3>3. Knows(t)'
        BY <2>4 DEF Ended, Knows
      <3> HIDE DEF d
      <3> QED BY <3>1, <3>2, <3>3 DEF Known
    <2> QED BY <1>3, <2>2, <2>3, <2>4 DEF Turn, CommitIngredient, tables, contents
  <1> QED BY <1>1, <1>2, <1>3, Steps

-----------------------------------------------------------------------------
(* What names stand for.                                                   *)

\* A committed alias is never mapped anew, and no ingredient is deleted.
LEMMA NamesLast ==
  ASSUME TypeOK, JobFits, Nicks, [Next]_vars
  PROVE  /\ ingredients \subseteq ingredients'
         /\ \A n \in Names : aliasOf[n] # NoName => aliasOf'[n] = aliasOf[n]
  <1>1. UNCHANGED <<ingredients, aliasOf>> \/ \E t \in Tasks : CommitDish(t) \/ CommitIngredient(t)
    BY Steps DEF Started, Turn, ArchiveDish, tables, vars
  <1>2. ASSUME NEW t \in Tasks, CommitDish(t)
        PROVE  ingredients \subseteq ingredients' /\ aliasOf' = aliasOf
    BY <1>2 DEF CommitDish
  <1>3. ASSUME NEW t \in Tasks, CommitIngredient(t)
        PROVE  /\ ingredients \subseteq ingredients'
               /\ \A n \in Names : aliasOf[n] # NoName => aliasOf'[n] = aliasOf[n]
    BY <1>3 DEF CommitIngredient, Nicks
  <1> QED BY <1>1, <1>2, <1>3

LEMMA NicksStep ==
  ASSUME TypeOK, TypeOK', JobFits, Nicks, [Next]_vars
  PROVE  Nicks'
  <1>1. CASE UNCHANGED vars
    BY <1>1 DEF Nicks, vars, tables
  <1>2. ASSUME NEW t \in Tasks, Started(t) PROVE Nicks'
    <2>1. \A u \in Tasks : job'[u].op = "ingredient" /\ pc'[u] \in {"nick", "commit"} =>
            u # t /\ job'[u] = job[u] /\ pc'[u] = pc[u]
      BY <1>2 DEF Started
    <2> QED BY <1>2, <2>1 DEF Nicks, Started, tables
  <1>3. ASSUME NEW t \in Tasks, Turn(t), GoesOn(t), UNCHANGED tables PROVE Nicks'
    <2>1. /\ job'[t] = job[t] /\ Fits(t) /\ job[t] \in Jobs \cup {NoJob} /\ view[t] \in Views
          /\ \A u \in Tasks \ {t} : pc'[u] = pc[u] /\ job'[u] = job[u] /\ view'[u] = view[u]
          /\ UNCHANGED <<aliasOf, ingredients>>
      BY <1>3 DEF GoesOn, Turn, OthersRest, JobFits, TypeOK, tables
    <2>2. CASE AliasInserted(t)
      <3>1. /\ view'[t].nicks = view[t].nicks \cup {Current(t)} /\ aliasOf[Current(t)] = NoName
            /\ view'[t].made = view[t].made /\ pc[t] = "nick"
            /\ \A u \in Tasks \ {t} : Current(t) \notin view[u].nicks
        BY <2>2 DEF AliasInserted, BlockedBy
      <3>2. job[t].op = "ingredient" /\ job[t].names[1] \in view'[t].made
        BY <2>1, <3>1 DEF Nicks, Fits
      <3>3. \A u \in Tasks : \A n \in view'[u].nicks :
              aliasOf[n] = NoName /\ \A w \in Tasks \ {u} : n \notin view'[w].nicks
        <4>1. \A u \in Tasks : \A n \in view'[u].nicks :
                n \in view[u].nicks \/ (u = t /\ n = Current(t))
          BY <2>1, <3>1
        <4> QED BY <3>1, <4>1 DEF Nicks
      <3> QED BY <2>1, <3>2, <3>3 DEF Nicks
    <2>3. CASE ~ AliasInserted(t)
      <3>1. view'[t].nicks = view[t].nicks
        BY <1>3, <2>1, <2>3 DEF GoesOn, UseIngredient, LookedUp, NameInserted, Views
      <3>2. job[t].op = "ingredient" /\ pc'[t] \in {"nick", "commit"} => job[t].names[1] \in view'[t].made
        BY <1>3, <2>1, <2>3 DEF GoesOn, UseIngredient, LookedUp, NameInserted, IsDishJob
      <3>3. \A u \in Tasks : view'[u].nicks = view[u].nicks
        BY <2>1, <3>1
      <3> QED BY <2>1, <3>2, <3>3 DEF Nicks
    <2> QED BY <2>2, <2>3
  <1>4. ASSUME NEW t \in Tasks, Turn(t), Ended(t) PROVE Nicks'
    <2>1. /\ \A u \in Tasks \ {t} : pc'[u] = pc[u] /\ job'[u] = job[u] /\ view'[u] = view[u]
          /\ view'[t].nicks = {} /\ job'[t].op = "none"
      BY <1>4 DEF Turn, OthersRest, Ended, NoView, NoJob
    <2>2. \A u \in Tasks : \A n \in view'[u].nicks :
            aliasOf[n] = NoName /\ (\A w \in Tasks \ {u} : n \notin view'[w].nicks) /\ n \notin view[t].nicks
      BY <2>1 DEF Nicks
    <2>3. CASE UNCHANGED <<ingredients, aliasOf>>
      BY <2>1, <2>2, <2>3 DEF Nicks
    <2>4. CASE CommitDish(t)
      BY <2>1, <2>2, <2>4 DEF Nicks, CommitDish
    <2>5. CASE CommitIngredient(t)
      <3>1. job[t].op = "ingredient" /\ pc[t] = "commit"
        BY <2>5 DEF CommitIngredient, JobFits, Fits, IsDishJob
      <3>2. job[t].names[1] \in view[t].made
        BY <3>1 DEF Nicks
      <3>3. /\ ingredients' = ingredients \cup view[t].made
            /\ \A n \in Names : aliasOf'[n] = IF n \in view[t].nicks THEN job[t].names[1] ELSE aliasOf[n]
        BY <2>5 DEF CommitIngredient
      <3>4. \A u \in Tasks : view'[u].nicks \subseteq Names
        BY DEF TypeOK, Views
      <3>5. \A u \in Tasks : \A n \in view'[u].nicks :
              aliasOf'[n] = NoName /\ \A w \in Tasks \ {u} : n \notin view'[w].nicks
        BY <2>2, <3>3, <3>4
      <3>6. \A n \in Names : aliasOf'[n] # NoName => aliasOf'[n] \in ingredients'
        BY <3>2, <3>3 DEF Nicks
      <3> QED BY <2>1, <3>5, <3>6 DEF Nicks
    <2> QED BY <1>4, <2>3, <2>4, <2>5 DEF Turn, ArchiveDish, tables
  <1> QED BY <1>1, <1>2, <1>3, <1>4, Steps DEF Turn

\* Once covered, covered: the rows a name stands for are not taken away.
LEMMA CoverStays ==
  ASSUME TypeOK, JobFits, Nicks, [Next]_vars, NEW u \in Tasks, IsDishJob(u), Covers(u),
         job'[u] = job[u], view'[u] = view[u], pc'[u] = pc[u]
  PROVE  Covers(u)'
  <1>1. /\ ingredients \subseteq ingredients'
        /\ \A n \in Names : aliasOf[n] # NoName => aliasOf'[n] = aliasOf[n]
    BY NamesLast
  <1>2. view[u].use \subseteq Names /\ NoName \notin view[u].use
    BY NobodyAssumption DEF TypeOK, Views
  <1>3. \A k \in DOMAIN job[u].names : job[u].names[k] \in Names
    BY JobFields DEF TypeOK, IsDishJob
  <1>4. Wish(u)' = Wish(u) /\ Wish(u) \subseteq Names
    BY <1>3 DEF Wish
  <1>5. \A n \in Names : aliasOf[n] \in view[u].use => aliasOf'[n] = aliasOf[n]
    BY <1>1, <1>2
  <1> QED BY <1>1, <1>3, <1>4, <1>5 DEF Covers

LEMMA CoverGoesOn ==
  ASSUME TypeOK, JobFits, Nicks, NEW t \in Tasks, IsDishJob(t), Covers(t), pc[t] # "idle",
         UNCHANGED tables, GoesOn(t)
  PROVE  Covers(t)'
  <1>1. /\ job'[t] = job[t] /\ Fits(t) /\ aliasOf' = aliasOf /\ ingredients' = ingredients
        /\ Wish(t)' = Wish(t)
    BY DEF GoesOn, JobFits, tables, Wish
  <1>2. /\ Len(job[t].names) \in Nat /\ DOMAIN job[t].names = 1 .. Len(job[t].names)
        /\ view[t].at \in 1 .. Len(job[t].names) /\ Current(t) \in Names
        /\ view[t].at \in DOMAIN job[t].names
    BY CurrentType, JobFields DEF IsDishJob, TypeOK
  <1>3. CASE UseIngredient(t)
    <2>1. PICK n \in Names :
            /\ n = Current(t) \/ n = aliasOf[Current(t)]
            /\ n \in ingredients \cup view'[t].made
            /\ view[t].made \subseteq view'[t].made
            /\ view'[t].use = view[t].use \cup {n}
            /\ \/ view[t].at = Len(job[t].names) /\ pc'[t] = "commit" /\ view'[t].at = view[t].at
               \/ view[t].at # Len(job[t].names) /\ pc'[t] = "find" /\ view'[t].at = view[t].at + 1
      <3>1. \A n \in Names : n = aliasOf[Current(t)] => n \in ingredients
        BY <1>2, NobodyAssumption DEF Nicks
      <3> QED BY <1>3, <3>1 DEF UseIngredient
    <2>2. Current(t) \in Wish(t)
      BY <1>2 DEF Current, Wish
    <2>3. view'[t].use \subseteq ingredients' \cup view'[t].made
      BY <1>1, <2>1 DEF Covers
    <2>4. \A i \in view'[t].use : \E m \in Wish(t) : m = i \/ aliasOf[m] = i
      BY <2>1, <2>2 DEF Covers
    <2>5. ASSUME NEW k \in DOMAIN job[t].names, k < view'[t].at \/ pc'[t] = "commit"
          PROVE  job[t].names[k] \in view'[t].use \/ aliasOf[job[t].names[k]] \in view'[t].use
      <3>1. k < view[t].at \/ k = view[t].at
        BY <1>2, <2>1, <2>5
      <3>2. CASE k < view[t].at
        BY <2>1, <3>2 DEF Covers
      <3>3. CASE k = view[t].at
        BY <2>1, <3>3 DEF Current
      <3> QED BY <3>1, <3>2, <3>3
    <2> QED BY <1>1, <2>3, <2>4, <2>5 DEF Covers
  <1>4. CASE ~ UseIngredient(t)
    <2>1. /\ pc'[t] # "commit" /\ view'[t].use = view[t].use /\ view'[t].at = view[t].at
          /\ view'[t].made = view[t].made
      <3>1. ~ LookedUp(t) /\ ~ NameInserted(t) /\ ~ AliasInserted(t)
        BY <1>1 DEF LookedUp, NameInserted, AliasInserted, Fits, IsDishJob
      <3>2. view[t] \in Views
        BY DEF TypeOK
      <3> QED BY <1>4, <3>1, <3>2 DEF GoesOn, Views
    <2> QED BY <1>1, <2>1 DEF Covers
  <1> QED BY <1>3, <1>4

LEMMA CoverStep ==
  ASSUME TypeOK, JobFits, Nicks, Cover, [Next]_vars
  PROVE  Cover'
  <1> SUFFICES ASSUME NEW u \in Tasks, IsDishJob(u)' PROVE Covers(u)'
    BY DEF Cover
  <1>1. CASE job'[u] = job[u] /\ view'[u] = view[u] /\ pc'[u] = pc[u]
    BY <1>1, CoverStays DEF Cover, IsDishJob
  <1>2. ASSUME NEW t \in Tasks, Started(t) PROVE Covers(u)'
    <2>1. CASE u = t
      <3>1. view'[u] = NoView /\ pc'[u] # "commit"
        BY <1>2, <2>1 DEF Started, JobFits, Fits
      <3>2. job'[u] \in Jobs \cup {NoJob}
        BY TypeStep DEF TypeOK
      <3>3. \A k \in DOMAIN job'[u].names : ~ k < 1
        BY <3>2, JobFields DEF IsDishJob
      <3> QED BY <3>1, <3>3 DEF Covers, NoView
    <2> QED BY <1>1, <1>2, <2>1 DEF Started
  <1>3. ASSUME NEW t \in Tasks, Turn(t) PROVE Covers(u)'
    <2>1. CASE u # t
      BY <1>1, <1>3, <2>1 DEF Turn, OthersRest
    <2>2. CASE u = t /\ Ended(t)
      BY <2>2 DEF Ended, IsDishJob, NoJob
    <2>3. CASE u = t /\ ~ Ended(t)
      <3>1. UNCHANGED tables /\ GoesOn(t) /\ pc[t] # "idle" /\ job'[t] = job[t]
        BY <1>3, <2>3 DEF Turn, GoesOn
      <3>2. IsDishJob(t) /\ Covers(t)
        BY <2>3, <3>1 DEF IsDishJob, Cover
      <3> QED BY <2>3, <3>1, <3>2, CoverGoesOn
    <2> QED BY <2>1, <2>2, <2>3
  <1>4. CASE UNCHANGED vars
    BY <1>1, <1>4 DEF vars
  <1> QED BY <1>2, <1>3, <1>4, Steps

LEMMA MeantStep ==
  ASSUME TypeOK, JobFits, Own, LinksWhole, Nicks, Cover, LinksMeant, [Next]_vars
  PROVE  LinksMeant'
  <1> DEFINE has(e)   == {l.ingredient : l \in {r \in links : r.dish = e}}
             hasNow(e) == {l.ingredient : l \in {r \in links' : r.dish = e}}
  <1>1. /\ ingredients \subseteq ingredients'
        /\ \A n \in Names : aliasOf[n] # NoName => aliasOf'[n] = aliasOf[n]
    BY NamesLast
  <1>2. ASSUME NEW e \in Dishes, hasNow(e) = has(e), dishRow'[e].wish = dishRow[e].wish
        PROVE  /\ hasNow(e) \subseteq ingredients'
               /\ \A i \in hasNow(e) : \E n \in dishRow'[e].wish : n = i \/ aliasOf'[n] = i
               /\ \A n \in dishRow'[e].wish : n \in hasNow(e) \/ aliasOf'[n] \in hasNow(e)
    <2>1. /\ has(e) \subseteq ingredients
          /\ \A i \in has(e) : \E n \in dishRow[e].wish : n = i \/ aliasOf[n] = i
          /\ \A n \in dishRow[e].wish : n \in has(e) \/ aliasOf[n] \in has(e)
      BY DEF LinksMeant
    <2>2. NoName \notin has(e) /\ dishRow[e].wish \subseteq Names
      BY <2>1, NobodyAssumption DEF TypeOK
    <2> HIDE DEF has, hasNow
    <2>3. \A n \in dishRow[e].wish : aliasOf[n] \in has(e) => aliasOf'[n] = aliasOf[n]
      BY <1>1, <2>2
    <2> QED BY <1>1, <1>2, <2>1, <2>3
  <1>3. CASE UNCHANGED <<links, dishRow>> \/ \E t \in Tasks : ArchiveDish(t)
    <2>1. links' = links
      BY <1>3 DEF ArchiveDish
    <2>2. ASSUME NEW t \in Tasks, ArchiveDish(t), NEW e \in Dishes
          PROVE  dishRow'[e].wish = dishRow[e].wish
      BY <2>2 DEF ArchiveDish, TypeOK
    <2>3. \A e \in Dishes : dishRow'[e].wish = dishRow[e].wish
      BY <1>3, <2>2
    <2> QED BY <1>2, <2>1, <2>3 DEF LinksMeant
  <1>4. ASSUME NEW t \in Tasks, CommitDish(t) PROVE LinksMeant'
    <2> DEFINE d == job[t].dish
    <2>0. dishRow'[d] = [by |-> job[t].by, archived |-> dishRow[d].archived, wish |-> Wish(t)]
      BY <1>4, DishCommitted
    <2>1. /\ d \in Dishes /\ IsDishJob(t) /\ dishRow'[d].wish = Wish(t)
          /\ \A e \in Dishes \ {d} : dishRow'[e] = dishRow[e]
                                    /\ {l \in links' : l.dish = e} = {l \in links : l.dish = e}
      BY <1>4, <2>0, DishCommitted
    <2>2. hasNow(d) = view[t].use
      <3>1. {l \in links' : l.dish = d} = {[dish |-> d, ingredient |-> n, by |-> job[t].by] : n \in view[t].use}
        BY <1>4, DishCommitted
      <3> HIDE DEF d
      <3>2. \A l \in {r \in links' : r.dish = d} : l.ingredient \in view[t].use
        BY <3>1
      <3>3. \A n \in view[t].use : [dish |-> d, ingredient |-> n, by |-> job[t].by] \in {r \in links' : r.dish = d}
        BY <3>1
      <3>4. \A n \in view[t].use : \E l \in {r \in links' : r.dish = d} : l.ingredient = n
        BY <3>3
      <3> QED BY <3>2, <3>4
    <2>3. Covers(t) /\ aliasOf' = aliasOf /\ ingredients' = ingredients \cup view[t].made /\ pc[t] = "commit"
      BY <1>4, <2>1 DEF Cover, CommitDish
    <2>4. /\ hasNow(d) \subseteq ingredients'
          /\ \A i \in hasNow(d) : \E n \in dishRow'[d].wish : n = i \/ aliasOf'[n] = i
          /\ \A n \in dishRow'[d].wish : n \in hasNow(d) \/ aliasOf'[n] \in hasNow(d)
      <3>1. view[t].use \subseteq ingredients'
        BY <2>3 DEF Covers
      <3>2. \A i \in view[t].use : \E n \in Wish(t) : n = i \/ aliasOf'[n] = i
        BY <2>3 DEF Covers
      <3>3. \A n \in Wish(t) : n \in view[t].use \/ aliasOf'[n] \in view[t].use
        BY <2>3 DEF Covers, Wish
      <3> HIDE DEF hasNow, d
      <3> QED BY <2>1, <2>2, <3>1, <3>2, <3>3
    <2>5. \A e \in Dishes \ {d} : hasNow(e) = has(e) /\ dishRow'[e].wish = dishRow[e].wish
      BY <2>1
    <2>6. ASSUME NEW e \in Dishes
          PROVE  /\ hasNow(e) \subseteq ingredients'
                 /\ \A i \in hasNow(e) : \E n \in dishRow'[e].wish : n = i \/ aliasOf'[n] = i
                 /\ \A n \in dishRow'[e].wish : n \in hasNow(e) \/ aliasOf'[n] \in hasNow(e)
      <3> HIDE DEF has, hasNow
      <3>1. CASE e = d
        BY <2>4, <3>1
      <3>2. CASE e # d
        <4> HIDE DEF d
        <4> QED BY <1>2, <2>5, <3>2
      <3> QED BY <3>1, <3>2
    <2> QED BY <2>6 DEF LinksMeant
  <1> QED BY <1>3, <1>4, Steps DEF Started, Turn, CommitIngredient, tables, vars

-----------------------------------------------------------------------------
(* One request at a time.                                                  *)

\* If no two requests have run at the same time, none do now, and no request
\* that has loaded its dish finds it archived.
Solo ==
  /\ alone => \A t, u \in Tasks : pc[t] # "idle" /\ pc[u] # "idle" => t = u
  /\ alone => \A t \in Tasks : pc[t] \notin {"idle", "load"} /\ job[t].op # "ingredient" =>
                ~ dishRow[job[t].dish].archived
  /\ \A d \in Dishes : dishRow[d].by = 0 => ~ dishRow[d].archived

\* The names a handler has looked up are free: those it makes ingredients are
\* no aliases, and those it makes aliases are no ingredients.
Free(t) ==
  /\ \A n \in view[t].made : aliasOf[n] = NoName
  /\ IsDishJob(t) /\ pc[t] = "new" => aliasOf[Current(t)] = NoName
  /\ job[t].op = "ingredient" =>
       /\ \A k \in DOMAIN job[t].names :
            k < view[t].at \/ pc[t] \in {"new", "nick", "commit"} =>
              job[t].names[k] \notin ingredients /\ aliasOf[job[t].names[k]] = NoName
       /\ pc[t] = "alias" => Current(t) \notin ingredients
       /\ \A k \in 2 .. Len(job[t].names) :
            k <= view[t].at \/ pc[t] \in {"new", "nick", "commit"} => job[t].names[k] # job[t].names[1]
       /\ view[t].made \subseteq {job[t].names[1]}
       /\ \A n \in view[t].nicks : \E k \in 2 .. Len(job[t].names) : n = job[t].names[k]
       /\ pc[t] = "nick" => view[t].at >= 2
  /\ job[t].op # "ingredient" => view[t].nicks = {}

LooksUp == alone => \A t \in Tasks : Free(t)

LEMMA SoloStep ==
  ASSUME TypeOK, JobFits, Own, LinksWhole, Solo, [Next]_vars
  PROVE  Solo'
  <1>1. CASE UNCHANGED vars
    BY <1>1 DEF Solo, vars, tables, bounds
  <1>2. ASSUME NEW t \in Tasks, Started(t) PROVE Solo'
    <2>1. /\ dishRow' = dishRow /\ \A u \in Tasks \ {t} : pc'[u] = pc[u] /\ job'[u] = job[u]
          /\ alone' => alone /\ \A u \in Tasks : pc[u] = "idle"
      BY <1>2 DEF Started, tables
    <2>2. \/ pc'[t] = "load" \/ job'[t].op = "ingredient"
          \/ job'[t].dish \in Dishes /\ dishRow[job'[t].dish].by = 0
      <3>1. job'[t] \in Jobs \cup {NoJob}
        BY TypeStep DEF TypeOK
      <3> QED BY <1>2, <3>1, JobFields DEF Started
    <2>3. pc'[t] \notin {"idle", "load"} /\ job'[t].op # "ingredient" => ~ dishRow'[job'[t].dish].archived
      BY <2>1, <2>2 DEF Solo
    <2> QED BY <2>1, <2>3 DEF Solo
  <1>3. ASSUME NEW t \in Tasks, Turn(t) PROVE Solo'
    <2>1. /\ alone' = alone /\ pc[t] # "idle"
          /\ \A u \in Tasks \ {t} : pc'[u] = pc[u] /\ job'[u] = job[u]
      BY <1>3 DEF Turn, OthersRest, bounds
    <2>2. alone => \A u \in Tasks \ {t} : pc'[u] = "idle"
      BY <2>1 DEF Solo
    <2>3. \A d \in Dishes : dishRow'[d].by = 0 => ~ dishRow'[d].archived
      <3>1. CASE dishRow' = dishRow
        BY <3>1 DEF Solo
      <3>2. CASE CommitDish(t)
        <4>1. dishRow'[job[t].dish] =
                [by |-> job[t].by, archived |-> dishRow[job[t].dish].archived, wish |-> Wish(t)]
              /\ job[t].by \in Requests
              /\ \A e \in Dishes \ {job[t].dish} : dishRow'[e] = dishRow[e]
          BY <3>2, DishCommitted
        <4>2. job[t].by # 0
          BY <4>1, BoundsAssumption DEF Requests
        <4> QED BY <4>1, <4>2 DEF Solo
      <3>3. CASE ArchiveDish(t)
        <4>1. /\ job[t].dish \in Dishes /\ dishRow[job[t].dish].by # 0
              /\ dishRow' = [dishRow EXCEPT ![job[t].dish].archived = TRUE]
          <5>1. pc[t] = "archive" /\ job[t].op = "archive" /\ Owns(t)
            BY <3>3 DEF ArchiveDish, JobFits, Fits, Own
          <5> QED BY <3>3, <5>1, JobFields DEF ArchiveDish, TypeOK, Owns
        <4>2. /\ dishRow'[job[t].dish].by = dishRow[job[t].dish].by
              /\ \A e \in Dishes \ {job[t].dish} : dishRow'[e] = dishRow[e]
          BY <4>1 DEF TypeOK
        <4> QED BY <4>1, <4>2 DEF Solo
      <3> QED BY <1>3, <3>1, <3>2, <3>3 DEF Turn, CommitIngredient, tables
    <2>4. alone /\ pc'[t] \notin {"idle", "load"} /\ job'[t].op # "ingredient" =>
            ~ dishRow'[job'[t].dish].archived
      <3> SUFFICES ASSUME alone, pc'[t] # "idle", job'[t].op # "ingredient"
                   PROVE  ~ dishRow'[job'[t].dish].archived
        OBVIOUS
      <3>1. GoesOn(t) /\ dishRow' = dishRow /\ job'[t] = job[t]
        BY <1>3 DEF Turn, Ended, GoesOn, tables
      <3>2. CASE pc[t] = "load"
        BY <3>1, <3>2 DEF GoesOn, UseIngredient, LookedUp, NameInserted, AliasInserted
      <3>3. CASE pc[t] # "load"
        BY <2>1, <3>1, <3>3 DEF Solo
      <3> QED BY <3>2, <3>3
    <2> QED BY <2>1, <2>2, <2>3, <2>4 DEF Solo
  <1> QED BY <1>1, <1>2, <1>3, Steps

\* A handler that goes on, alone, looks its names up before it inserts them.
LEMMA FreeGoesOn ==
  ASSUME TypeOK, JobFits, NEW t \in Tasks, pc[t] # "idle", Free(t), UNCHANGED tables, GoesOn(t)
  PROVE  Free(t)'
  <1>1. /\ job'[t] = job[t] /\ Fits(t) /\ aliasOf' = aliasOf /\ ingredients' = ingredients
        /\ view[t] \in Views
    BY DEF GoesOn, JobFits, tables, TypeOK
  <1>2. job[t].op \in {"create", "update", "ingredient"} =>
          /\ Len(job[t].names) \in Nat /\ DOMAIN job[t].names = 1 .. Len(job[t].names)
          /\ Len(job[t].names) >= 1
          /\ view[t].at \in 1 .. Len(job[t].names) /\ view[t].at \in Nat
    BY <1>1, CurrentType, JobFields DEF TypeOK
  <1>3. CASE UseIngredient(t)
    <2>1. /\ IsDishJob(t) /\ pc'[t] # "new" /\ view'[t].nicks = view[t].nicks
          /\ \/ view'[t].made = view[t].made
             \/ pc[t] = "new" /\ view'[t].made = view[t].made \cup {Current(t)}
      BY <1>3 DEF UseIngredient
    <2> QED BY <1>1, <2>1 DEF Free, IsDishJob
  <1>4. CASE LookedUp(t)
    <2>1. job[t].op = "ingredient" /\ pc[t] = "alias" /\ pc'[t] \in {"new", "find"}
      BY <1>1, <1>4 DEF LookedUp, Fits, IsDishJob
    <2>2. /\ view'[t].made = view[t].made /\ view'[t].nicks = view[t].nicks
          /\ \/ view[t].at = Len(job[t].names) /\ pc'[t] = "new" /\ view'[t].at = view[t].at
             \/ /\ pc'[t] = "find" /\ view'[t].at = view[t].at + 1
                /\ job[t].names[view[t].at + 1] # job[t].names[1]
          /\ aliasOf[job[t].names[view[t].at]] = NoName
          /\ job[t].names[view[t].at] \notin ingredients
      BY <1>4, <2>1 DEF LookedUp, Free, Current
    <2>3. ASSUME NEW k \in DOMAIN job[t].names, k < view'[t].at \/ pc'[t] = "new"
          PROVE  job[t].names[k] \notin ingredients /\ aliasOf[job[t].names[k]] = NoName
      <3>1. k < view[t].at \/ k = view[t].at
        BY <1>2, <2>1, <2>2, <2>3
      <3> QED BY <2>1, <2>2, <3>1 DEF Free
    <2>4. ASSUME NEW k \in 2 .. Len(job[t].names), k <= view'[t].at \/ pc'[t] = "new"
          PROVE  job[t].names[k] # job[t].names[1]
      <3>1. k <= view[t].at \/ (k = view[t].at + 1 /\ job[t].names[k] # job[t].names[1])
        BY <1>2, <2>1, <2>2, <2>4
      <3> QED BY <2>1, <3>1 DEF Free
    <2> QED BY <1>1, <2>1, <2>2, <2>3, <2>4 DEF Free, IsDishJob
  <1>5. CASE NameInserted(t)
    <2>1. job[t].op = "ingredient" /\ pc[t] = "new" /\ pc'[t] \in {"commit", "nick"}
          /\ (pc'[t] = "nick" => view'[t].at = 2)
          /\ view'[t].made = view[t].made \cup {job[t].names[1]} /\ view'[t].nicks = view[t].nicks
      BY <1>1, <1>5 DEF NameInserted, Fits, IsDishJob
    <2>2. aliasOf[job[t].names[1]] = NoName
      BY <1>2, <2>1 DEF Free
    <2> QED BY <1>1, <2>1, <2>2 DEF Free, IsDishJob
  <1>6. CASE AliasInserted(t)
    <2>1. job[t].op = "ingredient" /\ pc[t] = "nick" /\ pc'[t] \in {"commit", "nick"}
          /\ view'[t].made = view[t].made /\ view'[t].nicks = view[t].nicks \cup {Current(t)}
          /\ (view'[t].at = view[t].at \/ view'[t].at = view[t].at + 1)
      BY <1>1, <1>6 DEF AliasInserted, Fits, IsDishJob
    <2>2. view[t].at \in 2 .. Len(job[t].names) /\ view'[t].at >= 2
      BY <1>2, <2>1 DEF Free
    <2>3. \A n \in view'[t].nicks : \E k \in 2 .. Len(job[t].names) : n = job[t].names[k]
      BY <2>1, <2>2 DEF Free, Current
    <2> QED BY <1>1, <2>1, <2>2, <2>3 DEF Free, IsDishJob
  <1>7. CASE pc[t] = "clear"
    <2>1. /\ pc'[t] = "find" /\ view'[t].made = view[t].made /\ view'[t].nicks = view[t].nicks
          /\ job[t].op \in {"create", "update"}
      BY <1>1, <1>7 DEF GoesOn, UseIngredient, LookedUp, NameInserted, AliasInserted, Fits, Views
    <2> QED BY <1>1, <2>1 DEF Free, IsDishJob
  <1>8. CASE view'[t] = view[t] /\ pc[t] # "clear"
             /\ ~ (UseIngredient(t) \/ LookedUp(t) \/ NameInserted(t) \/ AliasInserted(t))
    <2>1. Current(t)' = Current(t)
      BY <1>1, <1>8 DEF Current
    <2>2. \/ pc[t] \in {"load", "insert", "cooks"} /\ pc'[t] \in {"cooks", "archive", "clear"}
             /\ job[t].op # "ingredient"
          \/ pc[t] = "find" /\ pc'[t] = "alias" /\ Current(t) \notin ingredients
          \/ pc[t] = "alias" /\ pc'[t] = "new" /\ IsDishJob(t) /\ aliasOf[Current(t)] = NoName
      BY <1>1, <1>8 DEF GoesOn, Fits
    <2> QED BY <1>1, <1>8, <2>1, <2>2 DEF Free, IsDishJob
  <1> QED BY <1>3, <1>4, <1>5, <1>6, <1>7, <1>8 DEF GoesOn

LEMMA LooksUpStep ==
  ASSUME TypeOK, TypeOK', JobFits, JobFits', Solo, LooksUp, [Next]_vars
  PROVE  LooksUp'
  <1> SUFFICES ASSUME alone', NEW u \in Tasks PROVE Free(u)'
    BY DEF LooksUp
  <1>1. CASE pc'[u] = "idle"
    <2>1. job'[u] = NoJob /\ view'[u] = NoView
      BY <1>1 DEF JobFits, Fits
    <2> QED BY <1>1, <2>1 DEF Free, NoJob, NoView, IsDishJob
  <1>2. ASSUME NEW t \in Tasks, Started(t), pc'[u] # "idle" PROVE Free(u)'
    <2>1. u = t
      BY <1>2 DEF Started
    <2>2. /\ view'[u] = NoView /\ pc'[u] \in {"insert", "load", "find"}
          /\ pc'[u] \in {"insert", "load"} => job'[u].op # "ingredient"
      BY <1>2, <2>1 DEF Started, JobFits, Fits
    <2>3. job'[u].op = "ingredient" =>
            /\ \A k \in DOMAIN job'[u].names : ~ k < 1
            /\ \A k \in 2 .. Len(job'[u].names) : ~ k <= 1
      <3>1. job'[u] \in Jobs \cup {NoJob}
        BY DEF TypeOK
      <3>2. job'[u].op = "ingredient" =>
              Len(job'[u].names) \in Nat /\ DOMAIN job'[u].names = 1 .. Len(job'[u].names)
        BY <3>1, JobFields, BoundsAssumption
      <3> QED BY <3>2
    <2> QED BY <2>2, <2>3 DEF Free, NoView, IsDishJob
  <1>3. ASSUME NEW t \in Tasks, Turn(t), pc'[u] # "idle" PROVE Free(u)'
    <2>1. alone /\ pc[t] # "idle" /\ (u # t => pc[u] # "idle")
      BY <1>3 DEF Turn, OthersRest, bounds
    <2>2. u = t
      BY <2>1 DEF Solo
    <2>3. GoesOn(u) /\ UNCHANGED tables /\ Free(u)
      BY <1>3, <2>1, <2>2 DEF Turn, Ended, LooksUp
    <2> QED BY <2>1, <2>2, <2>3, FreeGoesOn
  <1>4. CASE UNCHANGED vars
    BY <1>4 DEF vars, tables, bounds, LooksUp, Free, Current, IsDishJob
  <1> QED BY <1>1, <1>2, <1>3, <1>4, Steps

LEMMA SerialStep ==
  ASSUME TypeOK, JobFits, LooksUp, SerialNames, [Next]_vars
  PROVE  SerialNames'
  <1> SUFFICES ASSUME alone', NEW n \in Names, aliasOf'[n] # NoName PROVE n \notin ingredients'
    BY DEF SerialNames
  <1>1. alone
    BY Steps DEF Started, Turn, vars, bounds
  <1>2. CASE UNCHANGED <<ingredients, aliasOf>>
    BY <1>1, <1>2 DEF SerialNames
  <1>3. ASSUME NEW t \in Tasks, CommitDish(t) PROVE n \notin ingredients'
    BY <1>1, <1>3 DEF CommitDish, SerialNames, LooksUp, Free
  <1>4. ASSUME NEW t \in Tasks, CommitIngredient(t) PROVE n \notin ingredients'
    <2>1. Free(t) /\ job[t].op = "ingredient" /\ pc[t] = "commit"
      BY <1>1, <1>4 DEF CommitIngredient, LooksUp, JobFits, Fits, IsDishJob
    <2>2. /\ ingredients' = ingredients \cup view[t].made /\ view[t].made \subseteq {job[t].names[1]}
          /\ aliasOf'[n] = IF n \in view[t].nicks THEN job[t].names[1] ELSE aliasOf[n]
      BY <1>4, <2>1 DEF CommitIngredient, Free
    <2>3. CASE n \in view[t].nicks
      <3>1. PICK k \in 2 .. Len(job[t].names) : n = job[t].names[k]
        BY <2>1, <2>3 DEF Free
      <3>2. DOMAIN job[t].names = 1 .. Len(job[t].names) /\ Len(job[t].names) \in Nat
        BY <2>1, JobFields, BoundsAssumption DEF TypeOK
      <3>3. n # job[t].names[1] /\ n \notin ingredients
        BY <2>1, <3>1, <3>2 DEF Free
      <3> QED BY <2>2, <3>3
    <2>4. CASE n \notin view[t].nicks
      BY <1>1, <2>1, <2>2, <2>4 DEF SerialNames, Free
    <2> QED BY <2>3, <2>4
  <1> QED BY <1>2, <1>3, <1>4, Steps DEF Started, Turn, ArchiveDish, tables, vars

LEMMA ArchiveStep ==
  ASSUME TypeOK, JobFits, Own, LinksWhole, Solo, [Next]_vars, NEW d \in Dishes, dishRow[d].archived
  PROVE  /\ dishRow'[d].archived
         /\ alone => dishRow'[d] = dishRow[d] /\ columns'[d] = columns[d]
  <1>1. CASE dishRow' = dishRow /\ columns' = columns
    BY <1>1
  <1>2. ASSUME NEW t \in Tasks, CommitDish(t)
        PROVE  /\ dishRow'[d].archived
               /\ alone => dishRow'[d] = dishRow[d] /\ columns'[d] = columns[d]
    <2>1. /\ IsDishJob(t) /\ pc[t] = "commit"
          /\ dishRow'[job[t].dish] =
               [by |-> job[t].by, archived |-> dishRow[job[t].dish].archived, wish |-> Wish(t)]
          /\ \A e \in Dishes \ {job[t].dish} : dishRow'[e] = dishRow[e] /\ columns'[e] = columns[e]
      BY <1>2, DishCommitted DEF CommitDish, TypeOK, ContentsOK
    <2>2. alone => d # job[t].dish
      BY <2>1 DEF Solo, IsDishJob
    <2> QED BY <2>1, <2>2
  <1>3. ASSUME NEW t \in Tasks, ArchiveDish(t)
        PROVE  /\ dishRow'[d].archived
               /\ alone => dishRow'[d] = dishRow[d] /\ columns'[d] = columns[d]
    <2>1. pc[t] = "archive" /\ job[t].op = "archive"
      BY <1>3 DEF ArchiveDish, JobFits, Fits
    <2>2. alone => d # job[t].dish
      BY <2>1 DEF Solo
    <2> QED BY <1>3, <2>2 DEF ArchiveDish, TypeOK, ContentsOK
  <1> QED BY <1>1, <1>2, <1>3, Steps DEF Started, Turn, CommitIngredient, tables, contents, vars

-----------------------------------------------------------------------------
(* The theorems.  IInv is inductive; each part of it needs others: TypeOK  *)
(* the statements that fit, LinksWhole what a handler owns of its dish,    *)
(* ColumnsWhole what it has loaded of it and who has written it since,     *)
(* LinksMeant what it has gathered, and the last two what it looked up.    *)

IInv ==
  /\ TypeOK /\ JobFits
  /\ Own /\ LinksWhole
  /\ Numbered /\ Known /\ ColumnsWhole
  /\ Nicks /\ Cover /\ LinksMeant
  /\ Solo /\ LooksUp /\ SerialNames

LEMMA InitIInv == Init => IInv
  <1> SUFFICES ASSUME Init PROVE IInv
    OBVIOUS
  <1>1. TypeOK /\ JobFits
    BY InitTypes
  <1>2. Own
    BY DEF Init, Own, Owns, NoJob, IsDishJob
  <1>3. LinksWhole
    BY DEF Init, LinksWhole
  <1>4. Nicks /\ Cover
    BY DEF Init, Nicks, Cover, NoJob, NoView, IsDishJob
  <1>5. LinksMeant
    BY DEF Init, LinksMeant
  <1>6. Solo
    BY DEF Init, Solo
  <1>7. LooksUp /\ SerialNames
    BY DEF Init, LooksUp, Free, SerialNames, NoJob, NoView, IsDishJob
  <1>8. Numbered /\ Known /\ ColumnsWhole
    BY DEF Init, Numbered, Known, Knows, ColumnsWhole, NoRow
  <1> QED BY <1>1, <1>2, <1>3, <1>4, <1>5, <1>6, <1>7, <1>8 DEF IInv

LEMMA NextIInv == IInv /\ [Next]_vars => IInv'
  <1> SUFFICES ASSUME IInv, [Next]_vars PROVE IInv'
    OBVIOUS
  <1> USE DEF IInv
  <1>1. TypeOK'
    BY TypeStep
  <1>2. JobFits'
    BY <1>1, FitsStep
  <1>3. Own' /\ LinksWhole'
    BY OwnStep, WholeStep
  <1>4. Nicks' /\ Cover' /\ LinksMeant'
    BY <1>1, NicksStep, CoverStep, MeantStep
  <1>6. Numbered' /\ Known' /\ ColumnsWhole'
    BY NumberedStep, KnownStep, ColumnsStep
  <1>5. Solo' /\ LooksUp' /\ SerialNames'
    BY <1>1, <1>2, SoloStep, LooksUpStep, SerialStep
  <1> QED BY <1>1, <1>2, <1>3, <1>4, <1>5, <1>6

LEMMA Inductive == Spec => []IInv
  BY InitIInv, NextIInv, PTL DEF Spec

\* Every variable has its type in every reachable state (TypeOK), and each task
\* runs a statement of its own handler on a name of its list.
THEOREM TypeCorrect == Spec => [](TypeOK /\ JobFits)
  <1>1. IInv => TypeOK /\ JobFits
    BY DEF IInv
  <1> QED BY <1>1, Inductive, PTL

\* However updates of a dish overlap, its cooks and ingredients are those of the
\* last one: the flush of the UPDATE holds the row from before the links are deleted
\* until the commit.  Its columns are what that one and an archive have set, unless
\* one of them had loaded the row before another request wrote it (DishWhole).
THEOREM DishesWhole == Spec => []DishWhole
  <1>1. IInv => DishWhole
    BY DEF IInv, DishWhole
  <1> QED BY <1>1, Inductive, PTL

\* The ingredients of a dish are those its last request asked for, by name or
\* alias, no more and no fewer (LinksMeant), whatever names other requests
\* insert or map at the same time.
THEOREM LinksAsAsked == Spec => []LinksMeant
  <1>1. IInv => LinksMeant
    BY DEF IInv
  <1> QED BY <1>1, Inductive, PTL

\* One request at a time, no alias is the name of an ingredient (SerialNames).
THEOREM NamesUnambiguous == Spec => []SerialNames
  <1>1. IInv => SerialNames
    BY DEF IInv
  <1> QED BY <1>1, Inductive, PTL

\* A dish that is archived stays archived, and is not edited unless requests
\* overlap (ArchiveFinal).
THEOREM ArchivedForGood == Spec => ArchiveFinal
  <1>1. IInv /\ [Next]_vars =>
          [ \A d \in Dishes : dishRow[d].archived =>
              /\ dishRow'[d].archived
              /\ alone => dishRow'[d] = dishRow[d] /\ columns'[d] = columns[d] ]_vars
    BY ArchiveStep DEF IInv
  <1> QED BY <1>1, Inductive, PTL DEF Spec, ArchiveFinal
=============================================================================
