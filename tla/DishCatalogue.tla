---------------------------- MODULE DishCatalogue ---------------------------
(***************************************************************************)
(* The dishes of a household and the ingredients they are made of          *)
(* (backend/app/dishes).  A dish names its ingredients; a name stands for  *)
(* the ingredient of that name or for the one it is an alias of, and is    *)
(* made an ingredient if it stands for none.                               *)
(*                                                                         *)
(* As in MealSlot every request is a task, one step is one awaited         *)
(* statement, and only what is committed is seen.  Names are what          *)
(* normalize_ingredient_name makes of them.  Of the columns of a dish      *)
(* (name, category, picture, updated_by) an UPDATE writes those whose      *)
(* value is not the one that its session has loaded.                       *)
(***************************************************************************)
EXTENDS Integers, Sequences, FiniteSets

CONSTANTS
  Tasks,        (* Request tasks the server can run at the same time.       *)
  Dishes,       (* Dish ids.                                                *)
  Names,        (* Normalised names of ingredients and aliases.             *)
  MaxNames,     (* Length of the lists of names.  Bounds the model.         *)
  MaxArrivals,  (* Number of requests that arrive.  Bounds the model.       *)
  Columns,      (* Columns of a dish that its requests set.                 *)
  Editor,       (* The one that says who updated the dish last.             *)
  Values,       (* What can be in a column.                                 *)
  NoValue,      (* What is in the columns of a row that is not there.       *)
  NoDish,       (* The dish of a request about ingredients.                 *)
  NoName,       (* What a name is an alias of, if it is none.               *)
  NoTask        (* Holder of a row lock that is free.                       *)

ASSUME BoundsAssumption == MaxNames \in Nat \ {0} /\ MaxArrivals \in Nat
ASSUME ColumnsAssumption == Editor \in Columns
ASSUME NobodyAssumption == NoDish \notin Dishes /\ NoName \notin Names /\ NoTask \notin Tasks

VARIABLES
  dishRow,      (* Dish rows: the request that created or updated it last   *)
                (* (0 if the row is not there), whether it is archived, and *)
                (* (history) the ingredients that request asked for.        *)
  columns,      (* What is in the columns of each dish.                     *)
  cooks,        (* dish_cooks: dish, and the request that wrote the row.    *)
  links,        (* dish_ingredients: dish, ingredient, and that request.    *)
  ingredients,  (* Names of the ingredients.                                *)
  aliasOf,      (* What each name is an alias of.                           *)
  lock,         (* Per dish row, the task that updated it and not committed. *)
  pc,           (* The statement each task runs next.                       *)
  job,          (* The request each task serves.                            *)
  view,         (* What each task has read or written and not committed.    *)
  seen,         (* The row of its dish as each task has loaded it.          *)
  asked,        (* History: what the columns of each dish were set to last, *)
                (* and whether one of the requests that set them had loaded *)
                (* the row before another one wrote it.                     *)
  arrivals,     (* Number of requests that have arrived.                    *)
  alone         (* History: no two requests have run at the same time.      *)

contents == <<columns, asked>>
tables   == <<dishRow, cooks, links, ingredients, aliasOf, contents>>
bounds   == <<arrivals, alone>>
vars     == <<tables, lock, pc, job, view, seen, bounds>>

Lists(n) == UNION {[1 .. k -> Names] : k \in 1 .. n}
Requests == 1 .. MaxArrivals          \* The n-th request to arrive is n.
Labels   == {"idle", "load", "insert", "cooks", "clear", "find", "alias", "new",
             "nick", "commit", "archive"}

\* Setting f: the columns DOMAIN f are set.
NoColumns == [c \in Columns |-> NoValue]
NoSetting == [c \in {} |-> NoValue]

DishJobs  == [op : {"create", "update"}, by : Requests, dish : Dishes, names : Lists(MaxNames),
              setting : [Columns -> Values]]
Archives  == [op : {"archive"}, by : Requests, dish : Dishes, names : {<<>>},
              setting : [{Editor} -> Values]]
\* A canonical ingredient: its name, and then its aliases.
Canonical == [op : {"ingredient"}, by : Requests, dish : {NoDish}, names : Lists(MaxNames + 1),
              setting : {NoSetting}]
Jobs      == DishJobs \cup Archives \cup Canonical

\* at: the name in hand.  use: the dish's ingredients so far.  made, nicks:
\* ingredients and aliases inserted.  gone: whose links were deleted.
Views == [at : 1 .. MaxNames + 1, use : SUBSET Names, made : SUBSET Names,
          nicks : SUBSET Names, gone : SUBSET Requests]

NoJob  == [op |-> "none", by |-> 0, dish |-> NoDish, names |-> <<>>, setting |-> NoSetting]
NoView == [at |-> 1, use |-> {}, made |-> {}, nicks |-> {}, gone |-> {}]
NoRow  == [by |-> 0, columns |-> NoColumns]

Init ==
  /\ dishRow = [d \in Dishes |-> [by |-> 0, archived |-> FALSE, wish |-> {}]]
  /\ columns = [d \in Dishes |-> NoColumns]
  /\ asked = [d \in Dishes |-> [columns |-> NoColumns, overtaken |-> FALSE]]
  /\ cooks = {} /\ links = {}
  /\ ingredients = {}
  /\ aliasOf = [n \in Names |-> NoName]
  /\ lock = [d \in Dishes |-> NoTask]
  /\ pc = [t \in Tasks |-> "idle"]
  /\ job = [t \in Tasks |-> NoJob]
  /\ view = [t \in Tasks |-> NoView]
  /\ seen = [t \in Tasks |-> NoRow]
  /\ arrivals = 0 /\ alone = TRUE

-----------------------------------------------------------------------------
(* Helpers.                                                                *)

Goto(t, from, to) == pc[t] = from /\ pc' = [pc EXCEPT ![t] = to]

\* t's handler ends; what it has not committed is rolled back.
Finish(t) ==
  /\ pc' = [pc EXCEPT ![t] = "idle"]
  /\ job' = [job EXCEPT ![t] = NoJob]
  /\ view' = [view EXCEPT ![t] = NoView]
  /\ seen' = [seen EXCEPT ![t] = NoRow]
  /\ lock' = [d \in Dishes |-> IF lock[d] = t THEN NoTask ELSE lock[d]]

IsDishJob(t) == job[t].op \in {"create", "update"}
Wish(t)      == {job[t].names[i] : i \in DOMAIN job[t].names}

\* The columns of t's dish once its UPDATE has written those that it sets to
\* something else than what it has loaded; and whether another request has
\* written the row since.
Written(t) ==
  LET f == job[t].setting
  IN  [c \in Columns |-> IF c \in DOMAIN f /\ f[c] # seen[t].columns[c]
                           THEN f[c] ELSE columns[job[t].dish][c]]
Overtaken(t) ==
  LET row == dishRow[job[t].dish] IN row.archived \/ row.by # seen[t].by

\* The name in hand.  create_canonical_ingredient comes back to its first name
\* to insert it after it has looked all of them up.
Current(t) == job[t].names[view[t].at]
ToInsert(t) == IF IsDishJob(t) THEN Current(t) ELSE job[t].names[1]

\* The tasks that t's next statement waits for.
BlockedBy(t) ==
  {u \in Tasks \ {t} :
     \/ pc[t] = "new" /\ ToInsert(t) \in view[u].made
     \/ pc[t] = "nick" /\ Current(t) \in view[u].nicks
     \/ pc[t] \in {"cooks", "archive"} /\ job[t].op # "create" /\ lock[job[t].dish] = u}

\* t goes on to the next name with the view v; the last one of a dish is
\* followed by the commit, the last one of a canonical ingredient by its INSERT.
NextName(t, v) ==
  IF v.at = Len(job[t].names)
    THEN /\ pc' = [pc EXCEPT ![t] = IF IsDishJob(t) THEN "commit" ELSE "new"]
         /\ view' = [view EXCEPT ![t] = v]
         /\ UNCHANGED <<job, seen, lock>>
    ELSE IF ~ IsDishJob(t) /\ job[t].names[v.at + 1] = job[t].names[1]
           THEN Finish(t)                      \* The alias is the name.
           ELSE /\ pc' = [pc EXCEPT ![t] = "find"]
                /\ view' = [view EXCEPT ![t] = [v EXCEPT !.at = @ + 1]]
                /\ UNCHANGED <<job, seen, lock>>

\* The name in hand stands for ingredient n: a dish uses it, a canonical
\* ingredient may not have it.
Found(t, n) == IF IsDishJob(t) THEN NextName(t, [view[t] EXCEPT !.use = @ \cup {n}])
                               ELSE Finish(t)

-----------------------------------------------------------------------------
(* Faulty forms of the operations below, one per property.                 *)

\* The position moves on past the last alias.
InsertAliasPast(t) ==
  /\ pc[t] = "nick"
  /\ BlockedBy(t) = {}
  /\ IF aliasOf[Current(t)] # NoName \/ Current(t) \in view[t].nicks
       THEN Finish(t)
       ELSE /\ pc' = [pc EXCEPT ![t] = IF view[t].at = Len(job[t].names) THEN "commit" ELSE "nick"]
            /\ view' = [view EXCEPT ![t].nicks = @ \cup {Current(t)}, ![t].at = @ + 1]
            /\ UNCHANGED <<job, seen, lock>>
  /\ UNCHANGED <<tables, bounds>>

\* The UPDATE of the dish is not flushed before its links are deleted.
ResolveCooksUnflushed(t) ==
  /\ pc[t] = "cooks"
  /\ \/ Finish(t)
     \/ /\ pc' = [pc EXCEPT ![t] = "clear"]
        /\ UNCHANGED <<lock, job, view, seen>>
  /\ UNCHANGED <<tables, bounds>>

\* A dish is linked to the alias and not to the ingredient it maps to.
FindAliasUnmapped(t) ==
  /\ pc[t] = "alias"
  /\ IF aliasOf[Current(t)] # NoName
       THEN Found(t, Current(t))
       ELSE IF IsDishJob(t)
              THEN /\ pc' = [pc EXCEPT ![t] = "new"]
                   /\ UNCHANGED <<job, view, seen, lock>>
              ELSE NextName(t, view[t])
  /\ UNCHANGED <<tables, bounds>>

\* The aliases are not looked up.
FindAliasForgotten(t) ==
  /\ pc[t] = "alias"
  /\ IF IsDishJob(t)
       THEN /\ pc' = [pc EXCEPT ![t] = "new"]
            /\ UNCHANGED <<job, view, seen, lock>>
       ELSE NextName(t, view[t])
  /\ UNCHANGED <<tables, bounds>>

\* An update writes every column of the row as it was loaded.
CommitDishStale(t) ==
  LET d == job[t].dish
  IN  /\ pc[t] = "commit" /\ IsDishJob(t)
      /\ dishRow' = [dishRow EXCEPT ![d] = [by |-> job[t].by, archived |-> FALSE, wish |-> Wish(t)]]
      /\ columns' = [columns EXCEPT ![d] = job[t].setting]
      /\ asked' = [asked EXCEPT ![d] = [columns |-> job[t].setting, overtaken |-> Overtaken(t)]]
      /\ cooks' = {c \in cooks : c.dish # d \/ c.by \notin view[t].gone}
                    \cup {[dish |-> d, by |-> job[t].by]}
      /\ links' = {l \in links : l.dish # d \/ l.by \notin view[t].gone}
                    \cup {[dish |-> d, ingredient |-> n, by |-> job[t].by] : n \in view[t].use}
      /\ ingredients' = ingredients \cup view[t].made
      /\ Finish(t)
      /\ UNCHANGED <<aliasOf, bounds>>

\* After a conflict the INSERT is repeated and not the lookup.
InsertIngredientAgain(t) ==
  LET v == [view[t] EXCEPT !.made = @ \cup {ToInsert(t)}, !.use = @ \cup {ToInsert(t)}]
  IN  /\ pc[t] = "new"
      /\ BlockedBy(t) = {}
      /\ IF ToInsert(t) \in ingredients
           THEN UNCHANGED <<pc, view, job, seen, lock>>
           ELSE NextName(t, v)
      /\ UNCHANGED <<tables, bounds>>

-----------------------------------------------------------------------------
(* Arrivals.                                                               *)

Arrive(t, op, d, names, setting, label) ==
  /\ arrivals < MaxArrivals
  /\ arrivals' = arrivals + 1
  /\ Goto(t, "idle", label)
  /\ job' = [job EXCEPT ![t] = [op |-> op, by |-> arrivals + 1, dish |-> d,
                                 names |-> names, setting |-> setting]]
  /\ alone' = (alone /\ \A u \in Tasks : pc[u] = "idle")
  /\ UNCHANGED <<tables, lock, view, seen>>

\* A dish is created under a fresh id.
ArriveCreate(t) ==
  \E d \in Dishes, names \in Lists(MaxNames), f \in [Columns -> Values] :
    /\ dishRow[d].by = 0
    /\ \A u \in Tasks : job[u].op = "create" => job[u].dish # d
    /\ Arrive(t, "create", d, names, f, "insert")

ArriveUpdate(t) ==
  \E d \in Dishes, names \in Lists(MaxNames), f \in [Columns -> Values] :
    Arrive(t, "update", d, names, f, "load")
ArriveArchive(t) ==
  \E d \in Dishes, f \in [{Editor} -> Values] : Arrive(t, "archive", d, <<>>, f, "load")
ArriveIngredient(t) ==
  \E names \in Lists(MaxNames + 1) : Arrive(t, "ingredient", NoDish, names, NoSetting, "find")

-----------------------------------------------------------------------------
(* create_dish, update_dish and archive_dish.                              *)

\* require_dish, and the test that the dish is not archived: an error in an
\* update, nothing to do in another archive.
Load(t) ==
  /\ pc[t] = "load"
  /\ IF dishRow[job[t].dish].by = 0 \/ dishRow[job[t].dish].archived
       THEN Finish(t)
       ELSE /\ pc' = [pc EXCEPT ![t] = IF job[t].op = "update" THEN "cooks" ELSE "archive"]
            /\ seen' = [seen EXCEPT ![t] = [by |-> dishRow[job[t].dish].by,
                                            columns |-> columns[job[t].dish]]]
            /\ UNCHANGED <<job, view, lock>>
  /\ UNCHANGED <<tables, bounds>>

\* The flush of the new dish.
InsertDish(t) ==
  /\ Goto(t, "insert", "cooks")
  /\ UNCHANGED <<tables, lock, job, view, seen, bounds>>

\* resolve_cooks.  Its SELECT first flushes the UPDATE of the dish, which waits
\* for the row and keeps it.  A cook who is not a member is an error.
ResolveCooks(t) ==
  /\ pc[t] = "cooks"
  /\ BlockedBy(t) = {}
  /\ \/ Finish(t)
     \/ /\ pc' = [pc EXCEPT ![t] = "clear"]
        /\ lock' = IF job[t].op = "update" THEN [lock EXCEPT ![job[t].dish] = t] ELSE lock
        /\ UNCHANGED <<job, view, seen>>
  /\ UNCHANGED <<tables, bounds>>

\* The two DELETEs of the links that are committed now.
ClearRelations(t) ==
  /\ Goto(t, "clear", "find")
  /\ view' = [view EXCEPT ![t].gone = {r.by : r \in {c \in cooks : c.dish = job[t].dish}}
                                 \cup {r.by : r \in {l \in links : l.dish = job[t].dish}}]
  /\ UNCHANGED <<tables, lock, job, seen, bounds>>

\* The commit of a dish: the columns that its UPDATE has written, its links, and
\* the ingredients made for it.
CommitDish(t) ==
  LET d == job[t].dish
  IN  /\ pc[t] = "commit" /\ IsDishJob(t)
      /\ dishRow' = [dishRow EXCEPT ![d].by = job[t].by, ![d].wish = Wish(t)]
      /\ columns' = [columns EXCEPT ![d] = Written(t)]
      /\ asked' = [asked EXCEPT ![d] = [columns |-> job[t].setting, overtaken |-> Overtaken(t)]]
      /\ cooks' = {c \in cooks : c.dish # d \/ c.by \notin view[t].gone}
                    \cup {[dish |-> d, by |-> job[t].by]}
      /\ links' = {l \in links : l.dish # d \/ l.by \notin view[t].gone}
                    \cup {[dish |-> d, ingredient |-> n, by |-> job[t].by] : n \in view[t].use}
      /\ ingredients' = ingredients \cup view[t].made
      /\ Finish(t)
      /\ UNCHANGED <<aliasOf, bounds>>

\* archive_dish, which sets updated_by as well: the flush waits for the row, and
\* the commit follows.
ArchiveDish(t) ==
  /\ pc[t] = "archive"
  /\ BlockedBy(t) = {}
  /\ dishRow' = [dishRow EXCEPT ![job[t].dish].archived = TRUE]
  /\ columns' = [columns EXCEPT ![job[t].dish] = Written(t)]
  /\ asked' = [asked EXCEPT ![job[t].dish].columns[Editor] = job[t].setting[Editor],
                            ![job[t].dish].overtaken = @ \/ Overtaken(t)]
  /\ Finish(t)
  /\ UNCHANGED <<cooks, links, ingredients, aliasOf, bounds>>

-----------------------------------------------------------------------------
(* find_ingredient_by_normalized, get_or_create_ingredient and             *)
(* create_canonical_ingredient.                                            *)

\* First the ingredients, committed or t's own ...
FindIngredient(t) ==
  /\ pc[t] = "find"
  /\ IF Current(t) \in ingredients \cup view[t].made
       THEN Found(t, Current(t))
       ELSE /\ pc' = [pc EXCEPT ![t] = "alias"]
            /\ UNCHANGED <<job, view, seen, lock>>
  /\ UNCHANGED <<tables, bounds>>

\* ... then the aliases.  A name that stands for nothing is made an ingredient
\* of a dish at once; a canonical ingredient goes on to its next name.
FindAlias(t) ==
  /\ pc[t] = "alias"
  /\ IF aliasOf[Current(t)] # NoName
       THEN Found(t, aliasOf[Current(t)])
       ELSE IF IsDishJob(t)
              THEN /\ pc' = [pc EXCEPT ![t] = "new"]
                   /\ UNCHANGED <<job, view, seen, lock>>
              ELSE NextName(t, view[t])
  /\ UNCHANGED <<tables, bounds>>

\* The flush of a new ingredient: it waits for an uncommitted one of the same
\* name, and fails on a committed one, which nobody catches.
InsertIngredient(t) ==
  LET n == ToInsert(t)
      v == [view[t] EXCEPT !.made = @ \cup {n}]
  IN  /\ pc[t] = "new"
      /\ BlockedBy(t) = {}
      /\ \/ n \in ingredients /\ Finish(t)
         \/ /\ n \notin ingredients /\ IsDishJob(t)
            /\ NextName(t, [v EXCEPT !.use = @ \cup {n}])
         \/ /\ n \notin ingredients /\ ~ IsDishJob(t)
            /\ pc' = [pc EXCEPT ![t] = IF Len(job[t].names) = 1 THEN "commit" ELSE "nick"]
            /\ view' = [view EXCEPT ![t] = [v EXCEPT !.at = IF Len(job[t].names) = 1 THEN 1 ELSE 2]]
            /\ UNCHANGED <<job, seen, lock>>
      /\ UNCHANGED <<tables, bounds>>

\* The aliases follow in one statement, which may wait at each of them.
InsertAlias(t) ==
  LET n == Current(t)
      last == view[t].at = Len(job[t].names)
  IN  /\ pc[t] = "nick"
      /\ BlockedBy(t) = {}
      /\ IF aliasOf[n] # NoName \/ n \in view[t].nicks
           THEN Finish(t)
           ELSE /\ pc' = [pc EXCEPT ![t] = IF last THEN "commit" ELSE "nick"]
                /\ view' = [view EXCEPT ![t].nicks = @ \cup {n},
                                        ![t].at = IF last THEN @ ELSE @ + 1]
                /\ UNCHANGED <<job, seen, lock>>
      /\ UNCHANGED <<tables, bounds>>

CommitIngredient(t) ==
  /\ pc[t] = "commit" /\ ~ IsDishJob(t)
  /\ ingredients' = ingredients \cup view[t].made
  /\ aliasOf' = [n \in Names |-> IF n \in view[t].nicks THEN job[t].names[1] ELSE aliasOf[n]]
  /\ Finish(t)
  /\ UNCHANGED <<dishRow, cooks, links, contents, bounds>>

-----------------------------------------------------------------------------
\* Two dishes that make the same ingredients in different orders wait for each
\* other: PostgreSQL finds a task that waits, over others, for itself, and its
\* statement fails.
BreakDeadlock(t) ==
  /\ \A C \in SUBSET Tasks :
       BlockedBy(t) \subseteq C /\ (\A u \in C : BlockedBy(u) \subseteq C) => t \in C
  /\ Finish(t)
  /\ UNCHANGED <<tables, bounds>>

\* The task dies before its next statement.
Fail(t) ==
  /\ pc[t] # "idle"
  /\ Finish(t)
  /\ UNCHANGED <<tables, bounds>>

Proceed(t) ==
  \/ Load(t) \/ InsertDish(t) \/ ResolveCooks(t) \/ ClearRelations(t) \/ CommitDish(t)
  \/ ArchiveDish(t) \/ FindIngredient(t) \/ FindAlias(t) \/ InsertIngredient(t)
  \/ InsertAlias(t) \/ CommitIngredient(t) \/ BreakDeadlock(t)

Next ==
  \E t \in Tasks :
    \/ ArriveCreate(t) \/ ArriveUpdate(t) \/ ArriveArchive(t) \/ ArriveIngredient(t)
    \/ Proceed(t) \/ Fail(t)

Spec == Init /\ [][Next]_vars

-----------------------------------------------------------------------------
(* Properties.                                                             *)

\* The columns of a dish, as they are and as they were loaded and set.
ContentsOK ==
  LET Stored == [Columns -> Values \cup {NoValue}]
  IN  /\ columns \in [Dishes -> Stored]
      /\ seen \in [Tasks -> [by : {0} \cup Requests, columns : Stored]]
      /\ asked \in [Dishes -> [columns : Stored, overtaken : BOOLEAN]]

\* Every variable has its type.
TypeOK ==
  /\ dishRow \in [Dishes -> [by : {0} \cup Requests, archived : BOOLEAN, wish : SUBSET Names]]
  /\ ContentsOK
  /\ cooks \subseteq [dish : Dishes, by : Requests]
  /\ links \subseteq [dish : Dishes, ingredient : Names, by : Requests]
  /\ ingredients \subseteq Names
  /\ aliasOf \in [Names -> Names \cup {NoName}]
  /\ lock \in [Dishes -> Tasks \cup {NoTask}]
  /\ pc \in [Tasks -> Labels]
  /\ job \in [Tasks -> Jobs \cup {NoJob}]
  /\ view \in [Tasks -> Views]
  /\ arrivals \in 0 .. MaxArrivals /\ alone \in BOOLEAN

\* However updates of a dish overlap, its cooks and its ingredients were written
\* together, by the last one: the links are deleted and inserted again under the
\* lock that the flush of the UPDATE takes (service.py:254-273).
LinksWhole ==
  \A d \in Dishes :
    /\ {c.by : c \in {r \in cooks : r.dish = d}} = {dishRow[d].by} \ {0}
    /\ {l.by : l \in {r \in links : r.dish = d}} = {dishRow[d].by} \ {0}

\* The columns of a dish are what its last update, and an archive after it, have
\* set, unless one of them had loaded the row before another request wrote it.
\* Then they may be those of several requests, and updated_by another member than
\* the last one: an UPDATE leaves out what equals the value that was loaded.
ColumnsWhole == \A d \in Dishes : ~ asked[d].overtaken => columns[d] = asked[d].columns

\* What of a dish is the work of one request, however many of them overlap.
DishWhole == LinksWhole /\ ColumnsWhole

\* The ingredients of a dish are what its last request asked for: every one it has
\* was asked for by its name or an alias of it, and nothing asked for is missing.
LinksMeant ==
  \A d \in Dishes :
    LET has == {l.ingredient : l \in {r \in links : r.dish = d}}
    IN  /\ has \subseteq ingredients
        /\ \A i \in has : \E n \in dishRow[d].wish : n = i \/ aliasOf[n] = i
        /\ \A n \in dishRow[d].wish : n \in has \/ aliasOf[n] \in has

\* One request at a time, no alias is the name of another ingredient: a name
\* stands for the same ingredient from then on.
SerialNames == alone => \A n \in Names : aliasOf[n] # NoName => n \notin ingredients

\* What the design says of all names (see the finding): an alias maps to its
\* ingredient.  find_ingredient_by_normalized prefers an ingredient of the name.
AliasesMap == \A n \in Names : aliasOf[n] # NoName => n \notin ingredients

\* A dish that is archived stays archived, also when an update that loaded it
\* before commits after the archive; one request at a time it is not edited.
ArchiveFinal ==
  [][ \A d \in Dishes : dishRow[d].archived =>
        /\ dishRow'[d].archived
        /\ alone => dishRow'[d] = dishRow[d] /\ columns'[d] = columns[d] ]_vars
=============================================================================
