------------------------------ MODULE MealSlot ------------------------------
(***************************************************************************)
(* One meal slot of one household (backend/app/meals/service.py): the slot *)
(* row, its requests, its menu and the activity events the three writing   *)
(* handlers record.                                                        *)
(*                                                                         *)
(* Every HTTP request is one asyncio task with a database session of its   *)
(* own.  The database is PostgreSQL at its default READ COMMITTED, so a    *)
(* task reads what is committed when the statement runs, its own writes    *)
(* stay invisible to the others until it commits, and an UPDATE of the     *)
(* slot row waits for the task that has updated it and not committed yet.  *)
(* One step of the model is one awaited statement; the statements that     *)
(* db.commit() flushes together become visible in one step.                *)
(***************************************************************************)
EXTENDS Integers, FiniteSets

CONSTANTS
  Tasks,        (* Request tasks the server can run at the same time.       *)
  Members,      (* Members of the household.                                *)
  Dishes,       (* Dishes of the household.                                 *)
  Expected,     (* Values of expected_version that clients send.            *)
  MaxArrivals,  (* Number of requests that arrive.  Bounds the model.       *)
  NoOne,        (* last_modified_by of a slot nobody has confirmed.         *)
  NoTask        (* Holder of a row lock that is free.                       *)

ASSUME ExpectedAssumption == Expected \subseteq Nat
ASSUME ArrivalsAssumption == MaxArrivals \in Nat
ASSUME NoOneAssumption == NoOne \notin Members
ASSUME NoTaskAssumption == NoTask \notin Tasks

VARIABLES
  status,    (* MealSlot.status, as committed.                              *)
  version,   (* MealSlot.version, as committed.                             *)
  editor,    (* MealSlot.last_modified_by_id, as committed.                 *)
  requests,  (* MealRequest rows: pairs of a member and a dish.             *)
  menu,      (* Dishes of the MenuItem rows.                                *)
  active,    (* Dishes whose archived_at is null.                           *)
  events,    (* Number of ActivityEvent rows of each name for this slot.    *)
  lock,      (* The task that updated the slot row and has not committed.   *)
  pc,        (* The statement each task runs next.                          *)
  job,       (* The request each task serves.                               *)
  saw,       (* What each task has read and holds in local variables.       *)
  reply,     (* The last answer of each task: its kind and, of those that   *)
             (* carry the slot or its version, the version.                 *)
  arrivals,  (* Number of requests that have arrived.                       *)
  alone      (* History: no two requests have run at the same time so far.  *)

slotRow == <<status, version, editor>>
tables  == <<status, version, editor, requests, menu, active, events>>
vars    == <<tables, lock, pc, job, saw, reply, arrivals, alone>>

Statuses   == {"not_started", "pending", "confirmed"}
EventNames == {"first_request_added", "menu_confirmed", "menu_modified"}
Labels     == {"idle", "load", "dish", "own", "prior", "insert", "recover",
               "repair", "delete", "remaining", "withdraw", "claim",
               "conflict", "replace", "reload"}
Replies    == {"none", "ok", "conflict", "invalid", "error"}

(***************************************************************************)
(* The requests of the API.  A request or a withdrawal names one dish, a   *)
(* confirmation a set of dishes (their order is not stored) and the        *)
(* version of the slot its client has seen.                                *)
(***************************************************************************)
OneDish(op)  == [op : {op}, member : Members, dishes : {{d} : d \in Dishes},
                 expected : {0}]
Confirms     == [op : {"confirm"}, member : Members, dishes : SUBSET Dishes,
                 expected : Expected]
Jobs         == OneDish("request") \cup OneDish("withdraw") \cup Confirms
NoJob        == [op |-> "none", member |-> NoOne, dishes |-> {}, expected |-> 0]

(***************************************************************************)
(* A task's local variables: the slot as require_slot returned it, the     *)
(* dishes not checked yet, and the answers of the prior_any and remaining  *)
(* queries.                                                                *)
(***************************************************************************)
Sights  == [status : Statuses, version : Nat, todo : SUBSET Dishes,
            first : BOOLEAN, last : BOOLEAN]
NoSight == [status |-> "not_started", version |-> 0, todo |-> {},
            first |-> FALSE, last |-> FALSE]
NoReply == [kind |-> "none", version |-> 0]

Init ==
  /\ status = "not_started"
  /\ version = 0
  /\ editor = NoOne
  /\ requests = {}
  /\ menu = {}
  /\ active = Dishes
  /\ events = [n \in EventNames |-> 0]
  /\ lock = NoTask
  /\ pc = [t \in Tasks |-> "idle"]
  /\ job = [t \in Tasks |-> NoJob]
  /\ saw = [t \in Tasks |-> NoSight]
  /\ reply = [t \in Tasks |-> NoReply]
  /\ arrivals = 0
  /\ alone = TRUE

-----------------------------------------------------------------------------
(* Helpers.                                                                *)

\* The MealRequest row (as a set) that a request or withdrawal is about.
Row(t) == {job[t].member} \X job[t].dishes

Goto(t, from, to) == pc[t] = from /\ pc' = [pc EXCEPT ![t] = to]

\* t's handler ends; its session is closed and its locals are gone.
Answer(t, kind, v) ==
  /\ pc'    = [pc EXCEPT ![t] = "idle"]
  /\ job'   = [job EXCEPT ![t] = NoJob]
  /\ saw'   = [saw EXCEPT ![t] = NoSight]
  /\ reply' = [reply EXCEPT ![t] = [kind |-> kind, version |-> v]]

\* Uncommitted deletes: the MealRequest rows another task has deleted.
Deleting(t) == pc[t] \in {"remaining", "withdraw"}
RowFree(t)  == \A u \in Tasks \ {t} : Deleting(u) => Row(u) # Row(t)

Count(name) == events' = [events EXCEPT ![name] = @ + 1]

\* A request arrives and require_member has authenticated it.
Arrive(t) ==
  /\ arrivals < MaxArrivals
  /\ arrivals' = arrivals + 1
  /\ Goto(t, "idle", "load")
  /\ \E j \in Jobs : job' = [job EXCEPT ![t] = j]
  /\ reply' = [reply EXCEPT ![t] = NoReply]
  /\ alone' = (alone /\ \A u \in Tasks : pc[u] = "idle")
  /\ UNCHANGED <<tables, lock, saw>>

\* require_slot.  The handlers decide by the status they read here, however
\* late they write; the empty menu is refused before the next await.
Load(t) ==
  /\ pc[t] = "load"
  /\ IF job[t].op = "confirm" /\ job[t].dishes = {}
       THEN Answer(t, "invalid", 0)
       ELSE /\ pc' = [pc EXCEPT ![t] = IF job[t].op = "withdraw" THEN "own" ELSE "dish"]
            /\ saw' = [saw EXCEPT ![t] = [status |-> status, version |-> version,
                                          todo |-> job[t].dishes,
                                          first |-> FALSE, last |-> FALSE]]
            /\ UNCHANGED <<job, reply>>
  /\ UNCHANGED <<tables, lock, arrivals, alone>>

AfterDishes(t) == IF job[t].op = "request" THEN "own" ELSE "claim"

\* _require_active_dish, once for each distinct dish.
CheckDish(t) ==
  /\ pc[t] = "dish"
  /\ \E d \in saw[t].todo :
       IF d \in active
         THEN /\ saw' = [saw EXCEPT ![t].todo = @ \ {d}]
              /\ pc' = [pc EXCEPT ![t] = IF saw[t].todo = {d} THEN AfterDishes(t) ELSE "dish"]
              /\ UNCHANGED <<job, reply>>
         ELSE Answer(t, "invalid", 0)
  /\ UNCHANGED <<tables, lock, arrivals, alone>>

\* select(MealRequest): is there already (still) such a request?
FindOwn(t) ==
  /\ pc[t] = "own"
  /\ LET found == Row(t) \subseteq requests
     IN \/ /\ job[t].op = "request"
           /\ pc' = [pc EXCEPT ![t] = IF found THEN "reload" ELSE "prior"]
           /\ UNCHANGED <<job, saw, reply>>
        \/ /\ job[t].op = "withdraw" /\ found
           /\ pc' = [pc EXCEPT ![t] = "delete"]
           /\ UNCHANGED <<job, saw, reply>>
        \/ /\ job[t].op = "withdraw" /\ ~ found
           /\ Answer(t, "ok", 0)
  /\ UNCHANGED <<tables, lock, arrivals, alone>>

-----------------------------------------------------------------------------
(* Faulty forms of some actions.  No behaviour of the model takes them; each *)
(* breaks one of the properties below when it replaces its original.       *)

\* prior_any is looked for when the new request is there already.
CheckPriorAfterInsert(t) ==
  /\ Goto(t, "prior", "insert")
  /\ saw' = [saw EXCEPT ![t].first = FALSE]
  /\ UNCHANGED <<tables, lock, job, reply, arrivals, alone>>

\* The version is compared with the one read by require_slot, in Python.
ClaimVersionRead(t) ==
  /\ pc[t] = "claim"
  /\ lock = NoTask
  /\ IF saw[t].version = job[t].expected
       THEN /\ pc' = [pc EXCEPT ![t] = "replace"]
            /\ lock' = t
       ELSE /\ pc' = [pc EXCEPT ![t] = "conflict"]
            /\ UNCHANGED lock
  /\ UNCHANGED <<tables, job, saw, reply, arrivals, alone>>

\* The UPDATE does not wait for the task that holds the row.
ClaimVersionUnlocked(t) ==
  /\ pc[t] = "claim"
  /\ IF version = job[t].expected
       THEN /\ pc' = [pc EXCEPT ![t] = "replace"]
            /\ lock' = t
       ELSE /\ pc' = [pc EXCEPT ![t] = "conflict"]
            /\ UNCHANGED lock
  /\ UNCHANGED <<tables, job, saw, reply, arrivals, alone>>

\* The claim is a transaction of its own: its version is seen before its menu.
ClaimVersionCommitted(t) ==
  /\ pc[t] = "claim"
  /\ lock = NoTask
  /\ IF version = job[t].expected
       THEN /\ pc' = [pc EXCEPT ![t] = "replace"]
            /\ lock' = t
            /\ version' = version + 1
            /\ status' = "confirmed" /\ editor' = job[t].member
       ELSE /\ pc' = [pc EXCEPT ![t] = "conflict"]
            /\ UNCHANGED <<lock, slotRow>>
  /\ UNCHANGED <<requests, menu, active, events, job, saw, reply, arrivals, alone>>

\* The 409 carries the version that require_slot had read.
AnswerConflictRead(t) ==
  /\ pc[t] = "conflict"
  /\ Answer(t, "conflict", saw[t].version)
  /\ UNCHANGED <<tables, lock, arrivals, alone>>

\* The status of a later change is one that the check constraint lacks.
ReplaceMenuModified(t) ==
  /\ Goto(t, "replace", "reload")
  /\ version' = job[t].expected + 1
  /\ status' = IF saw[t].status = "confirmed" THEN "modified" ELSE "confirmed"
  /\ editor' = job[t].member
  /\ menu' = job[t].dishes
  /\ Count(IF saw[t].status = "confirmed" THEN "menu_modified" ELSE "menu_confirmed")
  /\ lock' = NoTask
  /\ UNCHANGED <<requests, active, job, saw, reply, arrivals, alone>>

\* The version is not claimed, only the items are replaced.
ReplaceMenuKeepingVersion(t) ==
  /\ Goto(t, "replace", "reload")
  /\ version' = version
  /\ status' = "confirmed"
  /\ editor' = job[t].member
  /\ menu' = job[t].dishes
  /\ Count(IF saw[t].status = "confirmed" THEN "menu_modified" ELSE "menu_confirmed")
  /\ lock' = NoTask
  /\ UNCHANGED <<requests, active, job, saw, reply, arrivals, alone>>

\* Whoever withdraws the last request resets the slot, confirmed or not.
WithdrawRequestResetting(t) ==
  /\ pc[t] = "withdraw"
  /\ saw[t].last => lock = NoTask
  /\ status' = IF saw[t].last THEN "not_started" ELSE status
  /\ requests' = requests \ Row(t)
  /\ Answer(t, "ok", 0)
  /\ UNCHANGED <<version, editor, menu, active, events, lock, arrivals, alone>>

-----------------------------------------------------------------------------
(* upsert_request.                                                         *)

\* prior_any: has the slot any request?
CheckPrior(t) ==
  /\ Goto(t, "prior", "insert")
  /\ saw' = [saw EXCEPT ![t].first = (requests = {})]
  /\ UNCHANGED <<tables, lock, job, reply, arrivals, alone>>

\* The flush and commit: the slot's UPDATE when the status read by Load was
\* not_started, the INSERT of the request, the INSERT of the event.  The
\* unique constraint sends the loser of two equal inserts to the recovery.
InsertRequest(t) ==
  /\ pc[t] = "insert"
  /\ saw[t].status = "not_started" => lock = NoTask
  /\ RowFree(t)
  /\ IF Row(t) \subseteq requests
       THEN /\ pc' = [pc EXCEPT ![t] = "recover"]
            /\ UNCHANGED tables
       ELSE /\ pc' = [pc EXCEPT ![t] = "reload"]
            /\ status' = IF saw[t].status = "not_started" THEN "pending" ELSE status
            /\ requests' = requests \cup Row(t)
            /\ IF saw[t].first THEN Count("first_request_added") ELSE UNCHANGED events
            /\ UNCHANGED <<version, editor, menu, active>>
  /\ UNCHANGED <<lock, job, saw, reply, arrivals, alone>>

\* After the rollback: the slot is read again ...
Recover(t) ==
  /\ Goto(t, "recover", IF status = "not_started" THEN "repair" ELSE "reload")
  /\ UNCHANGED <<tables, lock, job, saw, reply, arrivals, alone>>

\* ... and set to pending when that read found it not_started.
Repair(t) ==
  /\ Goto(t, "repair", "reload")
  /\ lock = NoTask
  /\ status' = "pending"
  /\ UNCHANGED <<version, editor, requests, menu, active, events>>
  /\ UNCHANGED <<lock, job, saw, reply, arrivals, alone>>

\* The closing require_slot, whose slot is the answer.
Reload(t) ==
  /\ pc[t] = "reload"
  /\ Answer(t, "ok", version)
  /\ UNCHANGED <<tables, lock, arrivals, alone>>

-----------------------------------------------------------------------------
(* delete_own_request.                                                     *)

\* db.delete and flush: waits while another task is deleting the same row.
DeleteRequest(t) ==
  /\ Goto(t, "delete", "remaining")
  /\ RowFree(t)
  /\ UNCHANGED <<tables, lock, job, saw, reply, arrivals, alone>>

\* The remaining requests: t sees its own delete and nobody else's.
CheckRemaining(t) ==
  /\ Goto(t, "remaining", "withdraw")
  /\ saw' = [saw EXCEPT ![t].last = (requests \subseteq Row(t))]
  /\ UNCHANGED <<tables, lock, job, reply, arrivals, alone>>

\* The flush and commit, with the slot's UPDATE when t saw the last request
\* of a slot that was pending when Load read it.
WithdrawRequest(t) ==
  LET resets == saw[t].last /\ saw[t].status = "pending"
  IN  /\ pc[t] = "withdraw"
      /\ resets => lock = NoTask
      /\ status' = IF resets THEN "not_started" ELSE status
      /\ requests' = requests \ Row(t)
      /\ Answer(t, "ok", 0)
      /\ UNCHANGED <<version, editor, menu, active, events, lock, arrivals, alone>>

-----------------------------------------------------------------------------
(* replace_menu.                                                           *)

\* UPDATE ... WHERE version = expected_version.  It waits for the row lock,
\* evaluates the condition on the committed row and keeps the lock.
ClaimVersion(t) ==
  /\ pc[t] = "claim"
  /\ lock = NoTask
  /\ IF version = job[t].expected
       THEN /\ pc' = [pc EXCEPT ![t] = "replace"]
            /\ lock' = t
       ELSE /\ pc' = [pc EXCEPT ![t] = "conflict"]
            /\ UNCHANGED lock
  /\ UNCHANGED <<tables, job, saw, reply, arrivals, alone>>

\* No row was updated: read the current version and answer 409 with it.
AnswerConflict(t) ==
  /\ pc[t] = "conflict"
  /\ Answer(t, "conflict", version)
  /\ UNCHANGED <<tables, lock, arrivals, alone>>

\* DELETE and INSERT of the menu items, the event, and the commit that makes
\* them and the claimed row visible.
ReplaceMenu(t) ==
  /\ Goto(t, "replace", "reload")
  /\ version' = job[t].expected + 1
  /\ status' = "confirmed"
  /\ editor' = job[t].member
  /\ menu' = job[t].dishes
  /\ Count(IF saw[t].status = "confirmed" THEN "menu_modified" ELSE "menu_confirmed")
  /\ lock' = NoTask
  /\ UNCHANGED <<requests, active, job, saw, reply, arrivals, alone>>

-----------------------------------------------------------------------------
\* The task dies before its next statement (a cancelled request, a lost
\* connection, a deadlock victim, an exception): the session rolls back.
Fail(t) ==
  /\ pc[t] # "idle"
  /\ Answer(t, "error", 0)
  /\ lock' = IF lock = t THEN NoTask ELSE lock
  /\ UNCHANGED <<tables, arrivals, alone>>

\* archive_dish of the dish catalogue commits.
ArchiveDish(d) ==
  /\ d \in active
  /\ active' = active \ {d}
  /\ UNCHANGED <<slotRow, requests, menu, events>>
  /\ UNCHANGED <<lock, pc, job, saw, reply, arrivals, alone>>

Proceed(t) ==
  \/ Load(t) \/ CheckDish(t) \/ FindOwn(t)
  \/ CheckPrior(t) \/ InsertRequest(t) \/ Recover(t) \/ Repair(t) \/ Reload(t)
  \/ DeleteRequest(t) \/ CheckRemaining(t) \/ WithdrawRequest(t)
  \/ ClaimVersion(t) \/ AnswerConflict(t) \/ ReplaceMenu(t)

Next ==
  \/ \E t \in Tasks : Arrive(t) \/ Proceed(t) \/ Fail(t)
  \/ \E d \in Dishes : ArchiveDish(d)

Spec == Init /\ [][Next]_vars

-----------------------------------------------------------------------------
(* Properties.                                                             *)

\* Every variable has its type.
TypeOK ==
  /\ status \in Statuses
  /\ version \in Nat
  /\ editor \in Members \cup {NoOne}
  /\ requests \subseteq Members \X Dishes
  /\ menu \subseteq Dishes
  /\ active \subseteq Dishes
  /\ events \in [EventNames -> Nat]
  /\ lock \in Tasks \cup {NoTask}
  /\ pc \in [Tasks -> Labels]
  /\ job \in [Tasks -> Jobs \cup {NoJob}]
  /\ saw \in [Tasks -> Sights]
  /\ reply \in [Tasks -> [kind : Replies, version : Nat]]
  /\ arrivals \in Nat
  /\ alone \in BOOLEAN

\* A task that has claimed the version holds the row until it commits or
\* dies, and the version it claimed is still the committed one: two writers
\* with the same expected_version cannot both commit (service.py:287-288).
ClaimHolds ==
  \A t \in Tasks :
    /\ pc[t] = "replace" <=> lock = t
    /\ pc[t] = "replace" => version = job[t].expected

\* Version, menu, last editor, status and event log agree: each version was
\* made by one replacement, recorded once; a slot that was never confirmed
\* has no menu and no editor, and every other slot has both, whatever
\* requests and withdrawals ran meanwhile.
MenuOfVersion ==
  /\ version = events["menu_confirmed"] + events["menu_modified"]
  /\ menu = {} <=> version = 0
  /\ editor = NoOne <=> version = 0
  /\ status = "confirmed" => version > 0

\* The analytics never miss the first request: a slot that has a request has
\* a first_request_added event, also when first requests raced or were rolled
\* back and recovered.
FirstRequestRecorded == requests # {} => events["first_request_added"] > 0

\* The menu and its editor change only together with the version, by one,
\* from the version that the writer expected: no confirmation is lost.
NoLostMenuUpdate ==
  [][ menu' # menu \/ editor' # editor \/ version' # version
        => \E t \in Tasks : /\ job[t].op = "confirm"
                            /\ version = job[t].expected
                            /\ version' = version + 1
                            /\ menu' = job[t].dishes
                            /\ editor' = job[t].member ]_vars

\* What a confirmation answers is true: "ok" shows a later version than the
\* expected one, and a version_conflict shows one that the client had not
\* seen (unless it had expected a version that did not exist yet).
RepliesTruthful ==
  [][ \A t \in Tasks :
        job[t].op = "confirm" /\ job'[t] = NoJob =>
          CASE reply'[t].kind = "ok"       -> reply'[t].version > job[t].expected
            [] reply'[t].kind = "conflict" -> \/ reply'[t].version > job[t].expected
                                              \/ saw[t].version < job[t].expected
            [] OTHER                       -> TRUE ]_vars

\* The table of the design document: not_started has no request, pending has
\* requests and no menu, confirmed has a menu.
StatusTable ==
  CASE status = "not_started" -> requests = {} /\ menu = {}
    [] status = "pending"     -> requests # {} /\ menu = {}
    [] status = "confirmed"   -> menu # {}

\* menu_confirmed is recorded for the first confirmation only.
MenuConfirmedOnce == events["menu_confirmed"] <= 1

\* One request at a time, the handlers keep the table, and the event log has
\* one menu_confirmed at most: only interleavings can break either.
SerialTable == alone => StatusTable /\ MenuConfirmedOnce

(***************************************************************************)
(* What the three handlers implement together: a board whose menu is a     *)
(* compare-and-swap register.                                              *)
(***************************************************************************)
Board == INSTANCE MealBoard WITH menuEvents <- events["menu_confirmed"]
                                                 + events["menu_modified"]

BoardSpec == Board!Spec
=============================================================================
