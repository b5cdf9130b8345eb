--------------------------- MODULE HouseholdAccess --------------------------
(***************************************************************************)
(* Who is in a household and who may act in it (backend/app/households and *)
(* backend/app/security.py): joining with the invite code, signing in with *)
(* a PIN, sessions, the owner's member management, and the rate limiter    *)
(* that all of them share.                                                 *)
(*                                                                         *)
(* As in MealSlot every request is a task, one step is one awaited         *)
(* statement, and only what is committed is seen.  The limiter lives in    *)
(* the one server process and is never touched across an await.            *)
(***************************************************************************)
EXTENDS Integers, FiniteSets

CONSTANTS
  Tasks,        (* Request tasks the server can run at the same time.       *)
  Nicks,        (* Nicknames, up to letter case: they identify members.     *)
  Pins,         (* PINs.                                                    *)
  Addresses,    (* Client addresses, the keys of the join limit.            *)
  PinLimit,     (* PIN_FAILURE_LIMIT.                                       *)
  JoinLimit,    (* JOIN_FAILURE_LIMIT.                                      *)
  MaxArrivals,  (* Number of requests that arrive.  Bounds the model.       *)
  MaxExpiries,  (* Number of sessions and failures that age out.  Bounds it. *)
  NoOne,        (* The owner of a household that does not exist yet.        *)
  NoTask        (* Holder of a row lock that is free.                       *)

ASSUME PinLimitAssumption == PinLimit \in Nat \ {0}
ASSUME JoinLimitAssumption == JoinLimit \in Nat \ {0}
ASSUME BoundsAssumption == MaxArrivals \in Nat /\ MaxExpiries \in Nat
ASSUME NobodyAssumption == NoOne \notin Nicks /\ NoTask \notin Tasks
ASSUME TasksAssumption == IsFiniteSet(Tasks)
ASSUME PinsAssumption == Pins # {}
ASSUME KeysAssumption == Nicks \cap Addresses = {}

VARIABLES
  owner,     (* The member whose role is owner.                             *)
  joined,    (* Members of the household.                                   *)
  disabled,  (* Members whose status is disabled.                           *)
  pin,       (* The PIN behind each member's pin_hash.                      *)
  invite,    (* How often the invite code was replaced; it stands for it.   *)
  sessions,  (* Session rows: their token, member, and (history) the PIN    *)
             (* the member signed in with.                                  *)
  expired,   (* Tokens whose expires_at has passed.                         *)
  issued,    (* Number of tokens generated so far.                          *)
  failed,    (* Failures of each limiter key inside the window.             *)
  lock,      (* Per member row, the task that updated it and not committed. *)
  pc,        (* The statement each task runs next.                          *)
  job,       (* The request each task serves.                               *)
  view,      (* What each task has read and holds in local variables.       *)
  arrivals,  (* Number of requests that have arrived.                       *)
  expiries,  (* Number of sessions and failures that have aged out.         *)
  alone      (* History: no two requests have run at the same time so far.  *)

tables == <<owner, joined, disabled, pin, invite, sessions, issued>>
bounds == <<arrivals, expiries, alone, expired>>
vars   == <<tables, failed, lock, pc, job, view, bounds>>

NoCode == -1                   \* A code that was never issued.
Codes  == {NoCode} \cup Nat
Tokens == Nat                  \* 0 is no cookie, or one never issued.
Keys   == Addresses \cup Nicks

OwnerOps == {"rotate", "disable", "reset"}
Labels   == {"idle", "limit", "invite", "nick", "insert", "recover", "rejoin",
             "admit", "issue", "auth", "expire", "logout", "drop", "rotate",
             "target", "disable", "wipe", "reset"}

Joins  == [op : {"join"}, nick : Nicks, pin : Pins, code : Codes,
           since : Nat, address : Addresses, cookie : {0}]
Others == [op : {"me", "logout"} \cup OwnerOps, nick : Nicks \cup {NoOne}, pin : Pins,
           code : {NoCode}, since : {0}, address : {NoOne}, cookie : Tokens]
Jobs   == Joins \cup Others     \* since (history): invite at the arrival.

\* A member row as a task has read it, and the tokens it has deleted.
Views  == [pin : Pins, disabled : BOOLEAN, doomed : SUBSET Tokens]

NoPin  == CHOOSE p \in Pins : TRUE   \* What a field holds before it is set.
NoJob  == [op |-> "none", nick |-> NoOne, pin |-> NoPin, code |-> NoCode,
           since |-> 0, address |-> NoOne, cookie |-> 0]
NoView == [pin |-> NoPin, disabled |-> FALSE, doomed |-> {}]

Init ==
  /\ owner = NoOne
  /\ joined = {} /\ disabled = {}
  /\ pin = [n \in Nicks |-> NoPin]
  /\ invite = 0
  /\ sessions = {} /\ expired = {} /\ issued = 0
  /\ failed = [k \in Keys |-> 0]
  /\ lock = [n \in Nicks |-> NoTask]
  /\ pc = [t \in Tasks |-> "idle"]
  /\ job = [t \in Tasks |-> NoJob]
  /\ view = [t \in Tasks |-> NoView]
  /\ arrivals = 0 /\ expiries = 0 /\ alone = TRUE

-----------------------------------------------------------------------------
(* Helpers.                                                                *)

Goto(t, from, to) == pc[t] = from /\ pc' = [pc EXCEPT ![t] = to]

\* t's handler ends; its session is closed and its locals are gone.
Finish(t) ==
  /\ pc' = [pc EXCEPT ![t] = "idle"]
  /\ job' = [job EXCEPT ![t] = NoJob]
  /\ view' = [view EXCEPT ![t] = NoView]

\* The session rows with t's cookie (token_hash is unique).
Mine(t) == {s \in sessions : s.token = job[t].cookie}

\* No other task has deleted t's session row without committing yet.
MineFree(t) == \A u \in Tasks \ {t} : job[t].cookie \notin view[u].doomed

\* No other task has inserted a member with t's nickname without committing.
NickFree(t) == \A u \in Tasks \ {t} : pc[u] = "admit" => job[u].nick # job[t].nick

\* is_limited, record_failure and clear.
IsLimited(k, limit) == failed[k] >= limit
RecordFailures(ks)  == failed' = [k \in Keys |-> IF k \in ks THEN failed[k] + 1 ELSE failed[k]]

\* join_household raises inside its try: the address is charged a failure.
RejectJoin(t) == RecordFailures({job[t].address}) /\ Finish(t)

-----------------------------------------------------------------------------
(* Faulty forms of the operations below, one per property.                 *)

\* The failures are dropped without a test that there are any.
ForgetAny(k) ==
  /\ expiries < MaxExpiries /\ expiries' = expiries + 1
  /\ failed' = [failed EXCEPT ![k] = @ - 1]
  /\ UNCHANGED <<tables, lock, pc, job, view, arrivals, alone, expired>>

\* The limiter is not asked before the PIN is verified.
SignInUnlimited(t, stored, off) ==
  LET n == job[t].nick
  IN  \/ /\ off
         /\ RejectJoin(t)
      \/ /\ ~ off /\ stored # job[t].pin
         /\ RecordFailures({n, job[t].address})
         /\ Finish(t)
      \/ /\ ~ off /\ stored = job[t].pin
         /\ failed' = [failed EXCEPT ![n] = 0]
         /\ pc' = [pc EXCEPT ![t] = "issue"]
         /\ UNCHANGED <<job, view>>

\* Every code that was ever issued still finds the household.
FindInviteEver(t) ==
  /\ pc[t] = "invite"
  /\ IF job[t].code # NoCode
       THEN /\ pc' = [pc EXCEPT ![t] = "nick"]
            /\ UNCHANGED <<failed, job, view>>
       ELSE RejectJoin(t)
  /\ UNCHANGED <<tables, lock, bounds>>

\* Without the unique index on the lower-case nickname.
InsertMemberTwice(t) ==
  /\ Goto(t, "insert", "admit")
  /\ UNCHANGED <<tables, failed, lock, job, view, bounds>>

\* require_owner is forgotten.
AuthenticateAnyone(t) ==
  /\ pc[t] = "auth"
  /\ IF \/ Mine(t) = {}
        \/ job[t].op = "me"
        \/ \E s \in Mine(t) : s.token \in expired \/ s.nick \in disabled
       THEN Finish(t)
       ELSE /\ pc' = [pc EXCEPT ![t] = IF job[t].op = "rotate" THEN "rotate" ELSE "target"]
            /\ UNCHANGED <<job, view>>
  /\ UNCHANGED <<tables, failed, lock, bounds>>

\* The test that spares the owner is forgotten.
FindTargetAny(t) ==
  /\ pc[t] = "target"
  /\ IF job[t].nick \notin joined
       THEN Finish(t)
       ELSE /\ pc' = [pc EXCEPT ![t] = IF job[t].op = "disable" THEN "disable" ELSE "wipe"]
            /\ view' = [view EXCEPT ![t].disabled = job[t].nick \in disabled]
            /\ UNCHANGED job
  /\ UNCHANGED <<tables, failed, lock, bounds>>

\* The status is toggled instead of set.
DisableMemberToggling(t) ==
  /\ pc[t] = "disable"
  /\ view[t].disabled \/ lock[job[t].nick] = NoTask
  /\ disabled' = IF view[t].disabled THEN disabled \ {job[t].nick}
                                     ELSE disabled \cup {job[t].nick}
  /\ Finish(t)
  /\ UNCHANGED <<owner, joined, pin, invite, sessions, issued, failed, lock, bounds>>

\* The PIN is replaced and the sessions are left alone.
ResetPinKeeping(t) ==
  /\ pc[t] = "reset"
  /\ pin' = [pin EXCEPT ![job[t].nick] = job[t].pin]
  /\ sessions' = sessions
  /\ lock' = [lock EXCEPT ![job[t].nick] = NoTask]
  /\ Finish(t)
  /\ UNCHANGED <<owner, joined, disabled, invite, issued, failed, bounds>>

-----------------------------------------------------------------------------
\* authenticate_existing_member on the member row that t has read.  A wrong
\* PIN is charged to the member and, as every rejected join, to the address.
SignIn(t, stored, off) ==
  LET n == job[t].nick
  IN  \/ /\ off \/ IsLimited(n, PinLimit)
         /\ RejectJoin(t)
      \/ /\ ~ off /\ ~ IsLimited(n, PinLimit) /\ stored # job[t].pin
         /\ RecordFailures({n, job[t].address})
         /\ Finish(t)
      \/ /\ ~ off /\ ~ IsLimited(n, PinLimit) /\ stored = job[t].pin
         /\ failed' = [failed EXCEPT ![n] = 0]
         /\ pc' = [pc EXCEPT ![t] = "issue"]
         /\ UNCHANGED <<job, view>>

-----------------------------------------------------------------------------
(* Arrivals and the passing of time.                                       *)

\* create_household: household, owner and first session are one commit.  The
\* model follows the first household that is created.
CreateHousehold(n, p) ==
  /\ owner = NoOne
  /\ owner' = n /\ joined' = {n}
  /\ pin' = [pin EXCEPT ![n] = p]
  /\ issued' = issued + 1
  /\ sessions' = {[token |-> issued + 1, nick |-> n, pin |-> p]}
  /\ UNCHANGED <<disabled, invite, failed, lock, pc, job, view, bounds>>

Arrive(t, j, label) ==
  /\ owner # NoOne
  /\ arrivals < MaxArrivals
  /\ arrivals' = arrivals + 1
  /\ Goto(t, "idle", label)
  /\ job' = [job EXCEPT ![t] = j]
  /\ alone' = (alone /\ \A u \in Tasks : pc[u] = "idle")
  /\ UNCHANGED <<tables, failed, lock, view, expiries, expired>>

\* A join names some code that was valid once, or none that ever was.
ArriveJoin(t) ==
  \E n \in Nicks, p \in Pins, c \in {NoCode} \cup 0 .. invite, a \in Addresses :
    Arrive(t, [op |-> "join", nick |-> n, pin |-> p, code |-> c,
               since |-> invite, address |-> a, cookie |-> 0], "limit")

\* Any other request carries some cookie, valid or not; two of them name a
\* member, and a reset a PIN.
ArriveOther(t) ==
  \E op \in {"me", "logout"} \cup OwnerOps, c \in 0 .. issued :
    \E n \in IF op \in {"disable", "reset"} THEN Nicks ELSE {NoOne},
       p \in IF op = "reset" THEN Pins ELSE {NoPin} :
      Arrive(t, [op |-> op, nick |-> n, pin |-> p, code |-> NoCode,
                 since |-> 0, address |-> NoOne, cookie |-> c],
             IF op = "logout" THEN "logout" ELSE "auth")

\* Thirty days pass for a session.
Expire(s) ==
  /\ s \in sessions /\ s.token \notin expired
  /\ expiries < MaxExpiries /\ expiries' = expiries + 1
  /\ expired' = expired \cup {s.token}
  /\ UNCHANGED <<tables, failed, lock, pc, job, view, arrivals, alone>>

\* Fifteen minutes pass for the oldest failure of a key: is_limited drops it.
Forget(k) ==
  /\ failed[k] > 0
  /\ expiries < MaxExpiries /\ expiries' = expiries + 1
  /\ failed' = [failed EXCEPT ![k] = @ - 1]
  /\ UNCHANGED <<tables, lock, pc, job, view, arrivals, alone, expired>>

-----------------------------------------------------------------------------
(* join_household.                                                         *)

\* The join limit is tested before the first await; a 429 costs no failure.
CheckJoinLimit(t) ==
  /\ pc[t] = "limit"
  /\ IF IsLimited(job[t].address, JoinLimit)
       THEN Finish(t)
       ELSE /\ pc' = [pc EXCEPT ![t] = "invite"]
            /\ UNCHANGED <<job, view>>
  /\ UNCHANGED <<tables, failed, lock, bounds>>

\* household_for_invite.
FindInvite(t) ==
  /\ pc[t] = "invite"
  /\ IF job[t].code = invite
       THEN /\ pc' = [pc EXCEPT ![t] = "nick"]
            /\ UNCHANGED <<failed, job, view>>
       ELSE RejectJoin(t)
  /\ UNCHANGED <<tables, lock, bounds>>

\* member_for_nickname; an existing member signs in before the next await.
FindMember(t) ==
  /\ pc[t] = "nick"
  /\ IF job[t].nick \in joined
       THEN SignIn(t, pin[job[t].nick], job[t].nick \in disabled)
       ELSE /\ pc' = [pc EXCEPT ![t] = "insert"]
            /\ UNCHANGED <<failed, job, view>>
  /\ UNCHANGED <<tables, lock, bounds>>

\* create_member_or_recover_conflict: the flush waits for an uncommitted
\* member of that name, and fails on a committed one.
InsertMember(t) ==
  /\ Goto(t, "insert", IF job[t].nick \in joined THEN "recover" ELSE "admit")
  /\ NickFree(t)
  /\ UNCHANGED <<tables, failed, lock, job, view, bounds>>

\* After the rollback the member that won is read (members are never deleted).
RecoverMember(t) ==
  /\ Goto(t, "recover", "rejoin")
  /\ view' = [view EXCEPT ![t] = [pin |-> pin[job[t].nick],
                                  disabled |-> job[t].nick \in disabled, doomed |-> {}]]
  /\ UNCHANGED <<tables, failed, lock, job, bounds>>

\* db.get(Household), and then the sign-in with the member read before it.
Rejoin(t) ==
  /\ pc[t] = "rejoin"
  /\ SignIn(t, view[t].pin, view[t].disabled)
  /\ UNCHANGED <<tables, lock, bounds>>

\* issue_session: the commit of the session and of a new member, if any, and
\* the end of the join, which clears the address.
IssueSession(t) ==
  LET n == job[t].nick
      new == pc[t] = "admit"
  IN  /\ pc[t] \in {"admit", "issue"}
      /\ joined' = IF new THEN joined \cup {n} ELSE joined
      /\ pin' = IF new THEN [pin EXCEPT ![n] = job[t].pin] ELSE pin
      /\ issued' = issued + 1
      /\ sessions' = sessions \cup {[token |-> issued + 1, nick |-> n, pin |-> job[t].pin]}
      /\ failed' = [failed EXCEPT ![job[t].address] = 0]
      /\ Finish(t)
      /\ UNCHANGED <<owner, disabled, invite, lock, bounds>>

-----------------------------------------------------------------------------
(* require_member and the handlers behind it.                              *)

\* One query reads session, member and household; require_owner follows.
Authenticate(t) ==
  /\ pc[t] = "auth"
  /\ \/ /\ Mine(t) = {}
        /\ Finish(t)
     \/ \E s \in Mine(t) :
          \/ /\ s.token \in expired
             /\ pc' = [pc EXCEPT ![t] = "expire"]
             /\ UNCHANGED <<job, view>>
          \/ /\ s.token \notin expired
             /\ \/ s.nick \in disabled
                \/ job[t].op = "me"
                \/ job[t].op \in OwnerOps /\ s.nick # owner
             /\ Finish(t)
          \/ /\ s.token \notin expired /\ s.nick \notin disabled
             /\ job[t].op \in OwnerOps /\ s.nick = owner
             /\ pc' = [pc EXCEPT ![t] = IF job[t].op = "rotate" THEN "rotate" ELSE "target"]
             /\ UNCHANGED <<job, view>>
  /\ UNCHANGED <<tables, failed, lock, bounds>>

\* The logout finds its session without require_member.
FindSession(t) ==
  /\ pc[t] = "logout"
  /\ IF Mine(t) = {}
       THEN Finish(t)
       ELSE /\ pc' = [pc EXCEPT ![t] = "drop"]
            /\ UNCHANGED <<job, view>>
  /\ UNCHANGED <<tables, failed, lock, bounds>>

\* The expired session, or the one logged out, is deleted.
DropSession(t) ==
  /\ pc[t] \in {"expire", "drop"}
  /\ MineFree(t)
  /\ sessions' = sessions \ Mine(t)
  /\ Finish(t)
  /\ UNCHANGED <<owner, joined, disabled, pin, invite, issued, failed, lock, bounds>>

\* rotate_invite: a code that was never used before replaces the old one.
RotateInvite(t) ==
  /\ pc[t] = "rotate"
  /\ invite' = invite + 1
  /\ Finish(t)
  /\ UNCHANGED <<owner, joined, disabled, pin, sessions, issued, failed, lock, bounds>>

\* household_member, and the test that spares the owner.
FindTarget(t) ==
  /\ pc[t] = "target"
  /\ IF job[t].nick \notin joined \/ (job[t].op = "disable" /\ job[t].nick = owner)
       THEN Finish(t)
       ELSE /\ pc' = [pc EXCEPT ![t] = IF job[t].op = "disable" THEN "disable" ELSE "wipe"]
            /\ view' = [view EXCEPT ![t].disabled = job[t].nick \in disabled]
            /\ UNCHANGED job
  /\ UNCHANGED <<tables, failed, lock, bounds>>

\* disable_member: the UPDATE, if the status changes, waits for the row.
DisableMember(t) ==
  /\ pc[t] = "disable"
  /\ view[t].disabled \/ lock[job[t].nick] = NoTask
  /\ disabled' = disabled \cup {job[t].nick}
  /\ Finish(t)
  /\ UNCHANGED <<owner, joined, pin, invite, sessions, issued, failed, lock, bounds>>

\* reset_member_pin: the autoflushed UPDATE of the member, which keeps the
\* row, and the DELETE of the sessions that are committed at that moment ...
WipeSessions(t) ==
  /\ Goto(t, "wipe", "reset")
  /\ lock[job[t].nick] = NoTask
  /\ lock' = [lock EXCEPT ![job[t].nick] = t]
  /\ view' = [view EXCEPT ![t].doomed = {s.token : s \in {r \in sessions : r.nick = job[t].nick}}]
  /\ UNCHANGED <<tables, failed, job, bounds>>

\* ... and the commit of both.
ResetPin(t) ==
  /\ pc[t] = "reset"
  /\ pin' = [pin EXCEPT ![job[t].nick] = job[t].pin]
  /\ sessions' = {s \in sessions : s.token \notin view[t].doomed}
  /\ lock' = [lock EXCEPT ![job[t].nick] = NoTask]
  /\ Finish(t)
  /\ UNCHANGED <<owner, joined, disabled, invite, issued, failed, bounds>>

\* The task dies before its next statement: the session rolls back.  A join
\* past its limit test records a failure, unless it was cancelled (which is
\* not an Exception).
Fail(t) ==
  /\ pc[t] # "idle"
  /\ \/ UNCHANGED failed
     \/ job[t].op = "join" /\ pc[t] # "limit" /\ RecordFailures({job[t].address})
  /\ lock' = [n \in Nicks |-> IF lock[n] = t THEN NoTask ELSE lock[n]]
  /\ Finish(t)
  /\ UNCHANGED <<tables, bounds>>

Proceed(t) ==
  \/ CheckJoinLimit(t) \/ FindInvite(t) \/ FindMember(t) \/ InsertMember(t)
  \/ RecoverMember(t) \/ Rejoin(t) \/ IssueSession(t)
  \/ Authenticate(t) \/ FindSession(t) \/ DropSession(t) \/ RotateInvite(t)
  \/ FindTarget(t) \/ DisableMember(t) \/ WipeSessions(t) \/ ResetPin(t)

Next ==
  \/ \E n \in Nicks, p \in Pins : CreateHousehold(n, p)
  \/ \E t \in Tasks : ArriveJoin(t) \/ ArriveOther(t) \/ Proceed(t) \/ Fail(t)
  \/ \E s \in sessions : Expire(s)
  \/ \E k \in Keys : Forget(k)

Spec == Init /\ [][Next]_vars

-----------------------------------------------------------------------------
(* Properties.                                                             *)

\* Every variable has its type.
TypeOK ==
  /\ owner \in Nicks \cup {NoOne}
  /\ joined \subseteq Nicks
  /\ disabled \subseteq Nicks
  /\ pin \in [Nicks -> Pins]
  /\ invite \in Nat
  /\ sessions \subseteq [token : Tokens, nick : Nicks, pin : Pins]
  /\ expired \subseteq Tokens
  /\ issued \in Nat
  /\ failed \in [Keys -> Nat]
  /\ lock \in [Nicks -> Tasks \cup {NoTask}]
  /\ pc \in [Tasks -> Labels]
  /\ job \in [Tasks -> Jobs \cup {NoJob}]
  /\ view \in [Tasks -> Views]
  /\ arrivals \in Nat /\ expiries \in Nat
  /\ alone \in BOOLEAN

\* Somebody can always run the household: its owner is a member who was never
\* disabled (router.py:208-209), whatever requests overlap; and sessions
\* belong to members, one per token.
OwnerInCharge ==
  /\ owner # NoOne => owner \in joined \ disabled
  /\ disabled \subseteq joined
  /\ \A s \in sessions : s.nick \in joined /\ s.token \in 1 .. issued
  /\ \A s, r \in sessions : s.token = r.token => s = r

\* The PIN limit is exact, because no await separates its test from the
\* record.  The join limit is tested before the first await and recorded
\* after the last, so every join in flight may add one (router.py:95-125).
LimitsHold ==
  /\ \A n \in Nicks : failed[n] <= PinLimit
  /\ \A a \in Addresses : failed[a] <= JoinLimit - 1 + Cardinality(Tasks)

\* One request at a time, a session says that its member knew the PIN that is
\* valid now: a reset ends the sessions of the old PIN (router.py:231-232).
SerialSessions == alone => \A s \in sessions : s.pin = pin[s.nick]

\* Who joins brings a code that was the household's at some moment while the
\* request ran: a replaced code admits nobody who comes later, and a
\* rotation in the middle of a join does no harm.
AdmittedByCode ==
  [][ \A n \in joined' \ joined :
        owner # NoOne =>
          \E t \in Tasks : /\ pc[t] = "admit" /\ job[t].nick = n
                          /\ job[t].code \in job[t].since .. invite ]_vars

\* Joining never changes a member who is there already: of two joins with one
\* nickname the first decides the PIN and the second has to know it.
PinOnlyReset ==
  [][ \A n \in joined : pin'[n] # pin[n] =>
        \E t \in Tasks : pc[t] = "reset" /\ job[t].nick = n ]_vars

\* A revocation is final, also when resets, logouts and joins overlap: a
\* disabled member stays disabled, and a session that ends never returns,
\* because a session only ever appears under a new token.
RevocationFinal ==
  [][ /\ disabled \subseteq disabled'
      /\ \A s \in sessions' \ sessions : s.token > issued ]_vars

\* One request at a time, only a request with the owner's live session
\* rotates the code, disables a member or resets a PIN.
SerialOwnerActs ==
  [][ /\ alone /\ owner # NoOne
      /\ \/ invite' # invite \/ disabled' # disabled
         \/ \E n \in joined : pin'[n] # pin[n]
      => \E t \in Tasks : pc[t] # "idle" /\ \E s \in Mine(t) : s.nick = owner ]_vars
=============================================================================
