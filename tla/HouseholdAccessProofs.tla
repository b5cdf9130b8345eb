------------------------ MODULE HouseholdAccessProofs -----------------------
(***************************************************************************)
(* Proofs about HouseholdAccess for every number of tasks, nicknames, PINs *)
(* and addresses, and for every limit and bound.                           *)
(***************************************************************************)
EXTENDS HouseholdAccess, FiniteSetTheorems, TLAPS

\* The fields of a job.
LEMMA JobFields ==
  ASSUME NEW j \in Jobs \cup {NoJob}
  PROVE  /\ j.op \in {"none", "join", "me", "logout", "rotate", "disable", "reset"}
         /\ j.nick \in Nicks \cup {NoOne}
         /\ j.pin \in Pins
         /\ j.code \in Codes /\ j.since \in Nat /\ j.cookie \in Nat
         /\ j.op = "none" <=> j = NoJob
         /\ j.op = "join" <=> j \in Joins
         /\ j.op = "join" => j.nick \in Nicks /\ j.address \in Addresses
  <1>1. NoPin \in Pins
    BY PinsAssumption DEF NoPin
  <1>2. CASE j = NoJob
    BY <1>1, <1>2 DEF NoJob, Codes, NoCode, Joins
  <1>3. CASE j \in Joins
    BY <1>3 DEF Joins, Codes, NoJob
  <1>4. CASE j \in Others
    BY <1>4 DEF Others, OwnerOps, Codes, NoCode, NoJob, Joins, Tokens
  <1> QED BY <1>2, <1>3, <1>4 DEF Jobs

\* Finish keeps the types of what it changes.
LEMMA FinishType ==
  ASSUME TypeOK, NEW t \in Tasks, Finish(t)
  PROVE  /\ pc' \in [Tasks -> Labels]
         /\ job' \in [Tasks -> Jobs \cup {NoJob}]
         /\ view' \in [Tasks -> Views]
  <1>1. NoView \in Views
    BY PinsAssumption DEF NoView, Views, NoPin
  <1> QED BY <1>1 DEF Finish, TypeOK, Labels

\* So does SignIn, whatever the member row was.
LEMMA SignInType ==
  ASSUME TypeOK, NEW t \in Tasks, NEW stored, NEW off, SignIn(t, stored, off)
  PROVE  /\ pc' \in [Tasks -> Labels]
         /\ job' \in [Tasks -> Jobs \cup {NoJob}]
         /\ view' \in [Tasks -> Views]
         /\ failed' \in [Keys -> Nat]
  <1>1. CASE \E ks : RecordFailures(ks) /\ Finish(t)
    BY <1>1, FinishType DEF RecordFailures, TypeOK
  <1>2. CASE /\ failed' = [failed EXCEPT ![job[t].nick] = 0]
             /\ pc' = [pc EXCEPT ![t] = "issue"]
             /\ UNCHANGED <<job, view>>
    BY <1>2 DEF TypeOK, Labels
  <1> QED BY <1>1, <1>2 DEF SignIn, RejectJoin

\* A task runs only the statements of the handler its request belongs to.
JobFits ==
  \A t \in Tasks :
    /\ pc[t] = "idle" <=> job[t] = NoJob
    /\ pc[t] \in {"limit", "invite", "nick", "insert", "recover", "rejoin", "admit", "issue"}
         <=> job[t].op = "join"
    /\ pc[t] \in {"logout", "drop"} => job[t].op = "logout"
    /\ pc[t] = "rotate" => job[t].op = "rotate"
    /\ pc[t] = "target" => job[t].op \in {"disable", "reset"}
    /\ pc[t] = "disable" => job[t].op = "disable"
    /\ pc[t] \in {"wipe", "reset"} => job[t].op = "reset"
    /\ job[t].op \in {"disable", "reset"} => job[t].nick \in Nicks

\* Every step keeps the types.
LEMMA TypeStep == TypeOK /\ JobFits /\ [Next]_vars => TypeOK'
  <1> SUFFICES ASSUME TypeOK, JobFits, [Next]_vars PROVE TypeOK'
    OBVIOUS
  <1>1. ASSUME NEW n \in Nicks, NEW p \in Pins, CreateHousehold(n, p) PROVE TypeOK'
    BY <1>1 DEF CreateHousehold, TypeOK, bounds, Tokens
  <1>2. ASSUME NEW t \in Tasks, ArriveJoin(t) PROVE TypeOK'
    <2>1. PICK n \in Nicks, p \in Pins, c \in {NoCode} \cup 0 .. invite, a \in Addresses :
            Arrive(t, [op |-> "join", nick |-> n, pin |-> p, code |-> c,
                       since |-> invite, address |-> a, cookie |-> 0], "limit")
      BY <1>2 DEF ArriveJoin
    <2>2. [op |-> "join", nick |-> n, pin |-> p, code |-> c,
           since |-> invite, address |-> a, cookie |-> 0] \in Jobs
      BY DEF Jobs, Joins, Codes, TypeOK
    <2> QED BY <2>1, <2>2 DEF Arrive, Goto, TypeOK, tables, Labels
  <1>3. ASSUME NEW t \in Tasks, ArriveOther(t) PROVE TypeOK'
    <2>1. PICK op \in {"me", "logout"} \cup OwnerOps, c \in 0 .. issued :
            \E n \in IF op \in {"disable", "reset"} THEN Nicks ELSE {NoOne},
               p \in IF op = "reset" THEN Pins ELSE {NoPin} :
              Arrive(t, [op |-> op, nick |-> n, pin |-> p, code |-> NoCode,
                         since |-> 0, address |-> NoOne, cookie |-> c],
                     IF op = "logout" THEN "logout" ELSE "auth")
      BY <1>3 DEF ArriveOther
    <2>2. PICK n \in Nicks \cup {NoOne}, p \in Pins :
              Arrive(t, [op |-> op, nick |-> n, pin |-> p, code |-> NoCode,
                         since |-> 0, address |-> NoOne, cookie |-> c],
                     IF op = "logout" THEN "logout" ELSE "auth")
      BY <2>1, PinsAssumption DEF NoPin
    <2>3. [op |-> op, nick |-> n, pin |-> p, code |-> NoCode,
           since |-> 0, address |-> NoOne, cookie |-> c] \in Jobs
      BY DEF Jobs, Others, Tokens, TypeOK
    <2> QED BY <2>2, <2>3 DEF Arrive, Goto, TypeOK, tables, Labels
  <1>4. ASSUME NEW t \in Tasks, CheckJoinLimit(t) PROVE TypeOK'
    BY <1>4, FinishType DEF CheckJoinLimit, TypeOK, tables, bounds, Labels
  <1>5. ASSUME NEW t \in Tasks, FindInvite(t) PROVE TypeOK'
    BY <1>5, FinishType DEF FindInvite, RejectJoin, RecordFailures, TypeOK, tables, bounds, Labels
  <1>6. ASSUME NEW t \in Tasks, FindMember(t) PROVE TypeOK'
    <2>1. CASE SignIn(t, pin[job[t].nick], job[t].nick \in disabled)
      BY <1>6, <2>1, SignInType DEF FindMember, TypeOK, tables, bounds
    <2>2. CASE pc' = [pc EXCEPT ![t] = "insert"] /\ UNCHANGED <<failed, job, view>>
      BY <1>6, <2>2 DEF FindMember, TypeOK, tables, bounds, Labels
    <2> QED BY <1>6, <2>1, <2>2 DEF FindMember
  <1>7. ASSUME NEW t \in Tasks, InsertMember(t) PROVE TypeOK'
    BY <1>7 DEF InsertMember, Goto, TypeOK, tables, bounds, Labels
  <1>8. ASSUME NEW t \in Tasks, RecoverMember(t) PROVE TypeOK'
    <2>1. job[t].nick \in Nicks
      BY <1>8, JobFields DEF RecoverMember, Goto, JobFits, TypeOK
    <2>2. [pin |-> pin[job[t].nick], disabled |-> job[t].nick \in disabled, doomed |-> {}] \in Views
      BY <2>1 DEF Views, TypeOK
    <2> QED BY <1>8, <2>2 DEF RecoverMember, Goto, TypeOK, tables, bounds, Labels
  <1>9. ASSUME NEW t \in Tasks, Rejoin(t) PROVE TypeOK'
    BY <1>9, SignInType DEF Rejoin, TypeOK, tables, bounds
  <1>10. ASSUME NEW t \in Tasks, IssueSession(t) PROVE TypeOK'
    <2>1. job[t].nick \in Nicks /\ job[t].pin \in Pins
      BY <1>10, JobFields DEF IssueSession, JobFits, TypeOK
    <2>2. joined' \subseteq Nicks /\ pin' \in [Nicks -> Pins]
      BY <1>10, <2>1 DEF IssueSession, TypeOK
    <2>3. sessions' \subseteq [token : Tokens, nick : Nicks, pin : Pins] /\ issued' \in Nat
      BY <1>10, <2>1 DEF IssueSession, TypeOK, Tokens
    <2>4. failed' \in [Keys -> Nat]
      BY <1>10 DEF IssueSession, TypeOK
    <2> QED BY <1>10, <2>2, <2>3, <2>4, FinishType DEF IssueSession, TypeOK, bounds
  <1>11. ASSUME NEW t \in Tasks, Authenticate(t) PROVE TypeOK'
    <2>1. CASE Finish(t)
      BY <1>11, <2>1, FinishType DEF Authenticate, TypeOK, tables, bounds
    <2>2. CASE ~ Finish(t)
      <3>1. /\ \/ pc' = [pc EXCEPT ![t] = "expire"]
               \/ pc' = [pc EXCEPT ![t] = "rotate"]
               \/ pc' = [pc EXCEPT ![t] = "target"]
            /\ UNCHANGED <<job, view>>
            /\ UNCHANGED <<tables, failed, lock, bounds>>
        BY <1>11, <2>2 DEF Authenticate
      <3> QED BY <3>1 DEF TypeOK, tables, bounds, Labels
    <2> QED BY <2>1, <2>2
  <1>12. ASSUME NEW t \in Tasks, FindSession(t) PROVE TypeOK'
    BY <1>12, FinishType DEF FindSession, TypeOK, tables, bounds, Labels
  <1>13. ASSUME NEW t \in Tasks, DropSession(t) PROVE TypeOK'
    BY <1>13, FinishType DEF DropSession, TypeOK, bounds
  <1>14. ASSUME NEW t \in Tasks, RotateInvite(t) PROVE TypeOK'
    BY <1>14, FinishType DEF RotateInvite, TypeOK, bounds
  <1>15. ASSUME NEW t \in Tasks, FindTarget(t) PROVE TypeOK'
    <2>1. CASE Finish(t) /\ UNCHANGED <<tables, failed, lock, bounds>>
      BY <2>1, FinishType DEF TypeOK, tables, bounds
    <2>2. CASE ~ (Finish(t) /\ UNCHANGED <<tables, failed, lock, bounds>>)
      <3>1. ASSUME NEW b \in BOOLEAN
            PROVE  [view EXCEPT ![t].disabled = b] \in [Tasks -> Views]
        BY DEF TypeOK, Views
      <3>2. view' \in [Tasks -> Views]
        <4>1. view' = [view EXCEPT ![t].disabled = job[t].nick \in disabled]
          BY <1>15, <2>2 DEF FindTarget
        <4>2. (job[t].nick \in disabled) \in BOOLEAN
          OBVIOUS
        <4> QED BY <3>1, <4>1, <4>2, Zenon
      <3> QED BY <1>15, <2>2, <3>2 DEF FindTarget, TypeOK, tables, bounds, Labels
    <2> QED BY <2>1, <2>2
  <1>16. ASSUME NEW t \in Tasks, DisableMember(t) PROVE TypeOK'
    BY <1>16, FinishType DEF DisableMember, TypeOK, bounds, JobFits
  <1>17. ASSUME NEW t \in Tasks, WipeSessions(t) PROVE TypeOK'
    <2>1. {s.token : s \in {r \in sessions : r.nick = job[t].nick}} \subseteq Tokens
      BY DEF TypeOK
    <2>2. view' \in [Tasks -> Views]
      BY <1>17, <2>1 DEF WipeSessions, TypeOK, Views
    <2> QED BY <1>17, <2>2 DEF WipeSessions, Goto, TypeOK, tables, bounds, Labels
  <1>18. ASSUME NEW t \in Tasks, ResetPin(t) PROVE TypeOK'
    BY <1>18, FinishType, JobFields DEF ResetPin, TypeOK, bounds
  <1>19. ASSUME NEW t \in Tasks, Fail(t) PROVE TypeOK'
    BY <1>19, FinishType DEF Fail, RecordFailures, TypeOK, tables, bounds
  <1>20. ASSUME NEW s \in sessions, Expire(s) PROVE TypeOK'
    BY <1>20 DEF Expire, TypeOK, tables
  <1>21. ASSUME NEW k \in Keys, Forget(k) PROVE TypeOK'
    BY <1>21 DEF Forget, TypeOK, tables
  <1>22. CASE UNCHANGED vars
    BY <1>22 DEF TypeOK, vars, tables, bounds
  <1> QED
    BY <1>1, <1>2, <1>3, <1>4, <1>5, <1>6, <1>7, <1>8, <1>9, <1>10, <1>11, <1>12, <1>13,
       <1>14, <1>15, <1>16, <1>17, <1>18, <1>19, <1>20, <1>21, <1>22 DEF Next, Proceed

-----------------------------------------------------------------------------
(* What the steps of one task do, for the lemmas below.                    *)

\* A step of t leaves the other tasks alone.
OthersRest(t) ==
  \A u \in Tasks \ {t} : pc'[u] = pc[u] /\ job'[u] = job[u] /\ view'[u] = view[u]

\* t's handler ends, or goes on with the same request and what it found out.
Turn(t) ==
  \/ pc'[t] = "idle" /\ job'[t] = NoJob
  \/ /\ job'[t] = job[t]
     /\ \/ pc[t] = "limit" /\ pc'[t] = "invite"
        \/ pc[t] = "invite" /\ pc'[t] = "nick" /\ job[t].code = invite
        \/ pc[t] = "nick" /\ pc'[t] = "insert"
        \/ pc[t] = "nick" /\ pc'[t] = "issue" /\ job[t].nick \in joined
        \/ pc[t] = "insert" /\ pc'[t] = "recover" /\ job[t].nick \in joined
        \/ pc[t] = "insert" /\ pc'[t] = "admit" /\ job[t].nick \notin joined /\ NickFree(t)
        \/ pc[t] = "recover" /\ pc'[t] = "rejoin"
        \/ pc[t] = "rejoin" /\ pc'[t] = "issue"
        \/ pc[t] = "auth" /\ pc'[t] = "expire"
        \/ /\ pc[t] = "auth" /\ pc'[t] \in {"rotate", "target"}
           /\ job[t].op \in OwnerOps
           /\ pc'[t] = "rotate" <=> job[t].op = "rotate"
           /\ \E s \in Mine(t) : s.nick = owner
        \/ pc[t] = "logout" /\ pc'[t] = "drop"
        \/ pc[t] = "target" /\ pc'[t] = "disable" /\ job[t].op = "disable"
           /\ job[t].nick \in joined \ {owner}
        \/ pc[t] = "target" /\ pc'[t] = "wipe" /\ job[t].op # "disable"
        \/ pc[t] = "wipe" /\ pc'[t] = "reset"

LEMMA FinishTurn ==
  ASSUME TypeOK, NEW t \in Tasks, Finish(t)
  PROVE  /\ OthersRest(t)
         /\ pc'[t] = "idle" /\ job'[t] = NoJob
  BY DEF Finish, OthersRest, TypeOK

LEMMA SignInTurn ==
  ASSUME TypeOK, NEW t \in Tasks, NEW stored, NEW off, SignIn(t, stored, off)
  PROVE  /\ OthersRest(t)
         /\ \/ pc'[t] = "idle" /\ job'[t] = NoJob
            \/ pc'[t] = "issue" /\ job'[t] = job[t]
  <1>1. CASE Finish(t)
    BY <1>1, FinishTurn
  <1>2. CASE pc' = [pc EXCEPT ![t] = "issue"] /\ UNCHANGED <<job, view>>
    BY <1>2 DEF OthersRest, TypeOK
  <1> QED BY <1>1, <1>2 DEF SignIn, RejectJoin

\* Every step of a task is a turn; only five of its statements write tables.
LEMMA TaskStep ==
  ASSUME TypeOK, JobFits, NEW t \in Tasks, Proceed(t) \/ Fail(t)
  PROVE  /\ OthersRest(t) /\ Turn(t) /\ pc[t] # "idle"
         /\ \/ UNCHANGED tables
            \/ IssueSession(t) \/ DropSession(t) \/ RotateInvite(t)
            \/ DisableMember(t) \/ ResetPin(t)
  <1> DEFINE Good == /\ OthersRest(t) /\ Turn(t) /\ pc[t] # "idle"
                     /\ \/ UNCHANGED tables
                        \/ IssueSession(t) \/ DropSession(t) \/ RotateInvite(t)
                        \/ DisableMember(t) \/ ResetPin(t)
  <1>1. CASE CheckJoinLimit(t)
    BY <1>1, FinishTurn DEF CheckJoinLimit, OthersRest, Turn, TypeOK
  <1>2. CASE FindInvite(t)
    BY <1>2, FinishTurn DEF FindInvite, RejectJoin, OthersRest, Turn, TypeOK
  <1>3. CASE FindMember(t)
    BY <1>3, SignInTurn DEF FindMember, OthersRest, Turn, TypeOK
  <1>4. CASE InsertMember(t)
    BY <1>4 DEF InsertMember, Goto, OthersRest, Turn, TypeOK
  <1>5. CASE RecoverMember(t)
    BY <1>5 DEF RecoverMember, Goto, OthersRest, Turn, TypeOK
  <1>6. CASE Rejoin(t)
    BY <1>6, SignInTurn DEF Rejoin, Turn
  <1>7. CASE Authenticate(t)
    <2>1. CASE Finish(t)
      BY <1>7, <2>1, FinishTurn DEF Authenticate, Turn
    <2>2. CASE ~ Finish(t)
      <3>1. PICK s \in Mine(t) :
              \/ pc' = [pc EXCEPT ![t] = "expire"] /\ UNCHANGED <<job, view>>
              \/ /\ job[t].op \in OwnerOps /\ s.nick = owner
                 /\ pc' = [pc EXCEPT ![t] = IF job[t].op = "rotate" THEN "rotate" ELSE "target"]
                 /\ UNCHANGED <<job, view>>
        BY <1>7, <2>2 DEF Authenticate
      <3> QED BY <1>7, <3>1 DEF Authenticate, OthersRest, Turn, TypeOK
    <2> QED BY <2>1, <2>2
  <1>8. CASE FindSession(t)
    BY <1>8, FinishTurn DEF FindSession, OthersRest, Turn, TypeOK
  <1>9. CASE FindTarget(t)
    BY <1>9, FinishTurn DEF FindTarget, OthersRest, Turn, TypeOK
  <1>10. CASE WipeSessions(t)
    BY <1>10 DEF WipeSessions, Goto, OthersRest, Turn, TypeOK
  <1>11. CASE IssueSession(t) \/ DropSession(t) \/ RotateInvite(t) \/ DisableMember(t) \/ ResetPin(t)
    <2>1. Finish(t) /\ pc[t] # "idle"
      BY <1>11 DEF IssueSession, DropSession, RotateInvite, DisableMember, ResetPin
    <2> QED BY <1>11, <2>1, FinishTurn DEF Turn
  <1>12. CASE Fail(t)
    BY <1>12, FinishTurn DEF Fail, Turn
  <1> QED BY <1>1, <1>2, <1>3, <1>4, <1>5, <1>6, <1>7, <1>8, <1>9, <1>10, <1>11, <1>12 DEF Proceed

\* A request that arrives: its first statement, and the code at its arrival.
LEMMA ArrivalStep ==
  ASSUME TypeOK, NEW t \in Tasks, ArriveJoin(t) \/ ArriveOther(t)
  PROVE  /\ OthersRest(t) /\ view' = view /\ UNCHANGED tables
         /\ owner # NoOne /\ pc[t] = "idle"
         /\ alone' => \A u \in Tasks : pc[u] = "idle"
         /\ \/ pc'[t] = "limit" /\ job'[t] \in Joins /\ job'[t].since = invite
            \/ pc'[t] = "logout" /\ job'[t] \in Others /\ job'[t].op = "logout"
            \/ /\ pc'[t] = "auth" /\ job'[t] \in Others /\ job'[t].op # "logout"
               /\ job'[t].op \in {"disable", "reset"} => job'[t].nick \in Nicks
  <1>1. CASE ArriveJoin(t)
    <2>1. PICK n \in Nicks, p \in Pins, c \in {NoCode} \cup 0 .. invite, a \in Addresses :
            Arrive(t, [op |-> "join", nick |-> n, pin |-> p, code |-> c,
                       since |-> invite, address |-> a, cookie |-> 0], "limit")
      BY <1>1 DEF ArriveJoin
    <2>2. [op |-> "join", nick |-> n, pin |-> p, code |-> c,
           since |-> invite, address |-> a, cookie |-> 0] \in Joins
      BY DEF Joins, Codes, TypeOK
    <2> QED BY <2>1, <2>2 DEF Arrive, Goto, OthersRest, TypeOK
  <1>2. CASE ArriveOther(t)
    <2>1. PICK op \in {"me", "logout"} \cup OwnerOps, c \in 0 .. issued :
            \E n \in IF op \in {"disable", "reset"} THEN Nicks ELSE {NoOne},
               p \in IF op = "reset" THEN Pins ELSE {NoPin} :
              Arrive(t, [op |-> op, nick |-> n, pin |-> p, code |-> NoCode,
                         since |-> 0, address |-> NoOne, cookie |-> c],
                     IF op = "logout" THEN "logout" ELSE "auth")
      BY <1>2 DEF ArriveOther
    <2>2. PICK n \in Nicks \cup {NoOne}, p \in Pins :
              /\ op \in {"disable", "reset"} => n \in Nicks
              /\ Arrive(t, [op |-> op, nick |-> n, pin |-> p, code |-> NoCode,
                         since |-> 0, address |-> NoOne, cookie |-> c],
                     IF op = "logout" THEN "logout" ELSE "auth")
      BY <2>1, PinsAssumption DEF NoPin
    <2>3. [op |-> op, nick |-> n, pin |-> p, code |-> NoCode,
           since |-> 0, address |-> NoOne, cookie |-> c] \in Others
      BY DEF Others, Tokens, TypeOK
    <2> QED BY <2>2, <2>3 DEF Arrive, Goto, OthersRest, TypeOK
  <1> QED BY <1>1, <1>2

\* Time and stuttering touch neither tables nor tasks.
Quiet == UNCHANGED <<tables, pc, job, view, lock, alone>>

LEMMA StepCases ==
  ASSUME TypeOK, [Next]_vars
  PROVE  \/ \E n \in Nicks, p \in Pins : CreateHousehold(n, p)
         \/ \E t \in Tasks : ArriveJoin(t) \/ ArriveOther(t)
         \/ \E t \in Tasks : Proceed(t) \/ Fail(t)
         \/ Quiet
  BY DEF Next, Expire, Forget, Quiet, vars, bounds

\* Tasks stay within the handlers of their requests.
LEMMA FitsStep == TypeOK /\ JobFits /\ [Next]_vars => JobFits'
  <1> SUFFICES ASSUME TypeOK, JobFits, [Next]_vars PROVE JobFits'
    OBVIOUS
  <1>1. ASSUME NEW n \in Nicks, NEW p \in Pins, CreateHousehold(n, p) PROVE JobFits'
    BY <1>1 DEF CreateHousehold, JobFits
  <1>2. ASSUME NEW t \in Tasks, ArriveJoin(t) \/ ArriveOther(t) PROVE JobFits'
    <2>1. /\ pc'[t] = "limit" => job'[t].op = "join"
          /\ pc'[t] # "limit" => job'[t].op \in {"me", "logout"} \cup OwnerOps
      BY <1>2, ArrivalStep DEF Joins, Others
    <2>2. NoJob.op = "none"
      BY DEF NoJob
    <2> QED BY <1>2, <2>1, <2>2, ArrivalStep DEF JobFits, OthersRest, OwnerOps
  <1>3. ASSUME NEW t \in Tasks, Proceed(t) \/ Fail(t) PROVE JobFits'
    <2>1. NoJob.op = "none" /\ job[t] # NoJob
      BY <1>3, TaskStep DEF NoJob, JobFits
    <2> QED BY <1>3, <2>1, TaskStep DEF JobFits, OthersRest, OwnerOps, Turn
  <1>4. CASE Quiet
    BY <1>4 DEF Quiet, JobFits
  <1> QED BY <1>1, <1>2, <1>3, <1>4, StepCases

\* What the step of a task may do to the tables.
LEMMA TableStep ==
  ASSUME TypeOK, JobFits, NEW t \in Tasks, Proceed(t) \/ Fail(t)
  PROVE  /\ owner' = owner
         /\ joined' = IF pc[t] = "admit" /\ IssueSession(t)
                        THEN joined \cup {job[t].nick} ELSE joined
         /\ disabled' = disabled \/ (pc[t] = "disable" /\ disabled' = disabled \cup {job[t].nick})
         /\ invite' = invite \/ (pc[t] = "rotate" /\ invite' = invite + 1)
         /\ \A n \in Nicks : pin'[n] # pin[n] => n = job[t].nick /\ pc[t] \in {"admit", "reset"}
         /\ \/ sessions' \subseteq sessions /\ issued' = issued
            \/ /\ IssueSession(t) /\ job[t].nick \in Nicks /\ issued' = issued + 1
               /\ sessions' = sessions \cup
                    {[token |-> issued + 1, nick |-> job[t].nick, pin |-> job[t].pin]}
  <1>1. CASE UNCHANGED tables /\ ~ IssueSession(t)
    BY <1>1 DEF tables
  <1>2. CASE IssueSession(t)
    <2>1. job[t].nick \in Nicks
      BY <1>2, JobFields DEF IssueSession, JobFits, TypeOK
    <2> QED BY <1>2, <2>1 DEF IssueSession, TypeOK
  <1>3. CASE DropSession(t)
    BY <1>3 DEF DropSession, IssueSession
  <1>4. CASE RotateInvite(t)
    BY <1>4 DEF RotateInvite, IssueSession
  <1>5. CASE DisableMember(t)
    BY <1>5 DEF DisableMember, IssueSession
  <1>6. CASE ResetPin(t)
    BY <1>6 DEF ResetPin, IssueSession, TypeOK
  <1> QED BY <1>1, <1>2, <1>3, <1>4, <1>5, <1>6, TaskStep

-----------------------------------------------------------------------------
(* The strengthening that makes the safety properties inductive.           *)

\* Before a household exists there is nobody and nothing to do.
Founded ==
  owner = NoOne => joined = {} /\ disabled = {} /\ sessions = {} /\ \A t \in Tasks : pc[t] = "idle"

\* What tasks have found out about members stays true until they use it.
KnowsMembers ==
  \A t \in Tasks :
    /\ pc[t] \in {"recover", "rejoin", "issue"} => job[t].nick \in joined
    /\ pc[t] = "admit" => job[t].nick \notin joined
    /\ pc[t] = "disable" => job[t].nick \in joined \ {owner}
    /\ \A u \in Tasks \ {t} : pc[t] = "admit" /\ pc[u] = "admit" => job[t].nick # job[u].nick

\* A join that found the household brought a code of its own time.
KnowsCode ==
  \A t \in Tasks :
    /\ job[t].op = "join" => job[t].since <= invite
    /\ pc[t] \in {"nick", "insert", "admit"} => job[t].code \in job[t].since .. invite

AccessInv == TypeOK /\ JobFits /\ Founded /\ KnowsMembers /\ KnowsCode /\ OwnerInCharge

LEMMA FoundedStep == TypeOK /\ JobFits /\ Founded /\ [Next]_vars => Founded'
  <1> SUFFICES ASSUME TypeOK, JobFits, Founded, [Next]_vars PROVE Founded'
    OBVIOUS
  <1>1. ASSUME NEW n \in Nicks, NEW p \in Pins, CreateHousehold(n, p) PROVE Founded'
    BY <1>1, NobodyAssumption DEF CreateHousehold, Founded
  <1>2. ASSUME NEW t \in Tasks, ArriveJoin(t) \/ ArriveOther(t) PROVE Founded'
    BY <1>2, ArrivalStep DEF Founded, tables
  <1>3. ASSUME NEW t \in Tasks, Proceed(t) \/ Fail(t) PROVE Founded'
    BY <1>3, TaskStep, TableStep DEF Founded
  <1>4. CASE Quiet
    BY <1>4 DEF Quiet, Founded, tables
  <1> QED BY <1>1, <1>2, <1>3, <1>4, StepCases

LEMMA MembersStep == TypeOK /\ JobFits /\ Founded /\ KnowsMembers /\ [Next]_vars => KnowsMembers'
  <1> SUFFICES ASSUME TypeOK, JobFits, Founded, KnowsMembers, [Next]_vars PROVE KnowsMembers'
    OBVIOUS
  <1>1. ASSUME NEW n \in Nicks, NEW p \in Pins, CreateHousehold(n, p) PROVE KnowsMembers'
    BY <1>1 DEF CreateHousehold, Founded, KnowsMembers
  <1>2. ASSUME NEW t \in Tasks, ArriveJoin(t) \/ ArriveOther(t) PROVE KnowsMembers'
    BY <1>2, ArrivalStep DEF KnowsMembers, OthersRest, tables
  <1>3. ASSUME NEW t \in Tasks, Proceed(t) \/ Fail(t) PROVE KnowsMembers'
    <2>1. /\ OthersRest(t) /\ Turn(t)
          /\ owner' = owner /\ joined \subseteq joined'
          /\ joined' \subseteq joined \cup (IF pc[t] = "admit" THEN {job[t].nick} ELSE {})
      BY <1>3, TaskStep, TableStep
    <2>2. joined' # joined => pc'[t] = "idle"
      BY <1>3, TableStep, FinishTurn DEF IssueSession
    <2>3. ASSUME NEW u \in Tasks \ {t}
          PROVE  /\ pc'[u] \in {"recover", "rejoin", "issue"} => job'[u].nick \in joined'
                 /\ pc'[u] = "admit" => job'[u].nick \notin joined'
                 /\ pc'[u] = "disable" => job'[u].nick \in joined' \ {owner'}
      BY <2>1 DEF KnowsMembers, OthersRest
    <2>4. /\ pc'[t] \in {"recover", "rejoin", "issue"} => job'[t].nick \in joined'
          /\ pc'[t] = "admit" => job'[t].nick \notin joined' /\ NickFree(t) /\ pc[t] = "insert"
          /\ pc'[t] = "disable" => job'[t].nick \in joined' \ {owner'}
      BY <2>1, <2>2 DEF KnowsMembers, Turn
    <2>5. ASSUME NEW v \in Tasks, NEW u \in Tasks \ {v}, pc'[v] = "admit", pc'[u] = "admit"
          PROVE  job'[v].nick # job'[u].nick
      <3>1. pc'[t] = "admit" => job'[t] = job[t]
        BY <2>1 DEF Turn
      <3> QED BY <2>1, <2>4, <2>5, <3>1 DEF KnowsMembers, OthersRest, NickFree
    <2> QED BY <2>3, <2>4, <2>5 DEF KnowsMembers
  <1>4. CASE Quiet
    BY <1>4 DEF Quiet, KnowsMembers, tables
  <1> QED BY <1>1, <1>2, <1>3, <1>4, StepCases

LEMMA CodeStep == TypeOK /\ JobFits /\ Founded /\ KnowsCode /\ [Next]_vars => KnowsCode'
  <1> SUFFICES ASSUME TypeOK, JobFits, Founded, KnowsCode, [Next]_vars PROVE KnowsCode'
    OBVIOUS
  <1>1. ASSUME NEW n \in Nicks, NEW p \in Pins, CreateHousehold(n, p) PROVE KnowsCode'
    BY <1>1 DEF CreateHousehold, KnowsCode, bounds
  <1>2. ASSUME NEW t \in Tasks, ArriveJoin(t) \/ ArriveOther(t) PROVE KnowsCode'
    <2>1. job'[t].op = "join" => job'[t].since <= invite
      BY <1>2, ArrivalStep, JobFields DEF TypeOK, Others, OwnerOps
    <2> QED BY <1>2, <2>1, ArrivalStep DEF KnowsCode, OthersRest, tables
  <1>3. ASSUME NEW t \in Tasks, Proceed(t) \/ Fail(t) PROVE KnowsCode'
    <2>1. OthersRest(t) /\ Turn(t) /\ invite \in Nat /\ (invite' = invite \/ invite' = invite + 1)
      BY <1>3, TaskStep, TableStep DEF TypeOK
    <2>2. \A u \in Tasks : job[u].since \in Nat /\ job[u].code \in Int
      BY JobFields DEF TypeOK, Codes, NoCode
    <2>3. NoJob.op = "none"
      BY DEF NoJob
    <2>4. pc[t] = "invite" => job[t].op = "join"
      BY DEF JobFits
    <2> QED BY <2>1, <2>2, <2>3, <2>4 DEF KnowsCode, OthersRest, Turn
  <1>4. CASE Quiet
    BY <1>4 DEF Quiet, KnowsCode, tables
  <1> QED BY <1>1, <1>2, <1>3, <1>4, StepCases

LEMMA OwnerStep ==
  TypeOK /\ JobFits /\ Founded /\ KnowsMembers /\ OwnerInCharge /\ [Next]_vars => OwnerInCharge'
  <1> SUFFICES ASSUME TypeOK, JobFits, Founded, KnowsMembers, OwnerInCharge, [Next]_vars
               PROVE OwnerInCharge'
    OBVIOUS
  <1>1. ASSUME NEW n \in Nicks, NEW p \in Pins, CreateHousehold(n, p) PROVE OwnerInCharge'
    BY <1>1 DEF CreateHousehold, Founded, OwnerInCharge, TypeOK
  <1>2. ASSUME NEW t \in Tasks, ArriveJoin(t) \/ ArriveOther(t) PROVE OwnerInCharge'
    BY <1>2, ArrivalStep DEF OwnerInCharge, tables
  <1>3. ASSUME NEW t \in Tasks, Proceed(t) \/ Fail(t) PROVE OwnerInCharge'
    <2>1. owner' = owner /\ joined \subseteq joined' /\ issued \in Nat
      BY <1>3, TableStep DEF TypeOK
    <2>2. pc[t] = "disable" => job[t].nick \in joined \ {owner}
      BY DEF KnowsMembers
    <2>3. /\ owner' # NoOne => owner' \in joined' \ disabled'
          /\ disabled' \subseteq joined'
      BY <1>3, <2>1, <2>2, TableStep DEF OwnerInCharge
    <2>4. CASE sessions' \subseteq sessions /\ issued' = issued
      BY <2>1, <2>3, <2>4 DEF OwnerInCharge
    <2>5. CASE /\ IssueSession(t) /\ issued' = issued + 1
               /\ sessions' = sessions \cup
                    {[token |-> issued + 1, nick |-> job[t].nick, pin |-> job[t].pin]}
      <3>1. job[t].nick \in joined'
        BY <2>5, <2>1 DEF IssueSession, KnowsMembers
      <3>2. \A s \in sessions : s.nick \in joined' /\ s.token \in 1 .. issued
        BY <2>1 DEF OwnerInCharge
      <3>3. \A s, r \in sessions' : s.token = r.token => s = r
        BY <2>1, <2>5, <3>2 DEF OwnerInCharge
      <3>4. \A s \in sessions' : s.nick \in joined' /\ s.token \in 1 .. issued'
        BY <2>1, <2>5, <3>1, <3>2
      <3> QED BY <2>3, <3>3, <3>4 DEF OwnerInCharge
    <2> QED BY <1>3, <2>4, <2>5, TableStep
  <1>4. CASE Quiet
    BY <1>4 DEF Quiet, OwnerInCharge, tables
  <1> QED BY <1>1, <1>2, <1>3, <1>4, StepCases

LEMMA TypeInit == Init => TypeOK /\ JobFits
  <1>1. NoView \in Views /\ NoPin \in Pins /\ NoJob.op = "none"
    BY PinsAssumption DEF NoView, Views, NoPin, NoJob
  <1> QED BY <1>1 DEF Init, TypeOK, JobFits, Labels, Tokens

LEMMA AccessInvInit == Init => AccessInv
  <1> SUFFICES ASSUME Init PROVE AccessInv
    OBVIOUS
  <1>1. NoJob.op = "none"
    BY DEF NoJob
  <1>2. Founded /\ KnowsMembers /\ KnowsCode /\ OwnerInCharge
    BY <1>1 DEF Init, Founded, KnowsMembers, KnowsCode, OwnerInCharge
  <1> QED BY <1>2, TypeInit DEF AccessInv

LEMMA AccessInvStep == AccessInv /\ [Next]_vars => AccessInv'
  BY TypeStep, FitsStep, FoundedStep, MembersStep, CodeStep, OwnerStep DEF AccessInv

LEMMA AccessInvariant == Spec => []AccessInv
  BY AccessInvInit, AccessInvStep, PTL DEF Spec

\* The tables, the limiter, the locks and the tasks keep their types.
THEOREM TypeCorrect == Spec => []TypeOK
  <1>1. AccessInv => TypeOK
    BY DEF AccessInv
  <1> QED BY <1>1, AccessInvariant, PTL

\* The owner is a member who is never disabled, and sessions belong to
\* members, one per token, however the handlers overlap.
THEOREM OwnerStaysInCharge == Spec => []OwnerInCharge
  <1>1. AccessInv => OwnerInCharge
    BY DEF AccessInv
  <1> QED BY <1>1, AccessInvariant, PTL

-----------------------------------------------------------------------------
(* Action properties.                                                      *)

\* Who joins brings a code of the household's that was valid while the
\* request ran.
THEOREM CodeAdmits == Spec => AdmittedByCode
  <1>1. ASSUME AccessInv, [Next]_vars, NEW n \in joined' \ joined, owner # NoOne
        PROVE  \E t \in Tasks : /\ pc[t] = "admit" /\ job[t].nick = n
                               /\ job[t].code \in job[t].since .. invite
    <2>1. ASSUME NEW m \in Nicks, NEW p \in Pins, CreateHousehold(m, p) PROVE FALSE
      BY <1>1, <2>1 DEF CreateHousehold
    <2>2. ASSUME NEW t \in Tasks, ArriveJoin(t) \/ ArriveOther(t) PROVE FALSE
      BY <1>1, <2>2, ArrivalStep DEF tables, AccessInv
    <2>3. PICK t \in Tasks : Proceed(t) \/ Fail(t)
      BY <1>1, <2>1, <2>2, StepCases DEF Quiet, tables, AccessInv
    <2>4. pc[t] = "admit" /\ job[t].nick = n
      BY <1>1, <2>3, TableStep DEF AccessInv
    <2> QED BY <1>1, <2>4 DEF AccessInv, KnowsCode
  <1>2. AccessInv /\ [Next]_vars =>
          \A n \in joined' \ joined :
            owner # NoOne =>
              \E t \in Tasks : /\ pc[t] = "admit" /\ job[t].nick = n
                              /\ job[t].code \in job[t].since .. invite
    BY <1>1
  <1> QED BY <1>2, AccessInvariant, PTL DEF Spec, AdmittedByCode

\* Of two joins with one nickname the first decides the PIN; only a reset
\* changes the PIN of a member.
THEOREM PinChanges == Spec => PinOnlyReset
  <1>1. ASSUME AccessInv, [Next]_vars, NEW n \in joined, pin'[n] # pin[n]
        PROVE  \E t \in Tasks : pc[t] = "reset" /\ job[t].nick = n
    <2>1. ASSUME NEW m \in Nicks, NEW p \in Pins, CreateHousehold(m, p) PROVE FALSE
      BY <1>1, <2>1 DEF CreateHousehold, AccessInv, Founded
    <2>2. ASSUME NEW t \in Tasks, ArriveJoin(t) \/ ArriveOther(t) PROVE FALSE
      BY <1>1, <2>2, ArrivalStep DEF tables, AccessInv
    <2>3. PICK t \in Tasks : Proceed(t) \/ Fail(t)
      BY <1>1, <2>1, <2>2, StepCases DEF Quiet, tables, AccessInv
    <2>4. n = job[t].nick /\ pc[t] \in {"admit", "reset"}
      BY <1>1, <2>3, TableStep DEF AccessInv, TypeOK
    <2> QED BY <1>1, <2>4 DEF AccessInv, KnowsMembers
  <1>2. AccessInv /\ [Next]_vars =>
          \A n \in joined : pin'[n] # pin[n] =>
            \E t \in Tasks : pc[t] = "reset" /\ job[t].nick = n
    BY <1>1
  <1> QED BY <1>2, AccessInvariant, PTL DEF Spec, PinOnlyReset

\* A disabled member stays disabled, and a session that ended never returns.
THEOREM RevocationsLast == Spec => RevocationFinal
  <1>1. ASSUME AccessInv, [Next]_vars
        PROVE  /\ disabled \subseteq disabled'
               /\ \A s \in sessions' \ sessions : s.token > issued
    <2>1. ASSUME NEW m \in Nicks, NEW p \in Pins, CreateHousehold(m, p)
          PROVE  /\ disabled \subseteq disabled'
                 /\ \A s \in sessions' \ sessions : s.token > issued
      BY <1>1, <2>1 DEF CreateHousehold, AccessInv, TypeOK
    <2>2. ASSUME NEW t \in Tasks, ArriveJoin(t) \/ ArriveOther(t)
          PROVE  UNCHANGED <<disabled, sessions>>
      BY <1>1, <2>2, ArrivalStep DEF tables, AccessInv
    <2>3. ASSUME NEW t \in Tasks, Proceed(t) \/ Fail(t)
          PROVE  /\ disabled \subseteq disabled'
                 /\ \A s \in sessions' \ sessions : s.token > issued
      BY <1>1, <2>3, TableStep DEF AccessInv, TypeOK
    <2>4. CASE Quiet
      BY <2>4 DEF Quiet, tables
    <2> QED BY <1>1, <2>1, <2>2, <2>3, <2>4, StepCases DEF AccessInv
  <1> QED BY <1>1, AccessInvariant, PTL DEF Spec, RevocationFinal

-----------------------------------------------------------------------------
(* The limiter.                                                            *)

\* The joins from an address that passed the limit test and still run.
Tested   == {"invite", "nick", "insert", "recover", "rejoin", "admit", "issue"}
Pending(a) == {t \in Tasks : pc[t] \in Tested /\ job[t].address = a}

\* Each of them may still add the one failure that the bound leaves room for.
LimitInv ==
  /\ \A n \in Nicks : failed[n] <= PinLimit
  /\ \A a \in Addresses : failed[a] + Cardinality(Pending(a)) <= JoinLimit - 1 + Cardinality(Tasks)

LEMMA PendingFinite ==
  ASSUME NEW a
  PROVE  /\ IsFiniteSet(Pending(a)) /\ Cardinality(Pending(a)) \in Nat
         /\ Cardinality(Tasks) \in Nat /\ Cardinality(Pending(a)) <= Cardinality(Tasks)
  BY TasksAssumption, FS_Subset, FS_CardinalityType DEF Pending

\* SignIn charges a member only below the limit, and charges the address.
LEMMA SignInCharge ==
  ASSUME TypeOK, NEW t \in Tasks, NEW stored, NEW off, SignIn(t, stored, off),
         job[t].nick \in Nicks, job[t].address \in Addresses
  PROVE  /\ \A n \in Nicks : failed'[n] <= failed[n] \/ failed'[n] <= PinLimit
         /\ \A a \in Addresses : \/ failed'[a] = failed[a]
                                 \/ /\ failed'[a] = failed[a] + 1
                                    /\ job[t].address = a /\ pc'[t] = "idle"
  <1> USE KeysAssumption, PinLimitAssumption DEF Keys, TypeOK
  <1>1. CASE RejectJoin(t)
    BY <1>1, FinishTurn DEF RejectJoin, RecordFailures
  <1>2. CASE /\ ~ IsLimited(job[t].nick, PinLimit) /\ Finish(t)
             /\ RecordFailures({job[t].nick, job[t].address})
    BY <1>2, FinishTurn DEF IsLimited, RecordFailures
  <1>3. CASE failed' = [failed EXCEPT ![job[t].nick] = 0]
    BY <1>3
  <1> QED BY <1>1, <1>2, <1>3 DEF SignIn

\* What a step of a task may do to the counts of failures.
LEMMA ChargeStep ==
  ASSUME TypeOK, JobFits, NEW t \in Tasks, Proceed(t) \/ Fail(t)
  PROVE  /\ \A n \in Nicks : failed'[n] <= failed[n] \/ failed'[n] <= PinLimit
         /\ \A a \in Addresses : \/ failed'[a] <= failed[a]
                                 \/ /\ failed'[a] = failed[a] + 1
                                    /\ job[t].address = a
                                    /\ pc[t] \in Tested /\ pc'[t] = "idle"
         /\ pc[t] = "limit" /\ pc'[t] # "idle" => failed' = failed /\ failed[job[t].address] < JoinLimit
  <1> USE KeysAssumption, PinLimitAssumption DEF Keys
  <1>1. CASE UNCHANGED failed /\ pc[t] # "limit"
    BY <1>1 DEF TypeOK
  <1>2. CASE CheckJoinLimit(t)
    <2>1. failed' = failed /\ (pc'[t] # "idle" => failed[job[t].address] < JoinLimit)
      <3>1. job[t].address \in Addresses
        BY <1>2, JobFields DEF CheckJoinLimit, JobFits, TypeOK
      <3> QED BY <1>2, <3>1, FinishTurn, JoinLimitAssumption DEF CheckJoinLimit, IsLimited, TypeOK
    <2> QED BY <2>1 DEF TypeOK
  <1>3. CASE FindInvite(t)
    <2>1. CASE UNCHANGED failed
      BY <1>1, <1>3, <2>1 DEF FindInvite
    <2>2. CASE RejectJoin(t)
      <3>1. job[t].address \in Addresses
        BY <1>3, JobFields DEF FindInvite, JobFits, TypeOK
      <3> QED BY <1>3, <2>2, <3>1, FinishTurn DEF FindInvite, RejectJoin, RecordFailures, Tested, TypeOK
    <2> QED BY <1>3, <2>1, <2>2 DEF FindInvite
  <1>4. CASE FindMember(t) \/ Rejoin(t)
    <2>1. /\ pc[t] \in {"nick", "rejoin"}
          /\ UNCHANGED failed \/ \E stored, off : SignIn(t, stored, off)
      BY <1>4 DEF FindMember, Rejoin
    <2>2. job[t].nick \in Nicks /\ job[t].address \in Addresses
      BY <2>1, JobFields DEF JobFits, TypeOK
    <2>3. CASE UNCHANGED failed
      BY <1>1, <2>1, <2>3
    <2>4. CASE \E stored, off : SignIn(t, stored, off)
      <3>1. \A a \in Addresses : failed[a] \in Nat
        BY DEF TypeOK
      <3> QED BY <2>1, <2>2, <2>4, <3>1, SignInCharge DEF Tested
    <2> QED BY <2>1, <2>3, <2>4
  <1>5. CASE IssueSession(t)
    BY <1>5 DEF IssueSession, TypeOK
  <1>6. CASE Fail(t)
    <2>1. CASE UNCHANGED failed
      BY <1>6, <2>1, FinishTurn DEF Fail, TypeOK
    <2>2. CASE job[t].op = "join" /\ pc[t] # "limit" /\ RecordFailures({job[t].address})
      <3>1. pc[t] \in Tested /\ job[t].address \in Addresses
        BY <1>6, <2>2, JobFields DEF Fail, JobFits, Tested, TypeOK
      <3> QED BY <1>6, <2>2, <3>1, FinishTurn DEF Fail, RecordFailures, TypeOK
    <2> QED BY <1>6, <2>1, <2>2 DEF Fail
  <1>7. CASE InsertMember(t) \/ RecoverMember(t) \/ Authenticate(t) \/ FindSession(t)
             \/ DropSession(t) \/ RotateInvite(t) \/ FindTarget(t) \/ DisableMember(t)
             \/ WipeSessions(t) \/ ResetPin(t)
    BY <1>1, <1>7 DEF InsertMember, RecoverMember, Authenticate, FindSession, DropSession,
                      RotateInvite, FindTarget, DisableMember, WipeSessions, ResetPin, Goto
  <1> QED BY <1>2, <1>3, <1>4, <1>5, <1>6, <1>7 DEF Proceed

LEMMA LimitStep == TypeOK /\ JobFits /\ LimitInv /\ [Next]_vars => LimitInv'
  <1> SUFFICES ASSUME TypeOK, JobFits, LimitInv, [Next]_vars PROVE LimitInv'
    OBVIOUS
  <1>0. \A k \in Keys : failed[k] \in Nat
    BY DEF TypeOK
  <1>1. CASE failed' = failed /\ pc' = pc /\ job' = job
    BY <1>1 DEF LimitInv, Pending
  <1>2. ASSUME NEW t \in Tasks, ArriveJoin(t) \/ ArriveOther(t) PROVE LimitInv'
    <2>1. failed' = failed
      BY <1>2 DEF ArriveJoin, ArriveOther, Arrive
    <2>2. ASSUME NEW a PROVE Pending(a)' = Pending(a)
      BY <1>2, ArrivalStep DEF Pending, Tested, OthersRest
    <2> QED BY <2>1, <2>2 DEF LimitInv
  <1>3. ASSUME NEW t \in Tasks, Proceed(t) \/ Fail(t) PROVE LimitInv'
    <2>1. OthersRest(t) /\ Turn(t)
      BY <1>3, TaskStep
    <2>2. TypeOK'
      BY TypeStep
    <2>3. ASSUME NEW n \in Nicks PROVE failed'[n] <= PinLimit
      BY <1>0, <1>3, <2>2, <2>3, ChargeStep, PinLimitAssumption DEF LimitInv, TypeOK, Keys
    <2>4. ASSUME NEW a \in Addresses
          PROVE  failed'[a] + Cardinality(Pending(a)') <= JoinLimit - 1 + Cardinality(Tasks)
      <3>1. failed[a] \in Nat /\ failed'[a] \in Nat
        BY <2>2 DEF TypeOK, Keys
      <3>2. /\ Cardinality(Pending(a)) \in Nat /\ Cardinality(Pending(a)') \in Nat
            /\ Cardinality(Pending(a)') <= Cardinality(Tasks) /\ Cardinality(Tasks) \in Nat
        <4>1. IsFiniteSet(Pending(a)') /\ Pending(a)' \subseteq Tasks
          BY TasksAssumption, FS_Subset DEF Pending
        <4> QED BY <4>1, PendingFinite, TasksAssumption, FS_Subset, FS_CardinalityType
      <3>3. failed[a] + Cardinality(Pending(a)) <= JoinLimit - 1 + Cardinality(Tasks)
        BY DEF LimitInv
      <3>4. CASE pc[t] = "limit" /\ pc'[t] # "idle"
        <4>1. CASE job[t].address = a
          BY <1>3, <3>1, <3>2, <3>4, <4>1, ChargeStep, JoinLimitAssumption
        <4>2. CASE job[t].address # a
          <5>1. Pending(a)' = Pending(a)
            BY <2>1, <3>4, <4>2 DEF Pending, OthersRest, Turn, Tested
          <5> QED BY <1>3, <3>3, <3>4, <5>1, ChargeStep
        <4> QED BY <4>1, <4>2
      <3>5. CASE ~ (pc[t] = "limit" /\ pc'[t] # "idle")
        <4>1. Pending(a)' \subseteq Pending(a)
          BY <2>1, <3>5 DEF Pending, OthersRest, Turn, Tested
        <4>2. Cardinality(Pending(a)') <= Cardinality(Pending(a))
          BY <4>1, PendingFinite, FS_Subset
        <4>3. CASE failed'[a] <= failed[a]
          BY <3>1, <3>2, <3>3, <4>2, <4>3, JoinLimitAssumption
        <4>4. CASE /\ failed'[a] = failed[a] + 1
                   /\ job[t].address = a
                   /\ pc[t] \in Tested /\ pc'[t] = "idle"
          <5>1. t \in Pending(a) /\ Pending(a)' = Pending(a) \ {t}
            BY <2>1, <4>4 DEF Pending, OthersRest, Tested
          <5>2. Cardinality(Pending(a)') = Cardinality(Pending(a)) - 1
            BY <5>1, PendingFinite, FS_RemoveElement
          <5> QED BY <3>1, <3>2, <3>3, <4>4, <5>2, JoinLimitAssumption
        <4> QED BY <1>3, <4>3, <4>4, ChargeStep
      <3> QED BY <3>4, <3>5
    <2> QED BY <2>3, <2>4 DEF LimitInv
  <1>4. ASSUME NEW k \in Keys, Forget(k) PROVE LimitInv'
    <2>1. \A x \in Keys : failed'[x] \in Nat /\ failed'[x] <= failed[x]
      BY <1>0, <1>4 DEF Forget, TypeOK
    <2>2. \A a : Pending(a)' = Pending(a)
      BY <1>4 DEF Forget, Pending
    <2>3. \A a : Cardinality(Pending(a)) \in Nat /\ Cardinality(Tasks) \in Nat
      BY PendingFinite
    <2> QED BY <1>0, <2>1, <2>2, <2>3, PinLimitAssumption, JoinLimitAssumption DEF LimitInv, Keys
  <1> QED BY <1>1, <1>2, <1>3, <1>4 DEF Next, CreateHousehold, Expire, vars

\* The PIN limit is exact; the join limit is passed by no more failures than
\* tasks can have tested it and not yet recorded theirs.
THEOREM LimitsStay == Spec => []LimitsHold
  <1>1. Init => LimitInv
    <2> SUFFICES ASSUME Init PROVE LimitInv
      OBVIOUS
    <2>1. ASSUME NEW a PROVE Cardinality(Pending(a)) = 0
      <3>1. Pending(a) = {}
        BY DEF Init, Pending, Tested
      <3> QED BY <3>1, FS_EmptySet
    <2> QED BY <2>1, PendingFinite, PinLimitAssumption, JoinLimitAssumption DEF Init, LimitInv, Keys
  <1>2. AccessInv /\ LimitInv /\ [Next]_vars => LimitInv'
    BY LimitStep DEF AccessInv
  <1>3. AccessInv /\ LimitInv => LimitsHold
    <2> SUFFICES ASSUME AccessInv, LimitInv PROVE LimitsHold
      OBVIOUS
    <2>1. \A a \in Addresses : failed[a] \in Nat
      BY DEF AccessInv, TypeOK, Keys
    <2> QED BY <2>1, PendingFinite, JoinLimitAssumption DEF LimitInv, LimitsHold
  <1> QED BY <1>1, <1>2, <1>3, AccessInvariant, PTL DEF Spec

-----------------------------------------------------------------------------
(* One request at a time.                                                  *)

\* As long as no two requests overlapped, one task at most is busy ...
OneBusy == alone => \A t, u \in Tasks : pc[t] # "idle" /\ pc[u] # "idle" => t = u

\* ... and what it has found out is still so.
Fresh(t) ==
  /\ pc[t] = "rejoin" => view[t].pin = pin[job[t].nick]
  /\ pc[t] = "issue" => job[t].pin = pin[job[t].nick]
  /\ pc[t] = "reset" => \A s \in sessions : s.nick = job[t].nick => s.token \in view[t].doomed
  /\ pc[t] \in {"rotate", "target", "disable", "wipe", "reset"} => \E s \in Mine(t) : s.nick = owner
SerialView == alone => \A t \in Tasks : Fresh(t)

LEMMA BoundsKept ==
  ASSUME NEW t \in Tasks, Proceed(t) \/ Fail(t)
  PROVE  alone' = alone
  BY DEF Proceed, Fail, bounds, CheckJoinLimit, FindInvite, FindMember, InsertMember, RecoverMember,
         Rejoin, IssueSession, Authenticate, FindSession, DropSession, RotateInvite, FindTarget,
         DisableMember, WipeSessions, ResetPin

LEMMA AloneArrival ==
  ASSUME NEW t \in Tasks, ArriveJoin(t) \/ ArriveOther(t)
  PROVE  alone' => alone
  BY DEF ArriveJoin, ArriveOther, Arrive

LEMMA BusyStep == TypeOK /\ JobFits /\ OneBusy /\ [Next]_vars => OneBusy'
  <1> SUFFICES ASSUME TypeOK, JobFits, OneBusy, [Next]_vars PROVE OneBusy'
    OBVIOUS
  <1>1. ASSUME NEW n \in Nicks, NEW p \in Pins, CreateHousehold(n, p) PROVE OneBusy'
    BY <1>1 DEF CreateHousehold, OneBusy, bounds
  <1>2. ASSUME NEW t \in Tasks, ArriveJoin(t) \/ ArriveOther(t) PROVE OneBusy'
    BY <1>2, ArrivalStep DEF OneBusy, OthersRest
  <1>3. ASSUME NEW t \in Tasks, Proceed(t) \/ Fail(t) PROVE OneBusy'
    BY <1>3, TaskStep, BoundsKept DEF OneBusy, OthersRest
  <1>4. CASE Quiet
    BY <1>4 DEF Quiet, OneBusy
  <1> QED BY <1>1, <1>2, <1>3, <1>4, StepCases

\* What a task goes on with is what it has just read.
LEMMA ReadStep ==
  ASSUME TypeOK, JobFits, NEW t \in Tasks, Proceed(t) \/ Fail(t), pc'[t] # "idle"
  PROVE  /\ UNCHANGED tables
         /\ pc'[t] = "rejoin" => view'[t].pin = pin[job[t].nick]
         /\ pc'[t] = "issue" => \/ job[t].pin = pin[job[t].nick]
                                \/ pc[t] = "rejoin" /\ job[t].pin = view[t].pin
         /\ pc'[t] = "reset" =>
              \A s \in sessions : s.nick = job[t].nick => s.token \in view'[t].doomed
  <1>1. ASSUME NEW stored, NEW off, SignIn(t, stored, off)
        PROVE  pc'[t] = "issue" /\ stored = job[t].pin
    BY <1>1, FinishTurn DEF SignIn, RejectJoin, TypeOK
  <1>2. ASSUME Finish(t) PROVE FALSE
    BY <1>2, FinishTurn
  <1>3. CASE FindMember(t)
    BY <1>1, <1>3 DEF FindMember, TypeOK
  <1>4. CASE RecoverMember(t)
    BY <1>4 DEF RecoverMember, Goto, TypeOK
  <1>5. CASE Rejoin(t)
    BY <1>1, <1>5 DEF Rejoin
  <1>6. CASE WipeSessions(t)
    BY <1>6 DEF WipeSessions, Goto, TypeOK
  <1>7. CASE IssueSession(t) \/ DropSession(t) \/ RotateInvite(t) \/ DisableMember(t) \/ ResetPin(t)
             \/ Fail(t)
    BY <1>2, <1>7 DEF IssueSession, DropSession, RotateInvite, DisableMember, ResetPin, Fail
  <1>8. CASE CheckJoinLimit(t) \/ FindInvite(t) \/ InsertMember(t) \/ Authenticate(t)
             \/ FindSession(t) \/ FindTarget(t)
    <2>1. pc'[t] \notin {"rejoin", "issue", "reset"}
      BY <1>2, <1>8 DEF CheckJoinLimit, FindInvite, RejectJoin, InsertMember, Goto, Authenticate,
                        FindSession, FindTarget, TypeOK
    <2>2. UNCHANGED tables
      BY <1>8 DEF CheckJoinLimit, FindInvite, InsertMember, Authenticate, FindSession, FindTarget
    <2> QED BY <2>1, <2>2
  <1> QED BY <1>3, <1>4, <1>5, <1>6, <1>7, <1>8 DEF Proceed

LEMMA ViewStep == AccessInv /\ OneBusy /\ SerialView /\ [Next]_vars => SerialView'
  <1> SUFFICES ASSUME AccessInv, OneBusy, SerialView, [Next]_vars, alone'
               PROVE  \A t \in Tasks : Fresh(t)'
    BY DEF SerialView
  <1> USE DEF AccessInv
  <1>1. ASSUME NEW n \in Nicks, NEW p \in Pins, CreateHousehold(n, p)
        PROVE  \A t \in Tasks : Fresh(t)'
    BY <1>1 DEF CreateHousehold, Founded, Fresh
  <1>2. ASSUME NEW t \in Tasks, ArriveJoin(t) \/ ArriveOther(t), NEW u \in Tasks
        PROVE  Fresh(u)'
    <2>1. pc'[u] \in {"idle", "limit", "logout", "auth"}
      BY <1>2, ArrivalStep DEF OthersRest
    <2> QED BY <2>1 DEF Fresh
  <1>3. ASSUME NEW t \in Tasks, Proceed(t) \/ Fail(t), NEW u \in Tasks
        PROVE  Fresh(u)'
    <2>1. alone /\ OthersRest(t) /\ Turn(t) /\ pc[t] # "idle"
      BY <1>3, TaskStep, BoundsKept
    <2>2. CASE u # t
      <3>1. pc'[u] = "idle"
        BY <2>1, <2>2 DEF OneBusy, OthersRest
      <3> QED BY <3>1 DEF Fresh
    <2>3. CASE u = t /\ pc'[t] = "idle"
      BY <2>3 DEF Fresh
    <2>4. CASE u = t /\ pc'[t] # "idle"
      <3>1. Fresh(t) /\ job'[t] = job[t]
        BY <2>1, <2>4 DEF SerialView, Turn
      <3>2. UNCHANGED <<owner, pin, sessions>>
        BY <1>3, <2>4, ReadStep DEF tables
      <3>3. /\ pc'[t] = "rejoin" => view'[t].pin = pin'[job'[t].nick]
            /\ pc'[t] = "issue" => job'[t].pin = pin'[job'[t].nick]
            /\ pc'[t] = "reset" =>
                 \A s \in sessions' : s.nick = job'[t].nick => s.token \in view'[t].doomed
        BY <1>3, <2>4, <3>1, <3>2, ReadStep DEF Fresh
      <3>4. pc'[t] \in {"rotate", "target", "disable", "wipe", "reset"} =>
              \E s \in Mine(t) : s.nick = owner
        BY <2>1, <2>4, <3>1 DEF Fresh, Turn
      <3>5. Mine(t)' = Mine(t)
        BY <3>1, <3>2 DEF Mine
      <3> QED BY <2>4, <3>2, <3>3, <3>4, <3>5 DEF Fresh
    <2> QED BY <2>2, <2>3, <2>4
  <1>4. CASE Quiet
    BY <1>4 DEF Quiet, SerialView, Fresh, Mine, tables
  <1> QED BY <1>1, <1>2, <1>3, <1>4, StepCases

LEMMA SessionsStep == AccessInv /\ SerialView /\ SerialSessions /\ [Next]_vars => SerialSessions'
  <1> SUFFICES ASSUME AccessInv, SerialView, SerialSessions, [Next]_vars, alone', NEW s \in sessions'
               PROVE  s.pin = pin'[s.nick]
    BY DEF SerialSessions
  <1> USE DEF AccessInv
  <1>1. ASSUME NEW n \in Nicks, NEW p \in Pins, CreateHousehold(n, p)
        PROVE  s.pin = pin'[s.nick]
    BY <1>1 DEF CreateHousehold, TypeOK
  <1>2. ASSUME NEW t \in Tasks, ArriveJoin(t) \/ ArriveOther(t)
        PROVE  s.pin = pin'[s.nick]
    BY <1>2, ArrivalStep, AloneArrival DEF SerialSessions, tables
  <1>3. ASSUME NEW t \in Tasks, Proceed(t) \/ Fail(t)
        PROVE  s.pin = pin'[s.nick]
    <2>1. alone /\ Fresh(t)
      BY <1>3, BoundsKept DEF SerialView
    <2>2. \A r \in sessions : r.pin = pin[r.nick] /\ r.nick \in joined /\ r.nick \in Nicks
      BY <2>1 DEF SerialSessions, OwnerInCharge, TypeOK
    <2>3. CASE IssueSession(t)
      <3>1. /\ sessions' = sessions \cup
                 {[token |-> issued + 1, nick |-> job[t].nick, pin |-> job[t].pin]}
            /\ job[t].nick \in Nicks
        BY <1>3, <2>3, TableStep DEF IssueSession, TypeOK
      <3>2. CASE pc[t] = "admit"
        <4>1. pin' = [pin EXCEPT ![job[t].nick] = job[t].pin] /\ job[t].nick \notin joined
          BY <2>3, <3>2 DEF IssueSession, KnowsMembers
        <4> QED BY <2>2, <3>1, <4>1 DEF TypeOK
      <3>3. CASE pc[t] = "issue"
        <4>1. pin' = pin /\ job[t].pin = pin[job[t].nick]
          BY <2>1, <2>3, <3>3 DEF IssueSession, Fresh
        <4> QED BY <2>2, <3>1, <4>1
      <3> QED BY <2>3, <3>2, <3>3 DEF IssueSession
    <2>4. CASE ResetPin(t)
      <3>1. s \in sessions /\ s.nick # job[t].nick
        BY <2>1, <2>4 DEF ResetPin, Fresh
      <3> QED BY <2>2, <2>4, <3>1 DEF ResetPin, TypeOK
    <2>5. CASE UNCHANGED tables \/ DropSession(t) \/ RotateInvite(t) \/ DisableMember(t)
      BY <2>2, <2>5 DEF tables, DropSession, RotateInvite, DisableMember
    <2> QED BY <1>3, <2>3, <2>4, <2>5, TaskStep
  <1>4. CASE Quiet
    BY <1>4 DEF Quiet, SerialSessions, tables
  <1> QED BY <1>1, <1>2, <1>3, <1>4, StepCases

SerialInv == AccessInv /\ OneBusy /\ SerialView /\ SerialSessions

LEMMA SerialInvariant == Spec => []SerialInv
  <1>1. Init => SerialInv
    <2> SUFFICES ASSUME Init PROVE SerialInv
      OBVIOUS
    <2>1. OneBusy /\ SerialView /\ SerialSessions
      BY DEF Init, OneBusy, SerialView, Fresh, SerialSessions
    <2> QED BY <2>1, AccessInvInit DEF SerialInv
  <1>2. SerialInv /\ [Next]_vars => SerialInv'
    <2>1. AccessInv /\ OneBusy /\ [Next]_vars => OneBusy'
      BY BusyStep DEF AccessInv
    <2> QED BY <2>1, AccessInvStep, ViewStep, SessionsStep DEF SerialInv
  <1> QED BY <1>1, <1>2, PTL DEF Spec

\* As long as requests do not overlap, every session was opened with the PIN
\* that is valid now.
THEOREM SessionsCurrent == Spec => []SerialSessions
  <1>1. SerialInv => SerialSessions
    BY DEF SerialInv
  <1> QED BY <1>1, SerialInvariant, PTL

\* As long as requests do not overlap, only a request with the owner's live
\* session rotates the code, disables a member or resets a PIN.
THEOREM OnlyOwnerActs == Spec => SerialOwnerActs
  <1>1. ASSUME SerialInv, [Next]_vars, alone, owner # NoOne,
               \/ invite' # invite \/ disabled' # disabled
               \/ \E n \in joined : pin'[n] # pin[n]
        PROVE  \E t \in Tasks : pc[t] # "idle" /\ \E s \in Mine(t) : s.nick = owner
    <2>1. AccessInv /\ SerialView /\ TypeOK /\ JobFits
      BY <1>1 DEF SerialInv, AccessInv
    <2>2. ASSUME NEW m \in Nicks, NEW p \in Pins, CreateHousehold(m, p) PROVE FALSE
      BY <1>1, <2>2 DEF CreateHousehold
    <2>3. ASSUME NEW t \in Tasks, ArriveJoin(t) \/ ArriveOther(t) PROVE FALSE
      BY <1>1, <2>1, <2>3, ArrivalStep DEF tables
    <2>4. PICK t \in Tasks : Proceed(t) \/ Fail(t)
      BY <1>1, <2>1, <2>2, <2>3, StepCases DEF Quiet, tables
    <2>5. pc[t] \in {"rotate", "disable", "reset"}
      <3>1. pc[t] = "admit" => job[t].nick \notin joined
        BY <2>1 DEF AccessInv, KnowsMembers
      <3> QED BY <1>1, <2>1, <2>4, <3>1, TableStep DEF TypeOK
    <2>6. Fresh(t)
      BY <1>1, <2>1 DEF SerialView
    <2> QED BY <2>5, <2>6 DEF Fresh
  <1>2. SerialInv /\ [Next]_vars =>
          (/\ alone /\ owner # NoOne
           /\ \/ invite' # invite \/ disabled' # disabled
              \/ \E n \in joined : pin'[n] # pin[n]
           => \E t \in Tasks : pc[t] # "idle" /\ \E s \in Mine(t) : s.nick = owner)
    BY <1>1
  <1> QED BY <1>2, SerialInvariant, PTL DEF Spec, SerialOwnerActs
=============================================================================
