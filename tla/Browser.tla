------------------------------ MODULE Browser -------------------------------
(***************************************************************************)
(* The calls that a member's browser has in flight (frontend/src/api/      *)
(* client.ts), for the modules of the single pages.                        *)
(*                                                                         *)
(* A handler of a page runs up to its await, which leaves a call here, and *)
(* goes on when the answer is there.  The server acts on a call in a step  *)
(* of its own, in any order, and a call can fail before that step or after *)
(* it.  A page that is left does not hear of its calls any more; the       *)
(* server still acts on those that were sent.                              *)
(***************************************************************************)
EXTENDS Integers

CONSTANTS
  Nothing,     (* What a call carries, or its answer, that is of no matter. *)
  MaxClicks,   (* Number of clicks that send something.  Bounds the model.  *)
  MaxCalls     (* Number of calls in flight at a time.  Bounds the model.   *)

ASSUME BrowserAssumption == MaxClicks \in Nat /\ MaxCalls \in Nat \ {0}

VARIABLES
  online,    (* The network is up, as navigator.onLine tells it.            *)
  calls,     (* The calls in flight.                                        *)
  clicks,    (* Number of clicks so far that sent something.                *)
  patient    (* History: no click while a call was in flight, and no answer *)
             (* was lost after the server had acted.                        *)

browser == <<online, calls, clicks, patient>>

Ids      == 1 .. MaxCalls
InFlight == DOMAIN calls

\* What a call carries and what its answer brings depends on op.
Call(op, arg) == [op |-> op, arg |-> arg, live |-> TRUE, answer |-> "none", body |-> Nothing]

\* calls f with one more, j, or without some of them.
Room(f)      == Ids \ DOMAIN f # {}
Free(f)      == CHOOSE i \in Ids \ DOMAIN f : \A k \in Ids \ DOMAIN f : i <= k
Adding(f, j) == [i \in DOMAIN f \cup {Free(f)} |-> IF i = Free(f) THEN j ELSE f[i]]
Without(f, S) == [i \in DOMAIN f \ S |-> f[i]]

\* An answer is awaited by the component that asked, as long as it is there.
Awaited(op) == \E c \in InFlight : calls[c].op = op /\ calls[c].live

BrowserInit ==
  /\ online = TRUE
  /\ calls = [i \in {} |-> {}]
  /\ clicks = 0
  /\ patient = TRUE

\* A click of the member makes the calls f of those in flight, one of them new.
Click(f) ==
  /\ clicks < MaxClicks
  /\ clicks' = clicks + 1
  /\ calls' = f
  /\ patient' = (patient /\ InFlight = {})
  /\ UNCHANGED online

\* One more call, sent by a click.
Send(op, arg) == Room(calls) /\ Click(Adding(calls, Call(op, arg)))

\* The server acts on call c and answers it.
Arrived(c, op) == online /\ calls[c].op = op /\ calls[c].answer = "none"
Answer(c, kind, body) ==
  /\ calls' = [calls EXCEPT ![c].answer = kind, ![c].body = body]
  /\ UNCHANGED <<online, clicks, patient>>

\* The handler that awaits c goes on: with no other call, or with the next.
Good(c, op) == calls[c].op = op /\ calls[c].live /\ calls[c].answer = "ok"
End(c)      == calls' = Without(calls, {c}) /\ UNCHANGED <<online, clicks, patient>>
Next1(c, op, arg) ==
  calls' = [calls EXCEPT ![c] = Call(op, arg)] /\ UNCHANGED <<online, clicks, patient>>

\* apiFetch throws: the connection is lost, or the answer is an error.
Throws(c, op) ==
  /\ calls[c].op = op /\ calls[c].live
  /\ calls' = Without(calls, {c})
  /\ patient' = (patient /\ calls[c].answer # "ok")
  /\ UNCHANGED <<online, clicks>>

\* No page shows what comes of c: it is over, answered or lost.
Forgotten(c) ==
  /\ ~ calls[c].live
  /\ End(c)

\* The component that awaits the calls S is gone, or asks something newer.
\* Reads among them change nothing and nobody goes on with what they bring; a
\* handler that has more to send goes on, also when its page was left.
Reads == {"session", "slot", "search", "random", "dishes", "history"}
Abandoning(S) ==
  [i \in {k \in InFlight : k \in S => calls[k].op \notin Reads} |->
     IF i \in S THEN [calls[i] EXCEPT !.live = FALSE] ELSE calls[i]]
=============================================================================
