------------------------------- MODULE Session ------------------------------
(***************************************************************************)
(* Who is logged in (frontend/src/app/App.tsx), and the two pages that     *)
(* change it or show it: OnboardingPage, where a household is created or   *)
(* joined, and the invite code of FamilyPage.  The application asks for    *)
(* the session once, keeps the answer, and shows the invite code from it.  *)
(*                                                                         *)
(* Households and members are abstracted to the invite code that is valid  *)
(* for the member's household: a number, a new one for each code made.     *)
(***************************************************************************)
EXTENDS Browser

CONSTANT MaxCodes   (* Number of codes that are made.  Bounds the model.    *)

ASSUME CodesAssumption == MaxCodes \in Nat \ {0}

VARIABLES
  tab,          (* The route: the page to show to somebody logged in.       *)
  session,      (* undefined, null, or the code in the session's answer.    *)
  appError,     (* The error screen is shown.                               *)
  mode,         (* Which of the two forms OnboardingPage shows.             *)
  submitting,   (* Their buttons are disabled.                              *)
  authError,    (* OnboardingPage shows an error.                           *)
  inviteCode,   (* The code that FamilyPage shows.                          *)
  rotateError,  (* FamilyPage shows an error.                               *)
  cookie,       (* The browser's cookie names a session that is good.       *)
  owner,        (* The member created the household.                        *)
  valid,        (* The code that admits to the household.                   *)
  handed,       (* The codes made so far.                                   *)
  astray        (* History: the code changed behind the application's back  *)
                (* since it asked: from another device, by a rotation that  *)
                (* failed after the server's step, or by two at a time.     *)

sessionVars == <<tab, session, appError, mode, submitting, authError,
                 inviteCode, rotateError, cookie, owner, valid, handed, astray>>
screenVars  == <<tab, session, appError>>
onboarding  == <<mode, submitting, authError>>
family      == <<inviteCode, rotateError>>
account     == <<cookie, owner, valid, handed, astray>>

Tabs    == {"today", "dishes", "choose", "family"}
Codes   == 1 .. MaxCodes
Unknown == -1
Nobody  == 0

Screen ==
  IF appError THEN "error"
  ELSE IF session = Unknown THEN "loading"
  ELSE IF session = Nobody THEN "onboarding"
  ELSE tab

FreshOnboarding == mode = "create" /\ submitting = FALSE /\ authError = FALSE

SessionInit ==
  /\ tab \in Tabs
  /\ session = Unknown /\ appError = FALSE
  /\ FreshOnboarding
  /\ inviteCode = Nobody /\ rotateError = FALSE
  /\ cookie \in BOOLEAN /\ owner \in BOOLEAN
  /\ valid = 1 /\ handed = 1
  /\ astray = FALSE

-----------------------------------------------------------------------------
(* The server (HouseholdAccess has its handlers in full).                  *)

ServeSession(c) ==
  /\ Arrived(c, "session")
  /\ IF cookie THEN Answer(c, "ok", valid) ELSE Answer(c, "refused", Nothing)
  /\ astray' = FALSE
  /\ UNCHANGED <<screenVars, onboarding, family, cookie, owner, valid, handed>>

\* A household of its own; the cookie comes with the answer.
ServeCreate(c) ==
  /\ Arrived(c, "create") /\ handed < MaxCodes
  /\ handed' = handed + 1
  /\ Answer(c, "ok", handed + 1)
  /\ UNCHANGED <<screenVars, onboarding, family, cookie, owner, valid, astray>>

\* The code or the PIN may be wrong.
ServeJoin(c) ==
  /\ Arrived(c, "join")
  /\ Answer(c, "ok", valid) \/ Answer(c, "refused", Nothing)
  /\ UNCHANGED sessionVars

ServeRotate(c) ==
  /\ Arrived(c, "rotate") /\ handed < MaxCodes /\ cookie
  /\ handed' = handed + 1 /\ valid' = handed + 1
  /\ Answer(c, "ok", handed + 1)
  /\ UNCHANGED <<screenVars, onboarding, family, cookie, owner, astray>>

\* The owner's other device.
RotateElsewhere ==
  /\ handed < MaxCodes
  /\ handed' = handed + 1 /\ valid' = handed + 1
  /\ astray' = TRUE
  /\ UNCHANGED <<browser, screenVars, onboarding, family, cookie, owner>>

\* The session expires, or the member is disabled.
Expire ==
  /\ cookie /\ cookie' = FALSE
  /\ UNCHANGED <<browser, screenVars, onboarding, family, owner, valid, handed, astray>>

-----------------------------------------------------------------------------
(* loadSession.                                                            *)

\* The page of the current tab appears; App adds what the other pages load.
SessionLoaded(c) ==
  /\ Good(c, "session")
  /\ session' = calls[c].body /\ inviteCode' = calls[c].body /\ rotateError' = FALSE
  /\ UNCHANGED <<tab, appError, onboarding, account>>

SessionRefused(c) ==
  /\ calls[c].op = "session" /\ calls[c].live /\ calls[c].answer = "refused"
  /\ End(c)
  /\ session' = Nobody
  /\ UNCHANGED <<tab, appError, onboarding, family, account>>

SessionFails(c) ==
  /\ Throws(c, "session") /\ calls[c].answer # "refused"
  /\ appError' = TRUE
  /\ UNCHANGED <<tab, session, onboarding, family, account>>

\* The button of the error screen.
Retry ==
  /\ Screen = "error"
  /\ Send("session", Nothing)
  /\ appError' = FALSE /\ session' = Unknown
  /\ UNCHANGED <<tab, onboarding, family, account>>

-----------------------------------------------------------------------------
(* OnboardingPage.                                                         *)

SwitchMode ==
  /\ Screen = "onboarding"
  /\ mode' = IF mode = "create" THEN "join" ELSE "create"
  /\ UNCHANGED <<browser, screenVars, submitting, authError, family, account>>

\* The form of the mode, whose button is disabled until the answer is there.
FormUsable == Screen = "onboarding" /\ ~ submitting

\* handleCreate and handleJoin, up to the answer.
Submit ==
  /\ FormUsable
  /\ Send(mode, Nothing)
  /\ submitting' = TRUE /\ authError' = FALSE
  /\ UNCHANGED <<screenVars, mode, family, account>>

\* The rest of both: the answer brings the cookie, and onAuthenticated starts
\* loadSession, which takes the page away, its invite code card included.
Authenticated(c) ==
  /\ Good(c, "create") \/ Good(c, "join")
  /\ cookie' = TRUE /\ owner' = (calls[c].op = "create")
  /\ valid' = IF calls[c].op = "create" THEN calls[c].body ELSE valid
  /\ Next1(c, "session", Nothing)
  /\ session' = Unknown
  /\ mode' = "create" /\ submitting' = FALSE /\ authError' = FALSE
  /\ UNCHANGED <<tab, appError, family, handed, astray>>

AuthenticationFails(c) ==
  /\ Throws(c, "create") \/ Throws(c, "join")
  /\ submitting' = FALSE /\ authError' = TRUE
  /\ UNCHANGED <<screenVars, mode, family, account>>

-----------------------------------------------------------------------------
(* The invite code of FamilyPage.                                          *)

\* handleRotateInvite; App adds that the button may be disabled.
Rotate ==
  /\ Screen = "family" /\ owner
  /\ Send("rotate", Nothing)
  /\ rotateError' = FALSE
  /\ astray' = (astray \/ \E c \in InFlight : calls[c].op = "rotate")
  /\ UNCHANGED <<screenVars, onboarding, inviteCode, cookie, owner, valid, handed>>

\* Faulty: the application is not told.
RotatedHere(c) ==
  /\ calls[c].op = "rotate" /\ calls[c].answer = "ok"
  /\ End(c)
  /\ inviteCode' = IF calls[c].live THEN calls[c].body ELSE inviteCode
  /\ UNCHANGED <<screenVars, onboarding, rotateError, account>>

\* onInviteRotated tells the application, also when the page was left; the
\* page follows its session.
Rotated(c) ==
  /\ calls[c].op = "rotate" /\ calls[c].answer = "ok"
  /\ End(c)
  /\ inviteCode' = calls[c].body
  /\ session' = calls[c].body
  /\ UNCHANGED <<tab, appError, onboarding, rotateError, account>>

\* The member hears of it if the page is still there.
RotateFails(c) ==
  /\ calls[c].op = "rotate"
  /\ calls' = Without(calls, {c})
  /\ patient' = (patient /\ calls[c].answer # "ok")
  /\ rotateError' = (rotateError \/ calls[c].live)
  /\ astray' = (astray \/ calls[c].answer = "ok")
  /\ UNCHANGED <<online, clicks, screenVars, onboarding, inviteCode, cookie, owner, valid, handed>>

-----------------------------------------------------------------------------
SessionServer(c) == ServeSession(c) \/ ServeCreate(c) \/ ServeJoin(c) \/ ServeRotate(c)

SessionHandlers(c) ==
  \/ SessionRefused(c) \/ SessionFails(c) \/ Authenticated(c) \/ AuthenticationFails(c)
  \/ Rotated(c) \/ RotateFails(c)

SessionClicks == Retry \/ SwitchMode \/ Submit

-----------------------------------------------------------------------------
(* Properties.                                                             *)

\* Every variable has its type.
SessionTypeOK ==
  /\ tab \in Tabs
  /\ session \in Codes \cup {Unknown, Nobody} /\ inviteCode \in Codes \cup {Nobody}
  /\ mode \in {"create", "join"}
  /\ valid \in Codes /\ handed \in Codes
  /\ appError \in BOOLEAN /\ submitting \in BOOLEAN /\ authError \in BOOLEAN
  /\ rotateError \in BOOLEAN /\ cookie \in BOOLEAN /\ owner \in BOOLEAN /\ astray \in BOOLEAN

\* The loading screen has the session to wait for, and forms that are disabled
\* have the answer to one of them; somebody who was just admitted is not left
\* with the forms.
SessionNotStuck ==
  /\ Screen = "loading" => Awaited("session")
  /\ submitting => Awaited("create") \/ Awaited("join")
  /\ Screen = "onboarding" /\ ~ submitting => ~ cookie

\* The family page shows the code that admits to the household, and so does every
\* later visit of it, once a rotation of this browser has ended, unless the code
\* changed behind the application's back.
CodeFollows ==
  session \in Codes /\ ~ astray /\ (\A c \in InFlight : calls[c].op # "rotate") =>
    /\ session = valid
    /\ Screen = "family" => inviteCode = valid
=============================================================================
