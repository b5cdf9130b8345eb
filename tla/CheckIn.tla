------------------------------- MODULE CheckIn ------------------------------
(***************************************************************************)
(* The history and the weekly check-in on the family page (frontend/src/   *)
(* features/history), with the row that the check-in writes (backend/app/  *)
(* metrics/service.py) and the summary that counts it.                     *)
(*                                                                         *)
(* A household has one check-in for a week.  The pair of numbers in it is  *)
(* abstracted to the number of its save, and the two reads of a load to    *)
(* one: what the history lists does not depend on the check-in.            *)
(***************************************************************************)
EXTENDS Browser

CONSTANTS
  Days,      (* Days that may be today, as numbers; 0 was a Sunday.         *)
  MaxSaves   (* Number of check-ins saved.  Bounds the model.               *)

ASSUME DaysAssumption == Days \subseteq Nat /\ MaxSaves \in Nat

VARIABLES
  today,         (* The date in the household's time zone.                  *)
  row,           (* The check-in of this week.                              *)
  summary,       (* The check-in counted in the summary that is shown.      *)
  loading,       (* A load is under way.                                    *)
  historyError,  (* The page shows an error.                                *)
  sending,       (* saving: the button of the check-in is disabled.         *)
  saved,         (* The page says that the check-in is saved...             *)
  savedRow,      (* ...and (history) this was it.                           *)
  checkError     (* The check-in shows an error.                            *)

historyVars == <<summary, loading, historyError>>
checkVars   == <<sending, saved, savedRow, checkError>>
checkInVars == <<today, row, historyVars, checkVars>>

NoRow     == 0
NoSummary == -1
Window    == 14                      \* windowDays of HistoryPage.

\* A day of the week: getDay() has Sunday as 0.
DayOfWeek(d) == d % 7

\* Faulty: a Sunday belongs to the week that begins on the next day.
AmericanWeek(d) == d + 1 - DayOfWeek(d)

\* isoWeekMonday: the Monday of the week that ends on the next Sunday.
WeekStart(d) == d + IF DayOfWeek(d) = 0 THEN -6 ELSE 1 - DayOfWeek(d)

\* summarize_metrics counts the check-ins of the weeks that start in the window.
Counted == IF WeekStart(today) \in today - (Window - 1) .. today THEN row ELSE NoRow

FreshHistory ==
  /\ summary = NoSummary /\ loading = TRUE /\ historyError = FALSE
  /\ sending = FALSE /\ saved = FALSE /\ savedRow = NoRow /\ checkError = FALSE

HistoryAppears ==
  /\ summary' = NoSummary /\ loading' = TRUE /\ historyError' = FALSE
  /\ sending' = FALSE /\ saved' = FALSE /\ savedRow' = NoRow /\ checkError' = FALSE

CheckInInit ==
  /\ today \in Days
  /\ row = NoRow
  /\ FreshHistory

-----------------------------------------------------------------------------
(* The server.                                                             *)

ServeHistory(c) ==
  /\ Arrived(c, "history")
  /\ Answer(c, "ok", Counted)
  /\ UNCHANGED checkInVars

\* upsert_validation_checkin, up to the query: the week has to start on a Monday.
FindRow(c) ==
  /\ Arrived(c, "checkin")
  /\ IF DayOfWeek(WeekStart(today)) = 1
       THEN Answer(c, "found", row)
       ELSE Answer(c, "refused", Nothing)
  /\ UNCHANGED checkInVars

\* The rest of it: a row that was not there is inserted, and there can be one.
StoreRow(c) ==
  /\ online /\ calls[c].op = "checkin" /\ calls[c].answer = "found"
  /\ IF calls[c].body = NoRow /\ row # NoRow
       THEN Answer(c, "refused", Nothing) /\ UNCHANGED checkInVars
       ELSE /\ row < MaxSaves /\ row' = row + 1
            /\ Answer(c, "ok", row + 1)
            /\ UNCHANGED <<today, historyVars, checkVars>>

\* Another member saves the check-in of the week.
OtherChecksIn ==
  /\ row < MaxSaves /\ row' = row + 1
  /\ UNCHANGED <<browser, today, historyVars, checkVars>>

-----------------------------------------------------------------------------
(* The page.                                                               *)

\* The end of load.
HistoryLoaded(c) ==
  /\ Good(c, "history")
  /\ End(c)
  /\ summary' = calls[c].body /\ loading' = FALSE
  /\ UNCHANGED <<today, row, historyError, checkVars>>

HistoryFails(c) ==
  /\ Throws(c, "history")
  /\ historyError' = TRUE /\ loading' = FALSE
  /\ UNCHANGED <<today, row, summary, checkVars>>

\* handleSubmit with numbers that are not whole or negative.
SubmitNothing ==
  /\ ~ sending
  /\ checkError' = TRUE /\ saved' = FALSE /\ savedRow' = NoRow
  /\ UNCHANGED <<browser, today, row, historyVars, sending>>

\* handleSubmit; App adds that the button may be disabled.
SubmitCheckin ==
  /\ Send("checkin", Nothing)
  /\ sending' = TRUE /\ saved' = FALSE /\ savedRow' = NoRow /\ checkError' = FALSE
  /\ UNCHANGED <<today, row, historyVars>>

\* The check-in is saved; onCheckinSaved loads again and is not awaited.
CheckinSaved(c) ==
  /\ Good(c, "checkin")
  /\ Next1(c, "history", Nothing)
  /\ sending' = FALSE /\ saved' = TRUE /\ savedRow' = calls[c].body
  /\ loading' = TRUE /\ historyError' = FALSE
  /\ UNCHANGED <<today, row, summary, checkError>>

CheckinFails(c) ==
  /\ Throws(c, "checkin")
  /\ sending' = FALSE /\ checkError' = TRUE
  /\ UNCHANGED <<today, row, historyVars, saved, savedRow>>

CheckInServer(c) == ServeHistory(c) \/ FindRow(c) \/ StoreRow(c)

CheckInHandlers(c) ==
  HistoryLoaded(c) \/ HistoryFails(c) \/ CheckinSaved(c) \/ CheckinFails(c)

-----------------------------------------------------------------------------
(* Properties.                                                             *)

\* Every variable has its type.
CheckInTypeOK ==
  /\ today \in Days
  /\ row \in 0 .. MaxSaves /\ savedRow \in 0 .. MaxSaves
  /\ summary \in {NoSummary} \cup 0 .. MaxSaves
  /\ loading \in BOOLEAN /\ historyError \in BOOLEAN
  /\ sending \in BOOLEAN /\ saved \in BOOLEAN /\ checkError \in BOOLEAN

\* The page waits for nothing that was not asked, and when it has neither a
\* summary nor an error, it is loading.
CheckInNotStuck ==
  /\ loading => Awaited("history")
  /\ sending => Awaited("checkin")
  /\ summary = NoSummary /\ ~ historyError => loading

\* On whichever day of the week: once the page at rest says that the check-in is
\* saved, its summary counts that check-in or one saved after it.
SavedIsCounted ==
  patient /\ saved /\ ~ historyError /\ ~ Awaited("history") => summary >= savedRow
=============================================================================
