------------------------------ MODULE DishPage ------------------------------
(***************************************************************************)
(* The page of the dishes (frontend/src/features/dishes): a list under a   *)
(* filter, and one sheet with the form of a dish, which is a new dish or   *)
(* the one that is being edited; with the picture of the dish, which is    *)
(* uploaded on its own (frontend/src/features/images/ImageField.tsx).      *)
(*                                                                         *)
(* The form takes what it starts from when it appears.  The page tells it  *)
(* anew with every rendering what saving means: create a dish, or update   *)
(* the one in `editing'.  The sheet is not modal (BottomSheet.tsx:48), so  *)
(* the page under it stays usable.  Name, cooks and ingredients of a dish  *)
(* are abstracted to its category; DishCatalogue has the handlers in full. *)
(***************************************************************************)
EXTENDS Browser, Sequences

CONSTANTS
  Categories,  (* Categories of dishes.                                     *)
  All,         (* The filter that lets every dish pass.                     *)
  NoText,      (* The contents of a form that is not filled in.             *)
  MaxDishes    (* Number of dishes.  Bounds the model.                      *)

ASSUME DishesAssumption == MaxDishes \in Nat /\ {All, NoText} \cap Categories = {}

VARIABLES
  stored,     (* The server's dishes.                                       *)
  madeFor,    (* History: the dish whose form each picture was uploaded in. *)
  filter,     (* cookId and category.                                       *)
  dishes,     (* The list that the page has.                                *)
  listing,    (* loading: skeletons are shown, and no cards.                *)
  listError,  (* The page shows an error.                                   *)
  editing,    (* The dish that is being edited.                             *)
  sheet,      (* sheetOpen: the form is there.                              *)
  form,       (* What the form holds.                                       *)
  uploading,  (* The picture's buttons are disabled.                        *)
  saving,     (* submitting: the form's buttons are disabled.               *)
  formError,  (* The form shows an error.                                   *)
  subject,    (* History: the dish that the form started from.              *)
  crossed,    (* History: another filter or write was chosen before a write *)
              (* and the reload after it had ended, or an answer was lost.  *)
  muddled     (* History: a form was saved under another dish's title, or   *)
              (* once more after its answer was lost.                       *)

listVars == <<filter, dishes, listing, listError>>
formVars == <<form, uploading, saving, formError, subject>>
dishVars == <<stored, madeFor, listVars, editing, sheet, formVars, crossed, muddled>>

NoDish    == 0                       \* editing and subject: a new dish.
NoPicture == 0
Texts     == Categories
DishIds   == 1 .. MaxDishes

Known     == DOMAIN stored
Passes(f, d) == ~ stored[d].archived /\ f \in {All, stored[d].text}
Listing(f) == [d \in {k \in Known : Passes(f, k)} |->
                 [text |-> stored[d].text, picture |-> stored[d].picture]]

\* Calls that change dishes, and the reload that ends their handlers.
Writes   == {"create_dish", "update_dish", "archive_dish"}
Reload(c) == calls[c].op = "dishes" /\ ~ calls[c].arg.effect
Writing  == \E c \in InFlight : calls[c].op \in Writes \/ Reload(c)

EmptyForm == [text |-> NoText, picture |-> NoPicture]
NoForm    == /\ form = EmptyForm /\ uploading = FALSE /\ saving = FALSE
             /\ formError = FALSE /\ subject = NoDish

ClearsForm == /\ form' = EmptyForm /\ uploading' = FALSE /\ saving' = FALSE
              /\ formError' = FALSE /\ subject' = NoDish

\* The page as it appears: its effect loads the list of every dish.
FreshDishPage ==
  /\ filter = All
  /\ dishes = [d \in {} |-> EmptyForm]
  /\ listing = TRUE /\ listError = FALSE
  /\ editing = NoDish /\ sheet = FALSE
  /\ NoForm

DishPageAppears ==
  /\ filter' = All
  /\ dishes' = [d \in {} |-> EmptyForm]
  /\ listing' = TRUE /\ listError' = FALSE
  /\ editing' = NoDish /\ sheet' = FALSE
  /\ ClearsForm

DishInit ==
  /\ \E n \in 0 .. MaxDishes :
       stored \in [1 .. n -> [text : Texts, picture : {NoPicture}, archived : {FALSE}]]
  /\ madeFor = <<>>
  /\ FreshDishPage
  /\ crossed = FALSE /\ muddled = FALSE

-----------------------------------------------------------------------------
(* The server.                                                             *)

ServeDishes(c) ==
  /\ Arrived(c, "dishes")
  /\ Answer(c, "ok", Listing(calls[c].arg.filter))
  /\ UNCHANGED dishVars

Stores(f) ==
  /\ stored' = f
  /\ UNCHANGED <<madeFor, listVars, editing, sheet, formVars, crossed, muddled>>

Written(c) == [text |-> calls[c].arg.text, picture |-> calls[c].arg.picture,
               archived |-> FALSE]

ServeCreateDish(c) ==
  /\ Arrived(c, "create_dish") /\ Known # DishIds
  /\ Stores(Append(stored, Written(c)))
  /\ Answer(c, "ok", Nothing)

\* An archived dish cannot be edited.
ServeUpdateDish(c) ==
  /\ Arrived(c, "update_dish")
  /\ IF stored[calls[c].arg.dish].archived
       THEN Answer(c, "refused", Nothing) /\ UNCHANGED dishVars
       ELSE /\ Stores([stored EXCEPT ![calls[c].arg.dish] = Written(c)])
            /\ Answer(c, "ok", Nothing)

ServeArchiveDish(c) ==
  /\ Arrived(c, "archive_dish")
  /\ Stores([stored EXCEPT ![calls[c].arg.dish].archived = TRUE])
  /\ Answer(c, "ok", Nothing)

\* A picture gets a key of its own.
ServeUpload(c) ==
  /\ Arrived(c, "upload")
  /\ madeFor' = Append(madeFor, calls[c].arg.subject)
  /\ Answer(c, "ok", Len(madeFor) + 1)
  /\ UNCHANGED <<stored, listVars, editing, sheet, formVars, crossed, muddled>>
-----------------------------------------------------------------------------
(* The list.                                                               *)

\* What is on its way while another filter or another write is chosen.
Crosses(on) == crossed' = (crossed \/ on)

\* Faulty: the load for the filter before is not cancelled.
SetFilterOnly(f) ==
  /\ f # filter /\ Room(calls)
  /\ Click(Adding(calls, Call("dishes", [filter |-> f, effect |-> TRUE, form |-> FALSE])))
  /\ filter' = f /\ listing' = TRUE /\ listError' = FALSE
  /\ Crosses(Writing)
  /\ UNCHANGED <<stored, madeFor, dishes, editing, sheet, formVars, muddled>>

\* The effect loads the list for another filter; its last load is cancelled.
SetFilter(f) ==
  LET rest == Abandoning({c \in InFlight : calls[c].op = "dishes" /\ calls[c].arg.effect})
  IN  /\ f # filter /\ Room(rest)
      /\ Click(Adding(rest, Call("dishes", [filter |-> f, effect |-> TRUE, form |-> FALSE])))
      /\ filter' = f /\ listing' = TRUE /\ listError' = FALSE
      /\ Crosses(Writing)
      /\ UNCHANGED <<stored, madeFor, dishes, editing, sheet, formVars, muddled>>

\* The end of a load, and of the handler that awaits it.
Listed(c) ==
  /\ Good(c, "dishes")
  /\ End(c)
  /\ dishes' = calls[c].body /\ listing' = FALSE
  /\ saving' = (saving /\ ~ calls[c].arg.form)
  /\ UNCHANGED <<stored, madeFor, filter, listError, editing, sheet,
                 form, uploading, formError, subject, crossed, muddled>>

ListFails(c) ==
  /\ Throws(c, "dishes")
  /\ listError' = TRUE /\ listing' = FALSE
  /\ saving' = (saving /\ ~ calls[c].arg.form)
  /\ UNCHANGED <<stored, madeFor, filter, dishes, editing, sheet,
                 form, uploading, formError, subject, crossed, muddled>>

\* reload, with the filter of the rendering in which its handler was clicked.
ReloadOf(c, inForm) ==
  Call("dishes", [filter |-> calls[c].arg.filter, effect |-> FALSE, form |-> inForm])
ShowsLoading == listing' = TRUE /\ listError' = FALSE /\ UNCHANGED <<filter, dishes>>

\* The cards, each with two buttons; skeletons while a load is under way.
Cards == IF listing THEN {} ELSE DOMAIN dishes

\* handleArchive; App adds that the button may be disabled.
Archive(d) ==
  /\ d \in Cards
  /\ Send("archive_dish", [dish |-> d, filter |-> filter])
  /\ Crosses(Writing \/ Awaited("dishes"))
  /\ UNCHANGED <<stored, madeFor, listVars, editing, sheet, formVars, muddled>>

Archived(c) ==
  /\ Good(c, "archive_dish")
  /\ calls' = [calls EXCEPT ![c] = ReloadOf(c, FALSE)]
  /\ ShowsLoading
  /\ UNCHANGED <<online, clicks, patient, stored, madeFor, editing, sheet, formVars,
                 crossed, muddled>>

ArchiveFails(c) ==
  /\ Throws(c, "archive_dish")
  /\ listError' = TRUE
  /\ crossed' = (crossed \/ calls[c].answer = "ok")
  /\ UNCHANGED <<stored, madeFor, filter, dishes, listing, editing, sheet, formVars, muddled>>

-----------------------------------------------------------------------------
(* The sheet.                                                              *)

\* The form appears with what d has in the list; if it is there already, it
\* keeps what it holds.
Opens(d) ==
  /\ editing' = d /\ sheet' = TRUE
  /\ IF sheet
       THEN UNCHANGED formVars
       ELSE /\ form' = IF d = NoDish THEN EmptyForm ELSE dishes[d]
            /\ subject' = d
            /\ uploading' = FALSE /\ saving' = FALSE /\ formError' = FALSE
  /\ UNCHANGED <<browser, stored, madeFor, listVars, crossed, muddled>>

OpenCreate  == Opens(NoDish)
OpenEdit(d) == d \in Cards /\ Opens(d)

\* The calls when the form disappears: its upload has nobody left to tell,
\* while the handlers of the page go on.
FormGone ==
  [i \in InFlight |->
     CASE calls[i].op = "upload" -> [calls[i] EXCEPT !.live = FALSE]
       [] calls[i].op \in {"create_dish", "update_dish", "dishes"} ->
            [calls[i] EXCEPT !.arg.form = FALSE]
       [] OTHER -> calls[i]]

\* Faulty: an upload finds the form that is open when it ends.
CloseOnly ==
  /\ sheet
  /\ sheet' = FALSE /\ editing' = NoDish
  /\ ClearsForm
  /\ UNCHANGED <<browser, stored, madeFor, listVars, crossed, muddled>>

\* The cross of the sheet, or the form's button to cancel.
Close ==
  /\ sheet
  /\ sheet' = FALSE /\ editing' = NoDish
  /\ ClearsForm
  /\ calls' = FormGone
  /\ UNCHANGED <<online, clicks, patient, stored, madeFor, listVars, crossed, muddled>>

Fill(t) ==
  /\ sheet /\ t # form.text
  /\ form' = [form EXCEPT !.text = t]
  /\ UNCHANGED <<browser, stored, madeFor, listVars, editing, sheet,
                 uploading, saving, formError, subject, crossed, muddled>>

\* handleSubmit of the form, with something missing in it.
SaveIncomplete ==
  /\ sheet /\ ~ saving /\ form.text = NoText
  /\ formError' = TRUE
  /\ UNCHANGED <<browser, stored, madeFor, listVars, editing, sheet, form, uploading,
                 saving, subject, crossed, muddled>>

\* handleSubmit of the form with handleUpdate or handleCreate of the page.
Save ==
  /\ sheet /\ ~ saving /\ form.text # NoText
  /\ Send(IF editing = NoDish THEN "create_dish" ELSE "update_dish",
          [dish |-> editing, text |-> form.text, picture |-> form.picture,
           filter |-> filter, form |-> TRUE])
  /\ saving' = TRUE /\ formError' = FALSE
  /\ Crosses(Writing \/ Awaited("dishes"))
  /\ muddled' = (muddled \/ subject # editing)
  /\ UNCHANGED <<stored, madeFor, listVars, editing, sheet, form, uploading, subject>>

\* handleCreate: whatever is in the sheet by now is closed with it.
Created(c) ==
  /\ Good(c, "create_dish")
  /\ calls' = [FormGone EXCEPT ![c] = ReloadOf(c, FALSE)]
  /\ sheet' = FALSE
  /\ ClearsForm
  /\ ShowsLoading
  /\ UNCHANGED <<online, clicks, patient, stored, madeFor, editing, crossed, muddled>>

\* handleUpdate: the sheet stays, as one for a new dish.
Updated(c) ==
  /\ Good(c, "update_dish")
  /\ calls' = [calls EXCEPT ![c] = ReloadOf(c, calls[c].arg.form)]
  /\ editing' = NoDish
  /\ ShowsLoading
  /\ UNCHANGED <<online, clicks, patient, stored, madeFor, sheet, formVars, crossed, muddled>>

SaveFails(c) ==
  /\ Throws(c, "create_dish") \/ Throws(c, "update_dish")
  /\ formError' = (formError \/ calls[c].arg.form)
  /\ saving' = (saving /\ ~ calls[c].arg.form)
  /\ crossed' = (crossed \/ calls[c].answer = "ok")
  /\ muddled' = (muddled \/ calls[c].answer = "ok")
  /\ UNCHANGED <<stored, madeFor, listVars, editing, sheet, form, uploading, subject>>

-----------------------------------------------------------------------------
(* The picture.                                                            *)

PictureUsable == sheet /\ ~ saving /\ ~ uploading

\* handleFileChange: the file is compressed and uploaded.
PickFile ==
  /\ PictureUsable
  /\ Send("upload", [subject |-> subject, picture |-> form.picture])
  /\ uploading' = TRUE
  /\ UNCHANGED <<stored, madeFor, listVars, editing, sheet, form, saving, formError,
                 subject, crossed, muddled>>

Uploaded(c) ==
  /\ Good(c, "upload")
  /\ End(c)
  /\ form' = [form EXCEPT !.picture = calls[c].body] /\ uploading' = FALSE
  /\ UNCHANGED <<stored, madeFor, listVars, editing, sheet, saving, formError,
                 subject, crossed, muddled>>

\* The picture of before stays: also when the file is refused unsent, for its
\* size or because it could not be compressed.
UploadFails(c) ==
  /\ Throws(c, "upload")
  /\ form' = [form EXCEPT !.picture = calls[c].arg.picture] /\ uploading' = FALSE
  /\ UNCHANGED <<stored, madeFor, listVars, editing, sheet, saving, formError,
                 subject, crossed, muddled>>

ClearImage ==
  /\ PictureUsable /\ form.picture # NoPicture
  /\ form' = [form EXCEPT !.picture = NoPicture]
  /\ UNCHANGED <<browser, stored, madeFor, listVars, editing, sheet, uploading, saving,
                 formError, subject, crossed, muddled>>

-----------------------------------------------------------------------------
(* The page on its own.                                                    *)

DishServer(c) ==
  \/ ServeDishes(c) \/ ServeCreateDish(c) \/ ServeUpdateDish(c)
  \/ ServeArchiveDish(c) \/ ServeUpload(c)

DishHandlers(c) ==
  \/ Listed(c) \/ ListFails(c) \/ Archived(c) \/ ArchiveFails(c)
  \/ Created(c) \/ Updated(c) \/ SaveFails(c) \/ Uploaded(c) \/ UploadFails(c)

DishClicks ==
  \/ \E f \in Categories \cup {All} : SetFilter(f)
  \/ \E d \in Known : OpenEdit(d)
  \/ \E t \in Texts : Fill(t)
  \/ OpenCreate \/ Close \/ SaveIncomplete \/ Save \/ PickFile \/ ClearImage

-----------------------------------------------------------------------------
(* Properties.                                                             *)

Dishes == [text : Texts, picture : Nat, archived : BOOLEAN]

\* Every variable has its type.
DishTypeOK ==
  /\ stored \in Seq(Dishes) /\ Len(stored) <= MaxDishes
  /\ madeFor \in Seq(DishIds \cup {NoDish})
  /\ filter \in Categories \cup {All}
  /\ DOMAIN dishes \subseteq Known
  /\ \A d \in DOMAIN dishes : dishes[d] \in [text : Texts, picture : Nat]
  /\ listing \in BOOLEAN /\ listError \in BOOLEAN /\ sheet \in BOOLEAN
  /\ editing \in Known \cup {NoDish} /\ subject \in Known \cup {NoDish}
  /\ form \in [text : Texts \cup {NoText}, picture : Nat]
  /\ uploading \in BOOLEAN /\ saving \in BOOLEAN /\ formError \in BOOLEAN
  /\ crossed \in BOOLEAN /\ muddled \in BOOLEAN

\* Skeletons have a load to wait for, the buttons of the picture an upload, and
\* those of the form a save, or the reload that ends it.
DishNotStuck ==
  /\ listing => Awaited("dishes")
  /\ uploading => Awaited("upload")
  /\ saving => \E c \in InFlight : /\ calls[c].op \in {"create_dish", "update_dish", "dishes"}
                                   /\ calls[c].arg.form

\* A list at rest is the server's list for the filter that is chosen, however
\* fast the filters were chosen one after the other.
ListSettles ==
  ~ crossed /\ ~ listing /\ ~ listError /\ ~ Writing /\ ~ Awaited("dishes") =>
    dishes = Listing(filter)

\* A dish has a picture from its own form, and no two dishes have the same one.
PicturesApart ==
  ~ muddled =>
    \A d \in Known : stored[d].picture # NoPicture =>
      /\ madeFor[stored[d].picture] \in {d, NoDish}
      /\ \A e \in Known \ {d} : stored[e].picture # stored[d].picture
=============================================================================
