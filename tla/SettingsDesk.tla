---------------------------- MODULE SettingsDesk ----------------------------
(***************************************************************************)
(* The pages that edit one stored row as a whole: a system setting, a      *)
(* coupon, a template, a role, an identity provider, a webhook, a          *)
(* portfolio, the person's own preferences.                                *)
(*                                                                         *)
(* Several desks (windows of one or of several people) show a page of the  *)
(* same row, and others write it too.  A page shows what its last answered *)
(* load read; a form starts from there, the person changes some fields,    *)
(* and a save writes the whole row.  Settings carry the version that was   *)
(* read and the server compares it; the other rows carry none.  The        *)
(* handler reads and writes in two statements without a transaction.       *)
(*                                                                         *)
(* log is every value the row has had; its length is the version.  Every   *)
(* edit writes a number never used before.  Edits bounds the edits, Saves  *)
(* the requests that write, Loads the loads of one desk under way.         *)
(***************************************************************************)
EXTENDS Integers, Sequences, FiniteSets

CONSTANTS Desks, Edits, Saves, Loads

ASSUME SettingsAssumption == {Edits, Saves, Loads} \subseteq Nat

Fields == {"hosts", "rest"}     \* what allow writes, and everything else

\* The pages each row can be edited on.
Surfaces == [mail     |-> {"mail", "settings"},  tracking   |-> {"tracking", "settings"},
             callback |-> {"auth", "settings"},  provider   |-> {"providers"},
             coupon   |-> {"coupons"},           template   |-> {"templates"},
             role     |-> {"roles"},             webhook    |-> {"webhooks"},
             work     |-> {"portfolio"},         preference |-> {"preferences"}]

Inline    == {"mail", "tracking", "auth", "preferences"}  \* the form is on the page
Versioned == {"mail", "tracking", "auth", "settings"}     \* the save names a version
Guarded   == {"mail", "tracking", "preferences"}          \* no second save meanwhile

NoForm == [read |-> 0]

VARIABLES
  what,     \* which row this is about
  surface,  \* the page each desk has open
  log,      \* the values the row has had
  due,      \* loads the server has not read yet
  answers,  \* versions on their way back
  items,    \* version the page shows, 0 before its first load
  form,     \* NoForm, or a value, the version it started from, touched fields;
            \* on the pages that edit in a dialog NoForm is a closed dialog
  saving,
  puts,     \* saves on their way
  allows,   \* version the server's allow handler has read and not written yet
  edits, saves

shelf == <<what, surface>>
sight == <<due, answers, items>>
desks == <<shelf, log, sight, form, saving, puts, allows, edits, saves>>

Current == log[Len(log)]

DeskInit ==
  /\ what \in DOMAIN Surfaces
  /\ surface \in [Desks -> Surfaces[what]]
  /\ log = <<[f \in Fields |-> 0]>>
  /\ due = [d \in Desks |-> TRUE]
  /\ answers = [d \in Desks |-> {}]
  /\ items = [d \in Desks |-> 0]
  /\ form = [d \in Desks |-> NoForm]
  /\ saving = [d \in Desks |-> FALSE]
  /\ puts = {}
  /\ allows = [d \in Desks |-> 0]
  /\ edits = 0 /\ saves = 0

(***************************************************************************)
(* Loading: on the mount, after a save, and on the page's own buttons.     *)
(***************************************************************************)
refresh(d) ==
  /\ ~due[d] /\ surface[d] # "preferences"
  /\ due' = [due EXCEPT ![d] = TRUE]
  /\ UNCHANGED <<shelf, log, answers, items, form, saving, puts, allows, edits, saves>>

listSettings(d) ==
  /\ due[d] /\ Cardinality(answers[d]) < Loads
  /\ due' = [due EXCEPT ![d] = FALSE]
  /\ answers' = [answers EXCEPT ![d] = @ \cup {Len(log)}]
  /\ UNCHANGED <<shelf, log, items, form, saving, puts, allows, edits, saves>>

\* The value and the version it is of.
FormOf(v) == [value |-> log[v], read |-> v, touched |-> {}]

\* An inline form is replaced together with its version, drafts included.
Listed(d, v) ==
  /\ v \in answers[d]
  /\ answers' = [answers EXCEPT ![d] = @ \ {v}]
  /\ items' = [items EXCEPT ![d] = v]
  /\ form' = IF surface[d] \in Inline THEN [form EXCEPT ![d] = FormOf(v)] ELSE form
  /\ saving' \in {saving, [saving EXCEPT ![d] = FALSE]}
  /\ (\E p \in puts : p.desk = d) => saving' = saving
  /\ UNCHANGED <<shelf, log, due, puts, allows, edits, saves>>

NotListed(d, v) ==
  /\ v \in answers[d]
  /\ answers' = [answers EXCEPT ![d] = @ \ {v}]
  /\ saving' = IF \E p \in puts : p.desk = d THEN saving ELSE [saving EXCEPT ![d] = FALSE]
  /\ UNCHANGED <<shelf, log, due, items, form, puts, allows, edits, saves>>

(***************************************************************************)
(* What the pages are made of.                                             *)
(***************************************************************************)
\* The dialog starts from what the list shows, its version with it.
edit(d) ==
  /\ items[d] # 0 /\ form[d] = NoForm
  /\ form' = [form EXCEPT ![d] = FormOf(items[d])]
  /\ UNCHANGED <<shelf, log, sight, saving, puts, allows, edits, saves>>

close(d) ==
  /\ form[d] # NoForm
  /\ form' = [form EXCEPT ![d] = NoForm]
  /\ UNCHANGED <<shelf, log, sight, saving, puts, allows, edits, saves>>

touch(d, fields) == \E f \in fields :
  /\ form[d] # NoForm /\ edits < Edits
  /\ edits' = edits + 1
  /\ form' = [form EXCEPT ![d].value[f] = edits + 1, ![d].touched = @ \cup {f}]
  /\ UNCHANGED <<shelf, log, sight, saving, puts, allows, saves>>

\* A plausible bug: the version is the one the list shows by now.
MutSend(d, f) ==
  /\ saves < Saves /\ saves' = saves + 1
  /\ puts' = puts \cup {[desk |-> d, value |-> f.value, touched |-> f.touched, read |-> f.read,
                         sent |-> IF surface[d] \in Versioned THEN items[d] ELSE 0,
                         stage |-> "sent"]}

\* The whole row goes out, with the version of the form, or with none.
Send(d, f) ==
  /\ saves < Saves /\ saves' = saves + 1
  /\ puts' = puts \cup {[desk |-> d, value |-> f.value, touched |-> f.touched, read |-> f.read,
                         sent |-> IF surface[d] \in Versioned THEN f.read ELSE 0,
                         stage |-> "sent"]}

submit(d) ==
  /\ form[d] # NoForm /\ ~saving[d]
  /\ Send(d, form[d])
  /\ saving' = [saving EXCEPT ![d] = surface[d] \in Guarded]
  /\ UNCHANGED <<shelf, log, sight, form, allows, edits>>

\* A switch in the list writes the whole row as the list shows it.
toggle(d) ==
  /\ items[d] # 0 /\ edits < Edits
  /\ edits' = edits + 1
  /\ Send(d, [FormOf(items[d]) EXCEPT !.value["rest"] = edits + 1, !.touched = {"rest"}])
  /\ UNCHANGED <<shelf, log, sight, form, saving, allows>>

\* Stopping a coupon writes one column in one statement.
stop(d) ==
  /\ items[d] # 0 /\ edits < Edits /\ saves < Saves
  /\ edits' = edits + 1 /\ saves' = saves + 1
  /\ log' = Append(log, [Current EXCEPT !["rest"] = edits + 1])
  /\ due' = [due EXCEPT ![d] = TRUE]
  /\ UNCHANGED <<shelf, answers, items, form, saving, puts, allows>>

\* allow adds one host on the server: it reads the row ...
allow(d) ==
  /\ allows[d] = 0 /\ saves < Saves /\ saves' = saves + 1
  /\ allows' = [allows EXCEPT ![d] = Len(log)]
  /\ UNCHANGED <<shelf, log, sight, form, saving, puts, edits>>

\* ... and writes all of it, whatever was written in between.
AllowWritten(d) ==
  /\ allows[d] # 0 /\ edits < Edits
  /\ edits' = edits + 1
  /\ log' = Append(log, [log[allows[d]] EXCEPT !["hosts"] = edits + 1])
  /\ allows' = [allows EXCEPT ![d] = 0]
  /\ due' = [due EXCEPT ![d] = TRUE]
  /\ UNCHANGED <<shelf, answers, items, form, saving, puts, saves>>

(***************************************************************************)
(* The pages: what each one lets a person do.                              *)
(***************************************************************************)
InDialog(d) == edit(d) \/ close(d) \/ touch(d, Fields) \/ submit(d)

MailAdmin(d)     == surface[d] = "mail" /\ (touch(d, Fields) \/ submit(d) \/ refresh(d))
TrackingAdmin(d) == /\ surface[d] = "tracking"
                    /\ touch(d, Fields) \/ submit(d) \/ refresh(d) \/ allow(d)
SettingsAdmin(d) == surface[d] = "settings" /\ InDialog(d)
CallbackBase(d)  == surface[d] = "auth" /\ (touch(d, {"hosts"}) \/ submit(d) \/ refresh(d))
AuthAdmin(d)     == surface[d] = "providers" /\ (InDialog(d) \/ toggle(d))
CouponsAdmin(d)  == surface[d] = "coupons" /\ (InDialog(d) \/ stop(d))
EventsAdmin(d)   == surface[d] = "templates" /\ (InDialog(d) \/ refresh(d))
RolesAdmin(d)    == surface[d] = "roles" /\ InDialog(d)
WebhookManager(d)   == surface[d] = "webhooks" /\ (InDialog(d) \/ refresh(d))
PortfolioManager(d) == surface[d] = "portfolio" /\ InDialog(d)
NotificationPreferences(d) == surface[d] = "preferences" /\ (touch(d, Fields) \/ submit(d))

(***************************************************************************)
(* The server: the version is compared before the write, not by it.        *)
(***************************************************************************)
Restage(p, stage) == puts' = (puts \ {p}) \cup {[p EXCEPT !.stage = stage]}

PutChecked(p) ==
  /\ p.stage = "sent"
  /\ IF p.sent # 0 /\ p.sent # Len(log) THEN Restage(p, "refused")
     ELSE Restage(p, "checked") \/ Restage(p, "refused")   \* for what the value says
  /\ UNCHANGED <<shelf, log, sight, form, saving, allows, edits, saves>>

PutWritten(p) ==
  /\ p.stage = "checked"
  /\ log' = Append(log, p.value)
  /\ Restage(p, "written")
  /\ UNCHANGED <<shelf, sight, form, saving, allows, edits, saves>>

\* A save that went through closes the dialog and loads again; one that did not
\* leaves the form as it is.
PutAnswered(p) ==
  /\ p.stage \in {"written", "refused"}
  /\ puts' = puts \ {p}
  /\ LET d == p.desk IN
       IF p.stage = "written" /\ surface[d] # "preferences"
       THEN /\ due' = [due EXCEPT ![d] = TRUE]
            /\ form' = IF surface[d] \in Inline THEN form ELSE [form EXCEPT ![d] = NoForm]
            /\ UNCHANGED saving
       ELSE saving' = [saving EXCEPT ![d] = FALSE] /\ UNCHANGED <<due, form>>
  /\ UNCHANGED <<shelf, log, answers, items, allows, edits, saves>>

\* A window that is not among the desks, in one step.
OthersWrite == \E f \in Fields :
  /\ edits < Edits
  /\ edits' = edits + 1
  /\ log' = Append(log, [Current EXCEPT ![f] = edits + 1])
  /\ UNCHANGED <<shelf, sight, form, saving, puts, allows, saves>>

DeskPages(d) == \/ MailAdmin(d) \/ TrackingAdmin(d) \/ SettingsAdmin(d) \/ CallbackBase(d)
                \/ AuthAdmin(d) \/ CouponsAdmin(d) \/ EventsAdmin(d) \/ RolesAdmin(d)
                \/ WebhookManager(d) \/ PortfolioManager(d) \/ NotificationPreferences(d)

DeskNext ==
  \/ \E d \in Desks : DeskPages(d) \/ listSettings(d) \/ AllowWritten(d)
  \/ \E d \in Desks : \E v \in answers[d] : Listed(d, v) \/ NotListed(d, v)
  \/ OthersWrite
  \/ \E p \in puts : PutChecked(p) \/ PutWritten(p) \/ PutAnswered(p)

Desk == DeskInit /\ [][DeskNext]_desks

-----------------------------------------------------------------------------
(* A save names the version its form was filled from and carries that      *)
(* version's value in every field the person did not touch, however often  *)
(* the page behind the form has loaded since: what a conflict check on     *)
(* that version is worth depends on the two never coming apart.            *)
TouchedOnly ==
  \A p \in puts : /\ p.sent \in {0, p.read}
                  /\ \A f \in Fields \ p.touched : p.value[f] = log[p.read][f]

(* "Another administrator changed the setting; reload and try again"       *)
(* (admin.go), and adding a host "goes through the same versioned, audited *)
(* path as any other setting change" (analytics.go): no write to a setting *)
(* puts back a value that a later edit had replaced.                       *)
NoLostEdit ==
  [][\A f \in Fields : what \in {"mail", "tracking", "callback"}
                         => log'[Len(log')][f] >= log[Len(log)][f]
    ]_desks
=============================================================================
