------------------------------ MODULE CaseDesk ------------------------------
(***************************************************************************)
(* The operator's queues: disputes, reports and approvals.  One operator's *)
(* window, with the server and another operator.                           *)
(*                                                                         *)
(* A queue lists the undecided cases as of its last answered load.  Opening*)
(* one asks the server for the case file, the evidence behind it; answers  *)
(* come in any order and are shown whatever is open by then.  Disputes and *)
(* reports are decided in a dialog that opens at once; the approval dialog *)
(* is opened by the answer, and the list decides approvals without it.     *)
(*                                                                         *)
(* A listing that waits for its approval can still be edited: subject      *)
(* counts its versions.  (What a dispute or a report is about changes too, *)
(* but no property here depends on that.)                                  *)
(*                                                                         *)
(* Opens bounds how often a case is opened, Rewrites the versions of one   *)
(* subject, Decisions the decisions sent from this window.                 *)
(***************************************************************************)
EXTENDS Integers, FiniteSets

CONSTANTS Cases, Opens, Rewrites, Decisions

ASSUME CaseAssumption == {Opens, Rewrites, Decisions} \subseteq Nat

CONSTANT NoCase

ASSUME NoCaseAssumption == NoCase \notin Cases

Queues  == {"disputes", "reports", "approvals"}
NoFile  == [case |-> NoCase]
Pending == [by |-> 0]      \* the verdict on an undecided case

VARIABLES
  queue,     \* which of the pages this is
  subject,   \* version of the listing each approval is about
  verdict,   \* Pending, or by whom, on which version, and what they had read
  rows,      \* cases the list offers to decide
  rowsAsked, \* a load of the list the server has not read
  rowsBack,  \* what a load read, on its way
  target,    \* the case the dispute or report dialog is open on
  caseFile,  \* NoFile, or the file that is shown: its case and version
  filesAsked, filesBack,
  posts,     \* decisions on their way
  deciding,  \* busy
  opens, decisions

cases == <<queue, subject, verdict, rows, rowsAsked, rowsBack, target, caseFile,
           filesAsked, filesBack, posts, deciding, opens, decisions>>
listing  == <<rows, rowsAsked, rowsBack>>
evidence == <<filesAsked, filesBack>>
truth    == <<queue, subject, verdict>>

Undecided == {c \in Cases : verdict[c] = Pending}

CaseInit ==
  /\ queue \in Queues
  /\ subject = [c \in Cases |-> 0]
  /\ verdict = [c \in Cases |-> Pending]
  /\ rows = {} /\ rowsAsked = TRUE /\ rowsBack = {}
  /\ target = NoCase /\ caseFile = NoFile
  /\ filesAsked = {} /\ filesBack = {}
  /\ posts = {} /\ deciding = FALSE
  /\ opens = 0 /\ decisions = 0

DialogOpen == IF queue = "approvals" THEN caseFile # NoFile ELSE target # NoCase

(***************************************************************************)
(* The list: asked for on the mount, when the filter changes, and after a  *)
(* decision.  An answer replaces the rows.                                 *)
(***************************************************************************)
listCases ==
  /\ rowsAsked
  /\ rowsAsked' = FALSE
  /\ rowsBack' = rowsBack \cup {Undecided}
  /\ UNCHANGED <<truth, rows, target, caseFile, evidence, posts, deciding, opens, decisions>>

RowsAnswered(a) ==
  /\ a \in rowsBack
  /\ rowsBack' = rowsBack \ {a}
  /\ rows' \in {a, rows}                   \* an error leaves what was there
  /\ UNCHANGED <<truth, rowsAsked, target, caseFile, evidence, posts, deciding, opens, decisions>>

setState ==
  /\ queue # "approvals" /\ ~DialogOpen /\ ~rowsAsked
  /\ rowsAsked' = TRUE
  /\ UNCHANGED <<truth, rows, rowsBack, target, caseFile, evidence, posts, deciding, opens, decisions>>

(***************************************************************************)
(* The case file.                                                          *)
(***************************************************************************)
openCase(c) ==
  /\ c \in rows /\ ~DialogOpen /\ opens < Opens
  /\ opens' = opens + 1
  /\ target' = IF queue = "approvals" THEN NoCase ELSE c
  /\ caseFile' = NoFile
  /\ filesAsked' = filesAsked \cup {c}
  /\ UNCHANGED <<truth, listing, filesBack, posts, deciding, decisions>>

getCase(c) ==
  /\ c \in filesAsked
  /\ filesAsked' = filesAsked \ {c}
  /\ filesBack' = filesBack \cup {[case |-> c, version |-> subject[c],
                                   pending |-> c \in Undecided]}
  /\ UNCHANGED <<truth, listing, target, caseFile, posts, deciding, opens, decisions>>

\* Shown whatever the dialog is open on; for approvals it opens the dialog.
FileAnswered(f) ==
  /\ f \in filesBack
  /\ filesBack' = filesBack \ {f}
  /\ caseFile' \in {f, caseFile}
  /\ UNCHANGED <<truth, listing, target, filesAsked, posts, deciding, opens, decisions>>

closeCase ==
  /\ DialogOpen
  /\ target' = NoCase
  /\ caseFile' = IF queue = "approvals" THEN NoFile ELSE caseFile
  /\ UNCHANGED <<truth, listing, evidence, posts, deciding, opens, decisions>>

(***************************************************************************)
(* Deciding.                                                               *)
(***************************************************************************)
SendDecision(c, file) ==
  /\ decisions < Decisions
  /\ decisions' = decisions + 1
  /\ posts' = posts \cup {[id |-> decisions + 1, case |-> c, read |-> file, stage |-> "sent"]}

resolve ==
  /\ target # NoCase /\ ~deciding
  /\ SendDecision(target, caseFile)
  /\ deciding' = TRUE
  /\ UNCHANGED <<truth, listing, target, caseFile, evidence, opens>>

\* From the approval dialog: it closes, and the decision follows.
decideReviewed ==
  /\ queue = "approvals" /\ caseFile # NoFile /\ caseFile.pending
  /\ SendDecision(caseFile.case, caseFile)
  /\ caseFile' = NoFile
  /\ UNCHANGED <<truth, listing, target, evidence, deciding, opens>>

\* From the approval list: nothing has been read, and nothing waits for the
\* answer before the button can be pressed again.
decide(c) ==
  /\ queue = "approvals" /\ c \in rows /\ ~DialogOpen
  /\ SendDecision(c, NoFile)
  /\ UNCHANGED <<truth, listing, target, caseFile, evidence, deciding, opens>>

Staged(p, stage) == posts' = (posts \ {p}) \cup {[p EXCEPT !.stage = stage]}

\* A plausible bug: the row is locked and not asked whether it is undecided.
MutDecisionServed(p) ==
  /\ p.stage = "sent"
  /\ verdict' = [verdict EXCEPT ![p.case] =
                   [by |-> p.id, version |-> subject[p.case], read |-> p.read]]
  /\ Staged(p, "done")
  /\ UNCHANGED <<queue, subject, listing, target, caseFile, evidence, deciding, opens, decisions>>

\* One transaction that locks the row and asks whether it is still undecided.
DecisionServed(p) ==
  /\ p.stage = "sent"
  /\ \/ /\ verdict[p.case] = Pending
        /\ verdict' = [verdict EXCEPT ![p.case] =
                         [by |-> p.id, version |-> subject[p.case], read |-> p.read]]
        /\ Staged(p, "done")
     \/ Staged(p, "refused") /\ UNCHANGED verdict     \* decided, or not applicable
  /\ UNCHANGED <<queue, subject, listing, target, caseFile, evidence, deciding, opens, decisions>>

\* The answer closes whatever the dialog is open on and loads the list again;
\* an error, or an answer that is lost, leaves both alone.
DecisionAnswered(p) ==
  /\ p.stage \in {"done", "refused"}
  /\ posts' = posts \ {p}
  /\ deciding' = FALSE
  /\ \/ p.stage = "done" /\ rowsAsked' = TRUE /\ target' = NoCase
     \/ UNCHANGED <<rowsAsked, target>>
  /\ UNCHANGED <<truth, rows, rowsBack, caseFile, evidence, opens, decisions>>

(***************************************************************************)
(* Everyone else.                                                          *)
(***************************************************************************)
OtherDecides(c) ==
  /\ verdict[c] = Pending
  /\ verdict' = [verdict EXCEPT ![c] = [by |-> -1, version |-> subject[c], read |-> NoFile]]
  /\ UNCHANGED <<queue, subject, listing, target, caseFile, evidence, posts, deciding, opens, decisions>>

\* A listing that waits for its review is saved like a draft: no new request.
SubjectChanges(c) ==
  /\ queue = "approvals" /\ subject[c] < Rewrites
  /\ subject' = [subject EXCEPT ![c] = @ + 1]
  /\ UNCHANGED <<queue, verdict, listing, target, caseFile, evidence, posts, deciding, opens, decisions>>

(***************************************************************************)
(* The pages.                                                              *)
(***************************************************************************)
InQueue == (\E c \in Cases : openCase(c)) \/ closeCase \/ setState \/ resolve

DisputeQueue  == queue = "disputes" /\ InQueue
ReportQueue   == queue = "reports" /\ InQueue
ApprovalAdmin == /\ queue = "approvals"
                 /\ (\E c \in Cases : openCase(c) \/ decide(c)) \/ closeCase \/ decideReviewed

CaseNext == \/ DisputeQueue \/ ReportQueue \/ ApprovalAdmin
            \/ listCases \/ \E a \in rowsBack : RowsAnswered(a)
            \/ \E c \in Cases : getCase(c) \/ OtherDecides(c) \/ SubjectChanges(c)
            \/ \E f \in filesBack : FileAnswered(f)
            \/ \E p \in posts : DecisionServed(p) \/ DecisionAnswered(p)

CaseWork == CaseInit /\ [][CaseNext]_cases

-----------------------------------------------------------------------------
(* An operator whose decision was accepted is the one whose decision stands *)
(* on that case, although the list offers cases others have decided since,  *)
(* the approval buttons can be pressed twice and answers come late: two     *)
(* decisions on one case are never both accepted (approvals.go, reports.go  *)
(* and disputes.go take the row's lock and look at its state first).        *)
ToldIsDone ==
  \A p \in posts : p.stage = "done" => verdict[p.case].by = p.id

(* "The evidence belongs in the moment of decision, not on a screen the     *)
(* operator has to remember to open first" (DisputeQueue.tsx): the evidence *)
(* shown when a dispute or a report is decided is of the case it decides.   *)
EvidenceIsOfTarget ==
  queue # "approvals" => \A p \in posts : p.read.case \in {NoCase, p.case}

(* "Approving publishes this content as it is" (the note at the top of the  *)
(* approval dialog): what a decision made there applies to is the version   *)
(* the dialog showed.                                                       *)
ApprovedAsRead ==
  queue = "approvals" =>
    \A c \in Cases \ Undecided :
       verdict[c].read # NoFile => verdict[c].version = verdict[c].read.version
=============================================================================
