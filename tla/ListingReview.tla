---------------------------- MODULE ListingReview ----------------------------
(***************************************************************************)
(* One listing between its seller, the approval policies and the operators.*)
(*                                                                         *)
(* A listing goes on sale through an approval when the conditions of an    *)
(* enabled policy cover its content, and at once when none do.  An edit of *)
(* a listing on sale is saved first and sent to the queue by a second      *)
(* transaction.  A seller takes a listing off sale and puts it back; a     *)
(* report that is upheld takes it off; an operator sets its status at will.*)
(*                                                                         *)
(* content is the version of the fields a reviewer judges; judged collects *)
(* the versions that somebody who may decide has let out: an approval, an  *)
(* operator, or the absence of a policy for them.                          *)
(*                                                                         *)
(* Drafts are the versions there may be, Queued bounds the requests that   *)
(* wait, PolicyTurns the changes of the policies.                          *)
(***************************************************************************)
EXTENDS Integers, FiniteSets

CONSTANTS Drafts, Queued, PolicyTurns

ASSUME ListingAssumption == Drafts \in Nat /\ Queued \in Nat /\ PolicyTurns \in Nat

Contents == 0..Drafts

VARIABLES
  status, content, judged,
  covers,   \* versions that meet the conditions of an enabled policy
  waiting,  \* approval requests that are pending
  reported, \* a report about the listing is open
  hidden,   \* a report has taken off sale what nobody had ever let out
  offered,  \* the status the seller's page shows
  console,  \* the status the operator's page shows
  update,   \* NoUpdate, or a save on the server: the status it read and
            \* whether it has been written
  move,     \* NoMove, or a status change that has passed its test
  turns

sale    == <<status, content, judged, covers, waiting, reported, hidden, offered, console,
             update, move, turns>>
reports == <<reported, hidden>>
desk    == <<offered, console, update, move>>
policy  == <<covers, turns>>

NoUpdate == [stage |-> "none"]
NoMove   == "none"
OnSale   == {"published", "paused"}

SaleInit ==
  /\ status = "draft" /\ content = 0 /\ judged = {}
  /\ covers \in SUBSET Contents
  /\ waiting = 0 /\ reported = FALSE /\ hidden = FALSE
  /\ offered = "draft" /\ console = "draft" /\ update = NoUpdate /\ move = NoMove
  /\ turns = 0

(***************************************************************************)
(* Whether a version needs an approval, and what follows.                  *)
(***************************************************************************)
matchingApprovalPolicy(v) == v \in covers

Requeue == /\ waiting < Queued
           /\ waiting' = waiting + 1
           /\ status' = "review_pending"
           /\ UNCHANGED judged

publishTalent ==
  /\ status # "published"
  /\ \/ matchingApprovalPolicy(content) /\ Requeue
     \/ /\ ~matchingApprovalPolicy(content)
        /\ status' = "published" /\ judged' = judged \cup {content}
        /\ UNCHANGED waiting
  /\ UNCHANGED <<content, policy, reports, desk>>

(***************************************************************************)
(* An edit: the status is read, the listing is written, and what was read  *)
(* decides whether it goes back to the queue.                              *)
(***************************************************************************)
updateTalent ==
  /\ update = NoUpdate /\ content < Drafts
  /\ update' = [stage |-> "read", saw |-> status]
  /\ UNCHANGED <<status, content, judged, policy, waiting, reports, offered, console, move>>

saveTalent ==
  /\ update.stage = "read"
  /\ content' = content + 1
  /\ update' = IF update.saw = "published" THEN [update EXCEPT !.stage = "saved"] ELSE NoUpdate
  /\ UNCHANGED <<status, judged, policy, waiting, reports, offered, console, move>>

requeueForReview ==
  /\ update.stage = "saved"
  /\ update' = NoUpdate
  /\ \/ matchingApprovalPolicy(content) /\ Requeue
     \/ /\ ~matchingApprovalPolicy(content)
        /\ judged' = judged \cup {content}
        /\ UNCHANGED <<status, waiting>>
     \/ UNCHANGED <<status, judged, waiting>>      \* it failed: the edit stays
  /\ UNCHANGED <<content, policy, reports, offered, console, move>>

(***************************************************************************)
(* The seller's own control: one statement tests, another writes.          *)
(***************************************************************************)
\* A plausible bug: what was archived may be published at once.
MutAllowed(to) == CASE to = "published" -> {"paused", "archived"}
                    [] to = "paused"    -> {"published"}
                    [] to = "draft"     -> {"archived"}
                    [] to = "archived"  -> {"published", "paused", "draft"}

Allowed(to) == CASE to = "published" -> {"paused"}
                 [] to = "paused"    -> {"published"}
                 [] to = "draft"     -> {"archived"}
                 [] to = "archived"  -> {"published", "paused", "draft"}

setMyTalentStatus(to) ==
  /\ move = NoMove /\ status \in Allowed(to)
  /\ move' = to
  /\ UNCHANGED <<status, content, judged, policy, waiting, reports, offered, console, update>>

StatusWritten ==
  /\ move # NoMove
  /\ status' = move /\ move' = NoMove
  /\ UNCHANGED <<content, judged, policy, waiting, reports, offered, console, update>>

\* What the page offers goes by the status it last loaded.
Reload == /\ offered # status
          /\ offered' = status
          /\ UNCHANGED <<status, content, judged, policy, waiting, reports, console, update, move>>

SellerProfile ==
  \/ offered \in {"draft", "rejected"} /\ publishTalent
  \/ updateTalent
  \/ offered = "published" /\ setMyTalentStatus("paused")
  \/ offered = "paused"    /\ setMyTalentStatus("published")
  \/ offered = "draft"     /\ setMyTalentStatus("archived")
  \/ offered = "archived"  /\ setMyTalentStatus("draft")
  \/ Reload

\* An API key with talents.write reaches the same handlers without the page.
SellerProgram == publishTalent \/ \E to \in {"published", "paused", "draft", "archived"} :
                                    setMyTalentStatus(to)

(***************************************************************************)
(* The operators.                                                          *)
(***************************************************************************)
\* The decision is on a request; whatever the listing is by then becomes
\* published or rejected.
decideApproval ==
  /\ waiting > 0 /\ waiting' = waiting - 1
  /\ \/ status' = "published" /\ judged' = judged \cup {content}
     \/ status' = "rejected" /\ UNCHANGED judged
  /\ UNCHANGED <<content, policy, reports, desk>>

\* Enabled, disabled, added, removed or given other conditions.
setPolicies ==
  /\ turns < PolicyTurns /\ turns' = turns + 1
  /\ covers' \in SUBSET Contents
  /\ UNCHANGED <<status, content, judged, waiting, reports, desk>>

\* The server takes any status from any; the page offers by what it shows.
setTalentStatus(to) ==
  /\ status' = to
  /\ judged' = IF to = "published" THEN judged \cup {content} ELSE judged
  /\ UNCHANGED <<content, policy, waiting, reports, desk>>

TalentsAdmin ==
  \/ console = "published" /\ setTalentStatus("paused")
  \/ \E to \in {"published", "archived"} : console = "paused" /\ setTalentStatus(to)
  \/ /\ console # status /\ console' = status
     /\ UNCHANGED <<status, content, judged, policy, waiting, reports, offered, update, move>>

\* Anybody signed in may report a listing, whatever its status.
createReport ==
  /\ ~reported /\ reported' = TRUE
  /\ UNCHANGED <<status, content, judged, policy, waiting, hidden, desk>>

\* An upheld report pauses whatever the listing is by then, unless archived.
resolveReport ==
  /\ reported /\ reported' = FALSE
  /\ \/ UNCHANGED <<status, hidden>>
     \/ /\ status # "archived" /\ status' = "paused"
        /\ hidden' = IF judged = {} THEN TRUE ELSE hidden
  /\ UNCHANGED <<content, judged, policy, waiting, desk>>

SaleNext == \/ SellerProfile \/ SellerProgram \/ saveTalent \/ requeueForReview \/ StatusWritten
            \/ decideApproval \/ setPolicies \/ createReport \/ resolveReport
            \/ TalentsAdmin

Sale == SaleInit /\ [][SaleNext]_sale

-----------------------------------------------------------------------------
(* Nothing goes on sale, or becomes something its seller can put on sale,  *)
(* before a policy, an approver or an operator has let some version of it  *)
(* out, but in one way: a report that is upheld against a listing nobody   *)
(* ever let out makes it a paused one, which its seller may resume.  No    *)
(* other way leads there: not the archive, not an edit under way, not a    *)
(* page that shows an old status, not a status written after its test, not *)
(* a program that asks for what no page offers (talents.go, reports.go).   *)
OnlyHidingSkipsReview == status \in OnSale => judged # {} \/ hidden

(* Refuted: a draft is reported, hidden, and resumed by its seller.        *)
FirstOutIsJudged == status \in OnSale => judged # {}

(* "Resuming a paused listing does not go back through review: the content *)
(* is the same content that was approved.  Editing it is what sends it     *)
(* back" (talents.go, and README.md): a paused listing that a policy       *)
(* covers comes back on sale only with a version that was let out - even   *)
(* of those no report made a paused one before anybody let them out.       *)
ResumedIsReviewed ==
  [][status = "paused" /\ ~hidden /\ status' = "published"
       => content \in judged' \/ content \notin covers
    ]_sale
=============================================================================
