---------------------------- MODULE Organization ----------------------------
(***************************************************************************)
(* The members of one organization, the page they manage it on and the     *)
(* handlers behind it.                                                     *)
(*                                                                         *)
(* The page shows the members as it last loaded them and offers changes of *)
(* everyone but oneself to those it shows as managers.  The server looks   *)
(* at the caller's role before the transaction, and inside it, for a       *)
(* change that could take the last owner away, whether there is another.   *)
(* Nothing is locked, and READ COMMITTED sees only what has committed, so  *)
(* the look and the write are two steps.                                   *)
(*                                                                         *)
(* Requests bounds the changes asked for; two equal ones on the server at  *)
(* one time count as one.                                                  *)
(***************************************************************************)
EXTENDS Integers, FiniteSets

CONSTANTS People, Creator, Requests

ASSUME OrganizationAssumption == Creator \in People /\ Requests \in Nat

Roles    == {"owner", "admin", "member"}
Managers == {"owner", "admin"}
Gone     == "none"                     \* not, or no longer, a member

VARIABLES
  role,      \* the role of each person
  detail,    \* what each person's page shows: the roles, or Gone before a load
  requests,  \* changes on the server: who asks, about whom, the role asked for
             \* (Gone to remove), how far they are, whether another came between
  requested

org == <<role, detail, requests, requested>>

Owners == {p \in People : role[p] = "owner"}

OrgInit == /\ role = [p \in People |-> IF p = Creator THEN "owner" ELSE Gone]
           /\ detail = [p \in People |-> [q \in People |-> Gone]]
           /\ requests = {} /\ requested = 0

(***************************************************************************)
(* The page.                                                               *)
(***************************************************************************)
\* On the mount and after every change that went through; not for strangers.
load(p) == /\ role[p] # Gone /\ detail[p] # role
           /\ detail' = [detail EXCEPT ![p] = role]
           /\ UNCHANGED <<role, requests, requested>>

act(p, q, kind, to) ==
  /\ requested < Requests /\ requested' = requested + 1
  /\ requests' = requests \cup {[by |-> p, about |-> q, kind |-> kind, to |-> to,
                                 stage |-> "sent", late |-> FALSE]}
  /\ UNCHANGED <<role, detail>>

\* A select and a button for every other member, and a dialog that adds one.
OrganizationDetailView(p) ==
  \/ load(p)
  \/ /\ detail[p][p] \in Managers
     /\ \E q \in People \ {p} :
          IF detail[p][q] = Gone THEN \E to \in Roles : act(p, q, "add", to)
          ELSE \/ \E to \in Roles \ {detail[p][q]} : act(p, q, "change", to)
               \/ act(p, q, "remove", Gone)

(***************************************************************************)
(* The handlers.                                                           *)
(***************************************************************************)
Moved(r, stage) == requests' = (requests \ {r}) \cup {[r EXCEPT !.stage = stage]}
Refused(r)      == requests' = requests \ {r} /\ UNCHANGED role

requireMember(r) ==
  /\ r.stage = "sent"
  /\ IF role[r.by] \in Managers THEN Moved(r, "allowed") /\ UNCHANGED role ELSE Refused(r)

\* A plausible bug: the one who is asked about counts.
MutHasAnotherOwner(q) == Owners # {}

hasAnotherOwner(q) == Owners \ {q} # {}

\* What the look inside the transaction refuses.
Protected(r) ==
  \/ r.kind = "change" /\ r.to # "owner" /\ ~hasAnotherOwner(r.about)
  \/ r.kind = "remove" /\ role[r.about] = Gone
  \/ r.kind = "remove" /\ role[r.about] = "owner" /\ ~hasAnotherOwner(r.about)

checkOwners(r) ==
  /\ r.stage = "allowed" /\ r.kind # "add"
  /\ IF Protected(r) THEN Refused(r) ELSE Moved(r, "checked") /\ UNCHANGED role

\* The write.  Every other change that has had its look is late from here on.
Written(r) ==
  /\ role' = [role EXCEPT ![r.about] = r.to]
  /\ requests' = {[o EXCEPT !.late = o.late \/ o.stage = "checked"] : o \in requests \ {r}}

addOrganizationMember(r) ==
  /\ r.stage = "allowed" /\ r.kind = "add"
  /\ IF role[r.about] = Gone THEN Written(r) ELSE Refused(r)

updateOrganizationMember(r) ==
  /\ r.stage = "checked" /\ r.kind = "change"
  /\ IF role[r.about] # Gone THEN Written(r) ELSE Refused(r)

removeOrganizationMember(r) == r.stage = "checked" /\ r.kind = "remove" /\ Written(r)

OrgNext ==
  \/ \E p \in People : OrganizationDetailView(p)
  \/ /\ UNCHANGED <<detail, requested>>
     /\ \E r \in requests : \/ requireMember(r) \/ checkOwners(r) \/ addOrganizationMember(r)
                            \/ updateOrganizationMember(r) \/ removeOrganizationMember(r)

Members == OrgInit /\ [][OrgNext]_org

-----------------------------------------------------------------------------
(* The check on the last owner is right about what it sees: an organization *)
(* loses its last owner only to a change whose look was followed by another *)
(* change before its own write (organizations.go, hasAnotherOwner), never   *)
(* by one change alone, whatever the page showed and whoever lost the role  *)
(* that allowed the request in the meantime.                                *)
OwnerLostOnlyToOverlap ==
  [][Owners # {} /\ Owners' = {} => \E r \in requests : r.late /\ r \notin requests']_org

(* "The role of the last owner cannot be changed" (docs/openapi.yaml): an   *)
(* organization always has an owner.                                        *)
LastOwnerProtected == Owners # {}
=============================================================================
