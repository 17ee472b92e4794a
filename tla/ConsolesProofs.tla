--------------------------- MODULE ConsolesProofs ---------------------------
(***************************************************************************)
(* Six of the consoles for every value of their constants: a listing is    *)
(* judged before it is on sale, or hidden by a report, an organization     *)
(* loses its last owner only where two changes overlap, a form saves what  *)
(* was read and touched, a decided quote stays what its order was placed   *)
(* on, a coupon is shown and sent with the shape it was priced for, and an *)
(* accepted decision of an operator stands.                                *)
(***************************************************************************)
EXTENDS Consoles, TLAPS

-----------------------------------------------------------------------------
(* The listing.                                                            *)

\* Everything that shows, asks for or acts on a status of a listing on sale
\* comes from a listing that was on sale, so after somebody judged it or a
\* report made it a paused one.
ListingInv ==
  {status, offered, console, move} \cap OnSale # {} => judged # {} \/ hidden

(* No step takes back a judgement or forgets that a report skipped it      *)
(* (talents.go, admin.go, approvals.go, reports.go).                       *)
LEMMA JudgedGrows ==
  ASSUME [SaleNext]_sale
  PROVE  judged \subseteq judged' /\ (hidden => hidden')
<1> USE DEF reports
<1>1. CASE resolveReport
  BY <1>1 DEF resolveReport
<1>2. CASE ~resolveReport
  <2>1. judged \subseteq judged'
    BY <1>2 DEF SaleNext, sale, SellerProfile, SellerProgram, publishTalent, Requeue,
       updateTalent, setMyTalentStatus, Reload, saveTalent, requeueForReview, StatusWritten,
       decideApproval, setPolicies, createReport, TalentsAdmin, setTalentStatus
  <2>2. hidden' = hidden
    BY <1>2 DEF SaleNext, sale, SellerProfile, SellerProgram, publishTalent, Requeue,
       updateTalent, setMyTalentStatus, Reload, saveTalent, requeueForReview, StatusWritten,
       decideApproval, setPolicies, createReport, TalentsAdmin, setTalentStatus
  <2> QED BY <2>1, <2>2
<1> QED BY <1>1, <1>2

(* Nobody but the steps that judge or hide, or that act on what was judged *)
(* or hidden, leads to a status on sale (talents.go, approvals.go,         *)
(* reports.go, admin.go, ProfilePage.tsx, AdminPage.tsx).                  *)
LEMMA ListingStep == ASSUME ListingInv, [SaleNext]_sale PROVE ListingInv'
<1> USE DEF ListingInv, OnSale
<1>1. judged \subseteq judged' /\ (hidden => hidden')
  BY JudgedGrows
<1>2. CASE publishTalent
  BY <1>1, <1>2 DEF publishTalent, Requeue, desk
<1>3. ASSUME NEW to \in {"published", "paused", "draft", "archived"}, setMyTalentStatus(to)
      PROVE  ListingInv'
  BY <1>1, <1>3 DEF setMyTalentStatus, Allowed
<1>4. CASE updateTalent \/ Reload
  BY <1>1, <1>4 DEF updateTalent, Reload
<1>5. CASE saveTalent \/ StatusWritten \/ setPolicies
  BY <1>1, <1>5 DEF saveTalent, StatusWritten, setPolicies, NoMove, desk
<1>6. CASE requeueForReview
  BY <1>1, <1>6 DEF requeueForReview, Requeue
<1>7. CASE decideApproval
  BY <1>1, <1>7 DEF decideApproval, desk
<1>8. CASE createReport \/ resolveReport
  BY <1>1, <1>8 DEF createReport, resolveReport, desk
<1>9. CASE TalentsAdmin
  BY <1>1, <1>9 DEF TalentsAdmin, setTalentStatus, desk
<1>10. CASE UNCHANGED sale
  BY <1>10 DEF sale
<1> QED
  BY <1>2, <1>3, <1>4, <1>5, <1>6, <1>7, <1>8, <1>9, <1>10
     DEF SaleNext, SellerProfile, SellerProgram

(* Nothing is on sale, and nothing can be put on sale by its seller, before*)
(* some version of it was let out, unless a report hid it before that.     *)
THEOREM ListingIsJudged == Sale => []OnlyHidingSkipsReview
<1>1. SaleInit => ListingInv
  BY DEF SaleInit, ListingInv, OnSale, NoMove
<1>2. ListingInv /\ [SaleNext]_sale => ListingInv'
  BY ListingStep
<1>3. ListingInv => OnlyHidingSkipsReview
  BY DEF ListingInv, OnlyHidingSkipsReview
<1> QED
  BY <1>1, <1>2, <1>3, PTL DEF Sale

-----------------------------------------------------------------------------
(* The organization.                                                       *)

MemberChange == [by : People, about : People, kind : {"add", "change", "remove"},
                 to : Roles \cup {Gone}, stage : {"sent", "allowed", "checked"}, late : BOOLEAN]

\* A change whose look nothing has come between is as harmless as it looked.
MembersInv == /\ role \in [People -> Roles \cup {Gone}]
              /\ requests \subseteq MemberChange
              /\ \A r \in requests :
                   /\ r.kind = "add" => r.to \in Roles
                   /\ r.kind # "add" /\ r.stage = "checked" /\ ~r.late => ~Protected(r)

(* Requests that only move on, or are refused, with the roles as they were.*)
LEMMA MovedKeeps ==
  ASSUME MembersInv, NEW r \in requests, NEW s \in {"allowed", "checked"},
         Moved(r, s), role' = role,
         s = "checked" => r.kind # "add" /\ ~Protected(r)
  PROVE  MembersInv'
<1> DEFINE q == [r EXCEPT !.stage = s]
<1>1. r \in MemberChange
  BY DEF MembersInv
<1>2. q \in MemberChange /\ q.stage = s /\ q.kind = r.kind /\ q.about = r.about /\ q.to = r.to
  BY <1>1 DEF MemberChange
<1>3. requests' = (requests \ {r}) \cup {q}
  BY DEF Moved
<1> HIDE DEF q
<1>4. Protected(q) <=> Protected(r)
  BY <1>2 DEF Protected, hasAnotherOwner
<1>5. \A o \in requests' : Protected(o)' <=> Protected(o)
  BY DEF Protected, hasAnotherOwner, Owners
<1> QED
  BY <1>2, <1>3, <1>4, <1>5 DEF MembersInv

(* A refusal takes a request away and changes no role.                     *)
LEMMA RefusedKeeps ==
  ASSUME MembersInv, NEW r \in requests, Refused(r)
  PROVE  MembersInv'
<1>1. \A o \in requests' : Protected(o)' <=> Protected(o)
  BY DEF Refused, Protected, hasAnotherOwner, Owners
<1> QED
  BY <1>1 DEF Refused, MembersInv

(* What is left on the server once a change is written: the others, those  *)
(* that had their look marked late.                                        *)
LEMMA WrittenEffect ==
  ASSUME MembersInv, NEW r \in requests, Written(r)
  PROVE  /\ role' \in [People -> Roles \cup {Gone}]
         /\ role'[r.about] = r.to
         /\ \A p \in People \ {r.about} : role'[p] = role[p]
         /\ \A q \in requests' :
              /\ q \in MemberChange
              /\ q.stage = "checked" => q.late
              /\ q.kind = "add" => q.to \in Roles
         /\ \A q \in requests' : \E o \in requests \ {r} :
              /\ q.late = (o.late \/ o.stage = "checked")
              /\ q.stage = o.stage /\ q.kind = o.kind /\ q.about = o.about /\ q.to = o.to
              /\ q.by = o.by
<1>1. r \in MemberChange /\ r.about \in People /\ r.to \in Roles \cup {Gone}
  BY DEF MembersInv, MemberChange
<1>2. ASSUME NEW q \in requests'
      PROVE  \E o \in requests \ {r} :
               /\ q \in MemberChange
               /\ q.late = (o.late \/ o.stage = "checked")
               /\ q.stage = o.stage /\ q.kind = o.kind /\ q.about = o.about /\ q.to = o.to
               /\ q.by = o.by
  <2>1. PICK o \in requests \ {r} : q = [o EXCEPT !.late = o.late \/ o.stage = "checked"]
    BY <1>2 DEF Written
  <2>2. o \in MemberChange /\ (o.late \/ o.stage = "checked") \in BOOLEAN
    BY DEF MembersInv, MemberChange
  <2>3. q.by = o.by
    BY <2>1, <2>2 DEF MemberChange
  <2> QED
    BY <2>1, <2>2, <2>3 DEF MemberChange
<1>3. /\ role' \in [People -> Roles \cup {Gone}]
      /\ role'[r.about] = r.to
      /\ \A p \in People \ {r.about} : role'[p] = role[p]
  BY <1>1 DEF Written, MembersInv
<1>4. \A q \in requests' : /\ q \in MemberChange
                           /\ q.stage = "checked" => q.late
                           /\ q.kind = "add" => q.to \in Roles
  BY <1>2 DEF MembersInv
<1> QED
  BY <1>2, <1>3, <1>4

(* A written change leaves nothing behind that still counts on its look.   *)
LEMMA WrittenKeeps ==
  ASSUME MembersInv, NEW r \in requests, Written(r)
  PROVE  MembersInv'
BY WrittenEffect DEF MembersInv

(* A change that still is what its look saw leaves an owner.               *)
LEMMA HarmlessWrite ==
  ASSUME MembersInv, NEW r \in requests, Written(r), Owners # {},
         ~Protected(r) /\ r.kind # "add"
  PROVE  Owners' # {}
<1>1. /\ role'[r.about] = r.to
      /\ \A p \in People \ {r.about} : role'[p] = role[p]
  BY WrittenEffect
<1>2. r.about \in People /\ r.kind \in {"change", "remove"}
  BY DEF MembersInv, MemberChange
<1>3. CASE r.kind = "change" /\ r.to = "owner"
  BY <1>1, <1>2, <1>3 DEF Owners
<1>4. CASE Owners \ {r.about} # {}
  BY <1>1, <1>2, <1>4 DEF Owners
<1>5. CASE r.kind = "remove" /\ role[r.about] # "owner"
  BY <1>1, <1>2, <1>5 DEF Owners
<1> QED
  BY <1>2, <1>3, <1>4, <1>5 DEF Protected, hasAnotherOwner

(* Adding a member takes nobody's role.                                    *)
LEMMA AddKeepsOwners ==
  ASSUME MembersInv, NEW r \in requests, Written(r), Owners # {}, role[r.about] = Gone
  PROVE  Owners' # {}
<1>1. \A p \in People \ {r.about} : role'[p] = role[p]
  BY WrittenEffect
<1> QED
  BY <1>1 DEF Owners, Gone

(* A late change that is written is gone, unless its twin has not been     *)
(* looked past: then it is as harmless as the twin.                        *)
LEMMA LateOrHarmless ==
  ASSUME MembersInv, NEW r \in requests, Written(r), r.stage = "checked", r.kind # "add"
  PROVE  (r.late /\ r \notin requests') \/ ~Protected(r)
<1>1. CASE ~r.late
  BY <1>1 DEF MembersInv
<1>2. CASE r.late /\ r \in requests'
  <2>1. PICK o \in requests \ {r} :
          /\ r.stage = o.stage /\ r.kind = o.kind /\ r.about = o.about /\ r.to = o.to
          /\ r.by = o.by
    BY <1>2, WrittenEffect
  <2>2. o \in MemberChange /\ r \in MemberChange
    BY DEF MembersInv
  <2>3. o.late # r.late
    BY <2>1, <2>2 DEF MemberChange
  <2>4. ~Protected(o)
    BY <1>2, <2>1, <2>2, <2>3 DEF MembersInv, MemberChange
  <2> QED
    BY <2>1, <2>4 DEF Protected, hasAnotherOwner
<1> QED
  BY <1>1, <1>2

(* One handler's step, seen from the property and from the invariant.      *)
OverlapOnly ==
  Owners # {} /\ Owners' = {} => \E r \in requests : r.late /\ r \notin requests'

(* Every handler keeps the invariant, and only an overlap takes the last   *)
(* owner (organizations.go).                                               *)
LEMMA RequestStep ==
  ASSUME MembersInv, NEW r \in requests,
         \/ requireMember(r) \/ checkOwners(r) \/ addOrganizationMember(r)
         \/ updateOrganizationMember(r) \/ removeOrganizationMember(r)
  PROVE  MembersInv' /\ OverlapOnly
<1>1. CASE Refused(r)
  <2>1. Owners' = Owners
    BY <1>1 DEF Refused, Owners
  <2> QED
    BY <1>1, <2>1, RefusedKeeps DEF OverlapOnly
<1>2. ASSUME NEW s \in {"allowed", "checked"}, Moved(r, s), role' = role,
             s = "checked" => r.kind # "add" /\ ~Protected(r)
      PROVE  MembersInv' /\ OverlapOnly
  <2>1. Owners' = Owners
    BY <1>2 DEF Owners
  <2> QED
    BY <1>2, <2>1, MovedKeeps DEF OverlapOnly
<1>3. CASE Written(r) /\ role[r.about] = Gone
  BY <1>3, WrittenKeeps, AddKeepsOwners DEF OverlapOnly
<1>4. CASE Written(r) /\ r.stage = "checked" /\ r.kind # "add"
  BY <1>4, WrittenKeeps, LateOrHarmless, HarmlessWrite DEF OverlapOnly
<1>5. CASE requireMember(r)
  BY <1>1, <1>2, <1>5 DEF requireMember
<1>6. CASE checkOwners(r)
  BY <1>1, <1>2, <1>6 DEF checkOwners
<1>7. CASE addOrganizationMember(r)
  BY <1>1, <1>3, <1>7 DEF addOrganizationMember
<1>8. CASE updateOrganizationMember(r) \/ removeOrganizationMember(r)
  BY <1>1, <1>4, <1>8 DEF updateOrganizationMember, removeOrganizationMember
<1> QED
  BY <1>5, <1>6, <1>7, <1>8

(* The page: it loads, or it asks for something the select offers.         *)
LEMMA ActKeeps ==
  ASSUME MembersInv, NEW p \in People, NEW q \in People, NEW kind, NEW to, act(p, q, kind, to),
         \/ kind = "add" /\ to \in Roles
         \/ kind \in {"change", "remove"} /\ to \in Roles \cup {Gone}
  PROVE  MembersInv' /\ OverlapOnly
<1> DEFINE r == [by |-> p, about |-> q, kind |-> kind, to |-> to,
                 stage |-> "sent", late |-> FALSE]
<1>1. /\ r \in MemberChange /\ r.stage = "sent" /\ r.kind = kind /\ r.to = to
  BY DEF MemberChange
<1>2. requests' = requests \cup {r} /\ role' = role
  BY DEF act
<1> HIDE DEF r
<1>3. \A o \in requests' : Protected(o)' <=> Protected(o)
  BY <1>2 DEF Protected, hasAnotherOwner, Owners
<1>4. Owners' = Owners
  BY <1>2 DEF Owners
<1> QED
  BY <1>1, <1>2, <1>3, <1>4 DEF MembersInv, OverlapOnly

(* The page changes no role (OrganizationsPage.tsx).                       *)
LEMMA PageStep ==
  ASSUME MembersInv, NEW p \in People, OrganizationDetailView(p)
  PROVE  MembersInv' /\ OverlapOnly
<1>1. CASE load(p)
  <2>1. role' = role /\ requests' = requests
    BY <1>1 DEF load
  <2>2. Owners' = Owners /\ \A o \in requests : Protected(o)' <=> Protected(o)
    BY <2>1 DEF Owners, Protected, hasAnotherOwner
  <2> QED
    BY <2>1, <2>2 DEF MembersInv, OverlapOnly
<1>2. ASSUME NEW q \in People, NEW to \in Roles, act(p, q, "add", to) \/ act(p, q, "change", to)
      PROVE  MembersInv' /\ OverlapOnly
  BY <1>2, ActKeeps
<1>3. ASSUME NEW q \in People, act(p, q, "remove", Gone)
      PROVE  MembersInv' /\ OverlapOnly
  BY <1>3, ActKeeps
<1> QED
  BY <1>1, <1>2, <1>3 DEF OrganizationDetailView

(* The check on the last owner is right about what it sees: only a change  *)
(* that another one overtook can take the last owner away, for any number  *)
(* of people and requests.                                                 *)
THEOREM LastOwnerGoesToOverlap == Members => OwnerLostOnlyToOverlap
<1>1. OrgInit => MembersInv
  BY OrganizationAssumption DEF OrgInit, MembersInv, Roles, Gone
<1>2. MembersInv /\ [OrgNext]_org => MembersInv' /\ (OverlapOnly \/ UNCHANGED org)
  <2> SUFFICES ASSUME MembersInv, [OrgNext]_org
               PROVE  MembersInv' /\ (OverlapOnly \/ UNCHANGED org)
    OBVIOUS
  <2>1. CASE \E p \in People : OrganizationDetailView(p)
    BY <2>1, PageStep
  <2>2. CASE \E r \in requests : \/ requireMember(r) \/ checkOwners(r)
                                 \/ addOrganizationMember(r) \/ updateOrganizationMember(r)
                                 \/ removeOrganizationMember(r)
    BY <2>2, RequestStep
  <2>3. CASE UNCHANGED org
    BY <2>3 DEF org, MembersInv, Protected, hasAnotherOwner, Owners
  <2> QED
    BY <2>1, <2>2, <2>3 DEF OrgNext
<1>3. MembersInv /\ [OrgNext]_org => [OverlapOnly]_org
  BY <1>2
<1> QED
  BY <1>1, <1>2, <1>3, PTL DEF Members, OwnerLostOnlyToOverlap, OverlapOnly

-----------------------------------------------------------------------------
(* The forms.                                                              *)

Values == [Fields -> Nat]
Forms  == [value : Values, read : Nat \ {0}, touched : SUBSET Fields]
Puts   == [desk : Desks, value : Values, touched : SUBSET Fields, read : Nat \ {0},
           sent : Nat, stage : {"sent", "checked", "written", "refused"}]

\* What a form or a save holds beside what the person touched is the value
\* of the version it names.
Fits(x) == /\ x.read <= Len(log)
           /\ \A f \in Fields \ x.touched : x.value[f] = log[x.read][f]

DeskInv == /\ log \in Seq(Values) /\ edits \in Nat
           /\ answers \in [Desks -> SUBSET Nat]
           /\ \A d \in Desks : \A v \in answers[d] : v \in 1..Len(log)
           /\ items \in [Desks -> Nat] /\ \A d \in Desks : items[d] <= Len(log)
           /\ allows \in [Desks -> Nat] /\ \A d \in Desks : allows[d] <= Len(log)
           /\ Len(log) > 0
           /\ form \in [Desks -> Forms \cup {NoForm}]
           /\ \A d \in Desks : form[d] # NoForm => Fits(form[d])
           /\ puts \subseteq Puts
           /\ \A p \in puts : Fits(p) /\ p.sent \in {0, p.read}

(* A row keeps every version it has had (admin.go, coupons.go, ...).       *)
LEMMA RowWritten ==
  ASSUME DeskInv, NEW v \in Values, log' = Append(log, v)
  PROVE  /\ log' \in Seq(Values) /\ Len(log') = Len(log) + 1
         /\ \A i \in 1..Len(log) : log'[i] = log[i]
BY DEF DeskInv

(* A step that only adds a version leaves every form and save fitting.     *)
LEMMA WriteKeeps ==
  ASSUME DeskInv, NEW v \in Values, log' = Append(log, v), edits' \in Nat,
         UNCHANGED <<answers, items, form>>,
         allows' = allows \/ \E d \in Desks : allows' = [allows EXCEPT ![d] = 0],
         puts' \subseteq Puts,
         \A q \in puts' : \E p \in puts : /\ q.read = p.read /\ q.value = p.value
                                          /\ q.touched = p.touched /\ q.sent = p.sent
  PROVE  DeskInv'
<1>1. /\ log' \in Seq(Values) /\ Len(log') = Len(log) + 1 /\ Len(log) \in Nat
      /\ \A i \in 1..Len(log) : log'[i] = log[i]
  BY RowWritten DEF DeskInv
<1>2. ASSUME NEW x \in Forms \cup Puts, Fits(x)
      PROVE  Fits(x)'
  <2>1. x.read \in Nat \ {0}
    BY DEF Forms, Puts
  <2> QED
    BY <1>1, <1>2, <2>1 DEF Fits
<1>3. \A d \in Desks : (form[d] # NoForm => Fits(form[d]))'
  <2> SUFFICES ASSUME NEW d \in Desks, form[d] # NoForm PROVE Fits(form[d])'
    OBVIOUS
  <2>1. form[d] \in Forms /\ Fits(form[d])
    BY DEF DeskInv
  <2> QED
    BY <1>2, <2>1 DEF Fits
<1>4. \A q \in puts' : Fits(q)' /\ q.sent \in {0, q.read}
  <2> SUFFICES ASSUME NEW q \in puts' PROVE Fits(q)' /\ q.sent \in {0, q.read}
    OBVIOUS
  <2>1. PICK p \in puts : /\ q.read = p.read /\ q.value = p.value
                          /\ q.touched = p.touched /\ q.sent = p.sent
    OBVIOUS
  <2>2. Fits(p)' /\ p.sent \in {0, p.read}
    BY <1>2 DEF DeskInv
  <2> QED
    BY <2>1, <2>2 DEF Fits
<1>5. allows' \in [Desks -> Nat] /\ \A d \in Desks : allows'[d] <= Len(log')
  <2>1. allows \in [Desks -> Nat] /\ \A d \in Desks : allows[d] <= Len(log)
    BY DEF DeskInv
  <2>2. CASE allows' = allows
    BY <1>1, <2>1, <2>2
  <2>3. ASSUME NEW d \in Desks, allows' = [allows EXCEPT ![d] = 0]
        PROVE  allows' \in [Desks -> Nat] /\ \A e \in Desks : allows'[e] <= Len(log')
    BY <1>1, <2>1, <2>3
  <2> QED
    BY <2>2, <2>3
<1>6. \A d \in Desks : items'[d] <= Len(log')
  BY <1>1 DEF DeskInv
<1>7. \A d \in Desks : \A w \in answers'[d] : w \in 1..Len(log')
  <2> SUFFICES ASSUME NEW d \in Desks, NEW w \in answers[d] PROVE w \in 1..Len(log')
    OBVIOUS
  <2>1. w \in 1..Len(log)
    BY DEF DeskInv
  <2> QED
    BY <1>1, <2>1
<1>8. Len(log') > 0
  BY <1>1
<1> HIDE DEF Fits
<1> QED
  BY <1>1, <1>3, <1>4, <1>5, <1>6, <1>7, <1>8 DEF DeskInv

(* A value with one field replaced.                                        *)
LEMMA Replaced ==
  ASSUME NEW v \in Values, NEW f \in Fields, NEW n \in Nat
  PROVE  /\ [v EXCEPT ![f] = n] \in Values
         /\ \A g \in Fields \ {f} : [v EXCEPT ![f] = n][g] = v[g]
BY DEF Values

(* A form filled from a version of the row fits it.                        *)
LEMMA Filled ==
  ASSUME DeskInv, NEW v \in 1..Len(log)
  PROVE  /\ FormOf(v) \in Forms /\ Fits(FormOf(v))
         /\ FormOf(v).read = v /\ FormOf(v).value = log[v]
<1>1. log[v] \in Values /\ v \in Nat \ {0} /\ v <= Len(log)
  BY DEF DeskInv
<1> QED
  BY <1>1 DEF FormOf, Forms, Fits

(* One form changes and the row does not.                                  *)
LEMMA FormKeeps ==
  ASSUME DeskInv, NEW d \in Desks, NEW x \in Forms \cup {NoForm}, x # NoForm => Fits(x),
         form' = [form EXCEPT ![d] = x], edits' \in Nat,
         UNCHANGED <<log, allows, puts>>,
         items' \in [Desks -> Nat], \A e \in Desks : items'[e] <= Len(log),
         answers' \in [Desks -> SUBSET Nat],
         \A e \in Desks : answers'[e] \subseteq 1..Len(log)
  PROVE  DeskInv'
<1>1. \A y : Fits(y)' <=> Fits(y)
  BY DEF Fits
<1> QED
  BY <1>1 DEF DeskInv

(* The loads, a window elsewhere and the saves' ways back touch no form    *)
(* but to close it.                                                        *)
LEMMA SightKeeps ==
  ASSUME DeskInv, edits' \in Nat, UNCHANGED <<log, items>>,
         form' = form \/ \E d \in Desks : form' = [form EXCEPT ![d] = NoForm],
         allows' \in [Desks -> Nat], \A e \in Desks : allows'[e] <= Len(log),
         puts' \subseteq Puts,
         \A q \in puts' : \E p \in puts : /\ q.read = p.read /\ q.value = p.value
                                          /\ q.touched = p.touched /\ q.sent = p.sent,
         answers' \in [Desks -> SUBSET Nat],
         \A e \in Desks : answers'[e] \subseteq 1..Len(log)
  PROVE  DeskInv'
<1>1. \A y : Fits(y)' <=> Fits(y)
  BY DEF Fits
<1>2. ASSUME NEW q \in puts' PROVE Fits(q) /\ q.sent \in {0, q.read}
  <2>1. PICK p \in puts : /\ q.read = p.read /\ q.value = p.value
                          /\ q.touched = p.touched /\ q.sent = p.sent
    OBVIOUS
  <2>2. Fits(p) /\ p.sent \in {0, p.read}
    BY DEF DeskInv
  <2> QED
    BY <2>1, <2>2 DEF Fits
<1> QED
  BY <1>1, <1>2 DEF DeskInv

(* A save that is sent: the form, or a switch of the list, as it names its *)
(* version.                                                                *)
LEMMA SendKeeps ==
  ASSUME DeskInv, NEW d \in Desks, NEW x \in Forms, Fits(x), Send(d, x), edits' \in Nat,
         UNCHANGED <<log, answers, items, form, allows>>
  PROVE  DeskInv'
<1> DEFINE p == [desk |-> d, value |-> x.value, touched |-> x.touched, read |-> x.read,
                 sent |-> IF surface[d] \in Versioned THEN x.read ELSE 0, stage |-> "sent"]
<1>1. /\ p \in Puts /\ p.sent \in {0, p.read}
      /\ p.read = x.read /\ p.value = x.value /\ p.touched = x.touched
  BY DEF Forms, Puts
<1>2. puts' = puts \cup {p}
  BY DEF Send
<1> HIDE DEF p
<1>3. Fits(p)
  BY <1>1 DEF Fits
<1>4. \A y : Fits(y)' <=> Fits(y)
  BY DEF Fits
<1> QED
  BY <1>1, <1>2, <1>3, <1>4 DEF DeskInv

(* The forms themselves: opened, closed, changed, sent.                    *)
LEMMA EditKeeps == ASSUME DeskInv, NEW d \in Desks, edit(d) PROVE DeskInv'
<1>1. items[d] \in 1..Len(log)
  BY DEF DeskInv, edit
<1>2. FormOf(items[d]) \in Forms /\ Fits(FormOf(items[d]))
  BY <1>1, Filled
<1> QED
  BY <1>2, FormKeeps DEF edit, DeskInv, sight

(* Closing a dialog leaves nothing to fit.                                 *)
LEMMA CloseKeeps == ASSUME DeskInv, NEW d \in Desks, close(d) PROVE DeskInv'
BY FormKeeps DEF close, DeskInv, sight

(* A field is changed and remembered as touched.                           *)
LEMMA TouchKeeps ==
  ASSUME DeskInv, NEW d \in Desks, NEW fields \in SUBSET Fields, touch(d, fields)
  PROVE  DeskInv'
<1>1. PICK f \in fields :
        /\ form[d] # NoForm
        /\ edits' = edits + 1
        /\ form' = [form EXCEPT ![d].value[f] = edits + 1, ![d].touched = @ \cup {f}]
        /\ UNCHANGED <<shelf, log, sight, saving, puts, allows, saves>>
  BY DEF touch
<1> DEFINE x == [form[d] EXCEPT !.value[f] = edits + 1, !.touched = @ \cup {f}]
<1>2. form[d] \in Forms /\ Fits(form[d]) /\ edits + 1 \in Nat /\ f \in Fields
  BY <1>1 DEF DeskInv
<1>3. /\ x.value = [form[d].value EXCEPT ![f] = edits + 1]
      /\ x.read = form[d].read /\ x.touched = form[d].touched \cup {f}
  BY <1>2 DEF Forms
<1>4. form' = [form EXCEPT ![d] = x]
  BY <1>1, <1>2 DEF DeskInv
<1>5. /\ [form[d].value EXCEPT ![f] = edits + 1] \in Values
      /\ \A g \in Fields \ {f} : [form[d].value EXCEPT ![f] = edits + 1][g] = form[d].value[g]
  BY <1>2, Replaced DEF Forms
<1>6. x \in Forms
  BY <1>2, <1>5 DEF Forms
<1> HIDE DEF x
<1>7. Fits(x)
  BY <1>2, <1>3, <1>5 DEF Fits
<1> QED
  BY <1>1, <1>2, <1>4, <1>6, <1>7, FormKeeps DEF DeskInv, sight

(* A form that is sent takes its version along.                            *)
LEMMA SubmitKeeps == ASSUME DeskInv, NEW d \in Desks, submit(d) PROVE DeskInv'
<1>1. form[d] \in Forms /\ Fits(form[d])
  BY DEF DeskInv, submit
<1> QED
  BY <1>1, SendKeeps DEF submit, DeskInv, sight

(* A switch in the list sends the row as the list shows it (AdminPage.tsx).*)
LEMMA ToggleKeeps == ASSUME DeskInv, NEW d \in Desks, toggle(d) PROVE DeskInv'
<1> DEFINE o == FormOf(items[d])
           x == [o EXCEPT !.value["rest"] = edits + 1, !.touched = {"rest"}]
<1>1. items[d] \in 1..Len(log) /\ edits + 1 \in Nat /\ "rest" \in Fields
  BY DEF DeskInv, toggle, Fields
<1>2. o \in Forms /\ Fits(o)
  BY <1>1, Filled
<1>3. o.touched = {}
  BY DEF FormOf
<1>4. Send(d, x)
  BY DEF toggle
<1> HIDE DEF o
<1>5. /\ x.value = [o.value EXCEPT !["rest"] = edits + 1]
      /\ x.read = o.read /\ x.touched = {"rest"}
  BY <1>2 DEF Forms
<1>6. /\ [o.value EXCEPT !["rest"] = edits + 1] \in Values
      /\ \A g \in Fields \ {"rest"} : [o.value EXCEPT !["rest"] = edits + 1][g] = o.value[g]
  BY <1>1, <1>2, Replaced DEF Forms
<1>7. x \in Forms
  BY <1>1, <1>2, <1>6 DEF Forms
<1> HIDE DEF x
<1>8. Fits(x)
  BY <1>2, <1>3, <1>5, <1>6 DEF Fits
<1> QED
  BY <1>4, <1>7, <1>8, SendKeeps DEF toggle, DeskInv, sight

(* A coupon is stopped in one statement (coupons.go).                      *)
LEMMA StopKeeps == ASSUME DeskInv, NEW d \in Desks, stop(d) PROVE DeskInv'
<1>1. log[Len(log)] \in Values /\ edits + 1 \in Nat /\ "rest" \in Fields
  BY DEF DeskInv, Fields
<1>2. [Current EXCEPT !["rest"] = edits + 1] \in Values
  BY <1>1, Replaced DEF Current
<1>3. puts' \subseteq Puts
  BY DEF DeskInv, stop
<1> QED
  BY <1>1, <1>2, <1>3, WriteKeeps DEF stop

(* The handler of allow reads the row (analytics.go) ...                   *)
LEMMA AllowKeeps == ASSUME DeskInv, NEW d \in Desks, allow(d) PROVE DeskInv'
<1>1. Len(log) \in Nat
  BY DEF DeskInv
<1>2. /\ allows' \in [Desks -> Nat] /\ \A e \in Desks : allows'[e] <= Len(log)
  BY <1>1 DEF DeskInv, allow
<1>3. answers' = answers /\ items' = items
  BY DEF allow, sight
<1> QED
  BY <1>2, <1>3, SightKeeps DEF allow, DeskInv

(* ... and writes it.                                                      *)
LEMMA AllowWrites == ASSUME DeskInv, NEW d \in Desks, AllowWritten(d) PROVE DeskInv'
<1>1. allows[d] \in 1..Len(log) /\ edits + 1 \in Nat /\ "hosts" \in Fields
  BY DEF DeskInv, AllowWritten, Fields
<1>2. log[allows[d]] \in Values
  BY <1>1 DEF DeskInv
<1>3. [log[allows[d]] EXCEPT !["hosts"] = edits + 1] \in Values
  BY <1>1, <1>2, Replaced
<1>4. puts' \subseteq Puts
  BY DEF DeskInv, AllowWritten
<1> QED
  BY <1>1, <1>3, <1>4, WriteKeeps DEF AllowWritten

(* A window that is not among the desks writes.                            *)
LEMMA OthersKeep == ASSUME DeskInv, OthersWrite PROVE DeskInv'
<1>1. PICK f \in Fields : log' = Append(log, [Current EXCEPT ![f] = edits + 1])
  BY DEF OthersWrite
<1>2. log[Len(log)] \in Values /\ edits + 1 \in Nat
  BY DEF DeskInv
<1>3. [Current EXCEPT ![f] = edits + 1] \in Values
  BY <1>2, Replaced DEF Current
<1>4. puts' \subseteq Puts
  BY DEF DeskInv, OthersWrite
<1> QED
  BY <1>1, <1>2, <1>3, <1>4, WriteKeeps DEF OthersWrite, sight

(* Loads: asked for, read, answered or lost.                               *)
LEMMA LoadKeeps ==
  ASSUME DeskInv, NEW d \in Desks,
         \/ refresh(d) \/ listSettings(d)
         \/ \E v \in answers[d] : Listed(d, v) \/ NotListed(d, v)
  PROVE  DeskInv'
<1>1. /\ Len(log) \in Nat \ {0} /\ puts \subseteq Puts /\ edits \in Nat
      /\ allows \in [Desks -> Nat] /\ \A e \in Desks : allows[e] <= Len(log)
      /\ answers \in [Desks -> SUBSET Nat] /\ \A e \in Desks : answers[e] \subseteq 1..Len(log)
      /\ items \in [Desks -> Nat] /\ \A e \in Desks : items[e] <= Len(log)
  BY DEF DeskInv
<1>2. CASE refresh(d)
  BY <1>1, <1>2, SightKeeps DEF refresh
<1>3. CASE listSettings(d)
  BY <1>1, <1>3, SightKeeps DEF listSettings
<1>4. ASSUME NEW v \in answers[d], NotListed(d, v)
      PROVE  DeskInv'
  BY <1>1, <1>4, SightKeeps DEF NotListed
<1>5. ASSUME NEW v \in answers[d], Listed(d, v)
      PROVE  DeskInv'
  <2>1. v \in 1..Len(log)
    BY <1>1
  <2>2. /\ answers' \in [Desks -> SUBSET Nat] /\ \A e \in Desks : answers'[e] \subseteq 1..Len(log)
        /\ items' \in [Desks -> Nat] /\ \A e \in Desks : items'[e] <= Len(log)
        /\ UNCHANGED <<log, puts, allows, edits>>
    BY <1>1, <1>5, <2>1 DEF Listed
  <2>3. PICK x \in Forms \cup {NoForm} : /\ x # NoForm => Fits(x)
                                         /\ form' = [form EXCEPT ![d] = x]
    <3>1. CASE surface[d] \in Inline
      BY <1>5, <2>1, <3>1, Filled DEF Listed
    <3>2. CASE surface[d] \notin Inline
      <4>1. form[d] \in Forms \cup {NoForm} /\ (form[d] # NoForm => Fits(form[d]))
        BY DEF DeskInv
      <4>2. form' = [form EXCEPT ![d] = form[d]]
        BY <1>5, <3>2 DEF Listed, DeskInv
      <4> QED
        BY <4>1, <4>2
    <3> QED
      BY <3>1, <3>2
  <2> QED
    BY <1>1, <2>2, <2>3, FormKeeps
<1> QED
  BY <1>2, <1>3, <1>4, <1>5

(* A save on its way: its stage is all that changes about it.              *)
LEMMA RestageEffect ==
  ASSUME puts \subseteq Puts, NEW p \in puts,
         NEW s \in {"checked", "written", "refused"}, Restage(p, s)
  PROVE  /\ puts' \subseteq Puts
         /\ \A q \in puts' : \E o \in puts : /\ q.read = o.read /\ q.value = o.value
                                             /\ q.touched = o.touched /\ q.sent = o.sent
<1> DEFINE x == [p EXCEPT !.stage = s]
<1>1. /\ x \in Puts /\ x.read = p.read /\ x.value = p.value
      /\ x.touched = p.touched /\ x.sent = p.sent
  BY DEF Puts
<1>2. puts' = (puts \ {p}) \cup {x}
  BY DEF Restage
<1> HIDE DEF x
<1> QED
  BY <1>1, <1>2

(* The server compares, writes and answers.                                *)
LEMMA PutKeeps ==
  ASSUME DeskInv, NEW p \in puts, PutChecked(p) \/ PutWritten(p) \/ PutAnswered(p)
  PROVE  DeskInv'
<1>1. /\ puts \subseteq Puts /\ edits \in Nat
      /\ allows \in [Desks -> Nat] /\ \A e \in Desks : allows[e] <= Len(log)
      /\ answers \in [Desks -> SUBSET Nat] /\ \A e \in Desks : answers[e] \subseteq 1..Len(log)
  BY DEF DeskInv
<1>2. CASE PutChecked(p)
  <2>1. PICK s \in {"checked", "refused"} : Restage(p, s)
    BY <1>2 DEF PutChecked
  <2>2. UNCHANGED <<log, answers, items, form, allows, edits>>
    BY <1>2 DEF PutChecked, sight
  <2> QED
    BY <1>1, <2>1, <2>2, RestageEffect, SightKeeps
<1>3. CASE PutWritten(p)
  <2>1. p.value \in Values /\ log' = Append(log, p.value) /\ Restage(p, "written")
    BY <1>1, <1>3 DEF PutWritten, Puts
  <2>2. UNCHANGED <<answers, items, form, allows, edits>>
    BY <1>3 DEF PutWritten, sight
  <2> QED
    BY <1>1, <2>1, <2>2, RestageEffect, WriteKeeps
<1>4. CASE PutAnswered(p)
  <2>1. p.desk \in Desks
    BY <1>1 DEF Puts
  <2>2. /\ form' = form \/ form' = [form EXCEPT ![p.desk] = NoForm]
        /\ puts' = puts \ {p}
        /\ UNCHANGED <<log, answers, items, allows, edits>>
    BY <1>4 DEF PutAnswered
  <2> QED
    BY <1>1, <2>1, <2>2, SightKeeps
<1> QED
  BY <1>2, <1>3, <1>4

(* No page does more than the actions above (MailAdmin.tsx,                *)
(* TrackingAdmin.tsx, AdminPage.tsx, CouponsAdmin.tsx, ...).               *)
LEMMA PageKeeps == ASSUME DeskInv, NEW d \in Desks, DeskPages(d) PROVE DeskInv'
<1>1. PICK fields \in SUBSET Fields :
        \/ edit(d) \/ close(d) \/ touch(d, fields) \/ submit(d) \/ refresh(d) \/ allow(d)
        \/ toggle(d) \/ stop(d)
  BY DEF DeskPages, MailAdmin, TrackingAdmin, SettingsAdmin, CallbackBase, AuthAdmin,
         CouponsAdmin, EventsAdmin, RolesAdmin, WebhookManager, PortfolioManager,
         NotificationPreferences, InDialog, Fields
<1> QED
  BY <1>1, EditKeeps, CloseKeeps, TouchKeeps, SubmitKeeps, LoadKeeps, AllowKeeps,
     ToggleKeeps, StopKeeps

(* Every step of the windows and of the server keeps the invariant         *)
(* (admin.go, coupons.go, analytics.go, events.go).                        *)
LEMMA DeskStep == ASSUME DeskInv, [DeskNext]_desks PROVE DeskInv'
<1>1. CASE \E d \in Desks : DeskPages(d) \/ listSettings(d) \/ AllowWritten(d)
  BY <1>1, PageKeeps, LoadKeeps, AllowWrites
<1>2. CASE \E d \in Desks : \E v \in answers[d] : Listed(d, v) \/ NotListed(d, v)
  BY <1>2, LoadKeeps
<1>3. CASE OthersWrite
  BY <1>3, OthersKeep
<1>4. CASE \E p \in puts : PutChecked(p) \/ PutWritten(p) \/ PutAnswered(p)
  BY <1>4, PutKeeps
<1>5. CASE UNCHANGED desks
  BY <1>5 DEF desks, sight, DeskInv, Fits
<1> QED
  BY <1>1, <1>2, <1>3, <1>4, <1>5 DEF DeskNext

(* Every save carries the version its form was filled from, and that       *)
(* version's value wherever the person changed nothing, for any number of  *)
(* windows, edits, loads and saves.                                        *)
THEOREM SavesWhatWasRead == Desk => []TouchedOnly
<1>1. DeskInit => DeskInv
  <2> SUFFICES ASSUME DeskInit PROVE DeskInv
    OBVIOUS
  <2>1. log \in Seq(Values) /\ Len(log) = 1
    BY DEF DeskInit, Values
  <2> QED
    BY <2>1 DEF DeskInit, DeskInv
<1>2. DeskInv /\ [DeskNext]_desks => DeskInv'
  BY DeskStep
<1>3. DeskInv => TouchedOnly
  BY DEF DeskInv, TouchedOnly, Fits
<1> QED
  BY <1>1, <1>2, <1>3, PTL DEF Desk

-----------------------------------------------------------------------------
(* The request for quotation.                                              *)

Quote == [state : {"submitted", "accepted", "rejected"}, offer : Offers]

\* What an acceptance holds is submitted and nobody else's, and the amount it
\* took is the amount its own quote still names.
HoldsItsRows(c) ==
  /\ {"stage", "seller", "amount", "mine", "todo"} \subseteq DOMAIN awards[c]
  /\ awards[c].mine \subseteq Sellers /\ awards[c].seller \in awards[c].mine
  /\ \A s \in awards[c].mine : quotes[s].state = "submitted" /\ Free(c, s)
  /\ awards[c].amount = quotes[awards[c].seller].offer.amount

DealInv ==
  /\ \A s \in Sellers : quotes[s] = [state |-> "none"] \/ quotes[s] \in Quote
  /\ \A s \in Sellers : bids[s] \subseteq Offers
  /\ DOMAIN quotes = Sellers /\ DOMAIN bids = Sellers /\ DOMAIN awards = Clicks
  /\ \A c \in Clicks : awards[c].stage = "locking" => awards[c].seller \in Sellers
  /\ \A c \in Running : HoldsItsRows(c)
  /\ \A o \in bought : o.seller \in Sellers
  /\ DecidedQuotesStand

(* A quote is written: nothing that is held or decided changes (rfq.go,    *)
(* createQuote).                                                           *)
LEMMA QuoteWritten ==
  ASSUME DealInv, NEW s \in Sellers, insertQuote(s)
  PROVE  DealInv'
<1>1. PICK o \in bids[s] :
        /\ bids' = [bids EXCEPT ![s] = @ \ {o}]
        /\ \/ /\ Revisable(s)
              /\ quotes' = [quotes EXCEPT ![s] =
                   [state |-> IF @.state = "none" THEN "submitted" ELSE @.state, offer |-> o]]
           \/ UNCHANGED quotes
  BY DEF insertQuote
<1>2. o \in Offers /\ \A t \in Sellers : bids'[t] \subseteq Offers
  BY <1>1 DEF DealInv
<1>3. awards' = awards /\ bought' = bought /\ told' = told /\ DOMAIN bids' = Sellers
  BY <1>1 DEF insertQuote, DealInv
<1>4. CASE UNCHANGED quotes
  BY <1>2, <1>3, <1>4 DEF DealInv, HoldsItsRows, Running, Free, DecidedQuotesStand
<1>5. CASE quotes' # quotes
  <2>1. /\ quotes' = [quotes EXCEPT ![s] = [state |-> "submitted", offer |-> o]]
        /\ quotes[s].state \in {"none", "submitted"}
    BY <1>1, <1>5 DEF Revisable, DealInv
  <2>2. /\ quotes'[s] = [state |-> "submitted", offer |-> o] /\ DOMAIN quotes' = Sellers
        /\ \A t \in Sellers \ {s} : quotes'[t] = quotes[t]
    BY <2>1 DEF DealInv
  <2>3. quotes'[s] \in Quote /\ quotes'[s].state = "submitted"
    BY <1>2, <2>2 DEF Quote
  <2>4. Running' = Running /\ \A c \in Clicks, t \in Sellers : Free(c, t)' <=> Free(c, t)
    BY <1>3 DEF Running, Free
  <2>5. \A c \in Running : s \notin awards[c].mine
    BY DEF insertQuote, Locked
  <2>6. \A c \in Running : HoldsItsRows(c)'
    BY <1>3, <2>2, <2>4, <2>5 DEF DealInv, HoldsItsRows, Running
  <2>7. \A p \in bought : p.seller # s
    BY <2>1 DEF DealInv, DecidedQuotesStand
  <2>8. DecidedQuotesStand'
    BY <1>3, <2>2, <2>3, <2>7 DEF DealInv, DecidedQuotesStand
  <2> QED
    BY <1>2, <1>3, <2>2, <2>3, <2>4, <2>6, <2>8 DEF DealInv
<1> QED
  BY <1>4, <1>5

(* Only the record of one acceptance changes, and what it holds is right.  *)
LEMMA AwardMoved ==
  ASSUME DealInv, NEW c \in Clicks, NEW a, awards' = [awards EXCEPT ![c] = a],
         UNCHANGED <<quotes, bids, bought, told>>,
         a.stage = "locking" => a.seller \in Sellers,
         a.stage \in {"holding", "closing"} =>
           /\ {"stage", "seller", "amount", "mine", "todo"} \subseteq DOMAIN a
           /\ a.mine \subseteq Sellers /\ a.seller \in a.mine
           /\ \A s \in a.mine : quotes[s].state = "submitted" /\ Free(c, s)
           /\ a.amount = quotes[a.seller].offer.amount
  PROVE  DealInv'
<1>1. /\ awards'[c] = a /\ DOMAIN awards' = Clicks
      /\ \A d \in Clicks \ {c} : awards'[d] = awards[d]
  BY DEF DealInv
<1>2. ASSUME NEW d \in Running' PROVE HoldsItsRows(d)'
  <2>1. CASE d = c
    BY <1>1, <1>2, <2>1 DEF HoldsItsRows, Free, Running
  <2>2. CASE d # c
    BY <1>1, <1>2, <2>2 DEF DealInv, HoldsItsRows, Free, Running
  <2> QED
    BY <2>1, <2>2
<1> QED
  BY <1>1, <1>2 DEF DealInv, DecidedQuotesStand

(* The order is made of the quote it holds, at the amount that quote still *)
(* names; everyone else it turns down is told (rfq.go, acceptQuote).       *)
LEMMA AwardCommitted ==
  ASSUME DealInv, NEW c \in Clicks, award(c)
  PROVE  DealInv'
<1> DEFINE a == awards[c]
           r == [click |-> c, seller |-> a.seller, amount |-> a.amount, saw |-> a.saw]
<1>1. c \in Running /\ HoldsItsRows(c)
  BY DEF award, Running, DealInv
<1>2. a.mine \subseteq Sellers /\ a.seller \in a.mine
      /\ \A s \in a.mine : quotes[s].state = "submitted" /\ quotes[s] \in Quote
  BY <1>1 DEF HoldsItsRows, DealInv
<1>3. DOMAIN quotes' = Sellers /\ \A s \in Sellers : quotes'[s] = Decided(s, a)
  BY DEF award
<1>4. ASSUME NEW s \in Sellers
      PROVE  /\ s \notin a.mine => quotes'[s] = quotes[s]
             /\ s \in a.mine => /\ quotes'[s] \in Quote
                                /\ quotes'[s].offer = quotes[s].offer
                                /\ quotes'[s].state =
                                     (IF s = a.seller THEN "accepted" ELSE "rejected")
  BY <1>2, <1>3 DEF Decided, Quote
<1>5. /\ awards'[c] = [stage |-> "over"] /\ DOMAIN awards' = Clicks
      /\ \A d \in Clicks \ {c} : awards'[d] = awards[d]
  BY DEF award, DealInv
<1>6. Running' = Running \ {c} /\ \A d \in Running' : awards'[d] = awards[d]
  BY <1>5 DEF Running
<1>7. ASSUME NEW d \in Running' PROVE HoldsItsRows(d)'
  <2>1. d \in Running /\ d # c /\ HoldsItsRows(d)
    BY <1>6 DEF DealInv
  <2>2. \A s \in awards[d].mine : s \notin a.mine
    BY <1>1, <2>1 DEF HoldsItsRows, Free
  <2>3. \A s \in awards[d].mine : quotes'[s] = quotes[s] /\ Free(d, s)'
    BY <1>4, <1>6, <2>1, <2>2 DEF HoldsItsRows, Free
  <2> QED
    BY <1>6, <2>1, <2>3 DEF HoldsItsRows
<1>8. bought' = bought \cup {r} /\ r.seller = a.seller /\ r.amount = a.amount
  BY DEF award
<1>9. \A o \in bought : o.seller \in Sellers /\ o.seller \notin a.mine
  BY <1>2 DEF DealInv, DecidedQuotesStand
<1>10. told' = told \cup {s \in Sellers \ {a.seller} : quotes'[s].state = "rejected"}
  BY DEF award
<1>11. a.amount = quotes'[a.seller].offer.amount
  BY <1>1, <1>2, <1>4 DEF HoldsItsRows
<1> HIDE DEF r
<1>12. \A s \in Sellers : quotes'[s].state = "accepted" <=> \E o \in bought' : o.seller = s
  BY <1>2, <1>4, <1>8, <1>9 DEF DealInv, DecidedQuotesStand
<1>13. \A o \in bought' : quotes'[o.seller].offer.amount = o.amount
  BY <1>4, <1>8, <1>9, <1>11 DEF DealInv, DecidedQuotesStand
<1>14. \A o, p \in bought' : o.seller = p.seller => o = p
  BY <1>2, <1>8, <1>9 DEF DealInv, DecidedQuotesStand
<1>15. \A s \in Sellers : quotes'[s].state = "rejected" => s \in told'
  BY <1>2, <1>4, <1>10
<1>16. DecidedQuotesStand'
  BY <1>12, <1>13, <1>14, <1>15 DEF DecidedQuotesStand
<1>17. \A d \in Clicks : awards'[d].stage = "locking" => awards'[d].seller \in Sellers
  BY <1>5 DEF DealInv
<1>18. \A s \in Sellers : quotes'[s] = [state |-> "none"] \/ quotes'[s] \in Quote
  BY <1>4 DEF DealInv
<1>19. \A o \in bought' : o.seller \in Sellers
  BY <1>2, <1>8, <1>9
<1>20. bids' = bids
  BY DEF award
<1> QED
  BY <1>3, <1>5, <1>7, <1>16, <1>17, <1>18, <1>19, <1>20 DEF DealInv

(* An accepted quote stays what its order was placed on, for any sellers,  *)
(* amounts and acceptances that overlap (rfq.go).                          *)
THEOREM QuotesStand == Deal => []DecidedQuotesStand
<1>1. DealInit => DealInv
  BY DEF DealInit, DealInv, DecidedQuotesStand, Running, NoAward
<1>2. DealInv /\ [DealNext]_deal => DealInv'
  <2> SUFFICES ASSUME DealInv, [DealNext]_deal PROVE DealInv'
    OBVIOUS
  <2>1. CASE viewQuotes \/ UNCHANGED deal
    BY <2>1 DEF viewQuotes, deal, DealInv, HoldsItsRows, Running, Free, DecidedQuotesStand
  <2>2. ASSUME NEW s \in Sellers, createQuote(s) PROVE DealInv'
    BY <2>2 DEF createQuote, DealInv, HoldsItsRows, Running, Free, DecidedQuotesStand
  <2>3. ASSUME NEW s \in Sellers, insertQuote(s) PROVE DealInv'
    BY <2>3, QuoteWritten
  <2>4. ASSUME NEW c \in Clicks, NEW s \in Sellers, pressAccept(c, s) PROVE DealInv'
    BY <2>4, AwardMoved DEF pressAccept
  <2>5. ASSUME NEW c \in Clicks, refuse(c) PROVE DealInv'
    BY <2>5, AwardMoved DEF refuse
  <2>6. ASSUME NEW c \in Clicks, lockQuote(c) PROVE DealInv'
    <3>1. awards[c].seller \in Sellers
      BY <2>6 DEF lockQuote, DealInv
    <3> QED
      BY <2>6, <3>1, AwardMoved DEF lockQuote, Selectable, served
  <2>7. ASSUME NEW c \in Clicks, closeOthers(c) PROVE DealInv'
    <3> DEFINE b == [awards[c] EXCEPT !.stage = "closing",
                                      !.todo = {s \in Sellers : quotes[s].state = "submitted"}]
    <3>1. c \in Running /\ HoldsItsRows(c)
      BY <2>7 DEF closeOthers, Running, DealInv
    <3>2. /\ awards' = [awards EXCEPT ![c] = b] /\ DOMAIN b = DOMAIN awards[c]
          /\ b.stage = "closing" /\ b.seller = awards[c].seller
          /\ b.amount = awards[c].amount /\ b.mine = awards[c].mine
      BY <2>7, <3>1 DEF closeOthers, HoldsItsRows, DealInv
    <3> HIDE DEF b
    <3> QED
      BY <2>7, <3>1, <3>2, AwardMoved DEF closeOthers, HoldsItsRows, served
  <2>8. ASSUME NEW c \in Clicks, NEW s \in Sellers, closeRow(c, s) PROVE DealInv'
    <3> DEFINE m == IF quotes[s].state = "submitted" THEN awards[c].mine \cup {s}
                    ELSE awards[c].mine
               b == [awards[c] EXCEPT !.todo = @ \ {s}, !.mine = m]
    <3>1. c \in Running /\ HoldsItsRows(c) /\ awards[c].stage = "closing"
      BY <2>8 DEF closeRow, Running, DealInv
    <3>2. /\ awards' = [awards EXCEPT ![c] = b] /\ DOMAIN b = DOMAIN awards[c]
          /\ b.stage = "closing" /\ b.seller = awards[c].seller
          /\ b.amount = awards[c].amount /\ b.mine = m
      BY <2>8, <3>1 DEF closeRow, HoldsItsRows, DealInv
    <3>3. m \subseteq Sellers /\ awards[c].seller \in m
          /\ \A t \in m : quotes[t].state = "submitted" /\ Free(c, t)
      BY <2>8, <3>1 DEF closeRow, HoldsItsRows
    <3> HIDE DEF b, m
    <3>4. UNCHANGED <<quotes, bids, bought, told>>
      BY <2>8 DEF closeRow, served
    <3>5. /\ {"stage", "seller", "amount", "mine", "todo"} \subseteq DOMAIN b
          /\ b.mine \subseteq Sellers /\ b.seller \in b.mine
          /\ \A t \in b.mine : quotes[t].state = "submitted" /\ Free(c, t)
          /\ b.amount = quotes[b.seller].offer.amount
      BY <3>1, <3>2, <3>3 DEF HoldsItsRows
    <3> QED
      BY <3>2, <3>4, <3>5, AwardMoved
  <2>9. ASSUME NEW c \in Clicks, award(c) PROVE DealInv'
    BY <2>9, AwardCommitted
  <2> QED
    BY <2>1, <2>2, <2>3, <2>4, <2>5, <2>6, <2>7, <2>8, <2>9 DEF DealNext, acceptQuote
<1>3. DealInv => DecidedQuotesStand
  BY DEF DealInv
<1> QED
  BY <1>1, <1>2, <1>3, PTL DEF Deal

-----------------------------------------------------------------------------
(* The order form.  A coupon keeps the shape it was asked for, which is    *)
(* the shape the server priced; what is shown is a coupon of the shape on  *)
(* screen, so it was priced for that shape; what is sent with an order is  *)
(* what is shown.                                                          *)

Coupons == [code : Codes \cup {""}, shape : Shapes, priced : Shapes]

(* The types the argument needs.                                           *)
ShopTypes ==
  /\ shape \in Shapes /\ couponCode \in Codes \cup {""}
  /\ coupon \in {NoCoupon} \cup Coupons
  /\ previews \subseteq [code : Codes \cup {""}, shape : Shapes]
  /\ sales \subseteq [shape : Shapes, coupon : {NoCoupon} \cup Coupons,
                      stage : {"sent", "made", "over"}]

(* A coupon was priced for the shape it is tagged with.                    *)
TagInv ==
  /\ coupon # NoCoupon => coupon.priced = coupon.shape
  /\ \A s \in sales : s.coupon # NoCoupon => s.coupon.priced = s.shape

ShopInv == ShopTypes /\ TagInv

(* Two shapes with the same package and the same options are one shape.    *)
LEMMA ShapeByParts ==
  ASSUME NEW s \in Shapes, NEW t \in Shapes, s.package = t.package, s.extras = t.extras
  PROVE  s = t
BY DEF Shapes

(* A coupon that is shown is the one the form holds, and was priced for    *)
(* the shape on screen.                                                    *)
LEMMA ShownIsPriced ==
  ASSUME ShopInv, shownCoupon # NoCoupon
  PROVE  shownCoupon = coupon /\ coupon \in Coupons /\ coupon.priced = shape
<1>1. shownCoupon = coupon /\ coupon # NoCoupon /\ couponMatchesSelection(coupon, shape)
  BY DEF shownCoupon, activeCoupon
<1>2. coupon \in Coupons /\ coupon.shape \in Shapes /\ shape \in Shapes
  BY <1>1 DEF ShopInv, ShopTypes, Coupons
<1>3. coupon.shape = shape
  BY <1>1, <1>2, ShapeByParts DEF couponMatchesSelection
<1> QED BY <1>1, <1>2, <1>3 DEF ShopInv, TagInv

(* The listing loads with no coupon.                                       *)
LEMMA ShopStarts == ShopInit => ShopInv
BY DEF ShopInit, ShopInv, ShopTypes, TagInv, Shapes, NoCoupon

(* Every control and every answer keeps the coupon and its price together. *)
LEMMA ShopStep == ShopInv /\ [ShopNext]_shop => ShopInv'
<1> SUFFICES ASSUME ShopInv, [ShopNext]_shop PROVE ShopInv'
  OBVIOUS
<1> USE DEF ShopInv, ShopTypes, TagInv
<1>1. ASSUME NEW p \in Packages, setSelectedPackage(p) PROVE ShopInv'
  BY <1>1 DEF setSelectedPackage, Shapes
<1>2. ASSUME NEW x \in Extras, setChosenOptions(x) PROVE ShopInv'
  <2>1. shape' \in Shapes
    BY <1>2 DEF setChosenOptions, Shapes
  <2> QED BY <1>2, <2>1 DEF setChosenOptions
<1>3. ASSUME NEW c \in Codes \cup {""}, setCouponCode(c) PROVE ShopInv'
  BY <1>3 DEF setCouponCode
<1>4. CASE applyCoupon
  <2>1. [code |-> couponCode, shape |-> shape] \in [code : Codes \cup {""}, shape : Shapes]
    OBVIOUS
  <2> QED BY <1>4, <2>1 DEF applyCoupon
<1>5. ASSUME NEW p \in previews, PreviewAnswered(p) PROVE ShopInv'
  <2>1. p.code \in Codes \cup {""} /\ p.shape \in Shapes
    OBVIOUS
  <2>2. coupon' \in Coupons /\ coupon'.priced = coupon'.shape
    BY <1>5, <2>1 DEF PreviewAnswered, Coupons
  <2> QED BY <1>5, <2>2 DEF PreviewAnswered
<1>6. ASSUME NEW p \in previews, PreviewRefused(p) PROVE ShopInv'
  BY <1>6 DEF PreviewRefused
<1>7. CASE placeOrder
  <2> DEFINE s == [shape |-> shape, coupon |-> shownCoupon, stage |-> "sent"]
  <2>1. shownCoupon \in {NoCoupon} \cup Coupons
    BY ShownIsPriced
  <2>2. s.coupon # NoCoupon => s.coupon.priced = s.shape
    BY ShownIsPriced
  <2>3. s \in [shape : Shapes, coupon : {NoCoupon} \cup Coupons, stage : {"sent", "made", "over"}]
    BY <2>1
  <2>4. sales' = sales \cup {s} /\ UNCHANGED <<shape, couponCode, coupon, previews>>
    BY <1>7 DEF placeOrder
  <2> HIDE DEF s
  <2> QED BY <2>2, <2>3, <2>4
<1>8. ASSUME NEW s \in sales, NEW stage \in {"made", "over"},
             sales' = (sales \ {s}) \cup {[s EXCEPT !.stage = stage]},
             UNCHANGED <<shape, couponCode, coupon, previews>>
      PROVE  ShopInv'
  <2> DEFINE t == [s EXCEPT !.stage = stage]
  <2>1. /\ t \in [shape : Shapes, coupon : {NoCoupon} \cup Coupons, stage : {"sent", "made", "over"}]
        /\ t.coupon = s.coupon /\ t.shape = s.shape
    OBVIOUS
  <2>2. t.coupon # NoCoupon => t.coupon.priced = t.shape
    BY <2>1
  <2> HIDE DEF t
  <2>3. sales' = (sales \ {s}) \cup {t}
    BY <1>8 DEF t
  <2> QED BY <1>8, <2>1, <2>2, <2>3
<1>9. ASSUME NEW s \in sales, SaleMade(s) PROVE ShopInv'
  BY <1>8, <1>9 DEF SaleMade
<1>10. ASSUME NEW s \in sales, SaleAnswered(s) PROVE ShopInv'
  BY <1>8, <1>10 DEF SaleAnswered
<1>11. CASE UNCHANGED shop
  BY <1>11 DEF shop
<1> QED BY <1>1, <1>2, <1>3, <1>4, <1>5, <1>6, <1>7, <1>9, <1>10, <1>11 DEF ShopNext

(* The form keeps every coupon with the price of its own shape.            *)
THEOREM ShopKeepsInv == Shop => []ShopInv
BY ShopStarts, ShopStep, PTL DEF Shop

(* Whatever is changed, asked and answered in whatever order, the coupon   *)
(* shown and the coupon sent with an order were priced for exactly the     *)
(* package and options beside them.                                        *)
THEOREM CouponAlwaysFits == Shop => []ShownCouponFits
<1>1. ShopInv => ShownCouponFits
  BY ShownIsPriced DEF ShownCouponFits, ShopInv, TagInv
<1> QED BY <1>1, ShopKeepsInv, PTL

-----------------------------------------------------------------------------
(* The operator's queues.  An accepted decision stands on its case, under  *)
(* its own number; a case that has a decision standing on it is no longer  *)
(* pending, so nothing can be accepted there again and nobody takes the    *)
(* place of what stands.                                                   *)

Files  == [case : Cases, version : Nat, pending : BOOLEAN]
Stages == {"sent", "done", "refused"}
Posts  == [id : Nat \ {0}, case : Cases, read : {NoFile} \cup Files, stage : Stages]

(* The types the argument needs.                                           *)
CaseTypes ==
  /\ subject \in [Cases -> Nat] /\ DOMAIN verdict = Cases
  /\ rows \subseteq Cases /\ rowsBack \subseteq SUBSET Cases
  /\ target \in Cases \cup {NoCase} /\ caseFile \in {NoFile} \cup Files
  /\ filesAsked \subseteq Cases /\ filesBack \subseteq Files
  /\ posts \subseteq Posts /\ decisions \in Nat

CaseInv == CaseTypes /\ ToldIsDone

(* A queue starts with nothing decided and nothing sent.                   *)
LEMMA CaseStarts == CaseInit => CaseInv
BY DEF CaseInit, CaseInv, CaseTypes, ToldIsDone

(* Moving on to another stage changes nothing else about a decision.       *)
LEMMA StagedEffect ==
  ASSUME NEW p \in Posts, NEW stage \in Stages
  PROVE  /\ [p EXCEPT !.stage = stage] \in Posts
         /\ [p EXCEPT !.stage = stage].stage = stage
         /\ [p EXCEPT !.stage = stage].case = p.case
         /\ [p EXCEPT !.stage = stage].id = p.id
BY DEF Posts

(* A decision that is sent has not been accepted.                          *)
LEMMA DecisionSent ==
  ASSUME CaseInv, NEW c \in Cases, NEW f \in {NoFile} \cup Files, SendDecision(c, f),
         UNCHANGED verdict
  PROVE  posts' \subseteq Posts /\ decisions' \in Nat /\ ToldIsDone'
<1> DEFINE p == [id |-> decisions + 1, case |-> c, read |-> f, stage |-> "sent"]
<1>1. decisions + 1 \in Nat \ {0}
  BY DEF CaseInv, CaseTypes
<1>2. p \in Posts /\ p.stage # "done"
  BY <1>1 DEF Posts, Stages
<1>3. posts' = posts \cup {p} /\ decisions' = decisions + 1
  BY DEF SendDecision
<1> HIDE DEF p
<1> QED BY <1>1, <1>2, <1>3 DEF CaseInv, CaseTypes, ToldIsDone

(* The server accepts a decision only on a pending case.                   *)
LEMMA ServedKeeps ==
  ASSUME CaseInv, NEW p \in posts, DecisionServed(p)
  PROVE  CaseInv'
<1> DEFINE q(stage) == [p EXCEPT !.stage = stage]
           v == [by |-> p.id, version |-> subject[p.case], read |-> p.read]
<1>1. p \in Posts /\ p.case \in Cases /\ p.id \in Nat \ {0}
  BY DEF CaseInv, CaseTypes, Posts
<1>2. UNCHANGED <<subject, rows, rowsBack, target, caseFile, filesAsked, filesBack, decisions>>
  BY DEF DecisionServed, listing, evidence
<1>3. CASE Staged(p, "refused") /\ UNCHANGED verdict
  <2>1. /\ q("refused") \in Posts /\ q("refused").stage = "refused"
        /\ posts' = (posts \ {p}) \cup {q("refused")}
    BY <1>1, <1>3, StagedEffect DEF Staged, Stages
  <2> HIDE DEF q
  <2> QED BY <1>2, <1>3, <2>1 DEF CaseInv, CaseTypes, ToldIsDone
<1>4. CASE /\ verdict[p.case] = Pending /\ Staged(p, "done")
           /\ verdict' = [verdict EXCEPT ![p.case] = v]
  <2>1. /\ q("done") \in Posts /\ q("done").case = p.case /\ q("done").id = p.id
        /\ posts' = (posts \ {p}) \cup {q("done")}
    BY <1>1, <1>4, StagedEffect DEF Staged, Stages
  <2>2. /\ DOMAIN verdict' = Cases /\ verdict'[p.case].by = p.id
        /\ \A c \in Cases : c # p.case => verdict'[c] = verdict[c]
    BY <1>1, <1>4 DEF CaseInv, CaseTypes
  <2>3. \A o \in posts : o.stage = "done" => o.case \in Cases /\ o.case # p.case
    BY <1>4 DEF CaseInv, CaseTypes, ToldIsDone, Pending, Posts
  <2> HIDE DEF q, v
  <2>4. ToldIsDone'
    BY <2>1, <2>2, <2>3 DEF CaseInv, ToldIsDone
  <2> QED BY <1>2, <2>1, <2>2, <2>4 DEF CaseInv, CaseTypes
<1> QED BY <1>3, <1>4 DEF DecisionServed

(* Every step of the window, the server and the other operator keeps it.   *)
LEMMA CaseStep == CaseInv /\ [CaseNext]_cases => CaseInv'
<1> SUFFICES ASSUME CaseInv, [CaseNext]_cases PROVE CaseInv'
  OBVIOUS
<1> USE NoCaseAssumption DEF CaseInv, CaseTypes, listing, evidence, truth
<1>1. CASE listCases
  BY <1>1 DEF listCases, ToldIsDone, Undecided
<1>2. ASSUME NEW a \in rowsBack, RowsAnswered(a) PROVE CaseInv'
  BY <1>2 DEF RowsAnswered, ToldIsDone
<1>3. CASE setState
  BY <1>3 DEF setState, ToldIsDone
<1>4. ASSUME NEW c \in Cases, openCase(c) PROVE CaseInv'
  BY <1>4 DEF openCase, ToldIsDone
<1>5. ASSUME NEW c \in Cases, getCase(c) PROVE CaseInv'
  <2>1. [case |-> c, version |-> subject[c], pending |-> c \in Undecided] \in Files
    BY DEF Files
  <2> QED BY <1>5, <2>1 DEF getCase, ToldIsDone
<1>6. ASSUME NEW f \in filesBack, FileAnswered(f) PROVE CaseInv'
  BY <1>6 DEF FileAnswered, ToldIsDone
<1>7. CASE closeCase
  BY <1>7 DEF closeCase, ToldIsDone
<1>8. CASE resolve
  <2>1. posts' \subseteq Posts /\ decisions' \in Nat /\ ToldIsDone'
    BY <1>8, DecisionSent DEF resolve
  <2> QED BY <1>8, <2>1 DEF resolve
<1>9. CASE decideReviewed
  <2>1. caseFile.case \in Cases
    BY <1>9 DEF decideReviewed, Files
  <2>2. posts' \subseteq Posts /\ decisions' \in Nat /\ ToldIsDone'
    BY <1>9, <2>1, DecisionSent DEF decideReviewed
  <2> QED BY <1>9, <2>2 DEF decideReviewed
<1>10. ASSUME NEW c \in Cases, decide(c) PROVE CaseInv'
  <2>1. posts' \subseteq Posts /\ decisions' \in Nat /\ ToldIsDone'
    BY <1>10, DecisionSent DEF decide
  <2> QED BY <1>10, <2>1 DEF decide
<1>11. ASSUME NEW p \in posts, DecisionServed(p) PROVE CaseInv'
  BY <1>11, ServedKeeps
<1>12. ASSUME NEW p \in posts, DecisionAnswered(p) PROVE CaseInv'
  BY <1>12 DEF DecisionAnswered, ToldIsDone
<1>13. ASSUME NEW c \in Cases, OtherDecides(c) PROVE CaseInv'
  <2>1. /\ DOMAIN verdict' = Cases
        /\ \A d \in Cases : d # c => verdict'[d] = verdict[d]
    BY <1>13 DEF OtherDecides
  <2>2. \A o \in posts : o.stage = "done" => o.case \in Cases /\ o.case # c
    BY <1>13 DEF OtherDecides, ToldIsDone, Pending, Posts
  <2>3. ToldIsDone'
    BY <1>13, <2>1, <2>2 DEF OtherDecides, ToldIsDone
  <2> QED BY <1>13, <2>1, <2>3 DEF OtherDecides
<1>14. ASSUME NEW c \in Cases, SubjectChanges(c) PROVE CaseInv'
  BY <1>14 DEF SubjectChanges, ToldIsDone
<1>15. CASE UNCHANGED cases
  BY <1>15 DEF cases, ToldIsDone
<1> QED
  BY <1>1, <1>2, <1>3, <1>4, <1>5, <1>6, <1>7, <1>8, <1>9, <1>10, <1>11, <1>12, <1>13,
     <1>14, <1>15
  DEF CaseNext, DisputeQueue, ReportQueue, ApprovalAdmin, InQueue

(* Two decisions on one case are never both accepted, and an accepted one  *)
(* is never replaced, whatever the lists and dialogs showed.               *)
THEOREM AcceptedStands == CaseWork => []ToldIsDone
<1>1. CaseInv => ToldIsDone
  BY DEF CaseInv
<1> QED BY <1>1, CaseStarts, CaseStep, PTL DEF CaseWork
=============================================================================
