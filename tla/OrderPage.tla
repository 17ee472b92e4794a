------------------------------ MODULE OrderPage ------------------------------
(***************************************************************************)
(* The order workspace as one person sees it, against the order it shows.  *)
(*                                                                         *)
(* The page knows the order from its last answered load.  It offers the    *)
(* actions its table lists for that state and for what the person is to    *)
(* the order; the server asks for the permission of the route, then for    *)
(* the person's part in the order, then for the state it finds.  The other *)
(* party and the operators move the order meanwhile.  A load is two rounds *)
(* of requests: the order, then the conversation and the disputes together.*)
(* The person's part and permissions do not change while the page is open. *)
(*                                                                         *)
(* Steps bounds what happens to the order, Clicks what the person does,    *)
(* PageWindow the requests of one kind under way.                          *)
(***************************************************************************)
EXTENDS OrderTable, Integers, FiniteSets

CONSTANTS
  Steps, Clicks, PageWindow,
  GraceDays,     \* marketplace.policy overdue_cancel_days; 0 turns it off
  People         \* whoever may look at the order: a part in it, and permissions

ASSUME OrderPageAssumption == {Steps, Clicks, PageWindow, GraceDays} \subseteq Nat

Permissions == {"orders.buy", "orders.sell", "orders.manage", "risk.manage"}

\* "company" manages the organization that pays; whoever has no part in the
\* order is shown it for orders.manage.
ASSUME PeopleAssumption ==
  /\ People # {}
  /\ People \subseteq [party  : {"buyer", "seller", "company", "none"},
                       rights : SUBSET Permissions]
  /\ \A p \in People : p.party = "none" => "orders.manage" \in p.rights

Kinds   == {"pay", "start", "deliver", "accept", "revise", "review",
            "dispute", "cancel", "send"}
Nowhere == [state |-> "none", late |-> 0]

VARIABLES
  person,    \* who looks at the page
  order,     \* the order on the server: state and whole days late
  talk,      \* version of its conversation and disputes on the server
  steps, clicks,
  shown,     \* the order the page shows
  shownTalk, \* version of the conversation it shows; -1 is an empty list
  broken,    \* the page shows the error in place of the order, for good
  reloads,   \* loads the server has not read yet
  orders,    \* orders on their way back
  talkAsked, \* second rounds the server has not read yet
  talks,     \* conversations on their way back
  acts,      \* actions posted and not answered: kind, the order the person
             \* saw, the order the server found (Nowhere before), accepted
  busy,      \* buttons are disabled
  reviewOpen \* the review dialog is up

page == <<person, order, talk, steps, clicks, shown, shownTalk, broken, reloads,
          orders, talkAsked, talks, acts, busy, reviewOpen>>
seen == <<shown, shownTalk, broken>>
wire == <<reloads, orders, talkAsked, talks>>

Buys(p)      == p.party = "buyer"
Sells(p)     == p.party = "seller"
Manages(p)   == "orders.manage" \in p.rights
\* orderAccess: the conversation is the parties' and the operators'.
Converses(p) == Buys(p) \/ Sells(p) \/ Manages(p)

(***************************************************************************)
(* What the page offers, by the person and the order it shows.             *)
(***************************************************************************)
\* A plausible bug: the cancellation is offered as soon as it may be asked for.
MutOffered ==
  {k \in Kinds : k = "send" \/ (k = "cancel" /\ Buys(person) /\ shown.state = "CANCEL_REQUESTED")}

Offered ==
  LET s       == shown.state
      Orders  == Buys(person) \/ Manages(person)
      Works   == Sells(person) \/ Manages(person)
  IN {k \in Kinds :
       \/ k = "pay"     /\ Orders /\ s \in {"CREATED", "PAYMENT_PENDING"}
       \/ k = "start"   /\ Works  /\ s \in {"READY", "REVISION_REQUESTED"}
       \/ k = "deliver" /\ Works  /\ s = "IN_PROGRESS"
       \/ k \in {"accept", "revise"} /\ Orders /\ s = "DELIVERED"
       \/ k = "review"  /\ Buys(person) /\ s = "ACCEPTED"
       \/ k = "dispute" /\ Converses(person)
                        /\ s \in {"IN_PROGRESS", "DELIVERED", "REVISION_REQUESTED", "ACCEPTED"}
       \/ k = "cancel"  /\ Buys(person) /\ s = "CANCEL_REQUESTED" /\ shown.late >= 7
       \/ k = "send"    /\ Converses(person) /\ s # "none"}

(***************************************************************************)
(* What the server does with it: where each action leads, and from where.  *)
(***************************************************************************)
Target(k, o) ==
  CASE k = "pay"     -> "READY"
    [] k = "start"   -> "IN_PROGRESS"
    [] k = "deliver" -> "DELIVERED"
    [] k = "accept"  -> "ACCEPTED"
    [] k = "revise"  -> "REVISION_REQUESTED"
    [] k = "review"  -> "COMPLETED"
    [] k = "dispute" -> "DISPUTED"
    [] k = "cancel"  -> "CANCELLED"
    [] OTHER         -> o.state

\* The permission the route asks for; those of the other actions ask for none.
Admitted(p, k) ==
  /\ k \in {"pay", "accept", "revise", "review"} => "orders.buy" \in p.rights
  /\ k = "deliver" => "orders.sell" \in p.rights

\* The handler's look at the person, who manages orders or has the part for it.
\* The buyer of an order that is late enough may cancel it.
MayAct(p, k, o) ==
  CASE k \in {"pay", "accept", "revise"} -> Buys(p) \/ Manages(p)
    [] k \in {"start", "deliver"}        -> Sells(p) \/ Manages(p)
    [] k = "review"  -> Buys(p)
    [] k = "dispute" -> Converses(p) \/ "risk.manage" \in p.rights
    [] k = "cancel"  -> \/ Manages(p)
                        \/ /\ Buys(p) /\ o.state = "CANCEL_REQUESTED"
                           /\ GraceDays > 0 /\ o.late >= GraceDays
    [] OTHER         -> Converses(p)

\* The handler's look at the order.
StateAllows(k, o) ==
  CASE k = "pay"     -> o.state \in {"CREATED", "PAYMENT_PENDING"}
    [] k = "deliver" -> o.state \in {"IN_PROGRESS", "REVISION_REQUESTED"}
    [] k \in {"accept", "revise"}           -> o.state = "DELIVERED"
    [] k = "review"  -> o.state \in {"ACCEPTED", "COMPLETED"}
    [] k \in {"start", "dispute", "cancel"} -> <<o.state, Target(k, o)>> \in orderTransitions
    [] OTHER         -> TRUE

\* A plausible bug: the handler forgets that operators act for the parties.
MutAllowed(p, k, o) ==
  /\ Admitted(p, k) /\ MayAct([p EXCEPT !.rights = @ \ {"orders.manage"}], k, o)
  /\ StateAllows(k, o)

Allowed(p, k, o) == Admitted(p, k) /\ MayAct(p, k, o) /\ StateAllows(k, o)

\* What the server may answer: "refused" is for the person or the state, "spent"
\* for what the page is not shown: revisions used up, a dispute or a review that
\* exists, too many messages or disputes in a minute.
Answers(p, k, o) ==
  IF ~Allowed(p, k, o) THEN {"refused"}
  ELSE {"ok"} \cup IF k \in {"revise", "dispute", "review", "send"} THEN {"spent"} ELSE {}

PageInit ==
        /\ person \in People
        /\ order \in [state : {"CREATED", "READY", "DELIVERED", "ACCEPTED",
                               "CANCEL_REQUESTED"}, late : {0}]
        /\ talk = 0 /\ steps = 0 /\ clicks = 0
        /\ shown = Nowhere /\ shownTalk = -1 /\ broken = FALSE
        /\ reloads = 1 /\ orders = {} /\ talkAsked = 0 /\ talks = {}
        /\ acts = {} /\ busy = FALSE /\ reviewOpen = FALSE

(***************************************************************************)
(* load: asked for by the mount, by the interval, by any frame of the      *)
(* socket and after every accepted action.                                 *)
(***************************************************************************)
Reloading == reloads + Cardinality(orders)
reload    == reloads' = IF ~broken /\ Reloading < PageWindow THEN reloads + 1 ELSE reloads

\* A plausible bug: the page trusts the socket to announce every change.
MutReloadFires ==
  /\ ~broken /\ Reloading < PageWindow /\ shown = Nowhere
  /\ reloads' = reloads + 1
  /\ UNCHANGED <<person, order, talk, steps, clicks, seen, orders,
                 talkAsked, talks, acts, busy, reviewOpen>>

ReloadFires ==
  /\ ~broken /\ Reloading < PageWindow
  /\ reloads' = reloads + 1
  /\ UNCHANGED <<person, order, talk, steps, clicks, seen, orders,
                 talkAsked, talks, acts, busy, reviewOpen>>

OrderServed ==
  /\ reloads > 0
  /\ reloads' = reloads - 1
  /\ orders' = orders \cup {order}
  /\ UNCHANGED <<person, order, talk, steps, clicks, seen, talkAsked,
                 talks, acts, busy, reviewOpen>>

OrderAnswered(o) ==
  /\ o \in orders
  /\ orders' = orders \ {o}
  /\ shown' = o
  /\ talkAsked' = 1        \* one waiting is as good as more
  /\ UNCHANGED <<person, order, talk, steps, clicks, shownTalk, broken,
                 reloads, talks, acts, busy, reviewOpen>>

\* One load that fails replaces the page by its message, and nothing clears it:
\* what is still asked for is not shown any more.
OrderFailed(o) ==
  /\ o \in orders
  /\ broken' = TRUE
  /\ reloads' = 0 /\ orders' = {} /\ talkAsked' = 0 /\ talks' = {}
  /\ UNCHANGED <<person, order, talk, steps, clicks, shown, shownTalk, acts, busy, reviewOpen>>

TalkServed ==
  /\ talkAsked = 1 /\ Cardinality(talks) < PageWindow
  /\ talkAsked' = 0
  /\ talks' = talks \cup {talk}
  /\ UNCHANGED <<person, order, talk, steps, clicks, seen, reloads,
                 orders, acts, busy, reviewOpen>>

\* The company's 403 and a failed request read as an empty conversation.
TalkAnswered(t) ==
  /\ t \in talks
  /\ talks' = talks \ {t}
  /\ shownTalk' = IF Converses(person) THEN t ELSE -1
  /\ UNCHANGED <<person, order, talk, steps, clicks, shown, broken,
                 reloads, orders, talkAsked, acts, busy, reviewOpen>>

TalkFailed(t) ==
  /\ t \in talks
  /\ talks' = talks \ {t}
  /\ shownTalk' = -1
  /\ UNCHANGED <<person, order, talk, steps, clicks, shown, broken,
                 reloads, orders, talkAsked, acts, busy, reviewOpen>>

(***************************************************************************)
(* action: busy, post, notify, load again.                                 *)
(***************************************************************************)
openReview ==
  /\ "review" \in Offered /\ ~broken /\ ~busy /\ ~reviewOpen
  /\ reviewOpen' = TRUE
  /\ UNCHANGED <<person, order, talk, steps, clicks, seen, wire, acts, busy>>

closeReview ==
  /\ reviewOpen /\ ~broken
  /\ reviewOpen' = FALSE
  /\ UNCHANGED <<person, order, talk, steps, clicks, seen, wire, acts, busy>>

\* A review is sent from its dialog, which stays up while the order changes.
action(k) ==
  /\ clicks < Clicks /\ ~broken
  /\ IF k = "review" THEN reviewOpen ELSE k \in Offered
  /\ busy => k = "send"                 \* the one button busy leaves enabled
  /\ clicks' = clicks + 1
  /\ busy' = TRUE
  /\ reviewOpen' = (reviewOpen /\ k # "review")
  /\ acts' = acts \cup {[kind |-> k, saw |-> shown, found |-> Nowhere, answer |-> "none"]}
  /\ UNCHANGED <<person, order, talk, steps, seen, wire>>

ActServed(a) ==
  /\ a \in acts /\ a.found = Nowhere
  /\ \E answer \in Answers(person, a.kind, order) :
       /\ acts' = (acts \ {a}) \cup {[a EXCEPT !.found = order, !.answer = answer]}
       /\ IF answer = "ok"
          THEN /\ order' = [order EXCEPT !.state = Target(a.kind, order)]
               /\ talk' = IF a.kind \in {"send", "dispute"} /\ talk < Steps
                          THEN talk + 1 ELSE talk
          ELSE UNCHANGED <<order, talk>>
  /\ UNCHANGED <<person, steps, clicks, seen, wire, busy, reviewOpen>>

ActAnswered(a) ==
  /\ a \in acts /\ a.found # Nowhere
  /\ acts' = acts \ {a}
  /\ busy' = FALSE
  /\ IF a.answer = "ok" THEN reload ELSE UNCHANGED reloads
  /\ UNCHANGED <<person, order, talk, steps, clicks, seen, orders,
                 talkAsked, talks, reviewOpen>>

(***************************************************************************)
(* Everybody else, and the clock.                                          *)
(***************************************************************************)
OthersAct ==
  /\ steps < Steps
  /\ steps' = steps + 1
  /\ \/ /\ \E m \in orderTransitions :
             m[1] = order.state /\ order' = [order EXCEPT !.state = m[2]]
        /\ UNCHANGED <<talk, reloads>>
     \/ \* a message: publish sends every open socket a frame, which loads
        /\ talk < Steps /\ talk' = talk + 1
        /\ (reload \/ UNCHANGED reloads)
        /\ UNCHANGED order
  /\ UNCHANGED <<person, clicks, seen, orders, talkAsked, talks, acts,
                 busy, reviewOpen>>

DaysPass ==
  /\ order.state = "CANCEL_REQUESTED" /\ order.late = 0  \* else the days change no button
  /\ order' = [order EXCEPT !.late = 7]
  /\ UNCHANGED <<person, talk, steps, clicks, seen, wire, acts, busy, reviewOpen>>

PageMachine ==
  \/ ReloadFires \/ OrderServed \/ TalkServed
  \/ \E o \in orders : OrderAnswered(o) \/ OrderFailed(o)
  \/ \E t \in talks : TalkAnswered(t) \/ TalkFailed(t)
  \/ \E a \in acts : ActServed(a) \/ ActAnswered(a)

PageNext == PageMachine \/ OthersAct \/ DaysPass \/ openReview \/ closeReview
            \/ \E k \in Kinds : action(k)

\* The interval fires, requests are read, and of the answers under way some
\* arrives; a conversation asked for again and again is not lost every time.
PageFairness ==
  /\ WF_page(ReloadFires) /\ WF_page(OrderServed) /\ WF_page(TalkServed)
  /\ WF_page(\E o \in orders : OrderAnswered(o) \/ OrderFailed(o))
  /\ WF_page(\E t \in talks : TalkAnswered(t) \/ TalkFailed(t))
  /\ SF_page(\E t \in talks : TalkAnswered(t))

Page == PageInit /\ [][PageNext]_page /\ PageFairness

-----------------------------------------------------------------------------
(* "Only the actions that fit the current state are shown" (the page says  *)
(* so above its buttons): an action the handler refuses, for the person or *)
(* for the state, was offered on a display that was out of date.  It needs *)
(* the page's table and seven handlers to agree for every person.  Two     *)
(* exceptions: the page does not look at the permission the route asks for *)
(* (router.go:108-115), so that an operator is offered actions no display  *)
(* can make good, and a review may be sent from a dialog opened on an      *)
(* earlier state.                                                          *)
RefusedOnlyWhenStale ==
  \A a \in acts : a.kind # "review" /\ a.answer = "refused" /\ Admitted(person, a.kind)
                 => a.found # a.saw

\* Refuted: an operator is offered the payment of an order nobody else touches,
\* and the route refuses it for want of orders.buy.
OfferedIsAdmitted ==
  \A a \in acts : a.kind # "review" /\ a.answer = "refused" => a.found # a.saw

(* The page comes to show the order and the conversation as they are once  *)
(* both are quiet: no order transition is ever published to the socket, so *)
(* it is the interval that has to get it there, past answers that overtake *)
(* one another and second rounds that fail.                                *)
PageCatchesUp ==
  []<>(broken \/ (shown = order /\ shownTalk = IF Converses(person) THEN talk ELSE -1))
=============================================================================
