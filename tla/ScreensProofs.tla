--------------------------- MODULE ScreensProofs ---------------------------
(***************************************************************************)
(* The screens that keep themselves up to date, for any number of changes, *)
(* clicks and requests under way: the bell has at most one poll, and none  *)
(* once it has gone; the order page offers what the handlers allow, so     *)
(* that a refusal the route did not decide is a stale display's.           *)
(***************************************************************************)
EXTENDS Screens, TLAPS

-----------------------------------------------------------------------------
(* The bell.                                                               *)

\* A socket that lives belongs to an effect that runs; only its loss starts
\* the interval, and every way out of that state takes the interval along.
BellInv == /\ timers \in {0, 1}
           /\ timers = 1 => mounted /\ socket = "lost"
           /\ socket \in Live => mounted

(* What every action but the cleanup and the loss of the socket in use does*)
(* to the socket: it goes on living, and the interval stays (the handlers  *)
(* of NotificationBell.tsx).                                               *)
LEMMA SocketGoesOn ==
  ASSUME BellInv, timers' = timers, mounted' = mounted,
         \/ socket' = socket
         \/ socket \in Live /\ socket' \in Live
  PROVE  BellInv'
BY DEF BellInv, Live

(* The invariant of the bell is inductive (the effect of                   *)
(* NotificationBell.tsx and what its sockets call back).                   *)
LEMMA BellStep == ASSUME BellInv, [BellNext]_bell PROVE BellInv'
<1>1. CASE Renew
  BY <1>1 DEF BellInv, Renew, Cleanup, Connect, Live
<1>2. CASE SocketLost
  BY <1>2 DEF BellInv, SocketLost, startPolling, Live
<1>3. CASE Upgraded \/ Greeted
  BY <1>3, SocketGoesOn DEF Upgraded, Greeted, Live
<1>4. CASE StoppedClose \/ FrameArrives \/ ListServed \/ PollFires
  BY <1>4, SocketGoesOn DEF StoppedClose, FrameArrives, ListServed, PollFires
<1>5. CASE \E v \in Versions : LoadAnswered(v) \/ LoadLost(v)
  BY <1>5, SocketGoesOn DEF LoadAnswered, LoadLost
<1>6. CASE open \/ Notify \/ readAll \/ openItem
  BY <1>6, SocketGoesOn DEF open, Notify, readAll, openItem, Read
<1>8. CASE \E r \in reads : ReadAnswered(r) \/ ReadLost(r)
  BY <1>8, SocketGoesOn DEF ReadAnswered, ReadLost
<1>7. CASE UNCHANGED bell
  BY <1>7, SocketGoesOn DEF bell
<1> QED
  BY <1>1, <1>2, <1>3, <1>4, <1>5, <1>6, <1>7, <1>8 DEF BellNext, BellMachine

(* One interval at most, and only while the bell is on the page and its    *)
(* socket is lost: an onclose that comes after the cleanup starts none.    *)
THEOREM BellPollsOnce == Bell => []OnePoll
<1>1. BellInit => BellInv
  BY DEF BellInit, BellInv, Live
<1>2. BellInv /\ [BellNext]_bell => BellInv'
  BY BellStep
<1>3. BellInv => OnePoll
  BY DEF BellInv, OnePoll
<1> QED
  BY <1>1, <1>2, <1>3, PTL DEF Bell
-----------------------------------------------------------------------------
(* The order page.                                                         *)

\* An order as page and server know it, and an action on its way.
OrderViews == [state : OrderStates \cup {"none"}, late : Nat]
Actions == [kind : Kinds, saw : OrderViews, found : OrderViews,
            answer : {"none", "ok", "spent", "refused"}]

PageTypes ==
  /\ order \in OrderViews /\ shown \in OrderViews /\ orders \subseteq OrderViews
  /\ acts \subseteq Actions

\* What the page's table promises of an action it offers to a person on a
\* display: that the handler allows it there.  The cancellation, offered from the
\* seventh day on, is allowed from the day the policy names.
Fitting(p, k, o) ==
  IF k = "cancel" THEN Buys(p) /\ o.state = "CANCEL_REQUESTED" /\ o.late >= 7
  ELSE MayAct(p, k, o) /\ StateAllows(k, o)

\* Every action but a review was offered on the display it remembers, and is
\* refused only where the server does not allow it.
PageInv ==
  /\ PageTypes
  /\ \A a \in acts : a.kind # "review" =>
       /\ Fitting(person, a.kind, a.saw)
       /\ a.answer = "refused" => ~ Allowed(person, a.kind, a.found)

(* The page's table against the handlers' conditions, action by action:    *)
(* what is offered to whoever looks fits the person and the order shown    *)
(* (the buttons of OrderWorkspacePage.tsx; orders.go, collaboration.go,    *)
(* disputes.go).                                                           *)
LEMMA OfferedFits ==
  ASSUME NEW k \in Offered, k # "review"
  PROVE  Fitting(person, k, shown)
<1>1. CASE k \in {"pay", "deliver", "accept", "revise"}
  BY <1>1 DEF Offered, Fitting, MayAct, StateAllows
<1>2. CASE k = "start"
  <2>1. shown.state \in {"READY", "REVISION_REQUESTED"} /\ (Sells(person) \/ Manages(person))
    BY <1>2 DEF Offered
  <2>2. <<shown.state, "IN_PROGRESS">> \in orderTransitions
    BY <2>1 DEF orderTransitions
  <2>3. Target(k, shown) = "IN_PROGRESS"
    BY <1>2 DEF Target
  <2>4. MayAct(person, k, shown) /\ StateAllows(k, shown)
    BY <1>2, <2>1, <2>2, <2>3 DEF MayAct, StateAllows
  <2> QED BY <1>2, <2>4 DEF Fitting
<1>3. CASE k = "dispute"
  <2>1. /\ shown.state \in {"IN_PROGRESS", "DELIVERED", "REVISION_REQUESTED", "ACCEPTED"}
        /\ Converses(person)
    BY <1>3 DEF Offered
  <2>2. <<shown.state, "DISPUTED">> \in orderTransitions
    BY <2>1 DEF orderTransitions
  <2>3. Target(k, shown) = "DISPUTED"
    BY <1>3 DEF Target
  <2>4. MayAct(person, k, shown) /\ StateAllows(k, shown)
    BY <1>3, <2>1, <2>2, <2>3 DEF MayAct, StateAllows
  <2> QED BY <1>3, <2>4 DEF Fitting
<1>4. CASE k \in {"cancel", "send"}
  BY <1>4 DEF Offered, Fitting, MayAct, StateAllows
<1> QED BY <1>1, <1>2, <1>3, <1>4 DEF Offered, Kinds

(* The server leads an order to another of its states, by whatever action. *)
LEMMA TargetType ==
  ASSUME NEW k \in Kinds, NEW o \in OrderViews
  PROVE  [o EXCEPT !.state = Target(k, o)] \in OrderViews
<1>1. Target(k, o) \in OrderStates \cup {"none"}
  BY DEF Target, OrderStates, OrderViews, Kinds
<1> QED BY <1>1 DEF OrderViews

(* What the page does beside posting actions leaves them as they are.      *)
LEMMA ActsKept ==
  ASSUME PageInv, PageTypes', UNCHANGED <<acts, person>>
  PROVE  PageInv'
BY DEF PageInv

(* The invariant of the order page is inductive (OrderWorkspacePage.tsx    *)
(* and the handlers it posts to).                                          *)
LEMMA PageStep == ASSUME PageInv, [PageNext]_page PROVE PageInv'
<1>0. PageTypes
  BY DEF PageInv
<1>1. ASSUME NEW k \in Kinds, action(k) PROVE PageInv'
  <2> DEFINE new == [kind |-> k, saw |-> shown, found |-> Nowhere, answer |-> "none"]
  <2>1. acts' = acts \cup {new} /\ UNCHANGED <<order, shown, orders, person>>
    BY <1>1 DEF action, seen, wire
  <2>2. new \in Actions
    BY <1>0 DEF Actions, PageTypes, Nowhere, OrderViews
  <2>3. new.kind # "review" => Fitting(person, new.kind, new.saw)
    BY <1>1, OfferedFits DEF action
  <2>4. new.answer # "refused"
    OBVIOUS
  <2> HIDE DEF new
  <2>5. PageTypes'
    BY <1>0, <2>1, <2>2 DEF PageTypes
  <2> QED BY <2>1, <2>3, <2>4, <2>5 DEF PageInv
<1>2. ASSUME NEW a \in acts, ActServed(a) PROVE PageInv'
  <2>1. PICK answer \in Answers(person, a.kind, order) :
          /\ acts' = (acts \ {a}) \cup {[a EXCEPT !.found = order, !.answer = answer]}
          /\ \/ order' = [order EXCEPT !.state = Target(a.kind, order)]
             \/ order' = order
          /\ UNCHANGED <<shown, orders, person>>
    BY <1>2 DEF ActServed, seen, wire
  <2> DEFINE b == [a EXCEPT !.found = order, !.answer = answer]
  <2>2. a \in Actions
    BY <1>0 DEF PageTypes
  <2>3. answer \in {"ok", "spent", "refused"} /\ (answer = "refused" => ~ Allowed(person, a.kind, order))
    BY DEF Answers
  <2>4. /\ b \in Actions /\ b.kind = a.kind /\ b.saw = a.saw
        /\ b.found = order /\ b.answer = answer
    BY <1>0, <2>2, <2>3 DEF Actions, PageTypes
  <2>5. acts' = (acts \ {a}) \cup {b}
    BY <2>1
  <2> HIDE DEF b
  <2>6. PageTypes'
    BY <1>0, <2>1, <2>2, <2>4, <2>5, TargetType DEF PageTypes, Actions
  <2>7. \A c \in acts' : c \in acts \/ c = b
    BY <2>5
  <2>8. b.kind # "review" => /\ Fitting(person, b.kind, b.saw)
                             /\ b.answer = "refused" => ~ Allowed(person, b.kind, b.found)
    BY <2>3, <2>4 DEF PageInv
  <2> QED BY <2>1, <2>6, <2>7, <2>8 DEF PageInv
<1>3. ASSUME NEW a \in acts, ActAnswered(a) PROVE PageInv'
  <2>1. acts' \subseteq acts /\ UNCHANGED <<order, shown, orders, person>>
    BY <1>3 DEF ActAnswered, seen, wire
  <2>2. PageTypes'
    BY <1>0, <2>1 DEF PageTypes
  <2> QED BY <2>1, <2>2 DEF PageInv
<1>4. ASSUME ReloadFires \/ TalkServed \/ openReview \/ closeReview
      PROVE  UNCHANGED <<order, shown, orders, acts, person>>
  BY <1>4 DEF ReloadFires, TalkServed, openReview, closeReview, seen, wire
<1>5. ASSUME NEW t \in talks, TalkAnswered(t) \/ TalkFailed(t)
      PROVE  UNCHANGED <<order, shown, orders, acts, person>>
  BY <1>5 DEF TalkAnswered, TalkFailed
<1>6. ASSUME UNCHANGED <<order, shown, orders, acts, person>>
      PROVE  PageInv'
  BY <1>0, <1>6, ActsKept DEF PageTypes
<1>7. ASSUME OrderServed \/ \E o \in orders : OrderAnswered(o) \/ OrderFailed(o)
      PROVE  PageInv'
  <2>1. PageTypes' /\ UNCHANGED <<acts, person>>
    BY <1>0, <1>7 DEF OrderServed, OrderAnswered, OrderFailed, PageTypes, seen
  <2> QED BY <2>1, ActsKept
<1>8. ASSUME OthersAct \/ DaysPass
      PROVE  PageInv'
  <2>1. \A m \in orderTransitions : m[2] \in OrderStates
    BY DEF orderTransitions, OrderStates
  <2>2. order' \in OrderViews /\ UNCHANGED <<shown, orders, acts, person>>
    BY <1>0, <1>8, <2>1 DEF OthersAct, DaysPass, PageTypes, OrderViews, seen, wire
  <2>3. PageTypes'
    BY <1>0, <2>2 DEF PageTypes
  <2> QED BY <2>2, <2>3, ActsKept
<1>9. CASE UNCHANGED page
  BY <1>6, <1>9 DEF page
<1> QED
  BY <1>1, <1>2, <1>3, <1>4, <1>5, <1>6, <1>7, <1>8, <1>9 DEF PageNext, PageMachine

(* The page opens with nothing posted.                                     *)
LEMMA PageStarts == PageInit => PageInv
BY DEF PageInit, PageInv, PageTypes, OrderViews, OrderStates, Nowhere, Actions

(* So it holds of every display and every action on its way.               *)
LEMMA PageCorrect == Page => []PageInv
BY PageStarts, PageStep, PTL DEF Page

(* Whatever the policy says, an action that an up-to-date display offers   *)
(* in vain is one whose route asks for a permission the person lacks       *)
(* (router.go), or the cancellation where the policy does not allow it     *)
(* from the seventh day on (overdue_cancel_days).                          *)
VainOffers ==
  \A a \in acts : a.kind # "review" /\ a.answer = "refused" /\ a.found = a.saw
    => ~ Admitted(person, a.kind) \/ (a.kind = "cancel" /\ GraceDays \notin 1..7)

(* Every refusal of an action offered on an up-to-date display is the      *)
(* route's or the cancellation's (OrderWorkspacePage.tsx against router.go *)
(* and the handlers).                                                      *)
THEOREM RefusalsNamed == Page => []VainOffers
<1>1. PageInv => VainOffers
  <2> SUFFICES ASSUME PageInv, NEW a \in acts, a.kind # "review", a.answer = "refused",
                      a.found = a.saw, Admitted(person, a.kind)
               PROVE  a.kind = "cancel" /\ GraceDays \notin 1..7
    BY DEF VainOffers
  <2>1. Fitting(person, a.kind, a.saw) /\ ~ Allowed(person, a.kind, a.saw)
    BY DEF PageInv
  <2>2. a.kind = "cancel"
    BY <2>1 DEF Fitting, Allowed
  <2>3. /\ Buys(person) /\ a.saw.state = "CANCEL_REQUESTED"
        /\ a.saw.late >= 7 /\ a.saw.late \in Nat
    BY <2>1, <2>2 DEF Fitting, PageInv, PageTypes, Actions, OrderViews
  <2>4. <<a.saw.state, "CANCELLED">> \in orderTransitions
    BY <2>3 DEF orderTransitions
  <2>5. StateAllows(a.kind, a.saw)
    BY <2>2, <2>4 DEF StateAllows, Target
  <2>6. ~ MayAct(person, a.kind, a.saw)
    BY <2>1, <2>5 DEF Allowed
  <2>7. ~ (GraceDays > 0 /\ a.saw.late >= GraceDays)
    BY <2>2, <2>3, <2>6 DEF MayAct
  <2> QED BY <2>2, <2>3, <2>7, OrderPageAssumption
<1> QED BY <1>1, PageCorrect, PTL

(* With a policy of at most a week, as the default is, an action whose     *)
(* route lets the person in is refused, for the person or the state, only  *)
(* when the display it was offered on was out of date ("only the actions   *)
(* that fit the current state are shown", OrderWorkspacePage.tsx:58).      *)
THEOREM RefusedMeansStale ==
  ASSUME GraceDays \in 1..7
  PROVE  Page => []RefusedOnlyWhenStale
<1>1. VainOffers => RefusedOnlyWhenStale
  BY DEF VainOffers, RefusedOnlyWhenStale
<1> QED BY <1>1, RefusalsNamed, PTL
=============================================================================
