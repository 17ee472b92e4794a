---------------------------- MODULE OutboxProofs ----------------------------
(***************************************************************************)
(* Theorems about the outbox, for any events, recipients, webhooks,        *)
(* processes and limits.  Two arguments:                                   *)
(*   EarnedInv   holds always: a claim worked on successfully left its     *)
(*               effect behind, and that effect is never taken back, so    *)
(*               whoever writes "done", however late, writes the truth;    *)
(*   OwnerInv    holds until somebody retries by hand: a claim of a row    *)
(*               that has not aged is the only one of it, the row is in    *)
(*               work and its attempts are the ones the claim remembers.   *)
(***************************************************************************)
EXTENDS Outbox, TLAPS

USE LimitsAssumption

(* A delivery is a pair of an event and one of its hooks.                  *)
LEMMA DeliveryShape ==
  /\ \A d \in Deliveries : \E e \in Events : \E h \in HooksOf[e] : d = <<e, h>>
  /\ \A e \in Events : \A h \in HooksOf[e] : <<e, h>> \in Deliveries
BY DEF Deliveries

(* An inbox entry is a pair of an event and one of its recipients.         *)
LEMMA EntryShape ==
  /\ \A n \in Entries : \E e \in Events : \E u \in RecipientsOf[e] : n = <<e, u>>
  /\ \A e \in Events : \A u \in RecipientsOf[e] : <<e, u>> \in Entries
BY DEF Entries
-----------------------------------------------------------------------------
(* What a claiming statement does, whatever the kind of row.               *)
LEMMA ClaimEffect ==
  ASSUME TypeOK, NEW w \in Workers, claimEvents(w) \/ claimDeliveries(w)
  PROVE  \E rows \in SUBSET Items :
           /\ \A i \in rows : status[i] \in Queued /\ i \notin waiting
           /\ status' = [i \in Items |-> IF i \in rows THEN "working" ELSE status[i]]
           /\ tries' = [i \in Items |-> IF i \in rows THEN tries[i] + 1 ELSE tries[i]]
           /\ job' = [job EXCEPT ![w] =
                {[item |-> i, attempt |-> tries[i] + 1, result |-> "todo"] : i \in rows}]
           /\ job'[w] \subseteq Claims
           /\ UNCHANGED <<waiting, stale, inbox, received, faults, manual>>
<1>0. PICK kind \in {Events, Deliveries}, batch \in Nat : claim(w, kind, batch)
  BY DEF claimEvents, claimDeliveries
<1>1. PICK rows \in Batches(kind, batch) :
        /\ status' = [i \in Items |-> IF i \in rows THEN "working" ELSE status[i]]
        /\ tries' = [i \in Items |-> IF i \in rows THEN tries[i] + 1 ELSE tries[i]]
        /\ job' = [job EXCEPT ![w] =
             {[item |-> i, attempt |-> tries[i] + 1, result |-> "todo"] : i \in rows}]
        /\ UNCHANGED <<waiting, stale, inbox, received, faults, manual>>
  BY <1>0 DEF claim
<1>2. rows \in SUBSET Items
  BY DEF Batches, Claimable, Items
<1>3. \A i \in rows : status[i] \in Queued /\ i \notin waiting
  BY DEF Batches, Claimable
<1>4. \A i \in rows : tries[i] + 1 \in Nat
  BY <1>2 DEF TypeOK
<1>5. job'[w] = {[item |-> i, attempt |-> tries[i] + 1, result |-> "todo"] : i \in rows}
  BY <1>1 DEF TypeOK
<1>6. job'[w] \subseteq Claims
  BY <1>2, <1>4, <1>5 DEF Claims
<1> QED BY <1>1, <1>2, <1>3, <1>6

(* Recording the result of a claim's work only changes that claim.         *)
LEMMA WorkedEffect ==
  ASSUME TypeOK, NEW w \in Workers, NEW c \in job[w], NEW r \in {"ok", "error"},
         Worked(w, c, r)
  PROVE  /\ job' \in [Workers -> SUBSET Claims]
         /\ \E d \in Claims :
              /\ d.item = c.item /\ d.attempt = c.attempt /\ d.result = r
              /\ job'[w] = (job[w] \ {c}) \cup {d}
         /\ \A v \in Workers : v # w => job'[v] = job[v]
<1> DEFINE d == [c EXCEPT !.result = r]
<1>1. c \in Claims
  BY DEF TypeOK
<1>2. d \in Claims /\ d.item = c.item /\ d.attempt = c.attempt /\ d.result = r
  BY <1>1 DEF Claims
<1>3. job' = [job EXCEPT ![w] = (@ \ {c}) \cup {d}]
  BY DEF Worked
<1> HIDE DEF d
<1>4. job'[w] = (job[w] \ {c}) \cup {d} /\ \A v \in Workers : v # w => job'[v] = job[v]
  BY <1>3 DEF TypeOK
<1>5. job' \in [Workers -> SUBSET Claims]
  BY <1>2, <1>3 DEF TypeOK
<1> QED BY <1>2, <1>4, <1>5
-----------------------------------------------------------------------------
(* A fresh outbox is well typed.                                           *)
LEMMA TypeInit == Init => TypeOK
BY DEF Init, TypeOK

(* Every step keeps the types, and only retry rows wait.                   *)
LEMMA TypeStep == TypeOK /\ [Next]_vars => TypeOK'
<1> SUFFICES ASSUME TypeOK, [Next]_vars PROVE TypeOK'
  OBVIOUS
<1> USE DEF Open, Queued, Settled
<1>1. ASSUME NEW e \in Events, emitEvent(e) PROVE TypeOK'
  BY <1>1 DEF emitEvent, TypeOK, Items
<1>2. ASSUME NEW w \in Workers, reclaimStuck(w) PROVE TypeOK'
  BY <1>2 DEF reclaimStuck, TypeOK, Stuck
<1>3. ASSUME NEW w \in Workers, NEW e \in Events, cleanup(w, e) PROVE TypeOK'
  BY <1>3 DEF cleanup, TypeOK
<1>4. ASSUME NEW w \in Workers, claimEvents(w) \/ claimDeliveries(w) PROVE TypeOK'
  <2>2. PICK rows \in SUBSET Items :
          /\ \A i \in rows : status[i] \in Queued /\ i \notin waiting
          /\ status' = [i \in Items |-> IF i \in rows THEN "working" ELSE status[i]]
          /\ tries' = [i \in Items |-> IF i \in rows THEN tries[i] + 1 ELSE tries[i]]
          /\ job' = [job EXCEPT ![w] =
               {[item |-> i, attempt |-> tries[i] + 1, result |-> "todo"] : i \in rows}]
          /\ job'[w] \subseteq Claims
          /\ UNCHANGED <<waiting, stale, inbox, received, faults, manual>>
    BY <1>4, ClaimEffect
  <2>3. status' \in [Items -> {"none", "gone"} \cup Open \cup Settled]
    BY <2>2 DEF TypeOK
  <2>4. tries' \in [Items -> Nat]
    BY <2>2 DEF TypeOK
  <2>5. waiting' \subseteq {i \in Items : status'[i] = "retry"}
    BY <2>2 DEF TypeOK
  <2>6. job' \in [Workers -> SUBSET Claims]
    BY <2>2 DEF TypeOK
  <2>7. at' \in [Workers -> {"reclaim", "events", "deliveries"}]
    BY <1>4 DEF claimEvents, claimDeliveries, TypeOK
  <2> QED BY <2>2, <2>3, <2>4, <2>5, <2>6, <2>7 DEF TypeOK
<1>5. ASSUME NEW w \in Workers, NEW c \in job[w], handleEvent(w, c) PROVE TypeOK'
  <2>1. job' \in [Workers -> SUBSET Claims]
    BY <1>5, WorkedEffect DEF handleEvent
  <2>2. UNCHANGED <<tries, waiting, stale, received, at, faults, manual>>
    BY <1>5 DEF handleEvent
  <2>3. inbox' \in [Entries -> Nat]
    BY <1>5 DEF handleEvent, insertRow, TypeOK
  <2>4. /\ status' \in [Items -> {"none", "gone"} \cup Open \cup Settled]
        /\ \A i \in Items : status[i] = "retry" => status'[i] = "retry"
    BY <1>5 DEF handleEvent, insertDelivery, TypeOK
  <2> QED BY <2>1, <2>2, <2>3, <2>4 DEF TypeOK
<1>6. ASSUME NEW w \in Workers, NEW c \in job[w], postDelivery(w, c) PROVE TypeOK'
  <2>1. job' \in [Workers -> SUBSET Claims]
    BY <1>6, WorkedEffect DEF postDelivery
  <2> QED BY <1>6, <2>1 DEF postDelivery, queue, TypeOK
<1>7. ASSUME NEW w \in Workers, NEW c \in job[w], recordEvent(w, c) \/ recordDelivery(w, c)
      PROVE TypeOK'
  <2>1. c.item \in Items
    BY DEF TypeOK, Claims
  <2>2. PICK limit \in Nat : record(w, c, limit)
    BY <1>7 DEF recordEvent, recordDelivery
  <2>3. outcome(c, limit) \in {"done", "failed", "retry"}
    BY DEF outcome
  <2>4. PICK now \in {"gone", "done", "failed", "retry"} :
          /\ status' = [status EXCEPT ![c.item] = now]
          /\ waiting' = IF now = "retry" THEN waiting \cup {c.item} ELSE waiting \ {c.item}
    BY <2>2, <2>3 DEF record
  <2>5. /\ status' \in [Items -> {"none", "gone"} \cup Open \cup Settled]
        /\ waiting' \subseteq {i \in Items : status'[i] = "retry"}
    BY <2>1, <2>4 DEF TypeOK
  <2>6. job' \in [Workers -> SUBSET Claims] /\ UNCHANGED <<tries, stale, inbox, received, at, faults, manual>>
    BY <2>2 DEF record, TypeOK
  <2> QED BY <2>5, <2>6 DEF TypeOK
<1>8. ASSUME NEW w \in Workers, Fault(w) PROVE TypeOK'
  BY <1>8 DEF Fault, crash, outcomeLost, queue, TypeOK
<1>9. ASSUME NEW i \in Items, backoffEnds(i) \/ grow(i) PROVE TypeOK'
  BY <1>9 DEF backoffEnds, grow, queue, TypeOK
<1>10. ASSUME NEW i \in Items, requeue(i) PROVE TypeOK'
  BY <1>10 DEF requeue, TypeOK
<1>11. CASE UNCHANGED vars
  BY <1>11 DEF vars, TypeOK
<1> QED
  BY <1>1, <1>2, <1>3, <1>4, <1>5, <1>6, <1>7, <1>8, <1>9, <1>10, <1>11
     DEF Next, Tick, retryDomainEvent, requeueDelivery, Items

(* Types are kept (TypeOK): in particular only a row in retry has an       *)
(* attempt date in the future.                                             *)
THEOREM TypeCorrect == Spec => []TypeOK
<1>1. Init => TypeOK
  BY TypeInit
<1>2. TypeOK /\ [Next]_vars => TypeOK'
  BY TypeStep
<1> QED BY <1>1, <1>2, PTL DEF Spec
-----------------------------------------------------------------------------
FannedOut(e) ==
  /\ \A u \in RecipientsOf[e] : inbox[<<e, u>>] = 1
  /\ \A h \in HooksOf[e] : status[<<e, h>>] # "none"

(* What an item must have brought about to be called done.                 *)
Earned(i) == (i \in Events => FannedOut(i)) /\ (i \in Deliveries => i \in received)

EarnedInv ==
  /\ TypeOK
  /\ InboxOnce
  /\ \A i \in Items : status[i] = "done" => Earned(i)
  /\ \A w \in Workers : \A c \in job[w] : c.result = "ok" => Earned(c.item)

EffectsKept ==
  /\ \A n \in Entries : inbox'[n] = inbox[n] \/ (inbox[n] = 0 /\ inbox'[n] = 1)
  /\ \A i \in Items : status[i] # "none" => status'[i] # "none"
  /\ received \subseteq received'

(* Effects only accumulate: notifications, delivery rows and arrivals are  *)
(* added, each notification once, and never taken back.                    *)
LEMMA EffectsGrow == TypeOK /\ [Next]_vars => EffectsKept
<1> SUFFICES ASSUME TypeOK, [Next]_vars PROVE EffectsKept
  OBVIOUS
<1>1. ASSUME NEW e \in Events, emitEvent(e) PROVE EffectsKept
  BY <1>1 DEF EffectsKept, emitEvent, TypeOK, Items
<1>2. ASSUME NEW w \in Workers, reclaimStuck(w) PROVE EffectsKept
  BY <1>2 DEF EffectsKept, reclaimStuck
<1>3. ASSUME NEW w \in Workers, NEW e \in Events, cleanup(w, e) PROVE EffectsKept
  BY <1>3 DEF EffectsKept, cleanup
<1>4. ASSUME NEW w \in Workers, claimEvents(w) \/ claimDeliveries(w) PROVE EffectsKept
  BY <1>4, ClaimEffect DEF EffectsKept
<1>5. ASSUME NEW w \in Workers, NEW c \in job[w], handleEvent(w, c) PROVE EffectsKept
  BY <1>5 DEF EffectsKept, handleEvent, insertRow, insertDelivery, TypeOK
<1>6. ASSUME NEW w \in Workers, NEW c \in job[w], postDelivery(w, c) PROVE EffectsKept
  BY <1>6 DEF EffectsKept, postDelivery, queue
<1>7. ASSUME NEW w \in Workers, NEW c \in job[w], recordEvent(w, c) \/ recordDelivery(w, c)
      PROVE EffectsKept
  BY <1>7 DEF EffectsKept, recordEvent, recordDelivery, record, outcome, TypeOK
<1>8. ASSUME NEW w \in Workers, Fault(w) PROVE EffectsKept
  BY <1>8 DEF EffectsKept, Fault, crash, outcomeLost, queue
<1>9. ASSUME NEW i \in Items, backoffEnds(i) \/ grow(i) PROVE EffectsKept
  BY <1>9 DEF EffectsKept, backoffEnds, grow, queue
<1>10. ASSUME NEW i \in Items, requeue(i) PROVE EffectsKept
  BY <1>10 DEF EffectsKept, requeue, TypeOK
<1>11. CASE UNCHANGED vars
  BY <1>11 DEF EffectsKept, vars
<1> QED
  BY <1>1, <1>2, <1>3, <1>4, <1>5, <1>6, <1>7, <1>8, <1>9, <1>10, <1>11
     DEF Next, Tick, retryDomainEvent, requeueDelivery, Items

(* What was earned stays earned.                                           *)
LEMMA EarnedStays ==
  ASSUME TypeOK, InboxOnce, [Next]_vars, NEW i \in Items, Earned(i)
  PROVE  Earned(i)'
<1>1. ASSUME i \in Events PROVE FannedOut(i)'
  <2>1. \A u \in RecipientsOf[i] : inbox'[<<i, u>>] = 1
    BY <1>1, EntryShape, EffectsGrow DEF EffectsKept, Earned, FannedOut
  <2>2. \A h \in HooksOf[i] : status'[<<i, h>>] # "none"
    BY <1>1, DeliveryShape, EffectsGrow DEF EffectsKept, Earned, FannedOut, Items
  <2> QED BY <2>1, <2>2 DEF FannedOut
<1>2. ASSUME i \in Deliveries PROVE i \in received'
  BY <1>2, EffectsGrow DEF EffectsKept, Earned
<1> QED BY <1>1, <1>2 DEF Earned

(* A fresh outbox has earned everything it calls done: nothing.            *)
LEMMA EarnedInit == Init => EarnedInv
BY TypeInit DEF Init, EarnedInv, InboxOnce

(* Every step keeps the invariant: an item becomes done, or a claim ok,    *)
(* only when the effect is there.                                          *)
LEMMA EarnedStep == EarnedInv /\ [Next]_vars => EarnedInv'
<1> SUFFICES ASSUME EarnedInv, [Next]_vars PROVE EarnedInv'
  OBVIOUS
<1>1. TypeOK /\ TypeOK' /\ InboxOnce
  BY TypeStep DEF EarnedInv
<1>2. InboxOnce'
  <2> SUFFICES ASSUME NEW n \in Entries PROVE inbox'[n] <= 1
    BY DEF InboxOnce
  <2>1. inbox[n] \in Nat /\ inbox[n] <= 1
    BY <1>1 DEF TypeOK, InboxOnce
  <2> QED BY <1>1, <2>1, EffectsGrow DEF EffectsKept
<1>3. \A i \in Items : Earned(i) => Earned(i)'
  BY <1>1, EarnedStays
<1> DEFINE Rows == \A i \in Items : status'[i] = "done" => status[i] = "done" \/ Earned(i)
           Jobs == \A w \in Workers : \A c \in job'[w] : c.result = "ok" =>
                     \/ \E d \in job[w] : d.result = "ok" /\ d.item = c.item
                     \/ Earned(c.item)'
<1>4. Rows /\ Jobs
  <2>1. ASSUME NEW e \in Events, emitEvent(e) PROVE Rows /\ Jobs
    BY <1>1, <2>1 DEF emitEvent, TypeOK, Items
  <2>2. ASSUME NEW w \in Workers, reclaimStuck(w) PROVE Rows /\ Jobs
    BY <2>2 DEF reclaimStuck
  <2>3. ASSUME NEW w \in Workers, NEW e \in Events, cleanup(w, e) PROVE Rows /\ Jobs
    BY <2>3 DEF cleanup
  <2>4. ASSUME NEW w \in Workers, claimEvents(w) \/ claimDeliveries(w) PROVE Rows /\ Jobs
    <3>1. PICK rows \in SUBSET Items :
            /\ status' = [i \in Items |-> IF i \in rows THEN "working" ELSE status[i]]
            /\ job' = [job EXCEPT ![w] =
                 {[item |-> i, attempt |-> tries[i] + 1, result |-> "todo"] : i \in rows}]
      BY <1>1, <2>4, ClaimEffect
    <3>2. \A c \in job'[w] : c.result = "todo"
      BY <1>1, <3>1 DEF TypeOK
    <3>3. \A v \in Workers : v # w => job'[v] = job[v]
      BY <1>1, <3>1 DEF TypeOK
    <3> QED BY <3>1, <3>2, <3>3
  <2>5. ASSUME NEW w \in Workers, NEW c \in job[w], handleEvent(w, c) PROVE Rows /\ Jobs
    <3>1. Rows
      BY <1>1, <2>5 DEF handleEvent, insertDelivery, TypeOK
    <3>2. CASE Worked(w, c, "error")
      <4>1. \A v \in Workers : \A d \in job'[v] : d \in job[v] \/ d.result = "error"
        BY <1>1, <3>2, WorkedEffect
      <4> QED BY <3>1, <4>1
    <3>3. CASE /\ Worked(w, c, "ok")
               /\ inbox' = [n \in Entries |-> IF n[1] = c.item THEN insertRow(inbox[n]) ELSE inbox[n]]
               /\ status' = [i \in Items |->
                               IF i \in {<<c.item, h>> : h \in HooksOf[c.item]}
                                 THEN insertDelivery(status[i]) ELSE status[i]]
      <4>1. c.item \in Events
        BY <2>5 DEF handleEvent
      <4>2. \A u \in RecipientsOf[c.item] : inbox'[<<c.item, u>>] = 1
        <5> TAKE u \in RecipientsOf[c.item]
        <5>1. <<c.item, u>> \in Entries /\ <<c.item, u>>[1] = c.item
          BY <4>1, EntryShape
        <5>2. inbox[<<c.item, u>>] \in Nat /\ inbox[<<c.item, u>>] <= 1
          BY <1>1, <5>1 DEF TypeOK, InboxOnce
        <5> QED BY <3>3, <5>1, <5>2 DEF insertRow
      <4>3. \A h \in HooksOf[c.item] : status'[<<c.item, h>>] # "none"
        BY <3>3, <4>1, DeliveryShape DEF insertDelivery, Items
      <4>4. Earned(c.item)'
        BY <4>1, <4>2, <4>3, ItemsAssumption DEF Earned, FannedOut
      <4>5. \A v \in Workers : \A d \in job'[v] : d \in job[v] \/ d.item = c.item
        BY <1>1, <3>3, WorkedEffect
      <4> QED BY <3>1, <4>4, <4>5
    <3> QED BY <2>5, <3>2, <3>3 DEF handleEvent
  <2>6. ASSUME NEW w \in Workers, NEW c \in job[w], postDelivery(w, c) PROVE Rows /\ Jobs
    <3>1. Rows
      BY <2>6 DEF postDelivery, queue
    <3>2. CASE Worked(w, c, "error")
      <4>1. \A v \in Workers : \A d \in job'[v] : d \in job[v] \/ d.result = "error"
        BY <1>1, <3>2, WorkedEffect
      <4> QED BY <3>1, <4>1
    <3>3. CASE Worked(w, c, "ok") /\ received' = received \cup {c.item}
      <4>1. Earned(c.item)'
        BY <2>6, <3>3, ItemsAssumption DEF postDelivery, Earned
      <4>2. \A v \in Workers : \A d \in job'[v] : d \in job[v] \/ d.item = c.item
        BY <1>1, <3>3, WorkedEffect
      <4> QED BY <3>1, <4>1, <4>2
    <3> QED BY <2>6, <3>2, <3>3 DEF postDelivery
  <2>7. ASSUME NEW w \in Workers, NEW c \in job[w], recordEvent(w, c) \/ recordDelivery(w, c)
        PROVE Rows /\ Jobs
    <3>1. PICK limit \in Nat : record(w, c, limit)
      BY <2>7 DEF recordEvent, recordDelivery
    <3>2. outcome(c, limit) = "done" => Earned(c.item)
      BY DEF outcome, EarnedInv
    <3>3. Rows
      BY <1>1, <3>1, <3>2 DEF record, TypeOK
    <3>4. Jobs
      BY <1>1, <3>1 DEF record, TypeOK
    <3> QED BY <3>3, <3>4
  <2>8. ASSUME NEW w \in Workers, Fault(w) PROVE Rows /\ Jobs
    BY <1>1, <2>8 DEF Fault, crash, outcomeLost, queue, TypeOK
  <2>9. ASSUME NEW i \in Items, backoffEnds(i) \/ grow(i) PROVE Rows /\ Jobs
    BY <2>9 DEF backoffEnds, grow, queue
  <2>10. ASSUME NEW i \in Items, requeue(i) PROVE Rows /\ Jobs
    BY <1>1, <2>10 DEF requeue, TypeOK
  <2>11. CASE UNCHANGED vars
    BY <2>11 DEF vars
  <2> HIDE DEF Rows, Jobs
  <2> QED
    BY <2>1, <2>2, <2>3, <2>4, <2>5, <2>6, <2>7, <2>8, <2>9, <2>10, <2>11
       DEF Next, Tick, retryDomainEvent, requeueDelivery, Items
<1>5. \A i \in Items : status'[i] = "done" => Earned(i)'
  BY <1>3, <1>4 DEF EarnedInv
<1>6. \A w \in Workers : \A c \in job'[w] : c.result = "ok" => Earned(c.item)'
  <2> TAKE w \in Workers
  <2> TAKE c \in job'[w]
  <2> HAVE c.result = "ok"
  <2>1. c.item \in Items
    BY <1>1 DEF TypeOK, Claims
  <2>2. (\E d \in job[w] : d.result = "ok" /\ d.item = c.item) => Earned(c.item)
    BY DEF EarnedInv
  <2> QED BY <1>3, <1>4, <2>1, <2>2
<1> QED BY <1>1, <1>2, <1>5, <1>6 DEF EarnedInv

(* The invariant holds in every state.                                     *)
LEMMA EarnedCorrect == Spec => []EarnedInv
<1>1. Init => EarnedInv
  BY EarnedInit
<1>2. EarnedInv /\ [Next]_vars => EarnedInv'
  BY EarnedStep
<1> QED BY <1>1, <1>2, PTL DEF Spec

(* Nobody is notified twice of an event, however often it is handled       *)
(* (InboxOnce).                                                            *)
THEOREM NotifiedAtMostOnce == Spec => []InboxOnce
<1>1. EarnedInv => InboxOnce
  BY DEF EarnedInv
<1> QED BY <1>1, EarnedCorrect, PTL

(* A row that says done tells the truth (DoneIsEarned), with any number of *)
(* processes, crashes, reclaims and retries by hand.                       *)
THEOREM DoneIsAlwaysEarned == Spec => []DoneIsEarned
<1>1. EarnedInv => DoneIsEarned
  BY DEF EarnedInv, DoneIsEarned, Earned, FannedOut, Items
<1> QED BY <1>1, EarnedCorrect, PTL
-----------------------------------------------------------------------------
Limit(i) == IF i \in Events THEN EventRetryLimit ELSE MaxAttempts

(* A claim of a young row is the only one of it and remembers it correctly.*)
Alone ==
  \A v, w \in Workers : \A c \in job[v], d \in job[w] :
    c.item = d.item /\ c.item \notin stale => v = w /\ c = d

\* What a claimed row says: it is in work, or its event was deleted meanwhile.
InHand == {"working", "gone"}

Owned ==
  /\ Alone
  /\ \A w \in Workers : \A c \in job[w] : c.item \notin stale =>
       status[c.item] \in InHand /\ tries[c.item] = c.attempt

Rationed ==
  \A i \in Items \ stale :
    /\ tries[i] <= Limit(i)
    /\ status[i] = "none" => tries[i] = 0
    /\ status[i] \in Queued => tries[i] < Limit(i)

OwnerInv == TypeOK /\ manual = 0 /\ Owned /\ Rationed

(* Nothing has aged and nobody has interfered.                             *)
Undisturbed == stale = {} /\ manual = 0

(* A claim is a typed record about an item.                                *)
LEMMA ClaimTyped ==
  ASSUME TypeOK, NEW w \in Workers, NEW c \in job[w]
  PROVE  c \in Claims /\ c.item \in Items /\ c.attempt \in Nat
BY DEF TypeOK, Claims

(* Limits are positive.                                                    *)
LEMMA LimitType == \A i : Limit(i) \in Nat /\ Limit(i) >= 1
BY DEF Limit

(* Claiming rows that wait in the queue keeps the invariant: a row that is *)
(* claimed already is in work or deleted, and not in the queue.            *)
LEMMA OwnerClaim ==
  ASSUME OwnerInv, NEW w \in Workers, claimEvents(w) \/ claimDeliveries(w)
  PROVE  Owned' /\ Rationed' /\ UNCHANGED <<stale, manual>>
<1>0. TypeOK /\ job[w] = {}
  BY DEF OwnerInv, claimEvents, claimDeliveries
<1>1. PICK rows \in SUBSET Items :
        /\ \A i \in rows : status[i] \in Queued /\ i \notin waiting
        /\ status' = [i \in Items |-> IF i \in rows THEN "working" ELSE status[i]]
        /\ tries' = [i \in Items |-> IF i \in rows THEN tries[i] + 1 ELSE tries[i]]
        /\ job' = [job EXCEPT ![w] =
             {[item |-> i, attempt |-> tries[i] + 1, result |-> "todo"] : i \in rows}]
        /\ UNCHANGED <<waiting, stale, inbox, received, faults, manual>>
  BY <1>0, ClaimEffect
<1>2. job'[w] = {[item |-> i, attempt |-> tries[i] + 1, result |-> "todo"] : i \in rows}
  BY <1>0, <1>1 DEF TypeOK
<1>3. \A v \in Workers : v # w => job'[v] = job[v]
  BY <1>0, <1>1 DEF TypeOK
<1>4. \A v \in Workers : v # w => \A c \in job'[v] :
        c.item \in Items /\ (c.item \notin stale => c.item \notin rows)
  BY <1>0, <1>1, <1>3, ClaimTyped DEF OwnerInv, Owned, Queued, InHand
<1>5. \A c \in job'[w] : c.item \in rows /\ c.attempt = tries[c.item] + 1
  BY <1>2
<1>6. \A c, d \in job'[w] : c.item = d.item => c = d
  BY <1>2
<1>7. Alone'
  <2> SUFFICES ASSUME NEW u \in Workers, NEW v \in Workers, NEW c \in job'[u],
                      NEW d \in job'[v], c.item = d.item, c.item \notin stale
               PROVE  u = v /\ c = d
    BY <1>1 DEF Alone
  <2>1. CASE u = w /\ v = w
    BY <1>6, <2>1
  <2>2. CASE u # w /\ v # w
    BY <1>3, <2>2 DEF OwnerInv, Owned, Alone
  <2>3. CASE (u = w /\ v # w) \/ (u # w /\ v = w)
    BY <1>4, <1>5, <2>3
  <2> QED BY <2>1, <2>2, <2>3
<1>8. ASSUME NEW v \in Workers, NEW c \in job'[v], c.item \notin stale
      PROVE  status'[c.item] \in InHand /\ tries'[c.item] = c.attempt
  <2>1. CASE v = w
    BY <1>1, <1>5, <2>1 DEF InHand
  <2>2. CASE v # w
    BY <1>1, <1>3, <1>4, <1>8, <2>2 DEF OwnerInv, Owned
  <2> QED BY <2>1, <2>2
<1>9. Rationed'
  <2> SUFFICES ASSUME NEW i \in Items \ stale
               PROVE  /\ tries'[i] <= Limit(i)
                      /\ status'[i] = "none" => tries'[i] = 0
                      /\ status'[i] \in Queued => tries'[i] < Limit(i)
    BY <1>1 DEF Rationed
  <2>1. tries[i] \in Nat /\ Limit(i) \in Nat
    BY <1>0, LimitType DEF TypeOK
  <2>2. CASE i \in rows
    BY <1>1, <2>1, <2>2 DEF OwnerInv, Rationed, Queued
  <2>3. CASE i \notin rows
    BY <1>1, <2>3 DEF OwnerInv, Rationed
  <2> QED BY <2>2, <2>3
<1> QED BY <1>1, <1>7, <1>8, <1>9 DEF Owned

(* Claims only shrink, or change in their result, and young rows in hand   *)
(* stay as they are: enough to keep every claim the only one of its row.   *)
LEMMA OwnerKept ==
  ASSUME OwnerInv, stale \subseteq stale',
         \A v \in Workers : \A d \in job'[v] :
           \E c \in job[v] :
             /\ d.item = c.item /\ d.attempt = c.attempt
             /\ c.item \notin stale' =>
                  status'[c.item] \in InHand /\ tries'[c.item] = tries[c.item],
         \A v \in Workers : \A c, d \in job'[v] :
           c.item = d.item /\ c.item \notin stale' => c = d
  PROVE  Owned'
<1>1. Alone'
  <2> SUFFICES ASSUME NEW u \in Workers, NEW v \in Workers, NEW c \in job'[u],
                      NEW d \in job'[v], c.item = d.item, c.item \notin stale'
               PROVE  u = v /\ c = d
    BY DEF Alone
  <2>1. PICK a \in job[u] : a.item = c.item
    OBVIOUS
  <2>2. PICK b \in job[v] : b.item = d.item
    OBVIOUS
  <2>3. u = v
    BY <2>1, <2>2 DEF OwnerInv, Owned, Alone
  <2> QED BY <2>3
<1>2. \A v \in Workers : \A d \in job'[v] : d.item \notin stale' =>
        status'[d.item] \in InHand /\ tries'[d.item] = d.attempt
  BY DEF OwnerInv, Owned
<1> QED BY <1>1, <1>2 DEF Owned

(* A result is noted on the claim itself.                                  *)
LEMMA OwnerWorked ==
  ASSUME OwnerInv, NEW w \in Workers, NEW c \in job[w], NEW r \in {"ok", "error"},
         Worked(w, c, r), UNCHANGED <<tries, stale>>,
         \A i \in Items : status[i] \in InHand => status'[i] \in InHand
  PROVE  Owned'
<1>0. TypeOK
  BY DEF OwnerInv
<1>1. PICK e \in Claims :
        /\ e.item = c.item /\ e.attempt = c.attempt
        /\ job'[w] = (job[w] \ {c}) \cup {e}
        /\ \A v \in Workers : v # w => job'[v] = job[v]
  BY <1>0, WorkedEffect
<1>2. \A v \in Workers : \A b \in job[v] : b.item \notin stale =>
        status'[b.item] \in InHand /\ tries'[b.item] = tries[b.item]
  BY <1>0, ClaimTyped DEF OwnerInv, Owned
<1>3. \A v \in Workers : \A a, b \in job[v] :
        a.item = b.item /\ a.item \notin stale => a = b
  BY DEF OwnerInv, Owned, Alone
<1>4. \A v \in Workers : \A d \in job'[v] : \E b \in job[v] :
        /\ d.item = b.item /\ d.attempt = b.attempt
        /\ b.item \notin stale =>
             status'[b.item] \in InHand /\ tries'[b.item] = tries[b.item]
  BY <1>1, <1>2
<1>5. \A v \in Workers : \A a, b \in job'[v] :
        a.item = b.item /\ a.item \notin stale => a = b
  BY <1>1, <1>3
<1> QED BY <1>4, <1>5, OwnerKept

(* A young settled row stays as it is until it is deleted.                 *)
Final == \A i \in Items \ stale' : status[i] \in Settled => status'[i] \in {status[i], "gone"}

(* Recording an outcome: a young row is in work and the claim knows its    *)
(* attempts, so the limit is tested on the true number; of an old one      *)
(* nothing is said.                                                        *)
LEMMA OwnerRecord ==
  ASSUME OwnerInv, NEW w \in Workers, NEW c \in job[w], record(w, c, Limit(c.item))
  PROVE  Owned' /\ Rationed' /\ Final /\ UNCHANGED <<stale, manual>>
<1>0. /\ TypeOK /\ c \in Claims /\ c.item \in Items
      /\ c.item \notin stale => status[c.item] \in InHand /\ tries[c.item] = c.attempt
  BY ClaimTyped DEF OwnerInv, Owned
<1>1. PICK now \in {"gone", "done", "failed", "retry"} :
        /\ now = "retry" => c.attempt < Limit(c.item)
        /\ status' = [status EXCEPT ![c.item] = now]
  <2>1. Limit(c.item) \in Nat /\ c.attempt \in Nat
    BY <1>0, LimitType, ClaimTyped
  <2>2. /\ c.result # "todo"
        /\ \/ status' = [status EXCEPT ![c.item] = "gone"]
           \/ status' = [status EXCEPT ![c.item] = outcome(c, Limit(c.item))]
    BY <1>0 DEF record
  <2>3. CASE c.result = "ok"
    <3>1. outcome(c, Limit(c.item)) = "done"
      BY <2>3 DEF outcome
    <3> QED BY <2>2, <3>1
  <2>4. CASE c.result # "ok" /\ c.attempt >= Limit(c.item)
    <3>1. outcome(c, Limit(c.item)) = "failed"
      BY <2>4 DEF outcome
    <3> QED BY <2>2, <3>1
  <2>5. CASE c.result # "ok" /\ ~(c.attempt >= Limit(c.item))
    <3>1. outcome(c, Limit(c.item)) = "retry"
      BY <2>5 DEF outcome
    <3>2. c.attempt < Limit(c.item)
      BY <2>1, <2>5
    <3> QED BY <2>2, <3>1, <3>2
  <2> QED BY <2>3, <2>4, <2>5
<1>2. UNCHANGED <<tries, stale, manual>> /\ job' = [job EXCEPT ![w] = @ \ {c}]
  BY DEF record
<1>3. \A v \in Workers : job'[v] \subseteq job[v] /\ c \notin job'[w]
  BY <1>0, <1>2 DEF TypeOK
<1>4. \A v \in Workers : \A d \in job'[v] :
        d \in job[v] /\ (d.item \notin stale => d.item # c.item)
  BY <1>3 DEF OwnerInv, Owned, Alone
<1>5. \A v \in Workers : \A d \in job'[v] : d.item \notin stale =>
        status'[d.item] \in InHand /\ tries'[d.item] = tries[d.item]
  BY <1>0, <1>1, <1>2, <1>4, ClaimTyped DEF OwnerInv, Owned, TypeOK
<1>6. \A v \in Workers : \A a, b \in job'[v] :
        a.item = b.item /\ a.item \notin stale => a = b
  BY <1>4 DEF OwnerInv, Owned, Alone
<1>7. Owned'
  BY <1>2, <1>4, <1>5, <1>6, OwnerKept
<1>8. Rationed'
  <2> SUFFICES ASSUME NEW i \in Items \ stale
               PROVE  /\ tries'[i] <= Limit(i)
                      /\ status'[i] = "none" => tries'[i] = 0
                      /\ status'[i] \in Queued => tries'[i] < Limit(i)
    BY <1>2 DEF Rationed
  <2>1. /\ tries[i] <= Limit(i)
        /\ status[i] = "none" => tries[i] = 0
        /\ status[i] \in Queued => tries[i] < Limit(i)
    BY DEF OwnerInv, Rationed
  <2>2. CASE i = c.item
    BY <1>0, <1>1, <1>2, <2>1, <2>2 DEF TypeOK, Queued
  <2>3. CASE i # c.item
    BY <1>0, <1>1, <1>2, <2>1, <2>3 DEF TypeOK
  <2> QED BY <2>2, <2>3
<1>9. Final
  BY <1>0, <1>1, <1>2 DEF Final, Settled, InHand, TypeOK
<1> QED BY <1>2, <1>7, <1>8, <1>9

(* A fresh outbox has no claims and no attempts.                           *)
LEMMA OwnerInit == Init => OwnerInv
<1> SUFFICES ASSUME Init PROVE OwnerInv
  OBVIOUS
<1>1. TypeOK /\ manual = 0
  BY TypeInit DEF Init
<1>2. Owned
  BY DEF Init, Owned, Alone
<1>3. Rationed
  BY LimitType DEF Init, Rationed
<1> QED BY <1>1, <1>2, <1>3 DEF OwnerInv

(* What every action but a retry by hand is shown to do.                   *)
OwnerEffect == Owned' /\ Rationed' /\ Final /\ stale \subseteq stale' /\ UNCHANGED manual

(* Every step but a retry by hand keeps the invariant, and young settled   *)
(* rows settled.                                                           *)
LEMMA OwnerStep ==
  ASSUME OwnerInv, [Next]_vars, manual' = 0
  PROVE  OwnerInv' /\ Final
<1>0. TypeOK /\ TypeOK' /\ Owned /\ Rationed /\ manual = 0
  BY TypeStep DEF OwnerInv
<1>a. \A v \in Workers : \A c \in job[v] :
        c.item \in Items /\ (c.item \notin stale => status[c.item] \in InHand)
  BY <1>0, ClaimTyped DEF Owned
<1>b. \A v \in Workers : \A a, b \in job[v] : a.item = b.item /\ a.item \notin stale => a = b
  BY <1>0 DEF Owned, Alone
<1>1. ASSUME NEW e \in Events, emitEvent(e) PROVE OwnerEffect
  <2>1. status' = [status EXCEPT ![e] = "pending"] /\ status[e] = "none" /\ e \in Items
        /\ UNCHANGED <<tries, stale, manual, job>>
    BY <1>1 DEF emitEvent, Items
  <2>2. Owned'
    BY <1>0, <1>a, <1>b, <2>1, OwnerKept DEF TypeOK, OwnerInv, InHand
  <2>3. Rationed'
    BY <1>0, <2>1, LimitType DEF Rationed, TypeOK, Queued
  <2>4. Final
    BY <1>0, <2>1 DEF Final, Settled, TypeOK
  <2> QED BY <2>1, <2>2, <2>3, <2>4 DEF OwnerEffect
<1>2. ASSUME NEW w \in Workers, reclaimStuck(w) PROVE OwnerEffect
  <2>1. /\ \A i \in Items \ stale : status'[i] = status[i]
        /\ UNCHANGED <<tries, stale, manual, job>>
    BY <1>0, <1>2 DEF reclaimStuck, Stuck, TypeOK
  <2>2. Owned'
    BY <1>a, <1>b, <2>1, OwnerKept
  <2>3. Rationed' /\ Final
    BY <1>0, <2>1 DEF Rationed, Final
  <2> QED BY <2>1, <2>2, <2>3 DEF OwnerEffect
<1>3. ASSUME NEW w \in Workers, NEW e \in Events, cleanup(w, e) PROVE OwnerEffect
  <2>1. UNCHANGED <<tries, stale, manual, job>>
    BY <1>3 DEF cleanup
  <2>2. \A i \in Items : status'[i] = status[i] \/ status'[i] = "gone"
    BY <1>0, <1>3 DEF cleanup, Settled, TypeOK
  <2>3. Owned'
    BY <1>a, <1>b, <2>1, <2>2, OwnerKept DEF InHand
  <2>4. Rationed' /\ Final
    BY <1>0, <2>1, <2>2 DEF Rationed, Final, Queued
  <2> QED BY <2>1, <2>3, <2>4 DEF OwnerEffect
<1>4. ASSUME NEW w \in Workers, claimEvents(w) \/ claimDeliveries(w) PROVE OwnerEffect
  <2>1. Owned' /\ Rationed' /\ UNCHANGED <<stale, manual>>
    BY <1>4, OwnerClaim
  <2>2. Final
    BY <1>0, <1>4, ClaimEffect DEF Final, Settled, Queued
  <2> QED BY <2>1, <2>2 DEF OwnerEffect
<1>5. ASSUME NEW w \in Workers, NEW c \in job[w], handleEvent(w, c) PROVE OwnerEffect
  <2>1. UNCHANGED <<tries, stale, manual>> /\ (Worked(w, c, "ok") \/ Worked(w, c, "error"))
    BY <1>5 DEF handleEvent
  <2>2. \A i \in Items : \/ status'[i] = status[i]
                         \/ status[i] = "none" /\ status'[i] = "pending"
    <3>1. CASE status' = status
      BY <3>1
    <3>2. CASE status' = [i \in Items |->
                           IF i \in {<<c.item, h>> : h \in HooksOf[c.item]}
                             THEN insertDelivery(status[i]) ELSE status[i]]
      BY <3>2 DEF insertDelivery
    <3> QED BY <1>5, <3>1, <3>2 DEF handleEvent
  <2>3. Owned'
    BY <2>1, <2>2, OwnerWorked DEF InHand
  <2>4. Rationed'
    BY <1>0, <2>1, <2>2, LimitType DEF Rationed, Queued
  <2>5. Final
    BY <2>2 DEF Final, Settled
  <2> QED BY <2>1, <2>3, <2>4, <2>5 DEF OwnerEffect
<1>6. ASSUME NEW w \in Workers, NEW c \in job[w], postDelivery(w, c) PROVE OwnerEffect
  <2>1. UNCHANGED <<status, tries, stale, manual>> /\ (Worked(w, c, "ok") \/ Worked(w, c, "error"))
    BY <1>6 DEF postDelivery, queue
  <2>2. Owned'
    BY <2>1, OwnerWorked
  <2> QED BY <1>0, <2>1, <2>2 DEF Rationed, Final, OwnerEffect
<1>7. ASSUME NEW w \in Workers, NEW c \in job[w], recordEvent(w, c) \/ recordDelivery(w, c)
      PROVE OwnerEffect
  <2>1. record(w, c, Limit(c.item))
    BY <1>7, ItemsAssumption DEF recordEvent, recordDelivery, Limit
  <2> QED BY <2>1, OwnerRecord DEF OwnerEffect
<1>8. ASSUME NEW w \in Workers, Fault(w) PROVE OwnerEffect
  <2>1. UNCHANGED <<status, tries, stale, manual>>
    BY <1>8 DEF Fault, crash, outcomeLost, queue
  <2>2. \A v \in Workers : job'[v] \subseteq job[v]
    BY <1>0, <1>8 DEF Fault, crash, outcomeLost, TypeOK
  <2>3. Owned'
    BY <1>a, <1>b, <2>1, <2>2, OwnerKept
  <2> QED BY <1>0, <2>1, <2>3 DEF Rationed, Final, OwnerEffect
<1>9. ASSUME NEW i \in Items, backoffEnds(i) \/ grow(i) PROVE OwnerEffect
  <2>1. UNCHANGED <<status, tries, manual, job>> /\ stale \subseteq stale'
    BY <1>9 DEF backoffEnds, grow, queue
  <2>2. Owned'
    BY <1>a, <1>b, <2>1, OwnerKept
  <2> QED BY <1>0, <2>1, <2>2 DEF Rationed, Final, OwnerEffect
<1>10. ASSUME NEW i \in Items, requeue(i) PROVE FALSE
  BY <1>0, <1>10 DEF requeue
<1>11. ASSUME UNCHANGED vars PROVE OwnerEffect
  <2>1. UNCHANGED <<status, tries, stale, manual, job>>
    BY <1>11 DEF vars
  <2>2. Owned'
    BY <1>0, <2>1 DEF Owned, Alone
  <2>3. Rationed' /\ Final
    BY <1>0, <2>1 DEF Rationed, Final
  <2> QED BY <2>1, <2>2, <2>3 DEF OwnerEffect
<1>12. OwnerEffect
  BY <1>1, <1>2, <1>3, <1>4, <1>5, <1>6, <1>7, <1>8, <1>9, <1>10, <1>11
     DEF Next, Tick, retryDomainEvent, requeueDelivery, Items
<1> QED BY <1>0, <1>12 DEF OwnerEffect, OwnerInv

(* A retry by hand is never forgotten, and a row never grows young again.  *)
LEMMA NothingForgotten ==
  ASSUME TypeOK, [Next]_vars
  PROVE  stale \subseteq stale' /\ (manual' = 0 => manual = 0)
<1>1. ASSUME NEW w \in Workers, claimEvents(w) \/ claimDeliveries(w)
      PROVE  UNCHANGED <<stale, manual>>
  BY <1>1, ClaimEffect
<1>2. ASSUME NEW w \in Workers, Fault(w) \/ reclaimStuck(w) \/ \E e \in Events : cleanup(w, e)
      PROVE  UNCHANGED <<stale, manual>>
  BY <1>2 DEF Fault, crash, outcomeLost, reclaimStuck, cleanup
<1>3. ASSUME NEW w \in Workers, NEW c \in job[w],
             handleEvent(w, c) \/ recordEvent(w, c) \/ postDelivery(w, c) \/ recordDelivery(w, c)
      PROVE  UNCHANGED <<stale, manual>>
  BY <1>3 DEF handleEvent, recordEvent, recordDelivery, record, postDelivery
<1>4. ASSUME NEW i \in Items, backoffEnds(i) \/ grow(i)
      PROVE  stale \subseteq stale' /\ UNCHANGED manual
  BY <1>4 DEF backoffEnds, grow
<1>5. ASSUME NEW i \in Items, requeue(i)
      PROVE  UNCHANGED stale /\ manual' # 0
  BY <1>5 DEF requeue, TypeOK
<1>6. ASSUME NEW e \in Events, emitEvent(e)
      PROVE  UNCHANGED <<stale, manual>>
  BY <1>6 DEF emitEvent
<1> QED
  BY <1>1, <1>2, <1>3, <1>4, <1>5, <1>6
     DEF Next, Tick, retryDomainEvent, requeueDelivery, Items, vars

(* So the invariant holds for as long as nobody has retried by hand.       *)
LEMMA OwnerCorrect ==
  Spec => [](manual = 0 => OwnerInv) /\ [][manual' = 0 => Final]_vars
<1> DEFINE I == manual = 0 => OwnerInv
<1>1. Init => I
  BY OwnerInit
<1>2. TypeOK /\ I /\ [Next]_vars => I' /\ (manual' = 0 => Final)
  BY OwnerStep, NothingForgotten
<1> HIDE DEF I
<1>3. Spec => []I /\ [][manual' = 0 => Final]_vars
  BY <1>1, <1>2, TypeCorrect, PTL DEF Spec
<1> QED BY <1>3 DEF I

(* While nobody has retried by hand, a row younger than stuck_after_minutes*)
(* is in the hands of at most one process, whatever became of older rows   *)
(* (FOR UPDATE SKIP LOCKED).                                               *)
THEOREM YoungClaimsAreExclusive == Spec => [](manual = 0 => Alone)
<1>1. OwnerInv => Alone
  BY DEF OwnerInv, Owned
<1> QED BY <1>1, OwnerCorrect, PTL

(* No row is in the hands of two processes (ClaimedByOne) for as long as   *)
(* no row has grown older than stuck_after_minutes and nobody has retried  *)
(* by hand.                                                                *)
THEOREM ClaimsAreExclusive == Spec => [](Undisturbed => ClaimedByOne)
<1>1. Undisturbed /\ OwnerInv => ClaimedByOne
  BY DEF OwnerInv, Owned, Alone, Undisturbed, ClaimedByOne
<1>2. Undisturbed => manual = 0
  BY DEF Undisturbed
<1> QED BY <1>1, <1>2, OwnerCorrect, PTL

(* For as long no row is tried more often than its limit                   *)
(* (TriesWithinLimit).                                                     *)
THEOREM TriesAreLimited == Spec => [](Undisturbed => TriesWithinLimit)
<1>1. Undisturbed /\ OwnerInv => TriesWithinLimit
  BY ItemsAssumption DEF OwnerInv, Rationed, TriesWithinLimit, Limit, Items, Undisturbed
<1>2. Undisturbed => manual = 0
  BY DEF Undisturbed
<1> QED BY <1>1, <1>2, OwnerCorrect, PTL

(* For as long a late outcome never overwrites a settled row               *)
(* (SettledIsFinal).                                                       *)
THEOREM SettlingIsFinal == Spec /\ []Undisturbed => SettledIsFinal
<1>1. Undisturbed' /\ Final => \A i \in Items : status[i] \in Settled => status'[i] \in {status[i], "gone"}
  BY DEF Final, Undisturbed
<1>2. Undisturbed' => manual' = 0
  BY DEF Undisturbed
<1> QED BY <1>1, <1>2, OwnerCorrect, PTL DEF SettledIsFinal
-----------------------------------------------------------------------------
(* Only a person puts a delivery that exists back in the queue: handling   *)
(* its event again inserts nothing over it, a reclaim or an outcome makes  *)
(* it a retry (queueDeliveries, reclaimStuck).                             *)
Requeued(d) == status'[d] = "pending" /\ status[d] \notin {"none", "pending"}

(* Only a retry by hand puts a row back to pending.                        *)
LEMMA OnlyByHand ==
  ASSUME TypeOK, [Next]_vars, NEW d \in Deliveries, Requeued(d)
  PROVE  manual' > manual
<1>0. d \in Items /\ d \notin Events
  BY ItemsAssumption DEF Items
<1>1. ASSUME NEW e \in Events, emitEvent(e) PROVE FALSE
  BY <1>0, <1>1 DEF emitEvent, Requeued, TypeOK
<1>2. ASSUME NEW w \in Workers, reclaimStuck(w) PROVE FALSE
  BY <1>0, <1>2 DEF reclaimStuck, Requeued
<1>3. ASSUME NEW w \in Workers, NEW e \in Events, cleanup(w, e) PROVE FALSE
  BY <1>0, <1>3 DEF cleanup, Requeued
<1>4. ASSUME NEW w \in Workers, claimEvents(w) \/ claimDeliveries(w) PROVE FALSE
  BY <1>0, <1>4, ClaimEffect DEF Requeued
<1>5. ASSUME NEW w \in Workers, NEW c \in job[w], handleEvent(w, c) PROVE FALSE
  BY <1>0, <1>5 DEF handleEvent, insertDelivery, Requeued
<1>6. ASSUME NEW w \in Workers, NEW c \in job[w], recordEvent(w, c) \/ recordDelivery(w, c)
      PROVE FALSE
  BY <1>0, <1>6 DEF recordEvent, recordDelivery, record, outcome, Requeued, TypeOK
<1>7. ASSUME UNCHANGED status PROVE FALSE
  BY <1>7 DEF Requeued
<1>8. ASSUME NEW i \in Items, requeue(i) PROVE manual' > manual
  BY <1>8 DEF requeue, TypeOK
<1>9. ASSUME NEW w \in Workers, NEW c \in job[w], postDelivery(w, c) PROVE FALSE
  BY <1>7, <1>9 DEF postDelivery, queue
<1>10. ASSUME NEW w \in Workers, Fault(w) PROVE FALSE
  BY <1>7, <1>10 DEF Fault, crash, outcomeLost, queue
<1>11. ASSUME NEW i \in Items, backoffEnds(i) \/ grow(i) PROVE FALSE
  BY <1>7, <1>11 DEF backoffEnds, grow, queue
<1> QED
  BY <1>1, <1>2, <1>3, <1>4, <1>5, <1>6, <1>7, <1>8, <1>9, <1>10, <1>11
     DEF Next, Tick, retryDomainEvent, requeueDelivery, Items, vars

(* An event handled again, after a crash, a reclaim or a retry of its own, *)
(* does not send its deliveries again (queueDeliveries).                   *)
THEOREM ReplaySendsNothing == Spec => ReplayKeepsDeliveries
<1>1. TypeOK /\ [Next]_vars =>
        [\A d \in Deliveries :
           status'[d] = "pending" /\ status[d] \notin {"none", "pending"}
             => manual' > manual]_vars
  BY OnlyByHand DEF Requeued
<1> QED BY <1>1, TypeCorrect, PTL DEF Spec, ReplayKeepsDeliveries
=============================================================================
