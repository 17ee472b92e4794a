------------------------------- MODULE Outbox -------------------------------
(***************************************************************************)
(* The transactional outbox and its dispatchers: domain_events rows fan    *)
(* out to inbox notifications and webhook deliveries, and the deliveries   *)
(* are posted to their targets.  Events and deliveries are both queue      *)
(* items: claimed in a batch by one UPDATE ... FOR UPDATE SKIP LOCKED,     *)
(* worked on outside that statement, and their outcome written by another. *)
(* Several processes run the same loop and any of them may die.            *)
(***************************************************************************)
EXTENDS Integers, FiniteSets

CONSTANTS
  Events,              \* domain_events rows
  RecipientsOf,        \* the users an event notifies (templates, preferences)
  HooksOf,             \* the enabled webhooks subscribed to it, or addressed by it
  Workers,             \* processes running the dispatcher
  EventBatch, DeliveryBatch,          \* event_batch, delivery_batch
  EventRetryLimit, MaxAttempts,       \* event_retry_limit, max_attempts
  MayAge,              \* rows may become older than stuck_after_minutes
  SlowWork,            \* ... even while a living process works on them
  ShortRetention,      \* retention_days may end before an event's deliveries settle
  MaxFaults,           \* bound on crashes and outcomes lost to a failing database
  MaxManual            \* bound on retries requested by operators and owners

ASSUME EventsAssumption == IsFiniteSet(Events)
ASSUME FanoutAssumption ==
  /\ DOMAIN RecipientsOf = Events
  /\ DOMAIN HooksOf = Events
ASSUME LimitsAssumption ==
  /\ {EventBatch, DeliveryBatch, EventRetryLimit, MaxAttempts} \subseteq Nat \ {0}
  /\ {MaxFaults, MaxManual} \subseteq Nat
  /\ {MayAge, SlowWork, ShortRetention} \subseteq BOOLEAN

(* webhook_deliveries is unique in (webhook_id, event_id), notifications   *)
(* in (event_id, user_id, channel).                                        *)
Deliveries == UNION {{<<e, h>> : h \in HooksOf[e]} : e \in Events}
Entries == UNION {{<<e, u>> : u \in RecipientsOf[e]} : e \in Events}
Items == Events \cup Deliveries

ASSUME ItemsAssumption == Events \cap Deliveries = {}

VARIABLES
  status,    \* status / state of each row; "working" is processing or sending
  tries,     \* its attempts column
  waiting,   \* retry rows whose available_at / next_attempt_at is in the future
  stale,     \* rows whose created_at is older than stuck_after_minutes
  inbox,     \* number of notifications rows of each entry
  received,  \* deliveries whose target got at least one POST
  job,       \* what each worker has claimed and not recorded
  at,        \* the part of its tick each worker comes to next
  faults, manual

vars == <<status, tries, waiting, stale, inbox, received, job, at, faults, manual>>

queue == <<status, tries, waiting>>

Queued == {"pending", "retry"}
Open == Queued \cup {"working"}
Settled == {"done", "failed"}

(* One claimed row: the attempt number read back by RETURNING and how the  *)
(* work on it went.                                                        *)
Claims == [item : Items, attempt : Nat, result : {"todo", "ok", "error"}]

TypeOK ==
  /\ status \in [Items -> {"none", "gone"} \cup Open \cup Settled]
  /\ tries \in [Items -> Nat]
  /\ waiting \subseteq {i \in Items : status[i] = "retry"}
  /\ stale \subseteq Items
  /\ inbox \in [Entries -> Nat]
  /\ received \subseteq Deliveries
  /\ job \in [Workers -> SUBSET Claims]
  /\ at \in [Workers -> {"reclaim", "events", "deliveries"}]
  /\ faults \in 0..MaxFaults
  /\ manual \in 0..MaxManual
-----------------------------------------------------------------------------
Init ==
  /\ status = [i \in Items |-> "none"]
  /\ tries = [i \in Items |-> 0]
  /\ waiting = {}
  /\ stale = {}
  /\ inbox = [n \in Entries |-> 0]
  /\ received = {}
  /\ job = [w \in Workers |-> {}]
  /\ at = [w \in Workers |-> "reclaim"]
  /\ faults = 0
  /\ manual = 0

(* A business transaction commits with its event.                          *)
emitEvent(e) ==
  /\ status[e] = "none"
  /\ status' = [status EXCEPT ![e] = "pending"]
  /\ UNCHANGED <<tries, waiting, stale, inbox, received, job, at, faults, manual>>

(* Mutant: the sweep forgets the deliveries.                               *)
MutReclaimEvents == {e \in Events : e \in stale /\ status[e] = "working"}

(* What the sweep takes for the leftovers of a dead process: rows in work  *)
(* that were created, not claimed, too long ago.                           *)
Stuck == {i \in Items : i \in stale /\ status[i] = "working"}

reclaimStuck(w) ==
  /\ at[w] = "reclaim"
  /\ job[w] = {}
  /\ status' = [i \in Items |-> IF i \in Stuck THEN "retry" ELSE status[i]]
  /\ at' = [at EXCEPT ![w] = "events"]
  /\ UNCHANGED <<tries, waiting, stale, inbox, received, job, faults, manual>>

(* Retention: a done event is deleted and its deliveries with it (ON       *)
(* DELETE CASCADE), whatever their state, in a process's hands included.   *)
cleanup(w, e) ==
  /\ at[w] = "events"
  /\ job[w] = {}
  /\ status[e] = "done"
  /\ ShortRetention \/ \A h \in HooksOf[e] : status[<<e, h>>] \in Settled
  /\ LET deleted == {e} \cup {<<e, h>> : h \in HooksOf[e]}
     IN  /\ status' = [i \in Items |-> IF i \in deleted THEN "gone" ELSE status[i]]
         /\ waiting' = waiting \ deleted
  /\ UNCHANGED <<tries, stale, inbox, received, job, at, faults, manual>>

(* Mutants: rows in work are claimed as well; settled rows are.            *)
MutClaimable(kind) == {i \in kind : status[i] \in Open /\ i \notin waiting}
MutClaimSettled(kind) == {i \in kind : status[i] \in Queued \cup Settled /\ i \notin waiting}
Claimable(kind) == {i \in kind : status[i] \in Queued /\ i \notin waiting}

(* The claiming statement: as many due rows as the batch allows.           *)
Batches(kind, batch) ==
  {rows \in SUBSET Claimable(kind) :
     Cardinality(rows) = batch \/ (rows = Claimable(kind) /\ Cardinality(rows) < batch)}

claim(w, kind, batch) ==
  \E rows \in Batches(kind, batch) :
    /\ status' = [i \in Items |-> IF i \in rows THEN "working" ELSE status[i]]
    /\ tries' = [i \in Items |-> IF i \in rows THEN tries[i] + 1 ELSE tries[i]]
    /\ job' = [job EXCEPT ![w] =
                 {[item |-> i, attempt |-> tries[i] + 1, result |-> "todo"] : i \in rows}]
    /\ UNCHANGED <<waiting, stale, inbox, received, faults, manual>>

claimEvents(w) ==
  /\ at[w] = "events"
  /\ job[w] = {}
  /\ claim(w, Events, EventBatch)
  /\ at' = [at EXCEPT ![w] = "deliveries"]

claimDeliveries(w) ==
  /\ at[w] = "deliveries"
  /\ job[w] = {}
  /\ claim(w, Deliveries, DeliveryBatch)
  /\ at' = [at EXCEPT ![w] = "reclaim"]

Worked(w, c, result) ==
  job' = [job EXCEPT ![w] = (@ \ {c}) \cup {[c EXCEPT !.result = result]}]

(* Mutants: the notification is inserted without ON CONFLICT; an existing  *)
(* delivery is put back in the queue.                                      *)
MutInsertRow(n) == n + 1
MutInsertDelivery(old) == "pending"

(* INSERT ... ON CONFLICT DO NOTHING.                                      *)
insertRow(n) == IF n = 0 THEN 1 ELSE n
insertDelivery(old) == IF old = "none" THEN "pending" ELSE old

(* handleEvent fans out in one transaction, which may fail and leave       *)
(* nothing.  The events of a batch are handled one after the other.        *)
handleEvent(w, c) ==
  LET e == c.item
  IN  /\ e \in Events
      /\ \A d \in job[w] : d.result = "todo"
      /\ \/ /\ status[e] # "gone"
            /\ inbox' = [n \in Entries |-> IF n[1] = e THEN insertRow(inbox[n]) ELSE inbox[n]]
            /\ status' = [i \in Items |->
                            IF i \in {<<e, h>> : h \in HooksOf[e]}
                              THEN insertDelivery(status[i]) ELSE status[i]]
            /\ Worked(w, c, "ok")
         \/ Worked(w, c, "error") /\ UNCHANGED <<inbox, status>>
      /\ UNCHANGED <<tries, waiting, stale, received, at, faults, manual>>

(* postDelivery: an error may also be an answer that never came back.      *)
postDelivery(w, c) ==
  /\ c.item \in Deliveries
  /\ c.result = "todo"
  /\ \/ received' = received \cup {c.item} /\ Worked(w, c, "ok")
     \/ received' \in {received, received \cup {c.item}} /\ Worked(w, c, "error")
  /\ UNCHANGED <<queue, stale, inbox, at, faults, manual>>

(* Mutants: one attempt too many; a failure is recorded as a success.      *)
MutRetryOnceMore(c, limit) ==
  IF c.result = "ok" THEN "done" ELSE IF c.attempt > limit THEN "failed" ELSE "retry"
MutAlwaysDone(c, limit) == "done"

(* The recorded outcome.  The statement names only the row's id, so it     *)
(* overwrites whatever the row says by now; a deleted row stays deleted.   *)
outcome(c, limit) ==
  IF c.result = "ok" THEN "done" ELSE IF c.attempt >= limit THEN "failed" ELSE "retry"

record(w, c, limit) ==
  LET now == IF status[c.item] = "gone" THEN "gone" ELSE outcome(c, limit)
  IN  /\ c.result # "todo"
      /\ status' = [status EXCEPT ![c.item] = now]
      /\ waiting' = IF now = "retry" THEN waiting \cup {c.item} ELSE waiting \ {c.item}
      /\ job' = [job EXCEPT ![w] = @ \ {c}]
      /\ UNCHANGED <<tries, stale, inbox, received, at, faults, manual>>

recordEvent(w, c) == c.item \in Events /\ record(w, c, EventRetryLimit)
recordDelivery(w, c) == c.item \in Deliveries /\ record(w, c, MaxAttempts)

(* The database refuses the outcome: it is logged and the claim forgotten. *)
outcomeLost(w, c) ==
  /\ faults < MaxFaults
  /\ c.result # "todo"
  /\ job' = [job EXCEPT ![w] = @ \ {c}]
  /\ faults' = faults + 1
  /\ UNCHANGED <<queue, stale, inbox, received, at, manual>>

(* The process stops with rows in its hands and starts again.              *)
crash(w) ==
  /\ faults < MaxFaults
  /\ job' = [job EXCEPT ![w] = {}]
  /\ at' = [at EXCEPT ![w] = "reclaim"]
  /\ faults' = faults + 1
  /\ UNCHANGED <<queue, stale, inbox, received, manual>>

(* Time: a backoff ends, and a row grows older than stuck_after_minutes.   *)
backoffEnds(i) ==
  /\ i \in waiting
  /\ waiting' = waiting \ {i}
  /\ UNCHANGED <<status, tries, stale, inbox, received, job, at, faults, manual>>

grow(i) ==
  /\ MayAge
  /\ status[i] \in Open
  /\ i \notin stale
  /\ SlowWork \/ \A w \in Workers : \A c \in job[w] : c.item # i
  /\ stale' = stale \cup {i}
  /\ UNCHANGED <<queue, inbox, received, job, at, faults, manual>>

(* A retry by hand takes any row that has not succeeded, in work or not.   *)
requeue(i) ==
  /\ manual < MaxManual
  /\ manual' = manual + 1
  /\ status' = [status EXCEPT ![i] = "pending"]
  /\ tries' = [tries EXCEPT ![i] = 0]
  /\ waiting' = waiting \ {i}
  /\ UNCHANGED <<stale, inbox, received, job, at, faults>>

retryDomainEvent(e) == status[e] \notin {"none", "gone", "done"} /\ requeue(e)
requeueDelivery(d) == status[d] \notin {"none", "gone", "done"} /\ requeue(d)
-----------------------------------------------------------------------------
Tick(w) ==
  \/ reclaimStuck(w)
  \/ claimEvents(w)
  \/ claimDeliveries(w)
  \/ \E c \in job[w] : \/ handleEvent(w, c) \/ recordEvent(w, c)
                       \/ postDelivery(w, c) \/ recordDelivery(w, c)

Fault(w) == crash(w) \/ \E c \in job[w] : outcomeLost(w, c)

Next ==
  \/ \E w \in Workers : Tick(w) \/ Fault(w) \/ \E e \in Events : cleanup(w, e)
  \/ \E e \in Events : emitEvent(e) \/ retryDomainEvent(e)
  \/ \E d \in Deliveries : requeueDelivery(d)
  \/ \E i \in Items : backoffEnds(i) \/ grow(i)

Spec == Init /\ [][Next]_vars

(* Every process keeps running its loop, restarted when it dies, and time  *)
(* passes.  Nothing is assumed of the targets or of the transactions.      *)
Fairness ==
  /\ \A w \in Workers : WF_vars(Tick(w))
  /\ \A i \in Items : WF_vars(backoffEnds(i)) /\ WF_vars(grow(i))

FairSpec == Spec /\ Fairness
-----------------------------------------------------------------------------
(* However often an event is handled - by two processes at once, again     *)
(* after a crash, again because an operator asked - nobody gets a second   *)
(* notification of it (queueNotifications; README, "같은 이벤트가 같은        *)
(* 사용자에게 두 번 알림을 만들지는 않습니다").                                *)
InboxOnce == \A n \in Entries : inbox[n] <= 1

(* A row says done only if the work behind it was done: all notifications  *)
(* and delivery rows of the event exist, the target got the delivery.  The *)
(* statement that says so is not in the transaction that did the work.     *)
DoneIsEarned ==
  /\ \A e \in Events : status[e] = "done" =>
       /\ \A u \in RecipientsOf[e] : inbox[<<e, u>>] = 1
       /\ \A h \in HooksOf[e] : status[<<e, h>>] # "none"
  /\ \A d \in Deliveries : status[d] = "done" => d \in received

(* Handling an event again does not send its deliveries again: once there, *)
(* a delivery is put back in the queue only by hand (queueDeliveries).     *)
ReplayKeepsDeliveries ==
  [][\A d \in Deliveries :
       status'[d] = "pending" /\ status[d] \notin {"none", "pending"}
         => manual' > manual]_vars

(* No row is in the hands of two processes (FOR UPDATE SKIP LOCKED).       *)
ClaimedByOne ==
  \A v, w \in Workers : \A c \in job[v], d \in job[w] :
    c.item = d.item => v = w /\ c = d

(* Without reclaims and retries by hand, a row that settled stays settled  *)
(* until it is deleted: outcomes are not overwritten by late ones, although*)
(* the statements that write them do not ask (completing, failEvent).      *)
SettledIsFinal ==
  [][\A i \in Items :
       status[i] \in Settled => status'[i] \in {status[i], "gone"}]_vars

(* A row that keeps failing is tried as often as the setting says and no   *)
(* more (EventRetryLimit, MaxAttempts).                                    *)
TriesWithinLimit ==
  /\ \A e \in Events : tries[e] <= EventRetryLimit
  /\ \A d \in Deliveries : tries[d] <= MaxAttempts

(* Every event and every delivery is settled in the end, although          *)
(* processes die with rows in their hands (reclaimStuck).                  *)
AllSettle ==
  \A i \in Items : status[i] \in Open ~> status[i] \notin Open
=============================================================================
