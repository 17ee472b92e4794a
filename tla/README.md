# TLA+ models of Kkiit

Kkiit is a marketplace for talents: buyers order work from sellers, the
platform holds the money in escrow, and companies order on a shared budget.  The
implementation is one Go process (`src/cmd/kkiit`, `src/internal`) on PostgreSQL,
with a web client.  Several processes may run against one database.  There is no
other store: whatever two requests, or a request and a background job, agree on,
they agree on through rows, row locks and conditional updates.

This directory models the parts of it where that agreement is difficult,
and the parts of the web client where a page, its timers, its sockets and its
late answers have to agree with the server.  TLC checks the models on small
instances, and TLAPS proves the main safety properties for every value of the
constants.

## 1. Inventory

Server, under `src/internal/`:

| Component | Source | State | Operations | Modelled in |
|---|---|---|---|---|
| Order state machine | `httpapi/orders.go` | `orders.state`, timeline, payments, revisions | pay, generic transition, deliver, revise, confirm | `OrderTable`, `OrderEscrow` |
| Disputes and refunds | `httpapi/disputes.go` | `disputes`, `refunds`, ledger | open, decide, book a refund, unwind the settlement | `OrderEscrow`, `Money`; the operator's queue in `CaseDesk` |
| Settlements, ledger, finance | `httpapi/finance.go`, `worker/settlement.go` | `settlements`, `ledger_entries` | hold, release, complete; batch decision | `OrderEscrow` |
| Maintenance jobs | `httpapi/maintenance.go` | orders found by a scan | expire unpaid orders, confirm silent deliveries | `OrderEscrow` |
| Agent tools | `httpapi/mcp.go` | orders | `submit_requirement` | `OrderEscrow` |
| Reviews | `httpapi/collaboration.go` | `reviews` | create, which completes an order; reply | `OrderEscrow`, `PagedList` |
| Event outbox, dispatcher | `worker/worker.go`, `httpapi/events.go` | `domain_events`, `notifications` | emit, claim, fan out, record, reclaim, retain, retry by hand | `Outbox` |
| Webhook delivery | `worker/delivery.go` | `webhook_deliveries` | claim, post, record, requeue | `Outbox` |
| Checkout and coupons | `httpapi/orders.go` (`createOrder`), `coupons.go`, `features.go` | capacity, redemptions, `budgets`, row locks, connections | lock, count, reserve, commit, announce; edit limits | `Checkout`; the form in `Storefront` |
| Requests for quotation | `httpapi/rfq.go` | `rfqs`, `quotes` | quote, revise, accept, turn down the rest | `Quotes` |
| Talents and approvals | `httpapi/talents.go`, `approvals.go` | `talents.status`, approvals, policies | publish, edit, pause, resume, decide, requeue | `ListingReview`, `CaseDesk` |
| Reports | `httpapi/reports.go` | reports | file, uphold and hide, dismiss | `ListingReview`, `CaseDesk` |
| Organizations | `httpapi/organizations.go` | members, roles, budgets | add, change, remove, last owner; budgets | `Organization`; budgets in `Checkout` and `OrderEscrow` |
| Administration | `httpapi/admin.go` and others | settings, roles, providers, templates | read, write with a version | `SettingsDesk` |
| Lists and paging | `httpapi/paging.go` and the list handlers | - | keyset pages, the marketplace's offset pages | `PagedList` |
| WebSocket hub | `httpapi/hub.go`, `notifications.go` | channels in memory | subscribe, publish, drop, close | as one bell sees it, in `NotificationBell` |
| Accounts, sessions | `httpapi/auth.go`, `identity.go` | sessions | sign in, sign out, silent sign-on | as one tab sees it, in `ClientSession` |

Web client, under `src/web/src/`:

| Component | Source | State | Modelled in |
|---|---|---|---|
| Session and routes | `silentSso.ts`, `App.tsx`, `AppShell.tsx`, `LoginPage.tsx`, `api.ts` | marks in `sessionStorage`, the principal | `ClientSession` |
| Notification bell | `components/NotificationBell.tsx` | socket, interval, badge, list | `NotificationBell` |
| Order pages | `OrderWorkspacePage.tsx`, `OrdersPage.tsx` | order and conversation as loaded, buttons, dialogs | `OrderPage`, `PagedList` |
| Storefront | `TalentPage.tsx`, `couponSelection.ts`, `MarketplacePage.tsx`, `SellerPage.tsx` | selection, preview of a coupon, pages of results | `Storefront`, `PagedList` |
| Settings forms | `MailAdmin.tsx`, `TrackingAdmin.tsx`, `CouponsAdmin.tsx`, `EventsAdmin.tsx`, `NotificationSettings.tsx`, `PortfolioManager.tsx`, `AdminPage.tsx` | a row as loaded, a form, saves | `SettingsDesk` |
| Operator queues | `DisputeQueue.tsx`, `ReportQueue.tsx`, `AdminPage.tsx` | list, open case, its evidence | `CaseDesk`, `PagedList` |
| Seller and organization pages | `ProfilePage.tsx`, `OrganizationsPage.tsx`, `EarningsPage.tsx`, `InquiriesPage.tsx` | listings, quotes, members, pages of rows | `ListingReview`, `Quotes`, `Organization`, `PagedList` |

What is not modelled, and why, is in section 8.

Interaction.  A handler runs one database transaction; the effects it wants the
world to see (an event) are rows of that transaction, and dispatchers turn
them into notifications, mail and deliveries later.  Handlers and background
jobs meet on rows: the order's row lock serialises everything that moves an
order, while finance and the settlement batch work on the settlement row
alone; dispatchers of all processes compete for queue rows with
`FOR UPDATE SKIP LOCKED`.  Handlers never call each other and never wait for a
background job.  The client knows the server from its last answered request; it
learns of changes by asking again, by an interval, or by a frame on a socket
that may drop frames and close.

What is hard here: scans that act on what they saw before they had a lock;
finance acting beside a dispute; rounding and signs in refunds; the same money
reachable by an operator's generic transition and by a dedicated handler; claims of
processes that die or are merely slow; outcomes recorded outside the
transaction that did the work; shared limits (capacity, coupons, budgets) hit by
concurrent checkouts; tests and writes in two statements under READ COMMITTED;
answers that cross, come late or never; and marks a browser may forget.
`PROJECT.json` lists each of them under `hazards`, at its line, with the properties
that watch it.

## 2. Plan

Done, in this order:

1. `Money`, `OrderEscrow`, `EscrowPromise`: the order and its money.
2. `Outbox`: events, fan-out, deliveries, crashes.
3. `Checkout`: concurrent checkouts against capacity, coupons, budgets and the
   connection pool.
4. `ClientSession`: a tab, its session and the silent sign-on.
5. `NotificationBell`, `OrderPage`, composed by `Screens`: pages that keep
   themselves up to date.
6. `Storefront`, `SettingsDesk`, `CaseDesk`, `ListingReview`, `Organization`,
   `Quotes`, `PagedList`, composed by `Consoles`: pages that write, with the
   handlers behind them.

What would come next: `MoneyWidth`, the products of `Money` modulo 2^w at a scaled
width against exact arithmetic; `MailQueue`, the claim protocol of `Outbox` with rows
folded by person; one-time codes and the revocation of other sessions; an
abstract queue (every item handled at least once, its effect shown at most
once) refined by `Outbox`; an abstract counter with a limit, refined by
checkout's capacity, coupon and budget.

## 3. The modules

### `Money`

The arithmetic of the handlers as operators: `Payable`, `PlatformFee`
(`orders.go`), `BuyerShare` (`bookRefund`), `Released` (`releaseBudget`),
`Postable` (the gate of `writeLedger`), `RevisionLimit` (`createRevision`).
Won are integers.  The fee goes through `float64` in the code; for whole-percent
rates and amounts below 2^53/100 that is the integer quotient, and rates are
whole percents here.  Overflow is not modelled (section 8).

### `OrderTable`

The states of an order and `orderTransitions`, shared by `OrderEscrow` (the server)
and `OrderPage` (the client).

### `OrderEscrow`

One order, everything that touches it and its money.

| Variable | Code |
|---|---|
| `terms` | `orders.amount`, `discount_amount`, whether a budget was reserved |
| `state` | `orders.state` |
| `books` | the order's `ledger_entries` by account (credits minus debits), and `orders.budget_consumed` |
| `settlement` | the `settlements` row (unique by order) |
| `dispute` | the `disputes` row |
| `payments` | idempotency keys of captured payments |
| `revisions`, `rounds` | `revisions` rows; trips through `REVISION_REQUESTED` |
| `reviewed` | the `reviews` row |
| `quiet` | `updated_at` is older than `auto_accept_days` |
| `plan` | what each worker's scan saw and has not acted on |

One action is one transaction under the order's row lock: `payOrder`,
`transitionOrder` (`canTransition` and `applyOrderTransition`, with the escrow
returned when the order ends), `createDelivery`, `createRevision`, `acceptOrder`,
`createReview`, `submitRequirement`, `openDispute`, `resolveDispute`.
`holdSettlement`, `releaseSettlement` and `completeSettlement` are the
conditional updates of `settlementAction`, which does not take that lock.  The
jobs take two actions each, because the code does: `expireUnpaidOrders`,
`autoAcceptDeliveries` and `processDueSettlements` scan, `expireOrder`,
`autoAccept` and `applySettlementDecision` act on what was seen, and `dropPlan`
is a transaction that failed or a process that stopped.  `booksAfter`,
`bookRefund`, `unwindSettlement`, `bookSettlement`, `bookPayment` and `bookPayout`
are the helpers that post to the ledger, by the same names where the code has them.

Abstractions: the moment a settlement falls due is nondeterministic (a scheduled
settlement may be due at any scan); who the caller is, is reduced to buyer,
seller or operator; `platform_fee_rate` may change at any time within `FeeRates`;
a dispute is open or resolved (nothing ever writes `under_review`); events of
handlers are left to `Outbox`, timeline rows are left out.  `OperatorMoves` says which moves of
`orderTransitions` operators request by hand; `canTransition` lets holders of `orders.manage` request
every one, and so do the runs.  Two of those moves go around a handler that moves money, and the
properties name them instead of excluding them.  An order marked `PAID` by hand has no payment: what is said of
escrow is said of orders that are `Funded`.  An order moved from `DISPUTED` to `REFUNDED` by
hand after its confirmation keeps its settlement (`ClosedByHand`): nothing is repaid and the settlement can
still be released and paid, so what is said of ended orders is said of the others.  Section 6 has both.

### `EscrowPromise`

The abstract specification: the full value enters escrow once, leaves it in one
piece, the division may be revised until something was returned, and the seller's
part is paid once.  `OrderEscrow!Promise` is the refinement mapping; `Stage` reads
the stage from payments, settlement and state.  The promise is about the money that was captured
(`Captured`): an order marked `PAID` by hand stays an open promise, whatever is booked for it.

### `Outbox`

Events and deliveries as queue items of several identical processes.

| Variable | Code |
|---|---|
| `status`, `tries` | `status`/`state` and `attempts`; `working` is `processing` or `sending` |
| `waiting` | retry rows whose `available_at`/`next_attempt_at` lies ahead |
| `stale` | rows whose `created_at` is older than `stuck_after_minutes` |
| `inbox` | number of `notifications` rows by event and user |
| `received` | deliveries whose target got a POST |
| `job`, `at` | what each process claimed and has not recorded; its place in `tick` |

`claimEvents`, `claimDeliveries`: the claiming `UPDATE`, any batch of due rows.
`handleEvent`: the fan-out transaction, or its failure.  `postDelivery`: the
request, whose answer may get lost.  `recordEvent`, `recordDelivery`: the outcome, a
separate statement that names only the row's id.  `reclaimStuck`, `cleanup`:
the sweep and the retention with its cascade, which deletes deliveries in
any state, those in a process's hands included (`ShortRetention`: the retention period may end before they settle).  `crash`, `outcomeLost`: a process stops
with rows in its hands, a database refuses an outcome.  `retryDomainEvent`,
`requeueDelivery`: the retries by hand.

Abstractions: who is notified and which webhooks subscribe are constants of an
event (`RecipientsOf`, `HooksOf`), templates and preferences included; webhook
delivery is switched on; the three updates of `reclaimStuck` are one action; a claim
takes any batch of due rows and not the oldest; mail rows are left out.

### `Checkout`

Several checkouts at once, statement by statement, because under READ COMMITTED
every statement sees what was committed before it.

| Variable | Code |
|---|---|
| `step`, `locks` | where `createOrder` is; the rows its transaction holds `FOR UPDATE` |
| `live`, `held` | `orders.state` as far as capacity sees it; `orders.budget_consumed` |
| `redeemed` | orders with a `coupon_redemptions` row |
| `capacity`, `coupon` | `seller_profiles.capacity`; `usage_limit` and `per_user_limit` |
| `amount`, `consumed` | `budgets.amount`, which no handler changes; `consumed_amount` |
| `announced` | `BudgetExhausted` events of a budget |

`lockSeller`, `countOrders` (`sellerAtCapacityTx`), `lockCoupon`,
`countRedemptions` (`resolveCoupon`), `featureEnabled` with `queryFeatures` and
`featureAnswered` (`features`, which needs a second connection when its cache is
old), `reserveBudget`, `commit`, `rollback`; after a refused budget
`lookForAnnouncement` and `announceBudgetExhausted`.  `abort` is any other way a
request ends.  `payOrder`, `completeOrder`, `refundPart`, `endOrder` and
`expireOrder` are the transactions of `OrderEscrow` seen from the shared rows: one
action each, waiting for the budget row they update.  `putMySellerProfile` and
`updateCoupon` change the limits and wait for the locked row; `Stopped` is a
deactivated coupon.

Abstractions: a company has at most one active budget; `Cart` says whether an order names a
company, which is when the feature is asked for, and whether that company has a budget; what `reserveBudget` adds to `consumed_amount` is shown
by `commit`, since nobody can see it before; `usage_limit` NULL is a limit that is
not reached; validity windows are left out; `acceptQuote` runs the same sequence
on the shared rows and is not a second copy of it (what it does to quotes is
`Quotes`); events deleted by the outbox's retention are not
announced again.

### `ClientSession`

One browser tab: the session behind the cookie (`session`), the one at the identity
provider (`provider`), what `App` believes (`me`), the marks in
`sessionStorage` (`marks`, a storage that keeps, forgets or refuses), the page and
address, lookups under way (`probe`).  `Load` is a page load with the guards of
`silentSso.ts` (`shouldAttemptSilentSso`, `Excluded`, `beginSilentSso`);
`BootAnswered`, `SilentSucceeds`, `SilentRefused`, `CallbackFails` are what comes
back; `ProbeFailed` is a lookup lost on the network, after which
`refreshMe` takes the person for signed out; `loginSubmit`, `logout`, `refreshMe`, `onUnauthorized`, `Navigate`, `Visit` are what
the person and the API wrapper do; `Elsewhere` what other tabs do to the two
sessions.  `tries` counts silent attempts since the tab last had a session.  Second
factors and password recovery are left out.

### `NotificationBell`, `OrderPage`, `Screens`

`NotificationBell` has every effect, timer, socket callback and button of the component,
over the hub as one bell sees it: a greeting, a bounded channel that drops, a close
that arrives late.  The inbox is a version number, and every answer and frame
carries the version that was read.  `readAll` and `openItem` change the inbox when they reach the
server and the page when their answer does (`ReadAnswered`, `ReadLost`), which may be after
a frame or a load that knows more or less.  `Renew` is the effect running again because
`App` has a new principal, `SocketLost` the end of the socket in use,
`StoppedClose` the late `onclose` of one that was closed on purpose.

`OrderPage` is the order workspace of one person: a load of two rounds, the
interval, the buttons `Offered`, a dialog that stays open, and what the server tests when an
action arrives: the permission its route asks for (`Admitted`), the handler's look at the person (`MayAct`) and at
the order (`StateAllows`), together `Allowed`, and the transition (`Target`).  A person is a part in
the order (buyer, seller, member of the buying company, none) with a set of permissions.  The page goes by part
and `orders.manage`, the server by part and all permissions; `Screens` has the people whom the installation's roles
make, the proofs take any.  `OthersAct` moves the order by `orderTransitions`
meanwhile.  Part and permissions do not change while the page is open; files and drafts of
messages are left out.

`Screens` lets a behaviour be one of the two: they share no client state.

### `Storefront`

The order form: `shape` (package and options), the code field, the coupon with the
shape the form tagged it with and the shape the server priced, previews and orders under
way.  Nothing is disabled while a preview is asked for, so `setSelectedPackage`,
`setChosenOptions`, `setCouponCode`, `applyCoupon` interleave with
`PreviewAnswered` and `PreviewRefused`; `placeOrder` sends what is shown.

### `SettingsDesk`

Eleven pages that edit a stored row as a whole, by the same names.  `log` is every
value the row had and its length the version; a form is a value, the version it came from
and the touched fields; `submit`, `toggle`, `stop`, `allow` send a save, `PutChecked`
and `PutWritten` are the two statements of `putSetting`, `OthersWrite` another
administrator.  Two fields stand for all; file uploads and test mails are left out.

### `CaseDesk`

The dispute, report and approval queues: the list and the open case's evidence as loaded,
the dialog, decisions under way (`resolve`, `decideReviewed`, `decide`,
`DecisionServed`), and another operator (`OtherDecides`).  The effect of a decision on
the order or listing is `OrderEscrow`'s and `ListingReview`'s.

### `ListingReview`

One listing: `status`, the version of its content, the versions an enabled policy covers, those
somebody let out (`judged`), pending approvals, the pages of the seller and of the operator.
`publishTalent`, `updateTalent` with `saveTalent` and `requeueForReview` (two
transactions), `setMyTalentStatus` with `StatusWritten` (test and write),
`decideApproval`, `setPolicies`, `setTalentStatus`, `createReport`,
`resolveReport`.  Packages, options and ranking are left out.

### `Organization`

Roles, what each person's page shows, and the changes on the server with how far they are:
`requireMember` before the transaction, `checkOwners` inside it, and the write
(`addOrganizationMember`, `updateOrganizationMember`, `removeOrganizationMember`).
A change is `late` once another write came between its look and its own.

### `Quotes`

One request for quotation.  `createQuote` is the look at the request outside the
transaction, `insertQuote` the upsert.  `acceptQuote` goes statement by statement: `lockQuote`
(its own quote `FOR UPDATE`, the request as the statement saw it when it began),
`closeOthers` and `closeRow` (the update of all submitted quotes, row by row, each row
looked at again once it is free), `award` (the request, the events, the commit), `refuse`
(any refusal of capacity, coupon or budget, any error, the way out of a deadlock).
`viewQuotes` and `pressAccept` are the comparison on the buyer's page.  An offer is an
amount and whether a listing is linked; scores, days and scope are left out.

### `PagedList`

Nine lists, by the names of their pages.  `FetchFirst`, `SetFilter`, `ReloadFirst`,
`FetchMore` ask; `Served` is the server (`keyset`, `offset`, `pageResult`),
`Shown` and `Failed` the answer on the page, appended to whatever is shown by then.
Rows are added, raised to the top, or leave the filter meanwhile.  A row's key is
one number for the pair of time and id; rows become visible in the order of their
keys (a row committed late with an earlier `created_at` would be skipped by any cursor).

### `Consoles`

Puts the seven modules that write side by side: a behaviour is one page's while the
others stay as they began, so one run covers them all without multiplying them.

## 4. Runs

| Run | Module | Shows | States |
|---|---|---|---|
| `OrderSafety` | `MCOrderEscrow` | with any moves by hand: the ledger closes, settlement and ledger agree, one capture, payouts final, only moves of the table; escrow, refunds, settlements and budget follow the state; ended orders are final; refinement of `EscrowPromise` | 206 119 |
| `OrderProgress` | `MCOrderEscrow` | with any moves by hand: unpaid orders end, silent deliveries are confirmed, due settlements decided | 206 119 |
| `OutboxDispatch` | `MCOutbox` | no double notification, `done` is earned, replays do not resend, everything settles despite crashes and retries by hand | 403 691 |
| `OutboxFresh` | `MCOutbox` | while rows are young: exclusive claims, bounded tries, final outcomes | 1 122 258 |
| `Checkout` | `MCCheckout` | capacity, coupon and budget hold under every interleaving; the budget's total is what orders hold; every checkout ends | 106 432 |
| `ClientSession` | `MCClientSession` | one silent attempt for each loss of the session, and an end to the bouncing between tab and provider | 249 819 |
| `Screens` | `Screens` | one interval; a handler refuses a button only on an order that has moved, for everybody the route lets in; bell and order page catch up | 406 049 |
| `Consoles` | `Consoles` | no coupon for another selection; a save carries its own version's values; an accepted decision stands; nothing on sale unjudged unless a report hid it first; a decided quote stands; pages join up; the last owner goes only to an overlap | 2 245 685 |

The runs named `<Component>_<Property>` refute one documented claim each (section 6).

Bounds and why they are enough:

- `Terms`: a plain order, one with coupon and budget, one the coupon pays for
  entirely, a free one.  Those are the cases the arithmetic distinguishes;
  amounts 5 and 2 make a refund's quotient inexact.  `PartialRefunds` 1, 3, 4
  give a buyer's part of zero, an exact and an inexact quotient.  `FeeRates`
  0, 20, 100: nothing, a rounded part, everything.
- Two keys for payments, two workers for scans: a race needs two.
- `MaxRounds` 2 exceeds the revision limit 1 by the one round that breaks it.
- `Outbox`: two processes, one event with two recipients and one webhook, or two events with
  three deliveries; batches of two, so a batch holds rows while another is
  worked on; limits of two tries, so there is a retry and a last try.  `MaxFaults`
  and `MaxManual` are 1: one crash, one retry by hand, at any moment.  Processes
  are symmetric, and symmetry is used only in `OutboxFresh`, which has no liveness.
- `Checkout`: three requests; two share a seller, two a coupon, two a budget, and no
  pair shares two, so no lock stands in for another.  Capacities 1 and 2, coupons
  with one use, one for each buyer and two, a budget of 4 (one company order
  fits) and 5 (both do); one edit of a limit at any moment; a partial refund of 1 or
  one that returns nothing to the buyer.  `PoolSize` is one more than there are
  requests.  With as many connections as requests (the code has 20) `CheckoutsEnd`
  fails: requests that hold a connection and locks wait for a second connection
  in `featureEnabled`, and nobody gives one back.
- `ClientSession`: three addresses loaded or followed and two changes of the sessions
  outside: one to lose the session, one to get it back, and a load between and after.
- `Screens`: two versions of the inbox above the first, two loads under way (enough to
  overtake one another), a channel of one frame (so the second is dropped), two
  renewals of the effect (so an old socket closes under a new one).  On the order
  page one step of the others beside one click, for a buyer, a seller, a company's
  member, an operator and a super administrator with the permissions of their seeded roles, from an order in
  one of five states; with the step that reaches every state in which the page
  offers a button.  Two loads of each kind under way.  A second step or click takes the state graph past what
  the liveness check finishes in minutes.
- `Consoles`: two packages, one option, two codes and two previews under way; one window
  beside a stranger who writes the row; two cases and two decisions; two drafts, two waiting
  requests and one change of the policies; two people and four changes; two
  sellers, three quotes or revisions, two amounts and two acceptances; four rows on pages of two, with a
  fifth to come and two changes between the pages.  Every race among them needs two
  of a kind; the counterexamples of section 6 and of the mutants all fit.

The proofs assume none of these bounds.

## 5. Fairness

`OrderEscrow!Fairness`: time passes (`agePasses`), and each worker's scan and
the action on what it saw are strongly fair: `Run` repeats its loop for ever, and a
plan that is dropped (a failed transaction) comes back with a later scan; what is
assumed is that a transaction does not fail every time.  Nothing is assumed of buyers, sellers,
operators and finance.

`Outbox!Fairness`: every process keeps running its loop (the orchestrator
restarts it when it dies, `crash` is bounded by `MaxFaults`), backoffs end and
rows age.  Nothing is assumed of targets or of the fan-out transaction, either may
fail every time: rows then settle as failed.

`Checkout!FairSpec`: a request that was begun goes on.  Strong fairness of
`createOrder(o)`, because row locks and connections are granted in queues
(PostgreSQL's lock manager, `pgxpool`): a request that can go on again and again
gets its turn.  Nothing is assumed of `abort`, so no request is saved by its client
giving up, and nothing of orders already placed.

`ClientSession!Spec`: the steps of the browser, the server and the provider go on
(`Machine`), and a tab that keeps loading gets an answer to a first lookup some time
(`BootAnswered`, strongly fair: not every lookup fails).  Nothing is assumed of the person.

`NotificationBell!BellFairness`: an interval fires for as long as it lives, requests
are read, an answer arrives or is lost, and one that is asked for again and again is not
lost every time (strong).  A socket behind a proxy that lets no upgrade through is
lost in the end.  Nothing is assumed of frames: a bell whose socket stays open and drops a frame
may stay behind, and `FallbackCatchesUp` does not say otherwise.

`OrderPage!PageFairness`: the interval fires, requests are read, some answer to a load arrives or is
lost as long as one is under way, likewise of the second rounds, and of these one that is asked for again and again
is not lost every time (strong).  Nothing is assumed of which answer comes first.
Nothing is assumed of the order or of the people.  The modules of `Consoles` have no
liveness and no fairness.

## 6. What the code does not keep

Each is a run that must end in a counterexample, and a `findings` entry.

| Run | Documented | Code |
|---|---|---|
| `Order_ReviewFreezesMoney` | no money moves under review | finance can release and pay the held settlement |
| `Order_OnlySilenceConfirms` | only silent orders are confirmed | the age is not tested again under the lock |
| `Listing_ResumedIsReviewed` | what a paused listing resumes with was approved | an edit while paused goes to no review |
| `Organization_LastOwnerProtected` | the last owner keeps the role | two owners step down at once, each counting the other |

Refuted by TLC in the same models, without a run kept for them.  The statement is in the module; adding it as
an `INVARIANT` (as a `PROPERTY` where it says so) to the configuration shows the counterexample.

| Statement | Configuration | What happens |
|---|---|---|
| `EscrowAlwaysCloses` | `OrderSafety.cfg` | an order moved to `PAID` by hand is settled from an empty escrow |
| `NoneClosedByHand` | `OrderSafety.cfg` | an operator ends a confirmed order under dispute by the generic transition: the dispute stays open, the buyer gets nothing back, and the held settlement can be released and paid |
| `BudgetReleasesWhatReturned` | `OrderSafety.cfg` | a refund whose buyer's part is zero releases the whole reservation |
| `RevisionLimitHolds` | `OrderSafety.cfg` | the generic transition asks for a revision without counting it |
| `ClaimedByOne` | `OutboxDispatch.cfg` | the sweep goes by `created_at` and takes freshly claimed old rows |
| `AnnouncedOnce` | `Checkout.cfg` with `BudgetAmounts = {1}` | two refused checkouts look for an announcement, then both write one |
| `LosersAreAnswered` | `Consoles.cfg` | a quote tested while the request was open is written after the award and waits for ever ("so no seller is left waiting", `rfq.go:468`) |
| `OneOrderPerRequest` | `Consoles.cfg` | a quote written between one acceptance's update and its commit is accepted too: the request row is not locked, so the second acceptance sees it open and one request makes two orders ("a second acceptance is refused", the test of `acceptQuote`) |
| `PricedAsSeen` | `Consoles.cfg` | acceptance names the quote and no amount; a revision between the comparison and the click sets the price (`README.md:497`, "the agreed quotation price") |
| `FirstOutIsJudged` | `Consoles.cfg` | a draft is reported, the upheld report makes it a paused listing, and its seller resumes it: on sale without anybody having let it out |
| `OfferedIsAdmitted` | `Screens.cfg` | the page shows operators the payment, the confirmation, the revision and the delivery by `orders.manage`; the routes ask for `orders.buy` or `orders.sell` and refuse them |
| `NoLostEdit` (`PROPERTY`) | `Consoles.cfg` | `putSetting` tests the version and writes in two statements; the second of two saves undoes the first |
| `ApprovedAsRead` | `Consoles.cfg` | a listing is edited while its approval dialog is open; what is published was not shown |
| `EvidenceIsOfTarget` | `Consoles.cfg` with `Opens = 2` | the evidence of a case opened before arrives last and stands under the case decided |
| `SignOutHolds` (`PROPERTY`) | `ClientSession.cfg` | the mark is written when the sign-out is answered, a load before that tries the silent sign-on |

Seen while reading the code for the models, and not stated in any:

- Orders: `submit_requirement` writes no timeline row; the retention of a handled event deletes
  deliveries still retried; order transitions are never published to the socket; the
  order page hardcodes seven days where the server has `overdue_cancel_days`
  (`OrderWorkspacePage.tsx:52`), and wipes a draft even when the server refuses it (39-42).
- Storefront: changing the code while a preview is under way brings the old code's coupon
  back beside the new code (against `couponSelection.ts:21`); an order whose answer is lost
  is placed again, since it carries no idempotency key.
- Settings: `CouponsAdmin.tsx:17` cuts an ISO time and 44-45 read it as local time, so an
  untouched save moves a coupon's window; rows without a version are last-write-wins; a test mail's refresh drops
  unsaved drafts (`MailAdmin.tsx:83`); an upload lands in whichever portfolio form is open; roles are
  written by a second request after the user; a late answer closes another item's dialog.
- Queues: a cancelled prompt still sends the decision (`AdminPage.tsx:354`), the list
  decides approvals without a busy flag (401), a late answer closes another case's dialog.
- Listings: an edit is live before its requeue, in a second transaction; hiding pauses even a listing under review.
- Lists: answers of an old filter land under the new one; a failed first page keeps the old rows
  and appends to them; the reviews' button is not disabled, so pressing twice shows a page twice; the
  marketplace's offset shifts with every listing published or paused; `InquiriesPage`
  shows thread A's messages under thread B for as long as B's load takes, and the projects page shows request
  A's quotes under request B in the same way (`ProfilePage.tsx:122`), with acceptance enabled.

## 7. Proofs

Assumptions are the named `ASSUME`s of the modules, which TLC evaluates in every
run: discounts do not exceed amounts, rates lie in 0..100, keys and events are
finite sets, limits are positive, events are not deliveries.

`OrderEscrowProofs`.  `TypeCorrect` needs that fees and shares lie between
zero and the amount (`FeeBounds`, `ShareBounds`).  Neither `LedgerCloses` nor
`SettlementOnBooks` is inductive alone, because unwinding reverses what the settlement row says and
payment happens once; `BooksInv` joins them with `PaidOnce` and `SettledOnce`,
and yields `LedgerAlwaysCloses`, `SettlementAlwaysOnBooks`, `CapturedAtMostOnce`,
`PayoutNeverReversed` and `TableIsFollowed`.  Where the money is takes more:
`MoneyInv` adds `MoneyByState`, which says it for each group of states, for funded orders, for those marked
`PAID` by hand and for those closed by hand.  From it follow `EscrowAlwaysFollowsOrder` and
`ConfirmedAlwaysSettled`, `EndedAlwaysRepaid` and `EndIsFinal`, and
`OrderKeepsPromise`: every step of the order is a step of `EscrowPromise` or a stutter.  None of these
assumes anything of `OperatorMoves`; what the two moves that go around a handler break is stated in the
properties themselves: escrow and refunds are promised to `Funded` orders, repayment and finality
to those not `ClosedByHand`.

What remains of claims refuted in section 6: `ReviewMovesOnlyThePayout` (during a review only the payout of a
released settlement moves money, whatever operators do), `RevisionRowsAreLimited` (the
rows of `revisions` keep the limit that rounds by the generic transition do not), `EscrowCloses`
(`EscrowAlwaysCloses` holds as soon as no operator moves an order from `PAYMENT_PENDING` to `PAID`), and
`OnlyHandsLeaveSettlements` (`NoneClosedByHand` holds as soon as none moves one from `DISPUTED` to `REFUNDED`).
These two alone assume something of `OperatorMoves`, the one move each is about.

`OutboxProofs`.  `TypeCorrect`; `NotifiedAtMostOnce` and `DoneIsAlwaysEarned`
come from `EarnedInv`, in which a claim already noted as `ok` carries the
evidence of its work, so that recording it later, over whatever the row says by
then, is justified however many others worked on it (`EffectsGrow`: effects
are never taken back).  `OwnerInv` ties the claim of a young row to the row's status and attempt
number, row by row: as long as nobody has retried by hand, a row that has not outlived
`stuck_after_minutes` is in the hands of one process, however late others are with older rows
(`YoungClaimsAreExclusive`).  `ClaimsAreExclusive`, `TriesAreLimited` and `SettlingIsFinal` are the
run's properties, for as long as `Undisturbed` (no row has aged so far, nobody retried by hand) is true.
Without it the first is refuted (section 6).  `ReplaySendsNothing` needs no such condition:
queueing leaves rows alone that exist, and no outcome or reclaim makes a sent delivery pending.

`CheckoutProofs`.  The argument behind `FOR UPDATE`: nobody else holds a row that
a checkout holds (`Exclusive`), a checkout keeps the rows it has read until it
ends (`RowsKept`), so what it concluded from them still holds when it commits
(`StillFits`).  No part is inductive alone: the edits respect `StillFits` only because of the
locks, a commit of another checkout only because of both.  Hence `BudgetNeverOverrun`,
`CapacityIsRespected`, `CouponIsRespected`, for any number of requests.
`BudgetIsHeld` adds the sum: a reservation and a release change the total and one
order's share of it by the same amount, so the total stays the sum of the shares whatever the number of orders.

Who waits for whom: rows are locked in one order and given back together (`LocksInOrder`), so
whoever waits for a row waits for a checkout that is further on.  If all that are under way wait
(`Stuck`; `Waits` is what keeps the statement a request has reached from running), every connection is held
by an open transaction, one of which asks for a second in `featureEnabled` (`OnlyThePoolBlocks`, for
any pool); with more connections than requests that cannot be (`RoomyPoolNeverBlocks`), which is why the
run has one more.  `RepeatsOverlap` says what remains of `AnnouncedOnce`: once a budget's end has been announced,
only requests that had looked before can announce it again, each once.

`FiniteInduction`.  What the sums and the pages need.  The library's induction theorems take an
operator and cannot be used; its minimum principle (`WFMin`) takes sets, and gives
`NumberInduction` and `SetInduction`: a family of subsets closed under adding an element
has all of them.  From it: the total of `MapThenSumSet` does not depend on the order in which elements are
taken, changes with one term by that term's change, and is zero over zeros.

`ScreensProofs`.  `RefusedMeansStale`: `PageInv` says what the person saw when they pressed a
button and what the server found, and the page's table and the handlers' agree case by case, for every part and every
set of permissions: of everything offered on an up-to-date display, what is refused is refused by the route for want of its
permission, or is a cancellation, and that only if `overdue_cancel_days` lies
outside 1..7 (`RefusalsNamed`, for every value; the page has the week built in).  Hence the property is about
people whom the route lets in, and its theorem assumes `GraceDays \in 1..7`, which the default, 7, satisfies.
`BellPollsOnce`: `BellInv` adds to the property that a live socket
belongs to a mounted bell; each action either keeps the socket alive and starts no
interval, or starts the only one because the socket in use has just been lost.

`ClientSessionProofs`.  `TriedOnce`: `TriesInv` ties the counter to the mark, "one attempt made" to the
mark in storage, and "about to ask" to no attempt made.

`ConsolesProofs`.  `CouponAlwaysFits` is inductive with the types: a coupon always carries
the shape the server priced as its tag (`TagInv`), and is shown only when the tag is
the selection.  `AcceptedStands` is inductive with the types and the fact that
ids of decisions are new: a verdict is written once, by whoever found the case undecided.
`ListingIsJudged`: whatever a page shows, asks for or holds as on sale
comes from a listing that was on sale, so after a judgement or a report that hid it before any (`ListingInv`).
`LastOwnerGoesToOverlap`: a change that had its look and is not late is as harmless as it
looked (`MembersInv`); hence only a late one can take the last owner.  `SavesWhatWasRead`: items, forms and
saves name versions of the log and hold their values outside the touched fields (`DeskInv`).
`QuotesStand`: what an acceptance holds is submitted and nobody else's, and the amount it took is
the amount the quote still names (`DealInv`).

`BudgetFollowsSpend` (in `OrderEscrowProofs`) is inductive relative to `MoneyInv`.

`PagedListProofs`.  `PagesAlwaysJoinUp`.  A sorted list is described by ranks: the row at place i
is the one with i - 1 newer rows (`Ranks`, by `SetInduction`; `NewestFirst` is defined
that way, because TLC's `SortSeq` has no definition the provers see).  `Quiet` says
what is under way while nothing has disturbed a list: one load at most, asked for with the filter
that is set, from the top or from the end of what is shown.  For keyset lists `ByKeys` says, of
what is shown and of every answer on its way, that no row is in it twice (`Single`), each was shown at a key it
has had (`Dated`: a thread may have risen since), none of the filter is missing between its ends
(`Covers`), and the cursor is the key of its last row (`EndsAt`).  An answer lies below the cursor it was asked
with, so it joins on (`KeysJoin`); rows that come or rise do so above every cursor (`Reached`), and
closing one only leaves fewer to show (`RowsMove`).  For the marketplace `ByPlaces` says that each place
shows the row of that rank, which holds only until any row changes (`PlacesJoin`).

`SharesFit` (in `OrderEscrowProofs`) says which orders the products of `Money` stay exact for, for any
width: up to the root of the greatest integer, and no further than one won more.  It is stated
for any width because the prover's own constants have 63 bits.

Only model-checked: all liveness (`UnpaidOrdersEnd`, `DeliveriesAreAnswered`, `DueSettlementsDecided`,
`AllSettle`, `CheckoutsEnd`, `FlickerEnds`, `FallbackCatchesUp`, `PageCatchesUp`: fairness and `ENABLED` are out of
the prover's reach) and that the refuted claims fail.  Every other property of a passing run
is a theorem.

## 8. Not modelled

- Widths: `refund * (amount - discount)` (`disputes.go:415`) is an int64 product.  By `SharesFit` it is
  exact for every order of at most 3,037,000,499 won (the whole part of the root of 2^63 - 1) and can wrap
  from two won more; what a wrapped share would do to the books is not modelled.
- The mail queue (`worker/mail.go`): its claim, retry and reclaim protocol is the outbox's, with rows
  folded by person; delivery is SMTP.
- One-time codes, recovery, API keys and the revocation of other sessions; user
  administration; suspending a reported seller.
- Overdue flags, risk scans and trust scores: each writes rows nothing in the models
  reads; scoring is a formula over counts.
- Rate limits (a window in each process's memory), the message socket of orders,
  start and shutdown of the process (its crashes are the faults of `Outbox`).
- Matching scores, search ranking, recommendations, discovery, notes, analytics, AI drafts,
  encryption, address checks, configuration: computed answers or single-row edits without
  ordering between actors.
- `scripts/`: a smoke test and the screenshots of the guide, linear scripts that
  call a running server one request after the other.

## 9. Running

`tlc -config OrderSafety.cfg MCOrderEscrow`, and likewise for each run with the
module of section 4; `tlapm OrderEscrowProofs.tla` for the proofs.  Operators whose names begin
with `Mut` are plausible bugs, used to see that each property can fail; no specification
refers to them.
