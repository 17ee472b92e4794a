\* One window on a settings row beside a stranger who writes it; a queue of two
\* cases; a listing edited once; an organization of two people; a request
\* with two sellers, three quotes or revisions and two acceptances; lists of four
\* rows, of which two fit on a page, with a fifth to come.
SPECIFICATION Spec
CONSTANTS
  Packages = {"basic", "plus"}
  Extras = {"rush"}
  Codes = {"A", "B"}
  Touches = 3
  Asks = 2
  Tries = 2
  Desks = {1}
  Edits = 2
  Saves = 2
  Loads = 1
  Cases = {case1, case2}
  NoCase = NoCase
  Opens = 1
  Rewrites = 1
  Decisions = 2
  Drafts = 1
  Queued = 2
  PolicyTurns = 1
  People = {p1, p2}
  Creator = p1
  Requests = 4
  Sellers = {s1, s2}
  Amounts = {1, 2}
  Clicks = {a1, a2}
  MaxBids = 3
  Kinds = {"orders", "earnings", "operations", "audit", "answers", "threads", "reviews", "seller", "market"}
  Rows = {1, 2, 3, 4, 5}
  Standing = {1, 2, 3, 4}
  PageSize = 2
  Asked = 4
  Moves = 2
INVARIANTS
  ShownCouponFits
  TouchedOnly
  ToldIsDone
  OnlyHidingSkipsReview
  DecidedQuotesStand
  PagesJoinUp
PROPERTY
  OwnerLostOnlyToOverlap
\* Every bound ends in a state where nothing is left to do.
CHECK_DEADLOCK FALSE
