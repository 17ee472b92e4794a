\* The claim LastOwnerProtected fails: two owners demote each other.
SPECIFICATION Members
CONSTANTS
  People = {p1, p2}
  Creator = p1
  Requests = 3
INVARIANT LastOwnerProtected
CHECK_DEADLOCK FALSE
