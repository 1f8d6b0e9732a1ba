\* One request at a time: what is forwarded to CarbonNext and what a reversal takes back.
SPECIFICATION Spec
CONSTANTS
  clerk = clerk
  manager = manager
  viewer = viewer
  l1 = l1
  l2 = l2
  l3 = l3
  p1 = p1
  p2 = p2
  s1 = s1
  s2 = s2
  None = None
  Kept = Kept
  NoBase = NoBase
  Seniors = {manager}
  Authority <- MCAuthority
  Reads <- MCReads
  Categories <- MCTwoCategories
  TripCategory <- Unmapped
  Viewers = {}
  Sessions = {s1}
  Users = {clerk, manager}
  Lines = {l1, l2}
  Pages = {p1, p2}
  MaxBase = 1
  EditKinds = {"rate", "category", "gl", "centre"}
  Ops = {"capture", "approve", "decide", "release", "reverse", "mark_paid", "edit", "edit_header", "unapprove", "resubmit"}
  SubmitterVerification = FALSE
  RequireCoding = TRUE
  AllowDocumentSplit = FALSE
  AutoReverse = "approver_reason"
  HasEvents = TRUE
SYMMETRY LineSymmetry
INVARIANTS HandoffsMatch CodedWhenReleased
CHECK_DEADLOCK FALSE
