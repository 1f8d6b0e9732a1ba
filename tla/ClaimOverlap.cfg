\* Two requests at a time, on a claim of one line.
SPECIFICATION Spec
CONSTANTS
  clerk = clerk
  manager = manager
  viewer = viewer
  l1 = l1
  l2 = l2
  l3 = l3
  p1 = p1
  p2 = p2
  s1 = s1
  s2 = s2
  None = None
  Kept = Kept
  NoBase = NoBase
  Seniors = {manager}
  Authority <- MCAuthority
  Reads <- MCReads
  Categories <- MCOneCategory
  TripCategory <- Unmapped
  Viewers = {}
  Sessions = {s1, s2}
  Users = {clerk, manager}
  Lines = {l1}
  Pages = {p1}
  MaxBase = 1
  EditKinds = {"amount"}
  Ops = {"capture", "approve", "release", "reverse", "mark_paid", "edit", "send_back", "reject", "unapprove", "resubmit"}
  SubmitterVerification = FALSE
  RequireCoding = FALSE
  AllowDocumentSplit = FALSE
  AutoReverse = "allow"
  HasEvents = FALSE
SYMMETRY LineAndSessionSymmetry
INVARIANTS SeparationOfDuties ForwardedOnce NoPayWithoutRelease
CHECK_DEADLOCK FALSE
