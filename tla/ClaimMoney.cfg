\* One request at a time: what is signed off and what is paid.
SPECIFICATION Spec
CONSTANTS
  clerk = clerk
  manager = manager
  viewer = viewer
  l1 = l1
  l2 = l2
  l3 = l3
  p1 = p1
  p2 = p2
  s1 = s1
  s2 = s2
  None = None
  Kept = Kept
  NoBase = NoBase
  Seniors = {manager}
  Authority <- MCAuthority
  Reads <- MCReads
  Categories <- MCOneCategory
  TripCategory <- Unmapped
  Viewers = {viewer}
  Sessions = {s1}
  Users = {clerk, manager, viewer}
  Lines = {l1, l2}
  Pages = {p1, p2}
  MaxBase = 1
  EditKinds = {"amount", "rate", "rerate", "method"}
  Ops = {"capture", "confirm", "switch", "approve", "decide", "attest", "release", "mark_paid", "edit", "add_mileage", "send_back", "reject", "unapprove", "resubmit"}
  SubmitterVerification = TRUE
  RequireCoding = FALSE
  AllowDocumentSplit = FALSE
  AutoReverse = "off"
  HasEvents = FALSE
SYMMETRY LineSymmetry
INVARIANTS TypeOK TotalsMatchLines StatusAgreesWithLines AttestedWhenReimbursed
PROPERTIES SignedWithinAuthority ClosedIsFinal
CHECK_DEADLOCK FALSE
