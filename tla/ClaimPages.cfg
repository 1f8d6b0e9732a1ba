\* One request at a time: pages moving between lines and the holding queue.
SPECIFICATION Spec
CONSTANTS
  clerk = clerk
  manager = manager
  viewer = viewer
  l1 = l1
  l2 = l2
  l3 = l3
  p1 = p1
  p2 = p2
  s1 = s1
  s2 = s2
  None = None
  Kept = Kept
  NoBase = NoBase
  Seniors = {manager}
  Authority <- MCAuthority
  Reads <- MCReads
  Categories <- MCOneCategory
  TripCategory <- Unmapped
  Viewers = {viewer}
  Sessions = {s1}
  Users = {clerk, manager, viewer}
  Lines = {l1, l2, l3}
  Pages = {p1, p2}
  MaxBase = 1
  EditKinds = {"rate"}
  Ops = {"capture", "attach", "switch", "approve", "decide", "edit", "add_mileage", "merge", "split", "send_back", "resubmit"}
  SubmitterVerification = FALSE
  RequireCoding = FALSE
  AllowDocumentSplit = TRUE
  AutoReverse = "off"
  HasEvents = FALSE
SYMMETRY LineSymmetry
INVARIANTS PageFiledOnce
CHECK_DEADLOCK FALSE
