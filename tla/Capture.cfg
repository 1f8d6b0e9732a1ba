\* The forms one at a time, and one upload in the hands of two workers.
SPECIFICATION Spec
CONSTANTS
  u1 = u1
  u2 = u2
  p1 = p1
  p2 = p2
  p3 = p3
  s1 = s1
  s2 = s2
  None = None
  Uploads = {u1, u2}
  Pages = {p1, p2, p3}
  Worlds <- MCWorlds
  MaxFiles = 2
  InlineMax = 1
  MaxRuns = 2
  MaxChanges = 1
SYMMETRY MCSymmetry
INVARIANTS UploadAccounted UploadFiles
CHECK_DEADLOCK FALSE
