\* Two requests mark one bill paid at the same time.
SPECIFICATION Spec
CONSTANTS
  ada = ada
  ben = ben
  cyn = cyn
  s1 = s1
  s2 = s2
  None = None
  Kept = Kept
  Users = {ada, ben, cyn}
  Viewers = {}
  Duties <- MCDuties
  Readings <- MCReadings
  Worlds <- MCWorlds
  Authority <- MCAuthority
  MaxIntakes = 3
  MaxBills = 2
  MaxVendors = 2
  MaxLines = 2
  MaxRepeats = 2
  DocEdits = {"d2"}
  TotalEdits = {1}
  NameEdits = {"acne"}
INVARIANTS PaidMarksSerialise
CHECK_DEADLOCK FALSE
