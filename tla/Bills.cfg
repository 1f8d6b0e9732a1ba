\* Bills from capture to payment: one at a time, overlapping, and the queue.
SPECIFICATION Spec
CONSTANTS
  ada = ada
  ben = ben
  cyn = cyn
  s1 = s1
  s2 = s2
  None = None
  Kept = Kept
  Users = {ada, ben, cyn}
  Viewers = {}
  Duties <- MCDuties
  Readings <- MCReadings
  Worlds <- MCWorlds
  Authority <- MCAuthority
  MaxIntakes = 3
  MaxBills = 2
  MaxVendors = 2
  MaxLines = 2
  MaxRepeats = 2
  DocEdits = {"d2"}
  TotalEdits = {1}
  NameEdits = {"acne"}
INVARIANTS TypeOK KeptByDatabase NoDoublePay SignedWhole SettledOnce PageCountedOnce QueueSound
PROPERTIES LeftIsFinal
CHECK_DEADLOCK FALSE
