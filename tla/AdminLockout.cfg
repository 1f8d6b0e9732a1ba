\* Two administrators deactivate or demote each other at the same time.
SPECIFICATION Spec
CONSTANTS
  s1 = s1
  s2 = s2
  None = None
  Worlds <- MCWorlds
  Seed <- MCSeed
  Forms <- MCForms
  Bands <- MCBands
  Allowed <- MCAllowed
  Default <- MCDefault
  Emails = {"ann", "zed"}
  IPs = {"home", "away"}
  MaxAttempts = 2
  Window = 2
  MaxClock = 3
  MaxFailures = 4
  MaxUsers = 3
  Clients = {"c1", "c2"}
  SettingKeys = {"prefill"}
  RateKeys = {"usd"}
  Inputs = {"on", "off", "junk"}
  RatesMYR = {3, 4}
  MaxRules = 5
  MaxRows = 2
INVARIANTS FirmKeepsAdmin
CHECK_DEADLOCK FALSE
