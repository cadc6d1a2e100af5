SPECIFICATION FairSpec
CONSTANTS
  Position = {u1}
  u1 = u1
  NoAccount = NoAccount
  NoOne = NoOne
  Account <- MCAccount
  LiquidateRate = 110
  Cooldown = 1
  MaxChanges = 3
  MaxFaults = 1
INVARIANTS
  FlagsFollow
PROPERTIES
  DangerIsTold
  LiquidationQueued
  UpdatesCatchUp
  HealthyAfterAlert
CHECK_DEADLOCK FALSE
