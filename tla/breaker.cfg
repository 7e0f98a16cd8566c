CONSTANTS
  Threshold = 2
  Base = 1
  MaxCooldown = 3
  Capacity = 2
  Attempts = 2
SPECIFICATION ApiFairSpec
INVARIANTS ApiTypeOK Paced AlertedOnce
PROPERTY Recovers
