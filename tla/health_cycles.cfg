SPECIFICATION Spec
CONSTANTS
  kBucketCount = 2
  kBackupTrigger = 2
  Levels = {0, 1, 3}
  MaxCount = 3
  Faults = {"sramRead", "sramWrite", "storageRead", "storageWrite"}
INVARIANTS TypeOK SavedCountsSurvive
PROPERTY NeverRegress
