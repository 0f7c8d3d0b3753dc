SPECIFICATION FairSpec
CONSTANTS
  Nominal = 5
  Learned = {3, 4}
  MaxCrashes = 3
  MaxFailures = 2
  MaxLearns = 3
  Faults = {"sramRead", "sramWrite", "nominalRead", "storageRead", "storageWrite"}
INVARIANT RestoredUnlessStartFails
PROPERTY BackedUpInTheEnd
