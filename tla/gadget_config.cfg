SPECIFICATION Spec
CONSTANTS
  Threads = {t1, t2}
  Requests <- MCRequests
  Daemons = {"ffs.adb", "ffs.mtp"}
  VendorProps <- MCVendorProps
  InitProps <- MCRadioProps
  MaxEvents = 1
  Faults = {"pulldown", "pullup", "daemonDeath", "reset"}
SYMMETRY Symmetry
INVARIANTS BoundConfiguration
