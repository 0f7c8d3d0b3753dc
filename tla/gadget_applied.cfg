SPECIFICATION Spec
CONSTANTS
  Threads = {t1}
  Requests <- MCRequests
  Daemons = {"ffs.adb"}
  VendorProps = {}
  InitProps <- MCDebugProps
  MaxEvents = 1
  Faults = {}
INVARIANT AppliedIsPulledUp
