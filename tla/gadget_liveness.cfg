SPECIFICATION FairSpec
CONSTANTS
  Threads = {t1}
  Requests <- MCFewRequests
  Daemons = {"ffs.adb"}
  VendorProps <- MCVendorProps
  InitProps <- MCDebugProps
  MaxEvents = 2
  Faults = {"pulldown", "ids", "link", "setprop"}
INVARIANT NoMissedEndpoints
PROPERTIES RequestsFinish DoesNotStayDown
