SPECIFICATION Spec
CONSTANTS
  Threads = {t1, t2}
  Requests <- MCFewRequests
  Daemons = {"ffs.adb"}
  VendorProps <- MCVendorProps
  InitProps <- MCDebugProps
  MaxEvents = 2
  Faults = {"pulldown", "attribute", "unlink", "ids", "link", "pullup", "daemonDeath", "reset"}
SYMMETRY Symmetry
INVARIANTS TypeOK DisconnectWindow MonitorJoined OneReply SuccessIsPulledUp
           IdsMatchLinks NoCircularWait
PROPERTIES HostContract VisibleIsFixed
