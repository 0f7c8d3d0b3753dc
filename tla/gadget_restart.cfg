SPECIFICATION FairSpec
CONSTANTS
  Threads = {t1}
  Requests <- MCFewRequests
  Daemons = {"ffs.adb"}
  VendorProps = {}
  InitProps <- MCDebugProps
  MaxEvents = 2
  Faults = {"daemonDeath"}
PROPERTY DoesNotStayDown
