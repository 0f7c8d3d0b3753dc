SPECIFICATION FairSpec
CONSTANTS
  Threads = {t1, t2}
  Setter = t1
  Targets = {"sink", "host"}
  MaxUevents = 2
  Faults = {"create", "socket", "epoll", "refuse"}
INVARIANTS WorkerRunning PartnerSignalNotLost SuccessIsReturn
           DisconnectedIsDual NoCircularWait
PROPERTIES SwitchNotUndone SwitchReturns ForcedPortRecovers ClearCallbackReturns
