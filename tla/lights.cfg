SPECIFICATION Spec
CONSTANTS
  Threads = {t1, t2}
  Backlights <- MCBacklights
  Notifications <- MCNotifications
  Attentions <- MCAttentions
  ColorIds = {"DEF00"}
  Faults = {"persist", "lcd", "led", "start"}
  None = None
SYMMETRY Symmetry
INVARIANTS TypeOK LedShowsNotification BacklightAsAsked
