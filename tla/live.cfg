SPECIFICATION ScreensSpec
CONSTANTS
  MaxCalls = 2
  MaxEvents = 3
  StaffMaxEvents = 3
  Tabs = {"queue", "seat"}
  Limits <- MCLimits
  StaffLimits <- MCStaffLimits
INVARIANTS
  ScreensTypeOK
  LiveIsWatched
PROPERTIES
  ScreenCatchesUp
  OwnActionShown
  
CHECK_DEADLOCK FALSE
