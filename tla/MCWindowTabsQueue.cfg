SPECIFICATION Spec
CONSTANTS
  Workspaces = {"w1", "w2"}
  Tabs = {"t1", "t2", "t3", "t4", "t5"}
  HomeWorkspace = "w1"
  InitialTabs <- Home
  Named = {"w1"}
  MaxCacheSize = 1
  MaxViews = 4
  MaxRequests = 3
  MaxUpdates = 0
  MaxFailures = 0
CHECK_DEADLOCK FALSE
INVARIANTS
  HeadIsInProcess
