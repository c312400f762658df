CONSTANTS
  c1 = c1
  c2 = c2
  c3 = c3
  Caller <- MCCaller
  Salamander = TRUE
  MaxCalls = 3
SPECIFICATION FairSpec
INVARIANTS SingleFlight NoOrphanSession StreamsOnCachedSession
PROPERTIES SharesOneSession DialAnswered ClosedDrains
CHECK_DEADLOCK FALSE
