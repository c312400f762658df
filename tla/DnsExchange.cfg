CONSTANTS
  c1 = c1
  c2 = c2
  n1 = n1
  n2 = n2
  d1 = d1
  Client = {c1, c2}
  Node = {n1, n2}
  Default = n1
  Domain = {d1}
  TTL = {0, 1, 2, 3}
  TTLCap = 2
  MessageCap = 1
  ReverseCap = 1
  MaxCalls = 3
  MaxSwitches = 1
  MaxTime = 3
SPECIFICATION Spec
INVARIANTS TypeOK AnsweredBySelectedNode OnlyCurrentPoolLive FlightsHaveLeaders FollowerHasLeader ReverseWithinTTL
CHECK_DEADLOCK FALSE
