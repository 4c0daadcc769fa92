CONSTANTS
  a = a
  b = b
  Nodes = {a, b}
  Publishers = {a}
  Subscribers = {b}
  Wildcard = 9
  MaxSubs = 1
  Topics = {1}
  MaxRetransmits = 1
  EnableNack = TRUE
  MaxCalls = 4
  MaxFaults = 1
SPECIFICATION FairSpec
INVARIANTS AcceptedInOrder RetransmitBound 
PROPERTY EventuallyDelivered
CHECK_DEADLOCK FALSE
