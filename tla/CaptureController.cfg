\* Two callers, two sessions, two demands, a channel of one; four calls, one fault.
SPECIFICATION Spec
CONSTANTS
  Callers = {c1, c2}
  ChanCap = 1
  MaxSessions = 2
  MaxDemands = 2
  MaxCalls = 4
  MaxFaults = 1
INVARIANTS TypeOK NoOrphanSession ClientReleased SettledTruth DemandGetsItsFrame OneFrameOneMark
CHECK_DEADLOCK FALSE
PROPERTY CallsReturn
