\* The pin outlives the model it was set for.
SPECIFICATION Spec
CONSTANTS
  Requests = {r1}
  Loads = {l1}
  Unloads = {u1}
  Evictor = evictor
  Quitter = quitter
  Models = {vision, answer}
  Capacity = 2
  Attempts = 2
  Recycling = TRUE
  MaxPid = 4
  MaxCalls = 3
  MaxFaults = 0
INVARIANTS PinIsForLoadedModel
CHECK_DEADLOCK FALSE
