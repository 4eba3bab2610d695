\* A request, a Load, an Unload, two models, recycling on; two calls, two faults.
SPECIFICATION Spec
CONSTANTS
  Requests = {r1}
  Loads = {l1}
  Unloads = {u1}
  Evictor = evictor
  Quitter = quitter
  Models = {vision, answer}
  Capacity = 2
  Attempts = 2
  Recycling = TRUE
  MaxPid = 4
  MaxCalls = 2
  MaxFaults = 2
INVARIANTS LeaseKeepsItsModel OneProcess PidfileNamesResident PanelTruthful
PROPERTIES CallsEnd IdleModelIsEvicted
CHECK_DEADLOCK FALSE
