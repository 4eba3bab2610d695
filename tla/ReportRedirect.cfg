\* One chunk, two chats, four commands, no faults.
SPECIFICATION ReportSpec
CONSTANTS
  Chats = {A, B}
  NumChunks = 1
  Retries = 1
  MaxRuns = 1
  MaxDeliveries = 4
  MaxEvents = 4
  Faulty = FALSE
PROPERTY ConfirmedNotRepeated
CHECK_DEADLOCK FALSE
