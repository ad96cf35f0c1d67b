CONSTANTS
  OutMax = 1
  HelloKinds = {"good"}
  Flights <- OneFlight
  Cuts = {6}
  Replies = {"line", "ticket"}
  ChainResults = {"OK"}
  Faults = {}
  MaxFaults = 0
  Stalls = FALSE
  MaxOpens = 1
  MaxReplies = 2
  MaxLines = 1
SPECIFICATION Spec
INVARIANT OnlyLinesKept
CHECK_DEADLOCK FALSE
