CONSTANTS
  OutMax = 1
  HelloKinds = {"good"}
  Flights <- HonestFlights
  Cuts = {1, 2, 3, 4, 5, 6}
  Replies = {"line", "ticket", "close", "fatal"}
  ChainResults = {"OK", "BAD"}
  Faults = {}
  MaxFaults = 0
  Stalls = TRUE
  MaxOpens = 1
  MaxReplies = 2
  MaxLines = 2
SPECIFICATION TakingSpec
INVARIANTS KeysInStep ServerOpensAll HonestNeverFails
PROPERTY PumpEnds
CHECK_DEADLOCK FALSE
