CONSTANTS
  OutMax = 1
  HelloKinds = {"good", "HRR"}
  Flights <- AllFlights
  Cuts = {1, 6}
  Replies = {"line", "fatal"}
  ChainResults = {"OK", "UNSUPPORTED", "BAD"}
  Faults = {"framing", "tag"}
  MaxFaults = 1
  Stalls = FALSE
  MaxOpens = 2
  MaxReplies = 2
  MaxLines = 1
SPECIFICATION Spec
INVARIANTS TypeOK NothingBeforeProof LinesAsSaid
CHECK_DEADLOCK FALSE
