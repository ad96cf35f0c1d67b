CONSTANTS
  Near = {1, 2, 3}
  Far = {4, 5}
  DirTrack = {8, 9, 10}
  DirFirst = 8
  Slots = 1
  Name = {"irc", "boot", "font", "IRC.CFG"}
  NoName = "none"
  Item = {"IRC1", "m", "n", "code"}
  Formats <- BootDisks
  Perils = {"read", "write", "crash"}
  MaxFaults = 3
  Cfg = "IRC.CFG"
  Magic = "IRC1"
  Mark = {"m", "n"}
  MARKS_MAX = 2
  MARKS_CAP = 4
VIEW LiveView
SPECIFICATION MarksSpec
INVARIANTS MarksTypeOK SavedIsKept ListIsTheFile NoSharedBlocks NoLostBlocks
PROPERTY OthersKept
