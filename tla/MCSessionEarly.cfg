CONSTANTS
  c1 = c1
  c2 = c2
  p = p
  ViewMax = 2
  NickCap = 3
  NickChars <- NickCharacters
  PingAfter = 1
  DeadAfter = 2
  Channel = {c1}
  Listed <- OneChannel
  Person = {}
  Wanted <- OneNick
  Nick <- Fresh
  InUse = {}
  Offers = {FALSE}
  Logins <- Numerics
  Typed = {"early nick"}
  Prompt = TRUE
  MaxTyped = 1
  MaxDials = 1
  MaxSaid = 0
SPECIFICATION Spec
INVARIANT
  NickAgrees
CHECK_DEADLOCK FALSE
