CONSTANTS
  c1 = c1
  c2 = c2
  p = p
  ViewMax = 1
  NickCap = 3
  NickChars <- NickCharacters
  PingAfter = 1
  DeadAfter = 2
  Channel = {c1, c2}
  Listed <- TwoChannels
  Person = {p}
  Wanted <- Screened
  Nick <- TypedNicks
  InUse <- Others
  Offers = {TRUE, FALSE}
  Logins <- Numerics
  Typed = {"text", "nick", "quit", "query"}
  Prompt = TRUE
  MaxTyped = 1
  MaxDials = 2
  MaxSaid = 1
SPECIFICATION FairSpec
INVARIANTS
  TypeOK
  RegistrationGoesThrough
  IdentifiedOnce
  JoinedOnce
  NoGluedLine
  NickAgrees
PROPERTIES
  LiveLinkKept
  StopIsFinal
  DeadLinkFound
CHECK_DEADLOCK FALSE
