SPECIFICATION Spec
CONSTANTS
  Chains <- MCChains
  RootKeys <- MCRootKeys
  Signed <- MCSigned
  Roots <- MCRoots
  Moduli <- MCModuli
  Scalars <- MCScalars
  Points <- MCPoints
  Streams <- MCStreams
  Requests <- MCRequests
  Commands <- MCCommands
  Editings <- MCEditings
  Prompts <- MCPrompts
  Lists <- MCLists
  OidRsa <- MCOidRsa
  OidEc <- MCOidEc
  OidP256 <- MCOidP256
  OidEd25519 <- MCOidEd25519
  OidRsaSha256 <- MCOidRsaSha256
  OidEcdsaSha2 <- MCOidEcdsaSha2
  OidSan <- MCOidSan
  P256Len = 3
  Ed25519Len = 2
  DNS_CAP = 5
  HostCap = 63
  TimeCap = 20
  CERT_CAP = 420
  CHAIN_MAX = 3
  N_CAP = 512
  E_CAP = 8
  SIG_CAP = 512
  CLOCK_BUILT_YY = 26
  LINE_MAX = 31
  IRC_PARAMS_MAX = 2
  TagCap = 3
  InputCap = 5
  NameCap = 4
  VIEW_MAX = 3
  VIEW_NAME_CAP = 6
  LOW_NSPASS_CAP = 4
INVARIANTS ChainIsProven OnlyTheIssued PartsAreFound ArithmeticIsExact ParsedAsSaid SentAsTyped
