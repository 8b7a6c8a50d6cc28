\* Two turns of two steps, at most three messages long when they are sent; see MCModelWire.
CONSTANTS
  Names <- NamesSmall
  Written <- WrittenSmall
  Aliases <- AliasesSmall
  Prefix <- PrefixSmall
  Gpt = {}
  Declared <- NoProviders
  Keys = {"anthropic"}
  Given <- GivenOne
  MaxImages = 1
  MaxKept = 1
  MaxSteps = 2
  Retries = 2
  Longest = 40
  Asked <- AskedFor
  MaxCalls = 2
  MaxShots = 2
  MaxTurns = 2
  MaxSent = 3
SPECIFICATION Spec
INVARIANTS WireAccepted NewestImages PatienceBounded
CHECK_DEADLOCK FALSE
