SPECIFICATION AnySpec
CONSTANTS
  h1 = h1
  h2 = h2
  c1 = c1
  c2 = c2
  good = good
  other = other
  short = short
  long = long
  Clients <- MCClients
  Handles <- MCHandles
  Null = Null
  Free = Free
  Sizes <- MCSizes
  Unfit = Unfit
  Lengths <- MCLengths
  PADDING = 1
  GENERATIONS = 3
  Keys <- MCKeys
  Length <- MCLength
  HostKey = good
  NoKey = NoKey
  MIN_KEY_SIZE = 2
  MAX_KEY_SIZE = 3
  COUNTER_SIZE = 2
  BYTE = 3
  TESTS = 5
INVARIANTS KeyOwned SizeSuffices HostMatches NothingLeftOpen IncrementedTwice
PROPERTIES KeySurvives OneTime ImplementsPasscodes
