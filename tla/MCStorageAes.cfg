SPECIFICATION ExampleSpec
CONSTANTS
  Procs <- MCProcs
  Ids <- MCIds
  Contents <- MCContents
  Size <- MCSize
  Empty = ""
  Absent = Absent
  HEAP = 4
  BufSizes <- MCBufSizes
  Others = {"other"}
  Obj1 = "object#1"
  Obj2 = "object#2"
  Page = "page"
  Line = "line"
  h1 = h1
  h2 = h2
  Handles <- MCHandles
  Null = Null
  Unallocated = Unallocated
  Algos <- MCAlgos
  Modes <- MCModes
  KeySizes <- MCKeySizes
  Unknown = Unknown
  Sizes <- MCSizes
  Bytes <- MCBytes
  Ivs <- MCIvs
  Zeros = Zeros
  NoKey = NoKey
  NoIv = NoIv
  NoCipher = NoCipher
  DUMMIES = 2
  LENGTH = 2
  HostKey <- MCKey
  HostIv = "v"
  SIZE = 2
INVARIANTS NothingHeld RunsClean HandlesSound NeverPanics RoundTrip
PROPERTIES ImplementsStore SessionReleased ImplementsCipher RunEnds
