\* A link that holds less: 3 * 5 is not enough, Lossless fails.
SPECIFICATION PfcSpec
CONSTANTS
  NPort = 2
  NQueue = 1
  PktSize = {2}
  SentSize = {2}
  Watched = 1
  Delay = 5
  PfcSize = 1
  BufferSize = 32
  Reserve = 3
  ResumeOffset = 2
  Shift = 1
  LinkDelay <- MCDelay
  Headroom <- MCHeadroom
  PfcDiv <- MCPfcDiv
INVARIANT
  Lossless
