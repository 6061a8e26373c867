\* Two ports that carry their data in one queue.  The link of the first holds
\* three packets, each as long as two PFC frames.
SPECIFICATION PfcSpec
CONSTANTS
  NPort = 2
  NQueue = 1
  PktSize = {2}
  SentSize = {2}
  Watched = 1
  Delay = 6
  PfcSize = 1
  BufferSize = 35
  Reserve = 3
  ResumeOffset = 2
  Shift = 1
  LinkDelay <- MCDelay
  Headroom <- MCHeadroom
  PfcDiv <- MCPfcDiv
INVARIANTS
  TypeOK
  AccountsExact
  WithinBudget
  PauseFollowsBacklog
  StoredFitsBuffer
  Lossless
