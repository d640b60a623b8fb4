SPECIFICATION Spec
CONSTANTS
  NoType = "none"
  NoRelated = "null"
  Related = {"null", "c1", "c2", "i1"}
  Type <- MCType
  HandlerOrder <- MCHandlerOrder
  SupportsSubjobs <- MCSupports
  Transcode = "video_transcode"
  Emits <- MCEmits
  Requests <- MixedRequests
  Requeuer = {"integrity_check"}
  Requeues <- ItemRequeues
  Clients = {s, h}
  FlushSize = 1
  ClaimLimit = 1
  MaxTop = 2
  MaxSub = 2
  MaxCrashes = 1
  MaxFaults = 1
SYMMETRY ClientSymmetry
INVARIANTS
  TypeOK
  RowsAndLoopAgree
  OneRunning
  RunningSubJobIsInBatch
  AtMostOneStartWhilePaused
PROPERTIES
  TerminalIsFinal
  ImplementsSequentialQueue
