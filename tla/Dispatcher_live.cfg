SPECIFICATION FairSpec
CONSTANTS
  NoType = "none"
  NoRelated = "null"
  Related = {"null", "c1", "c2", "i1"}
  Type <- MCType
  HandlerOrder <- MCHandlerOrder
  SupportsSubjobs <- MCSupports
  Transcode = "video_transcode"
  Emits <- GenericEmits
  Requests <- GenericRequests
  Requeuer = {"integrity_check"}
  Requeues <- ItemRequeues
  Clients = {s}
  FlushSize = 1
  ClaimLimit = 1
  MaxTop = 2
  MaxSub = 2
  MaxCrashes = 1
  MaxFaults = 0
INVARIANTS
  OneActivePerCaller
PROPERTIES
  NoSubJobDiscardedUndisturbed
  QueuedJobsEnd
