SPECIFICATION Spec
CONSTANTS
  LastSeg = 1
  Lookahead = 0
  MaxProc = 3
  Clients = {c1, c2}
  Fillers = {f1}
  c1 = c1
  c2 = c2
  f1 = f1
INVARIANT OneFFmpegProcess
CHECK_DEADLOCK FALSE
