SPECIFICATION LiveSpec
CONSTANTS
  LastSeg = 1
  Lookahead = 0
  MaxProc = 3
  Clients = {c1}
  Fillers = {f1}
  c1 = c1
  f1 = f1
INVARIANTS TypeOK EncoderIsReachable NoZombies
PROPERTY RequestsEnd
CHECK_DEADLOCK FALSE
