SPECIFICATION LiveSpec
CONSTANTS
  Items = {v1, v2}
  Clients = {c1, c2}
INVARIANTS TypeOK AtMostOneJobBesideStreams
PROPERTY ResumedWhenIdle
