SPECIFICATION FairSpec
CONSTANTS
  Streams <- MCStreams
  BufSize = 5
INVARIANTS Framed Drained
 
CHECK_DEADLOCK FALSE
