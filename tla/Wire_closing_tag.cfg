\* As Wire.cfg: a frame may begin at the closing tag of the terminator.
CONSTANTS
  Descs <- MCDescs
  ParamSets <- MCParamSets
  ResultSets <- MCResultSets
  Forms = {"plain", "named", "delta"}
  Chunks = {3, 4, 5, 7, 11, 64}
  RowSize = 2
  Padding = 1
  ExtendedFrom = 3
  MaxFrames = 12
SPECIFICATION Spec
INVARIANT ReadsItsReply
\* A call ends.
CHECK_DEADLOCK FALSE
