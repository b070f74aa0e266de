\* Every thread runs; a loop that fits the recorders, and one that overruns them.
SPECIFICATION FairSpec
CONSTANTS
  OperationCount = 1
  LastRegister = 1
  Zero = 0
  CoreNumbers = {c1, c2}
  Workers = {c1, c2}
  Bounds = {1, 2}
  Pieces = 2
  MaxCount = 2
INVARIANT PmuIsReleased
PROPERTY Termination
