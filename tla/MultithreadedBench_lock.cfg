\* The report's lock.
SPECIFICATION Spec
CONSTANTS
  OperationCount = 1
  LastRegister = 0
  Zero = 0
  CoreNumbers = {c1, c2}
  Workers = {c1, c2}
  Bounds = {1}
  Pieces = 2
  MaxCount = 2
INVARIANT ReportsAreContiguous
