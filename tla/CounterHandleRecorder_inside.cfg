\* A handler that returns: the check of the common counters does not hold back the store.
SPECIFICATION Spec
CONSTANTS
  OperationCount = 2
  LastRegister = 3
  Zero = Zero
  MaxTime = 1
  MaxRecords = 3
PROPERTY RecordingStaysInside
CHECK_DEADLOCK FALSE
