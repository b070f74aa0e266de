\* Rows of three events, two of them fit; one call too many, any handler.
SPECIFICATION Spec
CONSTANTS
  OperationCount = 2
  LastRegister = 2
  Zero = Zero
  MaxTime = 3
  MaxRecords = 3
INVARIANTS
  TypeOK
  RowsAreTheMeasurements
  OperationsDoNotOverlap
  UndefinedOnlyAfterError
PROPERTY ImplementsSampleLog
CHECK_DEADLOCK FALSE
