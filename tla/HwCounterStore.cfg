SPECIFICATION Spec
CONSTANTS
  Capacity = 2
  Values = {v1, v2}
  Zero = Zero
  MaxIndex = 3
INVARIANTS TypeOK ReadsReturnAppended ErrorsAreExact
PROPERTY ImplementsSampleLog
CHECK_DEADLOCK FALSE
