\* Two workers measuring two operations each, as many as their recorders hold.
SPECIFICATION Spec
CONSTANTS
  OperationCount = 2
  LastRegister = 0
  Zero = 0
  CoreNumbers = {c1, c2}
  Workers = {c1, c2}
  Bounds = {2}
  Pieces = 2
  MaxCount = 2
SYMMETRY WorkerSymmetry
INVARIANTS TypeOK CountsCoverOwnEvents ReportedRowsAreLive ExitReportsEverything
