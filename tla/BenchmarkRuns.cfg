\* Three users: one finds the PMU busy, a second leaves it, a third takes it and is reset; two faults.
SPECIFICATION Spec
CONSTANTS
  Users = {u1, u2, u3}
  Free = Free
  Stale = Stale
  MaxFaults = 2
INVARIANTS TypeOK UndisturbedRowsAreOwn EndedRunsHoldNothing
PROPERTIES PmuIsNotLost AloneIsEnough
