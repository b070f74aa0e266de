\* Any subset of the default events and one more supported, two calls of setCounter.
SPECIFICATION Spec
CONSTANTS
  L1 = L1
  L2 = L2
  L3 = L3
  Walk = Walk
  x = x
  Names <- MCNames
  Default <- MCDefault
  Unset = Unset
  NoEvent = NoEvent
  MaxSets = 2
INVARIANTS TypeOK MonitoredAreSupported HeaderNamesMonitored CountersAreSupported
PROPERTY ReportsAreExact
CHECK_DEADLOCK FALSE
