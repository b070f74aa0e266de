\* Two event lists that disagree on an encoding.
SPECIFICATION SetupSpec
CONSTANTS
  e1 = e1
  e2 = e2
  Files = {f1, f2}
  Events <- MCEvents
  Codes = {c1, c2}
  Models = {m1, m2}
  NoModel = NoModel
  MaxElements = 2
  MaxLoads = 1
  Default <- MCDefault
  Unset = Unset
  NoEvent = NoEvent
  Cpu = m1
INVARIANT ProgrammedCodesAreTheModels
CHECK_DEADLOCK FALSE
