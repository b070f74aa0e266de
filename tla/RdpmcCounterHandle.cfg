\* Counters of two bits in words of three, three columns, on two cores.
SPECIFICATION Spec
CONSTANTS
  Cores = {c1, c2}
  LastRegister = 0
  HalfModulus = 2
  CounterModulus = 4
  WordModulus = 8
  MaxCount = 5
INVARIANTS TypeOK CountsAreExactModuloWraps ColumnsBracketTheOperation
