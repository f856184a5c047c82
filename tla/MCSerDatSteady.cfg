\* One data server and no crash; the system stops when all ids are given out.
CONSTANTS
  d1 = d1
  d2 = d2
  i1 = i1
  i2 = i2
  i3 = i3
  Dats = {d1}
  Infos = {i1, i2}
  NULL = NULL
  Lost = Lost
  MaxChunk = 14
SPECIFICATION Steady
INVARIANTS GrantsAccounted
PROPERTIES LockReturns LoopGoesOn
CHECK_DEADLOCK FALSE
