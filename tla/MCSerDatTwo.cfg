\* Two data servers and no crash.
CONSTANTS
  d1 = d1
  d2 = d2
  i1 = i1
  i2 = i2
  i3 = i3
  Dats = {d1, d2}
  Infos = {i1, i2}
  NULL = NULL
  Lost = Lost
  MaxChunk = 14
SPECIFICATION Steady
PROPERTIES AnswersAreRead
CHECK_DEADLOCK FALSE
