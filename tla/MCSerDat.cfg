\* Two data servers that die and come back, a server that does too.
CONSTANTS
  d1 = d1
  d2 = d2
  i1 = i1
  i2 = i2
  i3 = i3
  Dats = {d1, d2}
  Infos = {i1, i2, i3}
  NULL = NULL
  Lost = Lost
  MaxChunk = 13
SPECIFICATION Spec
SYMMETRY Symmetry
VIEW Visible
PROPERTIES CreationsInTurn
INVARIANTS TypeOK OneCreation LockAwaitsAnswer ListHoldsLive WalksEnd LiveDatsKeepTheirLink
CHECK_DEADLOCK FALSE
