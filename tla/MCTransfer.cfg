\* Two clients upload and read two names.
CONSTANTS
  c1 = c1
  c2 = c2
  n1 = n1
  n2 = n2
  Clients = {c1, c2}
  Names = {n1, n2}
  Lost = Lost
  Sizes = {0, 2}
  Bounds <- TwoUploads
SPECIFICATION Spec
SYMMETRY Symmetry
INVARIANTS TypeOK SizeMeansBytes ReadsAreWhole BytesStayHome DatListens
PROPERTIES CreationsInTurn
CHECK_DEADLOCK FALSE
