\* One name, no symmetry.
CONSTANTS
  c1 = c1
  c2 = c2
  n1 = n1
  n2 = n2
  Clients = {c1, c2}
  Names = {n1}
  Lost = Lost
  Sizes = {2}
  Bounds <- Progress
SPECIFICATION FairSpec
PROPERTIES DatIsReleased 
CHECK_DEADLOCK FALSE
