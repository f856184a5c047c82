\* What `bug', line 1, reports.
CONSTANTS
  c1 = c1
  c2 = c2
  n1 = n1
  n2 = n2
  Clients = {c1, c2}
  Names = {n1}
  Lost = Lost
  Sizes = {2}
  Bounds <- TwoUploads
SPECIFICATION Spec
PROPERTIES AddressMeansDat
CHECK_DEADLOCK FALSE
