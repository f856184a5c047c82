CONSTANTS
  c1 = c1
  c2 = c2
  Conns <- Both
  Fds = {5, 6}
  WordBits = 6
  Requests <- SomeTooLong
  MaxPacketSize = 1
  ReplySize = 2
  MaxDats = 1
  Leavers <- Both
SPECIFICATION Spec
INVARIANTS TypeOK DescriptorsHaveOwners BlindOnlyIfExcused
PROPERTY ExchangesInOrder
SYMMETRY Symmetry
CHECK_DEADLOCK FALSE
