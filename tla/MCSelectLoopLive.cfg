CONSTANTS
  c1 = c1
  c2 = c2
  Conns <- Both
  Fds = {5, 6}
  WordBits = 64
  Requests <- SomeRefused
  MaxPacketSize = 1
  ReplySize = 1
  MaxDats = 0
  Leavers = {c1}
SPECIFICATION FairSpec
PROPERTIES RequestsAreAnswered LeftAreFreed
CHECK_DEADLOCK FALSE
