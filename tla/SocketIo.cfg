SPECIFICATION Spec
CONSTANTS
  BUFFER = 1
  ROOM = 1
  MaxIn = 2
  MaxOut = 2
  Sockets <- MCSockets
  Lengths <- MCLengths
INVARIANTS
  StreamKept
  ReadsWait
  ReadyIsTrue
