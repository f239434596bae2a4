SPECIFICATION Spec
CONSTANTS
  Openers = {api, message}
  Groups = {g1, g2}
  Fds = {1, 2, 3}
  Closed = closed
  Unjoined = unjoined
  Sizes = {0, 2}
  Capacity = 2
  UintRange = 8
INVARIANT SocketsOwned
PROPERTY ReaderKeepsSocket
