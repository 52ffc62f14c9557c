\* Two objects of one process and a move.
CONSTANTS
  a = a
  b = b
  a1 = a1
  a2 = a2
  b1 = b1
  b2 = b2
  Process = {a, b}
  Object = {a1, a2}
  proc <- MCproc
  File = {f}
  NoFile = NoFile
  MaxFd = 1
  Timeout <- MCTimeoutZero
  Backoff = 1
  Mover = {a}
  Retrier = {}
SPECIFICATION Spec
INVARIANT MovedLockIsHeld
