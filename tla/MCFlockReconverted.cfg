\* A reader in process b keeps the one in process a from converting.
CONSTANTS
  a = a
  b = b
  a1 = a1
  a2 = a2
  b1 = b1
  b2 = b2
  Process = {a, b}
  Object = {a1, b1}
  proc <- MCproc
  File = {f}
  NoFile = NoFile
  MaxFd = 1
  Timeout <- MCTimeoutZero
  Backoff = 1
  Mover = {}
  Retrier = {a}
SPECIFICATION Spec
INVARIANT ConvertedLockIsHeld
