\* Objects of two processes that convert in all directions; process a moves its
\* objects, also while the target of a move polls a descriptor that is closed.
CONSTANTS
  a = a
  b = b
  a1 = a1
  a2 = a2
  b1 = b1
  b2 = b2
  Process = {a, b}
  Object = {a1, a2, b1}
  proc <- MCproc
  File = {f}
  NoFile = NoFile
  MaxFd = 1
  Timeout <- MCTimeoutLive
  Backoff = 1
  Mover = {a}
  Retrier = {}
SPECIFICATION FairSpec
PROPERTY NeverWaitForEachOther
PROPERTY FiniteTimeoutReturns
