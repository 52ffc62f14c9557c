\* Two objects of a careful process (they conflict like those of two processes)
\* and one of a process that moves objects and repeats conversions that timed
\* out; two descriptors per process, so that leaks exhaust them.
CONSTANTS
  a = a
  b = b
  a1 = a1
  a2 = a2
  b1 = b1
  b2 = b2
  Process = {a, b}
  Object = {a1, a2, b1}
  proc <- MCproc
  File = {f}
  NoFile = NoFile
  MaxFd = 2
  Timeout <- MCTimeout
  Backoff = 1
  Mover = {b}
  Retrier = {b}
SPECIFICATION Spec
INVARIANT TypeOK
INVARIANT PromiseKept
INVARIANT LeakedHoldsNothing
PROPERTY OnlyConstructorsLeak
PROPERTY ImplementsRWLock
SYMMETRY MCSymmetry
