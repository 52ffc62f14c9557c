\* Two processes, one of them with two objects (so that locks are moved), two
\* files (so that a move assignment drops one lock and takes another).
\* The clock has 8 values and wraps around; 7 is noTimeout.
CONSTANTS
  a = a
  b = b
  a1 = a1
  a2 = a2
  b1 = b1
  Process = {a, b}
  Object = {a1, a2, b1}
  proc <- MCproc
  File = {f, g}
  NoFile = NoFile
  UIntMax = 7
  Backoff = 3
  Timeout = {0, 3, 4, 7}
SPECIFICATION FairSpec
INVARIANT TypeOK
INVARIANT MutualExclusion
INVARIANT HeldFileExists
INVARIANT WaitBounded
PROPERTY OnlyFaultsOrphan
PROPERTY ImplementsMutex
PROPERTY FiniteTimeoutReturns
