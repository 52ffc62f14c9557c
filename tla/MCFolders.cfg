\* A privileged and an unprivileged process, with one and two calls.
CONSTANTS
  p1 = p1
  p2 = p2
  h1 = h1
  h2 = h2
  a = a
  b = b
  u = u
  Root = root
  NoOwner = NoOwner
  Dead = Dead
  Proc = {p1, p2}
  Handle = {h1, h2}
  Name = {a, b}
  MaxDepth = 2
  Owner = {root, u}
  Uid <- MCUid
  HandleOf <- MCHandleOf
  Trees <- MCTrees
  Request <- MCRequest
  Managed <- MCManaged
  MaxCalls <- MCMaxCalls
SPECIFICATION Spec
INVARIANT TypeOK
INVARIANT UndisturbedCallsWork
INVARIANT CreatorsTolerateEachOther
INVARIANT ManagedOnce
PROPERTY CreatorsKeepWhatExisted
PROPERTY StaysManaged
PROPERTY EveryCallEnds
CHECK_DEADLOCK FALSE
