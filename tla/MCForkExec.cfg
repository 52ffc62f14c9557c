\* Any system call may fail; the output is larger than a pipe; the second call
\* finds one descriptor too few if the first has lost one.
SPECIFICATION Spec
CONSTANTS
  MaxCalls = 2
  MaxFd = 2
  Capacity = 2
  MaxOutput = 3
  Fallible = {"fork", "callback", "read", "waitpid", "execvp"}
INVARIANTS
  TypeOK
  ResultIsTheChilds
PROPERTIES
  EndsLeftOpen
  CallReturns
  NoChildLeft
CHECK_DEADLOCK FALSE
