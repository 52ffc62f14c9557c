------------------------------ MODULE ForkExec ------------------------------
(***************************************************************************)
(* process::forkExecWait and process::executeCommand                       *)
(* (src/utility/process.cpp): the calls that run a program in a child      *)
(* process, read what it writes to a pipe and wait for it.                 *)
(*                                                                         *)
(* A process makes MaxCalls calls, one after the other.  Everything that   *)
(* belongs to a call has its number: the child, the pipe and the ends of   *)
(* the pipe that the process has open.  The child runs concurrently, and   *)
(* it may start a process in the background, which inherits its stdout and *)
(* outlives it.  Output is counted in chunks of what one fgets reads.      *)
(*                                                                         *)
(* The system calls in Fallible may fail for reasons of the environment;   *)
(* "callback" stands for a postForkParentActions that throws, "execvp"     *)
(* also for a preExecChildActions that does.                               *)
(***************************************************************************)
EXTENDS Naturals, FiniteSets

CONSTANTS
  MaxCalls,   \* bound: the calls the process makes
  MaxFd,      \* the descriptors it has for pipes
  Capacity,   \* the chunks a pipe can hold
  MaxOutput,  \* bound: the chunks a child and its background process write
  Fallible    \* the system calls and callbacks that may fail

ASSUME BoundsAssumption ==
  /\ MaxCalls \in Nat /\ MaxFd \in Nat
  /\ Capacity \in Nat \ {0} /\ MaxOutput \in Nat

VARIABLES
  pc,          \* the next step of the call in progress, or "idle"
  call,        \* the number of the call in progress, or of the last one
  api,         \* which function each call is to
  outcome,     \* how each call ended
  ends,        \* the ends of the pipe of each call that the process has open
  child,       \* the state of the child of each call
  status,      \* how that child ended
  stdout,      \* that child has its stdout open to the pipe
  background,  \* so has a process that it started
  pipe,        \* the chunks in the pipe
  written,     \* the chunks written to it
  received     \* the chunks that readCStream has read from it

parent   == <<pc, call, api, outcome, ends, received>>
children == <<child, status, stdout, background, written>>
vars     == <<parent, children, pipe>>

Call == 1..MaxCalls

\* forkExecWait with and without childStdoutStream, and executeCommand.
Api == {"stream", "no_stream", "command"}

\* "running": the program, or the shell of a command.  "escaped": nothing was
\* executed, the child has thrown out of forkExecWait into a copy of the caller.
Child == {"none", "forked", "running", "escaped", "zombie", "reaped"}

Exited == {"0", "1"}
Status == Exited \cup {"none", "killed"}

\* "returned", or an Error: "bad_status" about how the child ended, "Error" all
\* others.
Outcome == {"none", "returned", "bad_status", "Error"}

Pc == {"idle", "pipe", "fork", "callback", "close", "read", "wait"}

TypeOK ==
  /\ pc \in Pc
  /\ call \in 0..MaxCalls
  /\ api \in [Call -> Api]
  /\ outcome \in [Call -> Outcome]
  /\ ends \in [Call -> SUBSET {"read", "write"}]
  /\ child \in [Call -> Child]
  /\ status \in [Call -> Status]
  /\ stdout \in [Call -> BOOLEAN]
  /\ background \in [Call -> BOOLEAN]
  /\ pipe \in [Call -> 0..Capacity]
  /\ written \in [Call -> 0..MaxOutput]
  /\ received \in [Call -> 0..MaxOutput]

Init ==
  /\ pc = "idle"
  /\ call = 0
  /\ api = [c \in Call |-> "stream"]
  /\ outcome = [c \in Call |-> "none"]
  /\ ends = [c \in Call |-> {}]
  /\ child = [c \in Call |-> "none"]
  /\ status = [c \in Call |-> "none"]
  /\ stdout = [c \in Call |-> FALSE]
  /\ background = [c \in Call |-> FALSE]
  /\ pipe = [c \in Call |-> 0]
  /\ written = [c \in Call |-> 0]
  /\ received = [c \in Call |-> 0]

-----------------------------------------------------------------------------
(* The caller *)

GoTo(next) == pc' = next /\ UNCHANGED outcome

End(how) == pc' = "idle" /\ outcome' = [outcome EXCEPT ![call] = how]

Keeps(open) == ends' = [ends EXCEPT ![call] = open]

Start(a) ==
  /\ pc = "idle" /\ call < MaxCalls
  /\ call' = call + 1
  /\ api' = [api EXCEPT ![call + 1] = a]
  /\ GoTo(IF a = "no_stream" THEN "fork" ELSE "pipe")
  /\ UNCHANGED <<ends, received, children, pipe>>

\* The number of descriptors that are in use.
OpenEnds == Cardinality({x \in Call \X {"read", "write"} : x[2] \in ends[x[1]]})

\* pipe(2), by popen for a command.
OpenPipe ==
  /\ pc = "pipe"
  /\ \/ OpenEnds + 2 <= MaxFd /\ Keeps({"read", "write"}) /\ GoTo("fork")
     \/ OpenEnds + 2 > MaxFd /\ End("Error") /\ UNCHANGED ends
  /\ UNCHANGED <<call, api, received, children, pipe>>

Fork ==
  /\ pc = "fork"
  /\ child' = [child EXCEPT ![call] = "forked"]
  /\ stdout' = [stdout EXCEPT ![call] = api[call] # "no_stream"]
  /\ IF api[call] = "command"
     THEN Keeps({"read"}) /\ GoTo("read")     \* popen closes the write end
     ELSE UNCHANGED ends /\ GoTo("callback")
  /\ UNCHANGED <<call, api, received, status, background, written, pipe>>

\* forkExecWait leaves its pipe open, popen does not.
ForkFails ==
  /\ pc = "fork" /\ "fork" \in Fallible
  /\ Keeps(IF api[call] = "command" THEN {} ELSE ends[call])
  /\ End("Error")
  /\ UNCHANGED <<call, api, received, children, pipe>>

PostForkParentActions ==
  /\ pc = "callback"
  /\ \/ GoTo(IF api[call] = "stream" THEN "close" ELSE "wait")
     \/ "callback" \in Fallible /\ End("Error")
  /\ UNCHANGED <<call, api, ends, received, children, pipe>>

\* Mutant of CloseWriteEnd: forgotten, the process waits for its own output.
CloseWriteEndNot ==
  /\ pc = "close"
  /\ GoTo("read")
  /\ UNCHANGED <<call, api, ends, received, children, pipe>>

CloseWriteEnd ==
  /\ pc = "close"
  /\ Keeps({"read"})
  /\ GoTo("read")
  /\ UNCHANGED <<call, api, received, children, pipe>>

-----------------------------------------------------------------------------
(* readCStream *)

\* Mutant of Read: takes a chunk whether or not there is one.
ReadUnchecked ==
  /\ pc = "read"
  /\ pipe' = [pipe EXCEPT ![call] = @ - 1]
  /\ received' = [received EXCEPT ![call] = @ + 1]
  /\ UNCHANGED <<pc, call, api, outcome, ends, children>>

Read ==
  /\ pc = "read" /\ pipe[call] > 0
  /\ pipe' = [pipe EXCEPT ![call] = @ - 1]
  /\ received' = [received EXCEPT ![call] = @ + 1]
  /\ UNCHANGED <<pc, call, api, outcome, ends, children>>

\* Mutant of EndOfFile: an empty pipe is taken for a closed one.
EndOfFileWhenEmpty ==
  /\ pc = "read" /\ pipe[call] = 0
  /\ GoTo("wait")
  /\ UNCHANGED <<call, api, ends, received, children, pipe>>

\* The pipe is empty and nobody has its write end open.
EndOfFile ==
  /\ pc = "read" /\ pipe[call] = 0
  /\ ~stdout[call] /\ ~background[call] /\ "write" \notin ends[call]
  /\ GoTo("wait")
  /\ UNCHANGED <<call, api, ends, received, children, pipe>>

\* The FILE is closed by nobody, and nobody waits for the child.
ReadFails ==
  /\ pc = "read" /\ "read" \in Fallible
  /\ End("Error")
  /\ UNCHANGED <<call, api, ends, received, children, pipe>>

-----------------------------------------------------------------------------
(* waitpid *)

\* executeCommand takes any status but 0 for an error, forkExecWait only death
\* by a signal.
IsGood(s) == s = "0" \/ (s \in Exited /\ api[call] # "command")

\* Mutant of Wait: waitpid instead of pclose, which closes the pipe.
WaitOnly ==
  /\ pc = "wait" /\ child[call] = "zombie"
  /\ child' = [child EXCEPT ![call] = "reaped"]
  /\ End(IF IsGood(status[call]) THEN "returned" ELSE "bad_status")
  /\ UNCHANGED <<call, api, ends, received, status, stdout, background, written, pipe>>

Wait ==
  /\ pc = "wait" /\ child[call] = "zombie"
  /\ child' = [child EXCEPT ![call] = "reaped"]
  /\ Keeps(IF api[call] = "command" THEN {} ELSE ends[call])
  /\ End(IF IsGood(status[call]) THEN "returned" ELSE "bad_status")
  /\ UNCHANGED <<call, api, received, status, stdout, background, written, pipe>>

WaitFails ==
  /\ pc = "wait" /\ "waitpid" \in Fallible
  /\ Keeps(IF api[call] = "command" THEN {} ELSE ends[call])
  /\ End("Error")
  /\ UNCHANGED <<call, api, received, children, pipe>>

Caller ==
  \/ OpenPipe
  \/ Fork
  \/ PostForkParentActions
  \/ CloseWriteEnd
  \/ Read
  \/ EndOfFile
  \/ Wait

CallerFails == ForkFails \/ ReadFails \/ WaitFails

-----------------------------------------------------------------------------
(* The child *)

Execute(c) ==
  /\ child[c] = "forked"
  /\ child' = [child EXCEPT ![c] = "running"]
  /\ UNCHANGED <<parent, status, stdout, background, written, pipe>>

\* The shell of a command is executed or the child exits.  forkExecWait throws
\* in the child.
ExecuteFails(c) ==
  /\ child[c] = "forked" /\ api[c] # "command" /\ "execvp" \in Fallible
  /\ child' = [child EXCEPT ![c] = "escaped"]
  /\ UNCHANGED <<parent, status, stdout, background, written, pipe>>

\* write(2) blocks while the pipe is full.
Write(c) ==
  /\ (child[c] \in {"running", "escaped"} /\ stdout[c]) \/ background[c]
  /\ written[c] < MaxOutput /\ pipe[c] < Capacity
  /\ pipe' = [pipe EXCEPT ![c] = @ + 1]
  /\ written' = [written EXCEPT ![c] = @ + 1]
  /\ UNCHANGED <<parent, child, status, stdout, background>>

\* The program starts a process in the background.
Background(c) ==
  /\ child[c] = "running" /\ stdout[c] /\ ~background[c]
  /\ background' = [background EXCEPT ![c] = TRUE]
  /\ UNCHANGED <<parent, child, status, stdout, written, pipe>>

Dies(c, how) ==
  /\ child[c] \in {"running", "escaped"}
  /\ child' = [child EXCEPT ![c] = "zombie"]
  /\ stdout' = [stdout EXCEPT ![c] = FALSE]
  /\ status' = [status EXCEPT ![c] = how]
  /\ UNCHANGED <<parent, background, written, pipe>>

\* With all output written, or left to the process in the background.
Exit(c) ==
  /\ stdout[c] /\ ~background[c] => written[c] = MaxOutput
  /\ \E how \in Exited : Dies(c, how)

Killed(c) == Dies(c, "killed")

BackgroundExit(c) ==
  /\ background[c]
  /\ background' = [background EXCEPT ![c] = FALSE]
  /\ UNCHANGED <<parent, child, status, stdout, written, pipe>>

-----------------------------------------------------------------------------
Next ==
  \/ \E a \in Api : Start(a)
  \/ Caller
  \/ CallerFails
  \/ \E c \in Call :
       \/ Execute(c)
       \/ ExecuteFails(c)
       \/ Write(c)
       \/ Background(c)
       \/ Exit(c)
       \/ Killed(c)
       \/ BackgroundExit(c)

\* The scheduler runs every process, and programs end.  No failure, no signal and
\* no new call has to come.
Fairness ==
  /\ WF_vars(Caller)
  /\ \A c \in Call :
       /\ WF_vars(Execute(c))
       /\ WF_vars(Write(c))
       /\ WF_vars(Exit(c))
       /\ WF_vars(BackgroundExit(c))

Spec == Init /\ [][Next]_vars /\ Fairness

-----------------------------------------------------------------------------
(* Properties *)

Finished(c) == outcome[c] \in {"returned", "bad_status"}

\* A call that reports how the child ended has waited for it, reports how it
\* really ended, and has all the output that the child and the processes it
\* started wrote to its stdout: nothing is left in the pipe or still to come.
ResultIsTheChilds ==
  \A c \in Call : Finished(c) =>
    /\ child[c] = "reaped"
    /\ (outcome[c] = "returned") <=>
         (status[c] = "0" \/ (api[c] # "command" /\ status[c] # "killed"))
    /\ received[c] = written[c] /\ pipe[c] = 0 /\ ~background[c]

\* The ends of its pipe that a call leaves open if it ends at a step.
LeftOpen(a, step) ==
  {end \in {"read", "write"} :
     \/ a = "stream" /\ step \in {"fork", "callback"}
     \/ a = "stream" /\ step \in {"read", "wait"} /\ end = "read"
     \/ a = "command" /\ step = "read" /\ end = "read"}

\* executeCommand gives back both ends of its pipe, whatever happens, unless it
\* fails to read: then the read end stays.  forkExecWait never gives back the read
\* end, and when it fails to fork or postForkParentActions throws, not the write
\* end either.  What a call has left open stays open for good.
EndsLeftOpen ==
  [][\A c \in Call :
       /\ outcome[c] = "none" /\ outcome'[c] # "none" => ends'[c] = LeftOpen(api[c], pc)
       /\ outcome[c] # "none" => ends'[c] = ends[c]]_vars

\* Every call ends, whichever of its steps fails and whether or not the output
\* fits in the pipe: parent and child do not wait for each other.
CallReturns == pc # "idle" ~> pc = "idle"

\* No child is left behind, neither blocked on a pipe that nobody reads nor dead
\* and not waited for, unless the call tells its caller that it has failed.
NoChildLeft ==
  \A c \in Call : child[c] = "forked" ~> child[c] = "reaped" \/ outcome[c] = "Error"
=============================================================================
