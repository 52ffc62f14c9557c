--------------------------- MODULE ForkExecProofs ---------------------------
(***************************************************************************)
(* Theorems about ForkExec, for any number of calls, descriptors and       *)
(* chunks, any capacity of a pipe and any set of failing system calls.     *)
(***************************************************************************)
EXTENDS ForkExec, TLAPS

\* Before the child is there nothing has happened in a call, but that its pipe
\* may be open.
Unborn(c) ==
  child[c] = "none" => /\ status[c] = "none" /\ ~stdout[c] /\ ~background[c]
                       /\ written[c] = 0

\* No chunk is lost and none is made up.
Conserved(c) == received[c] + pipe[c] = written[c]

\* A child that is dead has a status, and no longer its stdout.
DeadIsSilent(c) ==
  child[c] \in {"zombie", "reaped"} => ~stdout[c] /\ status[c] # "none"

\* Without a stream there is nothing to write to.
NoStream(c) ==
  api[c] = "no_stream" => ends[c] = {} /\ ~stdout[c] /\ ~background[c] /\ written[c] = 0

\* The calls that are still to be made.
ToCome(c) == c > call => outcome[c] = "none" /\ ends[c] = {} /\ child[c] = "none"

\* ResultIsTheChilds, of one call.
ResultIs(c) ==
  Finished(c) =>
    /\ child[c] = "reaped"
    /\ (outcome[c] = "returned") <=>
         (status[c] = "0" \/ (api[c] # "command" /\ status[c] # "killed"))
    /\ received[c] = written[c] /\ pipe[c] = 0 /\ ~background[c]

OfCall(c) == /\ Unborn(c) /\ Conserved(c) /\ DeadIsSilent(c) /\ NoStream(c)
             /\ ToCome(c) /\ ResultIs(c)

\* The ends of its pipe that a call of type a has open at a step.
OpenAt(a, step) ==
  IF a = "no_stream" \/ step = "pipe" THEN {}
  ELSE IF step \in {"read", "wait"} THEN {"read"}
  ELSE {"read", "write"}

\* What holds at each step of the call in progress.  Between the end of file
\* and waitpid there is nobody left who could write.
InProgress ==
  pc # "idle" =>
    /\ call \in Call /\ outcome[call] = "none"
    /\ pc \in {"pipe", "fork"} <=> child[call] = "none"
    /\ child[call] # "reaped"
    /\ pc \in {"pipe", "close", "read"} => api[call] # "no_stream"
    /\ ends[call] = OpenAt(api[call], pc)
    /\ pc \in {"callback", "close"} => api[call] # "command"
    /\ pc = "wait" => ~stdout[call] /\ ~background[call] /\ pipe[call] = 0

CallInv == TypeOK /\ (\A c \in Call : OfCall(c)) /\ InProgress

LEMMA KeepsType ==
  ASSUME ends \in [Call -> SUBSET {"read", "write"}], NEW open \in SUBSET {"read", "write"}
  PROVE  [ends EXCEPT ![call] = open] \in [Call -> SUBSET {"read", "write"}]
OBVIOUS

LEMMA TypeStep == CallInv /\ [Next]_vars => TypeOK'
<1> SUFFICES ASSUME CallInv, [Next]_vars PROVE TypeOK'
  OBVIOUS
<1> USE BoundsAssumption
    DEF TypeOK, Call, Api, Child, Exited, Status, Outcome, Pc,
        parent, children, GoTo, End, Keeps
<1> TypeOK
  BY DEF CallInv
<1>1. ASSUME NEW a \in Api, Start(a) PROVE TypeOK'
  BY <1>1 DEF Start
<1>2. ASSUME OpenPipe PROVE TypeOK'
  <2>1. ends' \in [Call -> SUBSET {"read", "write"}]
    <3>1. ends' = ends \/ ends' = [ends EXCEPT ![call] = {"read", "write"}]
      BY <1>2 DEF OpenPipe
    <3>2. [ends EXCEPT ![call] = {"read", "write"}] \in [Call -> SUBSET {"read", "write"}]
      BY KeepsType
    <3> QED BY <3>1, <3>2
  <2> QED BY <1>2, <2>1 DEF OpenPipe
<1>3. ASSUME Fork PROVE TypeOK'
  <2>1. child' \in [Call -> Child] /\ stdout' \in [Call -> BOOLEAN]
    BY <1>3 DEF Fork
  <2>2. ends' \in [Call -> SUBSET {"read", "write"}]
    <3>1. ends' = ends \/ ends' = [ends EXCEPT ![call] = {"read"}]
      BY <1>3 DEF Fork
    <3>2. [ends EXCEPT ![call] = {"read"}] \in [Call -> SUBSET {"read", "write"}]
      BY KeepsType
    <3> QED BY <3>1, <3>2
  <2> QED BY <1>3, <2>1, <2>2 DEF Fork
<1>4. ASSUME ForkFails PROVE TypeOK'
  BY <1>4 DEF ForkFails
<1>5. ASSUME PostForkParentActions PROVE TypeOK'
  BY <1>5 DEF PostForkParentActions
<1>6. ASSUME CloseWriteEnd PROVE TypeOK'
  BY <1>6 DEF CloseWriteEnd
<1>7. ASSUME Read PROVE TypeOK'
  <2>1. /\ call \in Call /\ pipe[call] \in 1..Capacity
        /\ received[call] + pipe[call] = written[call]
    BY <1>7 DEF Read, CallInv, InProgress, OfCall, Conserved
  <2>2. pipe[call] - 1 \in 0..Capacity /\ received[call] + 1 \in 0..MaxOutput
    BY <2>1
  <2> QED BY <1>7, <2>2 DEF Read
<1>8. ASSUME EndOfFile PROVE TypeOK'
  BY <1>8 DEF EndOfFile
<1>9. ASSUME ReadFails PROVE TypeOK'
  BY <1>9 DEF ReadFails
<1>10. ASSUME Wait PROVE TypeOK'
  BY <1>10 DEF Wait
<1>11. ASSUME WaitFails PROVE TypeOK'
  BY <1>11 DEF WaitFails
<1>12. ASSUME NEW c \in Call, Execute(c) \/ ExecuteFails(c) PROVE TypeOK'
  BY <1>12 DEF Execute, ExecuteFails
<1>13. ASSUME NEW c \in Call, Write(c) PROVE TypeOK'
  <2>0. /\ pipe[c] \in 0..Capacity /\ pipe[c] < Capacity /\ Capacity \in Nat
        /\ written[c] \in 0..MaxOutput /\ written[c] < MaxOutput /\ MaxOutput \in Nat
    BY <1>13 DEF Write
  <2>1. pipe[c] + 1 \in 0..Capacity /\ written[c] + 1 \in 0..MaxOutput
    <3> DEFINE a == pipe[c]
               b == written[c]
    <3>1. a \in 0..Capacity /\ a < Capacity /\ b \in 0..MaxOutput /\ b < MaxOutput
          /\ Capacity \in Nat /\ MaxOutput \in Nat
      BY <2>0
    <3> HIDE DEF a, b, TypeOK
    <3>2. a + 1 \in 0..Capacity /\ b + 1 \in 0..MaxOutput
      BY <3>1
    <3> QED BY <3>2 DEF a, b
  <2> QED BY <1>13, <2>1 DEF Write
<1>14. ASSUME NEW c \in Call, Background(c) \/ BackgroundExit(c) PROVE TypeOK'
  BY <1>14 DEF Background, BackgroundExit
<1>15. ASSUME NEW c \in Call, NEW how \in Status, Dies(c, how) PROVE TypeOK'
  BY <1>15 DEF Dies
<1>16. CASE UNCHANGED vars
  BY <1>16 DEF vars
<1> QED BY <1>1, <1>2, <1>3, <1>4, <1>5, <1>6, <1>7, <1>8, <1>9, <1>10, <1>11,
           <1>12, <1>13, <1>14, <1>15, <1>16
        DEF Next, Caller, CallerFails, Exit, Killed

\* Nothing happens in a call.
Same(c) ==
  /\ api'[c] = api[c] /\ outcome'[c] = outcome[c] /\ ends'[c] = ends[c]
  /\ child'[c] = child[c] /\ status'[c] = status[c] /\ stdout'[c] = stdout[c]
  /\ background'[c] = background[c] /\ pipe'[c] = pipe[c]
  /\ written'[c] = written[c] /\ received'[c] = received[c]

LEMMA SameKept ==
  ASSUME NEW c \in Call, OfCall(c), Same(c), call' = call
  PROVE  OfCall(c)'
BY DEF Same, OfCall, Unborn, Conserved, DeadIsSilent, NoStream, ToCome, ResultIs,
       Finished

LEMMA CallStep ==
  CallInv /\ [Next]_vars => (\A c \in Call : OfCall(c))' /\ InProgress'
<1> SUFFICES ASSUME CallInv, [Next]_vars
             PROVE  (\A c \in Call : OfCall(c))' /\ InProgress'
  OBVIOUS
<1> USE BoundsAssumption
    DEF CallInv, TypeOK, parent, children, GoTo, End, Keeps, OfCall, Unborn,
        Conserved, DeadIsSilent, NoStream, ToCome, ResultIs, Finished, InProgress,
        OpenAt
<1> DEFINE Whole == (\A c \in Call : OfCall(c))' /\ InProgress'
<1>1. ASSUME NEW a \in Api, Start(a) PROVE Whole
  <2>1. PICK n \in Call : n = call + 1 /\ call' = n
    BY <1>1 DEF Start, Call
  <2>2. call \in Nat /\ \A d \in Call : d \in Nat
    BY DEF Call
  <2>3. \A d \in Call \ {n} : Same(d)
    BY <1>1, <2>1 DEF Start, Same
  <2>4. \A d \in Call \ {n} : OfCall(d)'
    BY <2>1, <2>2, <2>3 DEF Same
  <2>5. /\ outcome[n] = "none" /\ ends[n] = {} /\ child[n] = "none"
        /\ api'[n] = a /\ UNCHANGED <<outcome, ends, received, children, pipe>>
        /\ pc' = IF a = "no_stream" THEN "fork" ELSE "pipe"
    BY <1>1, <2>1, <2>2 DEF Start
  <2>6. OfCall(n)'
    BY <2>1, <2>2, <2>5
  <2>7. InProgress'
    BY <2>1, <2>5
  <2> QED BY <2>4, <2>6, <2>7
<1>2. ASSUME OpenPipe PROVE Whole
  <2>1. (\A d \in Call \ {call} : Same(d)) /\ call' = call
    BY <1>2 DEF OpenPipe, Same
  <2>2. \A d \in Call \ {call} : OfCall(d)'
    BY <2>1, SameKept
  <2>3. call \in Call /\ OfCall(call)'
    BY <1>2 DEF OpenPipe
  <2>4. InProgress'
    BY <1>2 DEF OpenPipe
  <2> QED BY <2>1, <2>2, <2>3, <2>4
<1>3. ASSUME Fork PROVE Whole
  <2>1. (\A d \in Call \ {call} : Same(d)) /\ call' = call
    BY <1>3 DEF Fork, Same
  <2>2. \A d \in Call \ {call} : OfCall(d)'
    BY <2>1, SameKept
  <2>3. call \in Call /\ OfCall(call)'
    BY <1>3 DEF Fork
  <2>4. InProgress'
    BY <1>3 DEF Fork
  <2> QED BY <2>1, <2>2, <2>3, <2>4
<1>4. ASSUME ForkFails PROVE Whole
  <2>1. (\A d \in Call \ {call} : Same(d)) /\ call' = call
    BY <1>4 DEF ForkFails, Same
  <2>2. \A d \in Call \ {call} : OfCall(d)'
    BY <2>1, SameKept
  <2>3. call \in Call /\ OfCall(call)'
    BY <1>4 DEF ForkFails
  <2>4. InProgress'
    BY <1>4 DEF ForkFails
  <2> QED BY <2>1, <2>2, <2>3, <2>4
<1>5. ASSUME PostForkParentActions PROVE Whole
  <2>1. (\A d \in Call \ {call} : Same(d)) /\ call' = call
    BY <1>5 DEF PostForkParentActions, Same
  <2>2. \A d \in Call \ {call} : OfCall(d)'
    BY <2>1, SameKept
  <2>3. call \in Call /\ OfCall(call)'
    BY <1>5 DEF PostForkParentActions, Api
  <2>4. InProgress'
    BY <1>5 DEF PostForkParentActions, Api
  <2> QED BY <2>1, <2>2, <2>3, <2>4
<1>6. ASSUME CloseWriteEnd PROVE Whole
  <2>1. (\A d \in Call \ {call} : Same(d)) /\ call' = call
    BY <1>6 DEF CloseWriteEnd, Same
  <2>2. \A d \in Call \ {call} : OfCall(d)'
    BY <2>1, SameKept
  <2>3. call \in Call /\ OfCall(call)'
    BY <1>6 DEF CloseWriteEnd
  <2>4. InProgress'
    BY <1>6 DEF CloseWriteEnd
  <2> QED BY <2>1, <2>2, <2>3, <2>4
<1>7. ASSUME Read PROVE Whole
  <2>1. (\A d \in Call \ {call} : Same(d)) /\ call' = call
    BY <1>7 DEF Read, Same
  <2>2. \A d \in Call \ {call} : OfCall(d)'
    BY <2>1, SameKept
  <2>3. /\ call \in Call /\ pipe[call] \in Nat /\ received[call] \in Nat
        /\ pipe'[call] = pipe[call] - 1 /\ received'[call] = received[call] + 1
    BY <1>7 DEF Read
  <2>4. OfCall(call)'
    BY <1>7, <2>3 DEF Read
  <2>5. InProgress'
    BY <1>7 DEF Read
  <2> QED BY <2>1, <2>2, <2>4, <2>5
<1>8. ASSUME EndOfFile PROVE Whole
  <2>1. (\A d \in Call \ {call} : Same(d)) /\ call' = call
    BY <1>8 DEF EndOfFile, Same
  <2>2. \A d \in Call \ {call} : OfCall(d)'
    BY <2>1, SameKept
  <2>3. call \in Call /\ OfCall(call)'
    BY <1>8 DEF EndOfFile
  <2>4. InProgress'
    BY <1>8 DEF EndOfFile
  <2> QED BY <2>1, <2>2, <2>3, <2>4
<1>9. ASSUME ReadFails PROVE Whole
  <2>1. (\A d \in Call \ {call} : Same(d)) /\ call' = call
    BY <1>9 DEF ReadFails, Same
  <2>2. \A d \in Call \ {call} : OfCall(d)'
    BY <2>1, SameKept
  <2>3. call \in Call /\ OfCall(call)'
    BY <1>9 DEF ReadFails
  <2>4. InProgress'
    BY <1>9 DEF ReadFails
  <2> QED BY <2>1, <2>2, <2>3, <2>4
<1>10. ASSUME Wait PROVE Whole
  <2>1. (\A d \in Call \ {call} : Same(d)) /\ call' = call
    BY <1>10 DEF Wait, Same
  <2>2. \A d \in Call \ {call} : OfCall(d)'
    BY <2>1, SameKept
  <2>3. call \in Call /\ OfCall(call)'
    BY <1>10 DEF Wait, IsGood, Status, Exited
  <2>4. InProgress'
    BY <1>10 DEF Wait, IsGood, Status, Exited
  <2> QED BY <2>1, <2>2, <2>3, <2>4
<1>11. ASSUME WaitFails PROVE Whole
  <2>1. (\A d \in Call \ {call} : Same(d)) /\ call' = call
    BY <1>11 DEF WaitFails, Same
  <2>2. \A d \in Call \ {call} : OfCall(d)'
    BY <2>1, SameKept
  <2>3. call \in Call /\ OfCall(call)'
    BY <1>11 DEF WaitFails
  <2>4. InProgress'
    BY <1>11 DEF WaitFails
  <2> QED BY <2>1, <2>2, <2>3, <2>4
<1>12. ASSUME NEW c \in Call, Execute(c) PROVE Whole
  <2>1. (\A d \in Call \ {c} : Same(d)) /\ UNCHANGED parent
    BY <1>12 DEF Execute, Same
  <2>2. \A d \in Call \ {c} : OfCall(d)'
    BY <2>1, SameKept
  <2>3. OfCall(c)'
    BY <1>12 DEF Execute
  <2>4. InProgress'
    BY <1>12, <2>1 DEF Execute, Same
  <2> QED BY <2>2, <2>3, <2>4
<1>13. ASSUME NEW c \in Call, ExecuteFails(c) PROVE Whole
  <2>1. (\A d \in Call \ {c} : Same(d)) /\ UNCHANGED parent
    BY <1>13 DEF ExecuteFails, Same
  <2>2. \A d \in Call \ {c} : OfCall(d)'
    BY <2>1, SameKept
  <2>3. OfCall(c)'
    BY <1>13 DEF ExecuteFails
  <2>4. InProgress'
    BY <1>13, <2>1 DEF ExecuteFails, Same
  <2> QED BY <2>2, <2>3, <2>4
<1>14. ASSUME NEW c \in Call, Write(c) PROVE Whole
  <2>1. (\A d \in Call \ {c} : Same(d)) /\ UNCHANGED parent
    BY <1>14 DEF Write, Same
  <2>2. \A d \in Call \ {c} : OfCall(d)'
    BY <2>1, SameKept
  <2>3. OfCall(c)'
    BY <1>14 DEF Write
  <2>4. InProgress'
    BY <1>14, <2>1 DEF Write, Same
  <2> QED BY <2>2, <2>3, <2>4
<1>15. ASSUME NEW c \in Call, Background(c) PROVE Whole
  <2>1. (\A d \in Call \ {c} : Same(d)) /\ UNCHANGED parent
    BY <1>15 DEF Background, Same
  <2>2. \A d \in Call \ {c} : OfCall(d)'
    BY <2>1, SameKept
  <2>3. OfCall(c)'
    BY <1>15 DEF Background
  <2>4. InProgress'
    BY <1>15, <2>1 DEF Background, Same
  <2> QED BY <2>2, <2>3, <2>4
<1>16. ASSUME NEW c \in Call, Exit(c) PROVE Whole
  <2>1. (\A d \in Call \ {c} : Same(d)) /\ UNCHANGED parent
    BY <1>16 DEF Exit, Same, Dies, Exited
  <2>2. \A d \in Call \ {c} : OfCall(d)'
    BY <2>1, SameKept
  <2>3. OfCall(c)'
    BY <1>16 DEF Exit, Dies, Exited
  <2>4. InProgress'
    BY <1>16, <2>1 DEF Exit, Same, Dies, Exited
  <2> QED BY <2>2, <2>3, <2>4
<1>17. ASSUME NEW c \in Call, Killed(c) PROVE Whole
  <2>1. (\A d \in Call \ {c} : Same(d)) /\ UNCHANGED parent
    BY <1>17 DEF Killed, Same, Dies
  <2>2. \A d \in Call \ {c} : OfCall(d)'
    BY <2>1, SameKept
  <2>3. OfCall(c)'
    BY <1>17 DEF Killed, Dies
  <2>4. InProgress'
    BY <1>17, <2>1 DEF Killed, Same, Dies
  <2> QED BY <2>2, <2>3, <2>4
<1>18. ASSUME NEW c \in Call, BackgroundExit(c) PROVE Whole
  <2>1. (\A d \in Call \ {c} : Same(d)) /\ UNCHANGED parent
    BY <1>18 DEF BackgroundExit, Same
  <2>2. \A d \in Call \ {c} : OfCall(d)'
    BY <2>1, SameKept
  <2>3. OfCall(c)'
    BY <1>18 DEF BackgroundExit
  <2>4. InProgress'
    BY <1>18, <2>1 DEF BackgroundExit, Same
  <2> QED BY <2>2, <2>3, <2>4
<1>19. CASE UNCHANGED vars
  BY <1>19 DEF vars
<1> HIDE DEF CallInv, TypeOK, OfCall, InProgress
<1> QED BY <1>1, <1>2, <1>3, <1>4, <1>5, <1>6, <1>7, <1>8, <1>9, <1>10, <1>11,
           <1>12, <1>13, <1>14, <1>15, <1>16, <1>17, <1>18, <1>19
        DEF Next, Caller, CallerFails

LEMMA CallInvariant == Spec => []CallInv
<1>1. Init => CallInv
  BY BoundsAssumption
     DEF Init, CallInv, TypeOK, OfCall, Unborn, Conserved, DeadIsSilent, NoStream,
         ToCome, ResultIs, Finished, InProgress, OpenAt,
         Call, Api, Child, Exited, Status, Outcome, Pc
<1>2. CallInv /\ [Next]_vars => CallInv'
  BY TypeStep, CallStep DEF CallInv
<1> QED BY <1>1, <1>2, PTL DEF Spec

\* Every variable keeps the values the code and the kernel give it: no pipe
\* holds more than its capacity, and nothing is read that was not written.
THEOREM ProcessTypes == Spec => []TypeOK
BY CallInvariant, PTL DEF CallInv

\* A call that reports how the child ended has waited for that child, reports
\* how it really ended and has all of its output, however the system calls of
\* other calls fail and whatever other children and their processes do.
THEOREM ReportsTheChild == Spec => []ResultIsTheChilds
<1>1. CallInv => ResultIsTheChilds
  BY DEF CallInv, OfCall, ResultIs, ResultIsTheChilds
<1> QED BY <1>1, CallInvariant, PTL

\* A call ends at one step at most, in which it leaves these ends open.
LeavesOpen(c) ==
  /\ outcome[c] = "none" /\ outcome'[c] # "none" => ends'[c] = LeftOpen(api[c], pc)
  /\ outcome[c] # "none" => ends'[c] = ends[c]

LEMMA LeavesOpenStep == CallInv /\ [Next]_vars => \A c \in Call : LeavesOpen(c)
<1> SUFFICES ASSUME CallInv, [Next]_vars, NEW c \in Call PROVE LeavesOpen(c)
  OBVIOUS
<1> USE DEF LeavesOpen, GoTo, End, Keeps, parent, children
<1>1. /\ outcome \in [Call -> Outcome] /\ ends \in [Call -> SUBSET {"read", "write"}]
      /\ api \in [Call -> Api]
      /\ pc # "idle" => call \in Call /\ outcome[call] = "none"
                        /\ ends[call] = OpenAt(api[call], pc)
                        /\ (pc = "pipe" => api[call] # "no_stream")
                        /\ (pc \in {"callback", "close"} => api[call] # "command")
                        /\ (pc = "read" => api[call] # "no_stream")
  BY DEF CallInv, TypeOK, InProgress
<1>2. CASE UNCHANGED <<outcome, ends>>
  BY <1>2
<1>3. CASE OpenPipe
  BY <1>1, <1>3 DEF OpenPipe, OpenAt, LeftOpen
<1>4. CASE Fork
  BY <1>1, <1>4 DEF Fork
<1>5. CASE ForkFails
  BY <1>1, <1>5 DEF ForkFails, OpenAt, LeftOpen, Api
<1>6. CASE PostForkParentActions
  BY <1>1, <1>6 DEF PostForkParentActions, OpenAt, LeftOpen, Api
<1>7. CASE CloseWriteEnd
  BY <1>1, <1>7 DEF CloseWriteEnd
<1>8. CASE ReadFails
  BY <1>1, <1>8 DEF ReadFails, OpenAt, LeftOpen, Api
<1>9. CASE Wait
  BY <1>1, <1>9 DEF Wait, OpenAt, LeftOpen, Api
<1>10. CASE WaitFails
  BY <1>1, <1>10 DEF WaitFails, OpenAt, LeftOpen, Api
<1>11. CASE \/ \E a \in Api : Start(a)
            \/ Read \/ EndOfFile
            \/ \E d \in Call : \/ Execute(d) \/ ExecuteFails(d) \/ Write(d)
                              \/ Background(d) \/ Exit(d) \/ Killed(d)
                              \/ BackgroundExit(d)
            \/ UNCHANGED vars
  BY <1>2, <1>11
     DEF Start, Read, EndOfFile, Execute, ExecuteFails, Write, Background, Exit,
         Killed, Dies, BackgroundExit, vars
<1> QED BY <1>3, <1>4, <1>5, <1>6, <1>7, <1>8, <1>9, <1>10, <1>11
        DEF Next, Caller, CallerFails

\* Whatever fails, executeCommand leaves nothing open but the read end of its pipe,
\* and that only when it fails to read; forkExecWait always leaves the read end of
\* its pipe, and both ends when it fails to fork or postForkParentActions throws.
\* What is left open is never closed later.
THEOREM EndsThatStayOpen == Spec => EndsLeftOpen
<1>1. CallInv /\ [Next]_vars => [\A c \in Call : LeavesOpen(c)]_vars
  BY LeavesOpenStep
<1> QED BY <1>1, CallInvariant, PTL DEF Spec, EndsLeftOpen, LeavesOpen
=============================================================================
