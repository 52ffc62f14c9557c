---------------------------- MODULE CLIArguments ----------------------------
(***************************************************************************)
(* CLIArguments: objects that own a null-terminated vector of pointers to  *)
(* copies of the arguments.                                                *)
(***************************************************************************)
EXTENDS Naturals, Sequences, FiniteSets, SequencesExt

CONSTANTS
  Object,    \* the objects
  Argument,  \* the strings that are passed
  MaxArgs,   \* bound on the arguments that an object is given
  MaxBlocks, \* bound on the allocated memory
  Null

ASSUME BoundsAssumption == MaxArgs \in Nat /\ MaxBlocks \in Nat /\ Null \notin 1..MaxBlocks

Block == 1..MaxBlocks

VARIABLES
  args,      \* args[o]: the pointers of object o; empty when there is no object
  memory,    \* the strings in the blocks that are allocated
  broken,    \* memory was used that is not allocated
  meant,     \* for the properties: the arguments that each object should have
  emptied    \* for the properties: the objects that lost arguments when they
             \* were assigned to themselves, and those that got theirs from one

cliVars == <<args, memory, broken, meant, emptied>>

CLIInit ==
  /\ args = [o \in Object |-> <<>>] /\ memory = <<>>
  /\ broken = FALSE /\ meant = [o \in Object |-> <<>>] /\ emptied = {}

Alive(o) == args[o] # <<>>
Argv(o) == Front(args[o])
Strings(o) == [i \in DOMAIN Argv(o) |-> memory[Argv(o)[i]]]

\* What an allocator returns to n calls: the lowest free blocks, blocks being alike.
Allocations(mem, n) ==
  LET free == Block \ DOMAIN mem
      lowest == {b \in free : Cardinality({f \in free : f < b}) < n}
  IN {blocks \in [1..n -> lowest] : \A i, j \in 1..n : i < j => blocks[i] < blocks[j]}

\* push_back(strings[1]), push_back(strings[2]) and so on: strdup puts copies of
\* the strings in the place of the null pointer, and this behind them.
PushAll(state, strings) ==
  {[args |-> Front(state.args) \o blocks \o <<Null>>,
    memory |-> [b \in DOMAIN state.memory \cup ToSet(blocks) |->
                  IF b \in DOMAIN state.memory THEN state.memory[b]
                  ELSE strings[CHOOSE i \in DOMAIN blocks : blocks[i] = b]]] :
     blocks \in Allocations(state.memory, Len(strings))}

\* Mutant of Cleared: the memory is not freed.
ClearedOnly(o) == [args |-> <<Null>>, memory |-> memory]

Cleared(o) ==
  [args |-> <<Null>>,
   memory |-> [b \in DOMAIN memory \ ToSet(Argv(o)) |-> memory[b]]]

\* The members of the object and the memory become one of the states.  The object
\* should then have the strings; if it lacks some, that is for the reason above.
Become(o, states, strings, lacks) ==
  \E state \in states :
    /\ args' = [args EXCEPT ![o] = state.args]
    /\ memory' = state.memory
    /\ meant' = [meant EXCEPT ![o] = strings]
    /\ emptied' = IF lacks THEN emptied \cup {o} ELSE emptied \ {o}
    /\ UNCHANGED broken
Fits(strings) == Len(strings) <= MaxArgs

Empty == [args |-> <<Null>>, memory |-> memory]
Current(o) == [args |-> args[o], memory |-> memory]
------------------------------------------------------------------------------
\* From a list, a pair of iterators, or argc and argv.
Construct(o, list) ==
  /\ ~Alive(o) /\ Fits(list)
  /\ Become(o, PushAll(Empty, list), list, FALSE)

CopyConstruct(o, rhs) ==
  /\ ~Alive(o) /\ Alive(rhs)
  /\ Become(o, PushAll(Empty, Strings(rhs)), meant[rhs], rhs \in emptied)

\* The arguments are cleared first: of an object that is assigned to itself none
\* are left to be copied.
Assign(o, rhs) ==
  /\ Alive(o) /\ Alive(rhs)
  /\ LET left == IF o = rhs THEN <<>> ELSE Strings(rhs)
     IN Become(o, PushAll(Cleared(o), left), meant[rhs],
               rhs \in emptied \/ left # Strings(rhs))

Add(o, s) ==
  /\ Alive(o) /\ Fits(Append(meant[o], s))
  /\ Become(o, PushAll(Current(o), <<s>>), Append(meant[o], s), o \in emptied)

\* The end of the loop is that of rhs when it begins, for o = rhs too: an object
\* that is appended to itself has its arguments twice, unless PlusEqualsItself.
PlusEquals(o, rhs) ==
  /\ Alive(o) /\ Alive(rhs) /\ Fits(meant[o] \o meant[rhs])
  /\ Become(o, PushAll(Current(o), Strings(rhs)), meant[o] \o meant[rhs],
            o \in emptied \/ rhs \in emptied)

\* An object that is appended to itself iterates over the vector that grows, and
\* when it is moved the iterators dangle.  A vector doubles its capacity, so that
\* with one or two arguments it is moved after the last has been read, if at all.
PlusEqualsItself(o) ==
  /\ Len(Argv(o)) > 2
  /\ broken' = TRUE
  /\ UNCHANGED <<args, memory, meant, emptied>>

Clear(o) == Alive(o) /\ Become(o, {Cleared(o)}, <<>>, FALSE)

\* operator>>: when the JSON is no array the arguments stay as they are.
Extract(o, list) ==
  /\ Alive(o) /\ Fits(list)
  /\ Become(o, PushAll(Cleared(o), list), list, FALSE)

Destroy(o) ==
  /\ Alive(o)
  /\ Become(o, {[args |-> <<>>, memory |-> Cleared(o).memory]}, <<>>, FALSE)

CLINext ==
  /\ ~broken
  /\ \E o \in Object :
       \/ \E s \in Argument : Add(o, s)
       \/ \E list \in BoundedSeq(Argument, MaxArgs) : Construct(o, list) \/ Extract(o, list)
       \/ \E rhs \in Object : CopyConstruct(o, rhs) \/ Assign(o, rhs) \/ PlusEquals(o, rhs)
       \/ PlusEqualsItself(o) \/ Clear(o) \/ Destroy(o)

CLISpec == CLIInit /\ [][CLINext]_cliVars
------------------------------------------------------------------------------
\* Every block belongs to one object and every object ends with the null pointer
\* execv(3) needs: nothing is freed twice or leaked, however objects are copied,
\* assigned and appended, to themselves too.  An object has the arguments that
\* were given to it, in order and once for each time.  There are two exceptions,
\* which the code has: an object that was assigned to itself has lost what it had
\* (emptied, also of those that are then made from it), and nothing is known once
\* an object with more than two arguments has been appended to itself while its
\* vector was moved (broken).
OwnsItsArguments ==
  ~broken =>
    /\ \A o \in Object : Alive(o) =>
         /\ Last(args[o]) = Null /\ Null \notin ToSet(Argv(o))
         /\ ToSet(Argv(o)) \subseteq DOMAIN memory
         /\ o \notin emptied => Strings(o) = meant[o]
    /\ \A o, p \in Object : \A i \in DOMAIN Argv(o), j \in DOMAIN Argv(p) :
         Argv(o)[i] = Argv(p)[j] => o = p /\ i = j
    /\ DOMAIN memory \subseteq UNION {ToSet(Argv(o)) : o \in Object}
==============================================================================
