---------------------------- MODULE InputsProofs ----------------------------
(***************************************************************************)
(* The theorems about CLIArguments, for any objects, strings and bounds,   *)
(* and about Cgroup, for any hierarchies, cgroups and mount points.        *)
(***************************************************************************)
EXTENDS Cgroup, CLIArguments, SequenceTheorems, FiniteSetTheorems, WellFoundedInduction, TLAPS

(***************************************************************************)
(* CLIArguments                                                            *)
(***************************************************************************)

(* Pointers *)

LEMMA FrontOfPushed ==
  ASSUME NEW q \in Seq(Block)
  PROVE  /\ Front(q \o <<Null>>) = q
         /\ Last(q \o <<Null>>) = Null
         /\ q \o <<Null>> # <<>>
         /\ q \o <<Null>> \in Seq(Block \cup {Null})
<1> DEFINE all == q \o <<Null>>
<1>1. /\ q \in Seq(Block \cup {Null}) /\ <<Null>> \in Seq(Block \cup {Null})
      /\ Len(q) \in Nat
  OBVIOUS
<1>2. /\ all \in Seq(Block \cup {Null}) /\ Len(all) = Len(q) + 1
      /\ \A i \in 1..Len(q) : all[i] = q[i]
      /\ all[Len(q) + 1] = Null
  BY <1>1, ConcatProperties
<1>3. Front(all) = q
  <2>1. SubSeq(all, 1, Len(q)) \in Seq(Block \cup {Null})
        /\ Len(SubSeq(all, 1, Len(q))) = Len(q)
        /\ \A i \in 1..Len(q) : SubSeq(all, 1, Len(q))[i] = all[i]
    <3>1. \A i \in 1..Len(q) : all[i] \in Block \cup {Null}
      BY <1>1, <1>2, ElementOfSeq
    <3> HIDE DEF all
    <3> QED BY <1>1, <3>1, SubSeqProperties
  <2>2. SubSeq(all, 1, Len(q)) = q
    BY <1>1, <1>2, <2>1, SeqEqual
  <2> QED BY <1>1, <1>2, <2>2 DEF Front
<1>4. Last(all) = Null /\ all # <<>>
  BY <1>1, <1>2 DEF Last
<1> QED BY <1>2, <1>3, <1>4

LEMMA NoPointers == Front(<<>>) = <<>>
BY SubSeqEmpty DEF Front

------------------------------------------------------------------------------
(* The invariant *)

\* Object o may have the pointers q, to a copy of each of the strings, in mem:
\* they are its own, and mem has nothing else but what the other objects have.
With(o, q, mem, strings) ==
  /\ q \in Seq(Block) /\ strings \in Seq(Argument) /\ Len(strings) = Len(q)
  /\ \A i \in 1..Len(q) : q[i] \in DOMAIN mem /\ mem[q[i]] = strings[i]
  /\ \A i, j \in 1..Len(q) : q[i] = q[j] => i = j
  /\ DOMAIN mem \subseteq Block
  /\ \A x \in Object \ {o} : \A i \in 1..Len(Argv(x)) :
       /\ Argv(x)[i] \in DOMAIN mem /\ mem[Argv(x)[i]] = memory[Argv(x)[i]]
       /\ \A j \in 1..Len(q) : q[j] # Argv(x)[i]
  /\ \A b \in DOMAIN mem :
       \/ \E j \in 1..Len(q) : q[j] = b
       \/ \E x \in Object \ {o} : \E i \in 1..Len(Argv(x)) : Argv(x)[i] = b

\* No two pointers are the same.
OneOwner ==
  \A o, p \in Object : \A i \in 1..Len(Argv(o)), j \in 1..Len(Argv(p)) :
    Argv(o)[i] = Argv(p)[j] => o = p /\ i = j

HasMeant(o) ==
  /\ Len(meant[o]) = Len(Argv(o))
  /\ \A i \in 1..Len(Argv(o)) : memory[Argv(o)[i]] = meant[o][i]

CLIInv ==
  /\ args \in [Object -> Seq(Block \cup {Null})]
  /\ meant \in [Object -> Seq(Argument)]
  /\ DOMAIN memory \subseteq Block
  /\ \A o \in Object :
       /\ Argv(o) \in Seq(Block)
       /\ Alive(o) => args[o] = Argv(o) \o <<Null>>
       /\ \A i \in 1..Len(Argv(o)) :
            Argv(o)[i] \in DOMAIN memory /\ memory[Argv(o)[i]] \in Argument
       /\ Alive(o) /\ o \notin emptied => HasMeant(o)
  /\ OneOwner
  /\ \A b \in DOMAIN memory :
       \E o \in Object : \E i \in 1..Len(Argv(o)) : Argv(o)[i] = b

LEMMA DeadHaveNone ==
  ASSUME CLIInv, NEW o \in Object, ~Alive(o) PROVE Argv(o) = <<>>
BY NoPointers DEF Alive, Argv

LEMMA StringsOf ==
  ASSUME CLIInv, NEW o \in Object
  PROVE  /\ Strings(o) \in Seq(Argument) /\ Len(Strings(o)) = Len(Argv(o))
         /\ \A i \in 1..Len(Argv(o)) : Strings(o)[i] = memory[Argv(o)[i]]
         /\ Alive(o) /\ o \notin emptied => Strings(o) = meant[o]
<1>1. /\ Argv(o) \in Seq(Block) /\ Len(Argv(o)) \in Nat
      /\ DOMAIN Argv(o) = 1..Len(Argv(o))
      /\ \A i \in 1..Len(Argv(o)) : memory[Argv(o)[i]] \in Argument
  BY DEF CLIInv
<1>2. Strings(o) = [i \in 1..Len(Argv(o)) |-> memory[Argv(o)[i]]]
  BY <1>1 DEF Strings
<1>3. Strings(o) \in Seq(Argument) /\ Len(Strings(o)) = Len(Argv(o))
  BY <1>1, <1>2
<1>4. ASSUME Alive(o), o \notin emptied PROVE Strings(o) = meant[o]
  <2>1. HasMeant(o) /\ meant[o] \in Seq(Argument)
    BY <1>4 DEF CLIInv
  <2>2. meant[o] = [i \in 1..Len(Argv(o)) |-> meant[o][i]]
    BY <2>1 DEF HasMeant
  <2> QED BY <1>2, <2>1, <2>2 DEF HasMeant
<1> QED BY <1>2, <1>3, <1>4

LEMMA AsItIs ==
  ASSUME CLIInv, NEW o \in Object
  PROVE  /\ Alive(o) => With(o, Argv(o), memory, Strings(o))
         /\ ~Alive(o) => With(o, <<>>, memory, <<>>)
<1>1. CASE Alive(o)
  <2>1. /\ Argv(o) \in Seq(Block) /\ Strings(o) \in Seq(Argument)
        /\ Len(Strings(o)) = Len(Argv(o))
        /\ \A i \in 1..Len(Argv(o)) :
             Argv(o)[i] \in DOMAIN memory /\ memory[Argv(o)[i]] = Strings(o)[i]
    BY StringsOf DEF CLIInv
  <2>0. OneOwner
    BY DEF CLIInv
  <2>2. \A i, j \in 1..Len(Argv(o)) : Argv(o)[i] = Argv(o)[j] => i = j
    BY <2>0 DEF OneOwner
  <2>3. ASSUME NEW x \in Object \ {o}, NEW i \in 1..Len(Argv(x))
        PROVE  /\ Argv(x)[i] \in DOMAIN memory
               /\ \A j \in 1..Len(Argv(o)) : Argv(o)[j] # Argv(x)[i]
    <3>1. Argv(x)[i] \in DOMAIN memory
      BY <2>3 DEF CLIInv
    <3> QED BY <2>0, <2>3, <3>1 DEF OneOwner
  <2>4. ASSUME NEW b \in DOMAIN memory
        PROVE  \/ \E j \in 1..Len(Argv(o)) : Argv(o)[j] = b
               \/ \E x \in Object \ {o} : \E i \in 1..Len(Argv(x)) : Argv(x)[i] = b
    <3>1. PICK x \in Object : \E i \in 1..Len(Argv(x)) : Argv(x)[i] = b
      BY <2>4 DEF CLIInv
    <3> QED BY <3>1
  <2>5. DOMAIN memory \subseteq Block
    BY DEF CLIInv
  <2>6. \A x \in Object \ {o} : \A i \in 1..Len(Argv(x)) :
          /\ Argv(x)[i] \in DOMAIN memory /\ memory[Argv(x)[i]] = memory[Argv(x)[i]]
          /\ \A j \in 1..Len(Argv(o)) : Argv(o)[j] # Argv(x)[i]
    BY <2>3
  <2>7. \A b \in DOMAIN memory :
          \/ \E j \in 1..Len(Argv(o)) : Argv(o)[j] = b
          \/ \E x \in Object \ {o} : \E i \in 1..Len(Argv(x)) : Argv(x)[i] = b
    BY <2>4
  <2>8. With(o, Argv(o), memory, Strings(o))
    BY <2>1, <2>2, <2>5, <2>6, <2>7, Zenon DEF With
  <2> QED BY <1>1, <2>8
<1>2. CASE ~Alive(o)
  <2>1. Argv(o) = <<>> /\ Len(<<>>) = 0 /\ 1..0 = {}
    BY <1>2, DeadHaveNone
  <2>2. <<>> \in Seq(Block) /\ <<>> \in Seq(Argument)
    OBVIOUS
  <2> QED BY <1>2, <2>1, <2>2 DEF CLIInv, With
<1> QED BY <1>1, <1>2

\* free(3) of the blocks of an object leaves those of the others.
LEMMA ClearedWith ==
  ASSUME CLIInv, NEW o \in Object
  PROVE  With(o, <<>>, Cleared(o).memory, <<>>)
<1> DEFINE kept == DOMAIN memory \ ToSet(Argv(o))
           mem == [b \in kept |-> memory[b]]
<1>1. Cleared(o).memory = mem
  BY DEF Cleared
<1>2. ToSet(Argv(o)) = {Argv(o)[i] : i \in 1..Len(Argv(o))}
  <2>1. Argv(o) \in Seq(Block)
    BY DEF CLIInv
  <2> QED BY <2>1 DEF ToSet
<1>3. Len(<<>>) = 0 /\ 1..0 = {} /\ <<>> \in Seq(Block) /\ <<>> \in Seq(Argument)
  OBVIOUS
<1>4. ASSUME NEW x \in Object \ {o}, NEW i \in 1..Len(Argv(x))
      PROVE  Argv(x)[i] \in kept
  <2>1. Argv(x)[i] \in DOMAIN memory
    BY <1>4 DEF CLIInv
  <2>0. OneOwner
    BY DEF CLIInv
  <2>2. \A j \in 1..Len(Argv(o)) : Argv(o)[j] # Argv(x)[i]
    BY <1>4, <2>0 DEF OneOwner
  <2> QED BY <1>2, <2>1, <2>2
<1>5. ASSUME NEW b \in kept
      PROVE  \E x \in Object \ {o} : \E i \in 1..Len(Argv(x)) : Argv(x)[i] = b
  <2>1. PICK x \in Object : \E i \in 1..Len(Argv(x)) : Argv(x)[i] = b
    BY <1>5 DEF CLIInv
  <2>2. x # o
    BY <1>2, <1>5, <2>1
  <2> QED BY <2>1, <2>2
<1>6. kept \subseteq Block /\ DOMAIN mem = kept /\ \A b \in kept : mem[b] = memory[b]
  BY DEF CLIInv
<1> HIDE DEF kept, mem
<1> QED BY <1>1, <1>3, <1>4, <1>5, <1>6 DEF With

\* push_back gives each string a block that nobody has.
LEMMA PushAllWith ==
  ASSUME NEW o, NEW state, NEW q, NEW strings, With(o, q, state.memory, strings),
         state.args = q \o <<Null>>, NEW list \in Seq(Argument),
         NEW new \in PushAll(state, list)
  PROVE  \E r : new.args = r \o <<Null>> /\ With(o, r, new.memory, strings \o list)
<1> DEFINE mem == state.memory
           n == Len(list)
<1>1. PICK blocks \in Allocations(mem, n) :
        new = [args |-> Front(state.args) \o blocks \o <<Null>>,
               memory |-> [b \in DOMAIN mem \cup ToSet(blocks) |->
                             IF b \in DOMAIN mem THEN mem[b]
                             ELSE list[CHOOSE i \in DOMAIN blocks : blocks[i] = b]]]
  BY DEF PushAll
<1>2. /\ n \in Nat /\ blocks \in [1..n -> Block \ DOMAIN mem]
      /\ \A i, j \in 1..n : i < j => blocks[i] < blocks[j]
  <2> DEFINE free == Block \ DOMAIN mem
             lowest == {b \in free : Cardinality({f \in free : f < b}) < n}
  <2>1. /\ blocks \in [1..n -> lowest]
        /\ \A i, j \in 1..n : i < j => blocks[i] < blocks[j]
    BY DEF Allocations
  <2>2. lowest \subseteq free
    OBVIOUS
  <2> HIDE DEF lowest
  <2>3. blocks \in [1..n -> free]
    BY <2>1, <2>2
  <2> QED BY <2>1, <2>3
<1>3. /\ blocks \in Seq(Block) /\ Len(blocks) = n /\ DOMAIN blocks = 1..n
      /\ \A i \in 1..n : blocks[i] \in Block /\ blocks[i] \notin DOMAIN mem
      /\ ToSet(blocks) = {blocks[i] : i \in 1..n}
  <2> HIDE DEF n
  <2>1. blocks \in [1..n -> Block] /\ DOMAIN blocks = 1..n
    BY <1>2
  <2>2. blocks \in Seq(Block) /\ Len(blocks) = n
    BY <1>2, <2>1
  <2> QED BY <1>2, <2>1, <2>2 DEF ToSet
<1>4. ASSUME NEW i \in 1..n, NEW j \in 1..n, blocks[i] = blocks[j] PROVE i = j
  <2>1. blocks[i] \in Nat /\ blocks[j] \in Nat
    BY <1>3, BoundsAssumption DEF Block
  <2>2. ~(blocks[i] < blocks[j]) /\ ~(blocks[j] < blocks[i])
    BY <1>4, <2>1
  <2> QED BY <1>2, <2>2
<1> DEFINE r == q \o blocks
           made == new.memory
<1>5. /\ q \in Seq(Block) /\ Len(q) \in Nat /\ Front(state.args) = q
      /\ strings \in Seq(Argument) /\ Len(strings) = Len(q)
      /\ \A i \in 1..Len(q) : q[i] \in DOMAIN mem /\ mem[q[i]] = strings[i]
      /\ \A i, j \in 1..Len(q) : q[i] = q[j] => i = j
      /\ DOMAIN mem \subseteq Block
  BY FrontOfPushed DEF With
<1>6. new.args = r \o <<Null>>
  BY <1>1, <1>5
<1>7. /\ DOMAIN made = DOMAIN mem \cup ToSet(blocks)
      /\ \A b \in DOMAIN mem : made[b] = mem[b]
      /\ \A i \in 1..n : made[blocks[i]] = list[i]
  <2>1. \A i \in 1..n : (CHOOSE k \in DOMAIN blocks : blocks[k] = blocks[i]) = i
    BY <1>3, <1>4
  <2>2. made = [b \in DOMAIN mem \cup ToSet(blocks) |->
                  IF b \in DOMAIN mem THEN mem[b]
                  ELSE list[CHOOSE i \in DOMAIN blocks : blocks[i] = b]]
    BY <1>1
  <2> HIDE DEF made, mem, n
  <2>3. \A i \in 1..n : blocks[i] \in ToSet(blocks) /\ blocks[i] \notin DOMAIN mem
    BY <1>3
  <2> QED BY <2>1, <2>2, <2>3
<1>8. /\ r \in Seq(Block) /\ Len(r) = Len(q) + n
      /\ \A i \in 1..Len(r) : r[i] = IF i <= Len(q) THEN q[i] ELSE blocks[i - Len(q)]
  <2> HIDE DEF n
  <2>1. /\ q \o blocks \in Seq(Block)
        /\ Len(q \o blocks) = Len(q) + Len(blocks)
        /\ \A i \in 1..Len(q) + Len(blocks) :
             (q \o blocks)[i] = IF i <= Len(q) THEN q[i] ELSE blocks[i - Len(q)]
    <3>1. blocks \in Seq(Block) /\ q \in Seq(Block)
      BY <1>3, <1>5
    <3> QED BY <3>1, ConcatProperties
  <2> QED BY <1>3, <2>1
<1>9. /\ strings \o list \in Seq(Argument) /\ Len(strings \o list) = Len(q) + n
      /\ \A i \in 1..Len(r) : (strings \o list)[i]
                                = IF i <= Len(q) THEN strings[i] ELSE list[i - Len(q)]
  BY <1>2, <1>5, <1>8, ConcatProperties
<1> HIDE DEF r, made, mem, n
<1>10. ASSUME NEW i \in 1..Len(r)
       PROVE
         \/ i \in 1..Len(q) /\ r[i] = q[i] /\ (strings \o list)[i] = strings[i]
         \/ /\ i - Len(q) \in 1..n /\ i > Len(q) /\ r[i] = blocks[i - Len(q)]
            /\ (strings \o list)[i] = list[i - Len(q)]
  <2>1. i \in 1..Len(q) \/ (i > Len(q) /\ i - Len(q) \in 1..n /\ ~(i <= Len(q)))
    BY <1>2, <1>5, <1>8
  <2>2. i \in 1..Len(q) => i <= Len(q)
    BY <1>5
  <2> QED BY <1>8, <1>9, <2>1, <2>2
<1>11. ASSUME NEW i \in 1..Len(r)
       PROVE  r[i] \in DOMAIN made /\ made[r[i]] = (strings \o list)[i]
  <2>1. CASE i \in 1..Len(q) /\ r[i] = q[i] /\ (strings \o list)[i] = strings[i]
    <3>1. q[i] \in DOMAIN mem /\ mem[q[i]] = strings[i]
      BY <1>5, <2>1
    <3> QED BY <1>7, <2>1, <3>1
  <2>2. CASE /\ i - Len(q) \in 1..n /\ r[i] = blocks[i - Len(q)]
             /\ (strings \o list)[i] = list[i - Len(q)]
    BY <1>3, <1>7, <2>2
  <2> QED BY <1>10, <2>1, <2>2
<1>12. ASSUME NEW i \in 1..Len(r), NEW j \in 1..Len(r), r[i] = r[j] PROVE i = j
  <2>1. CASE i \in 1..Len(q) /\ j \in 1..Len(q)
    <3>1. r[i] = q[i] /\ r[j] = q[j]
      BY <1>5, <1>8, <2>1
    <3>2. q[i] = q[j]
      BY <1>12, <3>1
    <3> QED BY <1>5, <2>1, <3>2
  <2>2. CASE i > Len(q) /\ j > Len(q)
    <3>1. /\ i - Len(q) \in 1..n /\ r[i] = blocks[i - Len(q)]
          /\ j - Len(q) \in 1..n /\ r[j] = blocks[j - Len(q)]
      <4>1. ~(i \in 1..Len(q)) /\ ~(j \in 1..Len(q))
        BY <1>5, <2>2
      <4> QED BY <1>10, <4>1
    <3>2. i - Len(q) = j - Len(q)
      BY <1>4, <1>12, <3>1
    <3> QED BY <1>5, <1>8, <3>2
  <2>3. ASSUME NEW k \in 1..Len(r), NEW l \in 1..Len(r), r[k] = r[l],
               k \in 1..Len(q), l > Len(q)
        PROVE  FALSE
    <3>1. r[k] = q[k] /\ q[k] \in DOMAIN mem
      <4>1. r[k] = q[k]
        BY <1>8, <2>3
      <4>2. q[k] \in DOMAIN mem
        BY <1>5, <2>3
      <4> QED BY <4>1, <4>2
    <3>2. l - Len(q) \in 1..n /\ r[l] = blocks[l - Len(q)]
      BY <1>5, <1>10, <2>3
    <3>3. r[l] \notin DOMAIN mem
      BY <1>3, <3>2
    <3> QED BY <2>3, <3>1, <3>3
  <2>4. i \in 1..Len(q) \/ i > Len(q)
    BY <1>2, <1>5, <1>8
  <2>5. j \in 1..Len(q) \/ j > Len(q)
    BY <1>2, <1>5, <1>8
  <2> QED BY <1>12, <2>1, <2>2, <2>3, <2>4, <2>5
<1>13. ASSUME NEW x \in Object \ {o}, NEW i \in 1..Len(Argv(x))
       PROVE  /\ Argv(x)[i] \in DOMAIN made /\ made[Argv(x)[i]] = memory[Argv(x)[i]]
              /\ \A j \in 1..Len(r) : r[j] # Argv(x)[i]
  <2>1. /\ Argv(x)[i] \in DOMAIN mem /\ mem[Argv(x)[i]] = memory[Argv(x)[i]]
        /\ \A j \in 1..Len(q) : q[j] # Argv(x)[i]
    BY <1>13 DEF With, mem
  <2>2. Argv(x)[i] \in DOMAIN made /\ made[Argv(x)[i]] = memory[Argv(x)[i]]
    BY <1>7, <2>1
  <2>3. ASSUME NEW j \in 1..Len(r) PROVE r[j] # Argv(x)[i]
    <3>1. CASE j \in 1..Len(q) /\ r[j] = q[j]
      BY <2>1, <3>1
    <3>2. CASE j - Len(q) \in 1..n /\ r[j] = blocks[j - Len(q)]
      BY <1>3, <2>1, <3>2
    <3> QED BY <1>10, <3>1, <3>2
  <2> QED BY <2>2, <2>3
<1>14. ASSUME NEW b \in DOMAIN made
       PROVE  \/ \E j \in 1..Len(r) : r[j] = b
              \/ \E x \in Object \ {o} : \E i \in 1..Len(Argv(x)) : Argv(x)[i] = b
  <2>1. CASE b \in ToSet(blocks)
    <3>1. PICK k \in 1..n : blocks[k] = b
      BY <1>3, <2>1
    <3>2. /\ Len(q) + k \in 1..Len(r) /\ ~(Len(q) + k <= Len(q))
          /\ Len(q) + k - Len(q) = k
      BY <1>2, <1>5, <1>8
    <3>3. r[Len(q) + k] = b
      BY <1>8, <3>1, <3>2
    <3> QED BY <3>2, <3>3
  <2>2. CASE b \in DOMAIN mem
    <3>1. \/ \E j \in 1..Len(q) : q[j] = b
          \/ \E x \in Object \ {o} : \E i \in 1..Len(Argv(x)) : Argv(x)[i] = b
      BY <2>2 DEF With, mem
    <3>2. \A j \in 1..Len(q) : j \in 1..Len(r) /\ r[j] = q[j]
      BY <1>2, <1>5, <1>8
    <3> QED BY <3>1, <3>2
  <2> QED BY <1>7, <2>1, <2>2
<1>15. DOMAIN made \subseteq Block
  BY <1>3, <1>5, <1>7
<1>16. With(o, r, made, strings \o list)
  <2>1. Len(strings \o list) = Len(r)
    BY <1>8, <1>9
  <2> QED BY <1>8, <1>9, <1>11, <1>12, <1>13, <1>14, <1>15, <2>1 DEF With
<1> QED BY <1>6, <1>16 DEF made

\* An object takes on pointers that it may have, or goes.
LEMMA WithKeeps ==
  ASSUME CLIInv, NEW o \in Object, NEW q, NEW strings, NEW given \in Seq(Argument),
         With(o, q, memory', strings),
         \/ args' = [args EXCEPT ![o] = q \o <<Null>>]
         \/ args' = [args EXCEPT ![o] = <<>>] /\ q = <<>>,
         meant' = [meant EXCEPT ![o] = given],
         o \in emptied' \/ given = strings, emptied \subseteq emptied' \cup {o}
  PROVE  CLIInv'
<1>1. /\ q \in Seq(Block) /\ strings \in Seq(Argument) /\ Len(strings) = Len(q)
      /\ Len(q) \in Nat
  BY DEF With
<1>2. /\ Argv(o)' = q
      /\ args'[o] \in Seq(Block \cup {Null})
      /\ Alive(o)' => args'[o] = q \o <<Null>>
  <2>1. CASE args'[o] = q \o <<Null>>
    BY <1>1, <2>1, FrontOfPushed DEF Argv
  <2>2. CASE args'[o] = <<>> /\ q = <<>>
    BY <2>2, NoPointers DEF Argv, Alive
  <2>3. args'[o] = q \o <<Null>> \/ (args'[o] = <<>> /\ q = <<>>)
    BY DEF CLIInv
  <2> QED BY <2>1, <2>2, <2>3
<1>3. \A x \in Object \ {o} :
        /\ args'[x] = args[x] /\ meant'[x] = meant[x]
        /\ Argv(x)' = Argv(x) /\ Alive(x)' = Alive(x)
  BY DEF CLIInv, Argv, Alive
<1>4. meant'[o] = given /\ meant' \in [Object -> Seq(Argument)]
  BY DEF CLIInv
<1>5. args' \in [Object -> Seq(Block \cup {Null})]
  BY <1>2, <1>3 DEF CLIInv
<1>6. DOMAIN memory' \subseteq Block
  BY DEF With
<1>7. ASSUME NEW x \in Object
      PROVE  /\ Argv(x)' \in Seq(Block)
             /\ Alive(x)' => args'[x] = Argv(x)' \o <<Null>>
             /\ \A i \in 1..Len(Argv(x)') :
                  Argv(x)'[i] \in DOMAIN memory' /\ memory'[Argv(x)'[i]] \in Argument
             /\ Alive(x)' /\ x \notin emptied' => HasMeant(x)'
  <2>1. CASE x = o
    <3>1. \A i \in 1..Len(q) : /\ q[i] \in DOMAIN memory' /\ memory'[q[i]] = strings[i]
                               /\ strings[i] \in Argument
      BY <1>1 DEF With
    <3>2. x \notin emptied' => HasMeant(x)'
      BY <1>1, <1>2, <1>4, <2>1, <3>1 DEF HasMeant
    <3> QED BY <1>1, <1>2, <2>1, <3>1, <3>2
  <2>2. CASE x # o
    <3>1. /\ Argv(x) \in Seq(Block)
          /\ Alive(x) => args[x] = Argv(x) \o <<Null>>
          /\ \A i \in 1..Len(Argv(x)) : memory[Argv(x)[i]] \in Argument
          /\ Alive(x) /\ x \notin emptied => HasMeant(x)
      BY DEF CLIInv
    <3>2. \A i \in 1..Len(Argv(x)) : /\ Argv(x)[i] \in DOMAIN memory'
                                     /\ memory'[Argv(x)[i]] = memory[Argv(x)[i]]
      BY <2>2 DEF With
    <3>3. x \notin emptied' => x \notin emptied
      BY <2>2
    <3>4. HasMeant(x) => HasMeant(x)'
      BY <1>3, <2>2, <3>2 DEF HasMeant
    <3> QED BY <1>3, <2>2, <3>1, <3>2, <3>3, <3>4
  <2> QED BY <2>1, <2>2
<1>8. ASSUME NEW x \in Object, NEW y \in Object,
             NEW i \in 1..Len(Argv(x)'), NEW j \in 1..Len(Argv(y)'),
             Argv(x)'[i] = Argv(y)'[j]
      PROVE  x = y /\ i = j
  <2>1. CASE x = o /\ y = o
    BY <1>2, <1>8, <2>1 DEF With
  <2>2. CASE x # o /\ y # o
    <3>1. /\ i \in 1..Len(Argv(x)) /\ j \in 1..Len(Argv(y))
          /\ Argv(x)[i] = Argv(y)[j]
      BY <1>3, <1>8, <2>2
    <3>2. OneOwner
      BY DEF CLIInv
    <3> QED BY <3>1, <3>2 DEF OneOwner
  <2>3. CASE x = o /\ y # o
    BY <1>2, <1>3, <1>8, <2>3 DEF With
  <2>4. CASE x # o /\ y = o
    BY <1>2, <1>3, <1>8, <2>4 DEF With
  <2> QED BY <2>1, <2>2, <2>3, <2>4
<1>9. ASSUME NEW b \in DOMAIN memory'
      PROVE  \E x \in Object : \E i \in 1..Len(Argv(x)') : Argv(x)'[i] = b
  BY <1>2, <1>3, <1>9 DEF With
<1>10. OneOwner'
  BY <1>8 DEF OneOwner
<1> QED BY <1>4, <1>5, <1>6, <1>7, <1>9, <1>10 DEF CLIInv

------------------------------------------------------------------------------
(* The operations *)

LEMMA PushesKeep ==
  ASSUME CLIInv, NEW o \in Object, NEW state, NEW q, NEW strings,
         With(o, q, state.memory, strings), state.args = q \o <<Null>>,
         NEW list \in Seq(Argument), NEW given \in Seq(Argument), NEW lacks \in BOOLEAN,
         Become(o, PushAll(state, list), given, lacks), ~lacks => given = strings \o list
  PROVE  CLIInv'
<1>1. PICK new \in PushAll(state, list) :
        /\ args' = [args EXCEPT ![o] = new.args] /\ memory' = new.memory
        /\ meant' = [meant EXCEPT ![o] = given]
        /\ emptied' = IF lacks THEN emptied \cup {o} ELSE emptied \ {o}
  BY DEF Become
<1>2. PICK r : new.args = r \o <<Null>> /\ With(o, r, new.memory, strings \o list)
  BY PushAllWith
<1>3. (o \in emptied' \/ given = strings \o list) /\ emptied \subseteq emptied' \cup {o}
  BY <1>1
<1> QED BY <1>1, <1>2, <1>3, WithKeeps

LEMMA FromNothing ==
  /\ \A list \in Seq(Argument) : <<>> \o list = list
  /\ <<>> \o <<Null>> = <<Null>>
<1>1. <<Null>> \in Seq({Null})
  OBVIOUS
<1> QED BY <1>1, ConcatEmptySeq

LEMMA CLIStep == CLIInv /\ [CLINext]_cliVars => CLIInv'
<1> SUFFICES ASSUME CLIInv, [CLINext]_cliVars PROVE CLIInv'
  OBVIOUS
<1>1. ASSUME NEW o \in Object, NEW list \in BoundedSeq(Argument, MaxArgs)
      PROVE  list \in Seq(Argument)
  BY <1>1, BoundsAssumption DEF BoundedSeq, SeqOf
<1>2. ASSUME NEW o \in Object, NEW list \in Seq(Argument), ~Alive(o),
             NEW given \in Seq(Argument), NEW lacks \in BOOLEAN, ~lacks => given = list,
             Become(o, PushAll(Empty, list), given, lacks)
      PROVE  CLIInv'
  <2>1. With(o, <<>>, Empty.memory, <<>>) /\ Empty.args = <<>> \o <<Null>>
    BY <1>2, AsItIs, FromNothing DEF Empty
  <2>2. ~lacks => given = <<>> \o list
    BY <1>2, FromNothing
  <2> QED BY <1>2, <2>1, <2>2, PushesKeep
<1>3. ASSUME NEW o \in Object, NEW list \in Seq(Argument),
             NEW given \in Seq(Argument), NEW lacks \in BOOLEAN, ~lacks => given = list,
             Become(o, PushAll(Cleared(o), list), given, lacks)
      PROVE  CLIInv'
  <2>1. With(o, <<>>, Cleared(o).memory, <<>>) /\ Cleared(o).args = <<>> \o <<Null>>
    BY ClearedWith, FromNothing DEF Cleared
  <2>2. ~lacks => given = <<>> \o list
    BY <1>3, FromNothing
  <2> QED BY <1>3, <2>1, <2>2, PushesKeep
<1>4. ASSUME NEW o \in Object, NEW list \in Seq(Argument), Alive(o),
             NEW given \in Seq(Argument), NEW lacks \in BOOLEAN,
             ~lacks => given = Strings(o) \o list,
             Become(o, PushAll(Current(o), list), given, lacks)
      PROVE  CLIInv'
  <2>1. With(o, Argv(o), Current(o).memory, Strings(o))
        /\ Current(o).args = Argv(o) \o <<Null>>
    BY <1>4, AsItIs DEF Current, CLIInv
  <2> QED BY <1>4, <2>1, PushesKeep
<1>5. ASSUME NEW o \in Object, NEW state, state.memory = Cleared(o).memory,
             state.args = <<Null>> \/ state.args = <<>>,
             Become(o, {state}, <<>>, FALSE)
      PROVE  CLIInv'
  <2>1. /\ args' = [args EXCEPT ![o] = state.args]
        /\ memory' = Cleared(o).memory /\ meant' = [meant EXCEPT ![o] = <<>>]
        /\ emptied' = emptied \ {o}
    BY <1>5 DEF Become
  <2>2. With(o, <<>>, memory', <<>>)
    BY <2>1, ClearedWith
  <2>3. <<>> \in Seq(Argument) /\ emptied \subseteq emptied' \cup {o}
    BY <2>1
  <2>4. \/ args' = [args EXCEPT ![o] = <<>> \o <<Null>>]
        \/ args' = [args EXCEPT ![o] = <<>>]
    BY <1>5, <2>1, FromNothing
  <2> QED BY <2>1, <2>2, <2>3, <2>4, WithKeeps
<1>6. ASSUME NEW rhs \in Object, Alive(rhs)
      PROVE  /\ Strings(rhs) \in Seq(Argument) /\ meant[rhs] \in Seq(Argument)
             /\ rhs \notin emptied => Strings(rhs) = meant[rhs]
  BY <1>6, StringsOf DEF CLIInv
<1>7. ASSUME NEW o \in Object, NEW s \in Argument, Add(o, s) PROVE CLIInv'
  <2> DEFINE given == Append(meant[o], s)
             lacks == o \in emptied
  <2>1. /\ Alive(o) /\ <<s>> \in Seq(Argument)
        /\ Become(o, PushAll(Current(o), <<s>>), given, lacks)
    BY <1>7 DEF Add
  <2>2. given \in Seq(Argument) /\ given = meant[o] \o <<s>>
    BY <1>6, <2>1, AppendIsConcat
  <2>3. lacks \in BOOLEAN /\ (~lacks => Strings(o) = meant[o])
    BY <1>6, <2>1
  <2>4. ~lacks => given = Strings(o) \o <<s>>
    BY <2>2, <2>3
  <2> HIDE DEF given, lacks
  <2> QED BY <1>4, <2>1, <2>2, <2>3, <2>4
<1>8. ASSUME NEW o \in Object, NEW list \in BoundedSeq(Argument, MaxArgs),
             Construct(o, list) \/ Extract(o, list)
      PROVE  CLIInv'
  BY <1>1, <1>2, <1>3, <1>8 DEF Construct, Extract
<1>9. ASSUME NEW o \in Object, NEW rhs \in Object, CopyConstruct(o, rhs)
      PROVE  CLIInv'
  <2>1. /\ ~Alive(o) /\ Alive(rhs) /\ (rhs \in emptied) \in BOOLEAN
        /\ Become(o, PushAll(Empty, Strings(rhs)), meant[rhs], rhs \in emptied)
    BY <1>9 DEF CopyConstruct
  <2> QED BY <1>2, <1>6, <2>1
<1>10. ASSUME NEW o \in Object, NEW rhs \in Object, Assign(o, rhs)
       PROVE  CLIInv'
  <2> DEFINE left == IF o = rhs THEN <<>> ELSE Strings(rhs)
             lacks == rhs \in emptied \/ left # Strings(rhs)
  <2>1. Alive(rhs) /\ Become(o, PushAll(Cleared(o), left), meant[rhs], lacks)
    BY <1>10 DEF Assign
  <2>2. left \in Seq(Argument) /\ lacks \in BOOLEAN /\ meant[rhs] \in Seq(Argument)
    BY <1>6, <2>1
  <2>3. ~lacks => meant[rhs] = left
    BY <1>6, <2>1
  <2> HIDE DEF left, lacks
  <2> QED BY <1>3, <2>1, <2>2, <2>3
<1>11. ASSUME NEW o \in Object, NEW rhs \in Object, PlusEquals(o, rhs)
       PROVE  CLIInv'
  <2> DEFINE given == meant[o] \o meant[rhs]
             lacks == o \in emptied \/ rhs \in emptied
  <2>1. /\ Alive(o) /\ Alive(rhs)
        /\ Become(o, PushAll(Current(o), Strings(rhs)), given, lacks)
    BY <1>11 DEF PlusEquals
  <2>2. given \in Seq(Argument) /\ lacks \in BOOLEAN /\ Strings(rhs) \in Seq(Argument)
    BY <1>6, <2>1
  <2>3. ~lacks => given = Strings(o) \o Strings(rhs)
    BY <1>6, <2>1
  <2> HIDE DEF given, lacks
  <2> QED BY <1>4, <2>1, <2>2, <2>3
<1>12. ASSUME NEW o \in Object, Clear(o) PROVE CLIInv'
  <2>1. Cleared(o).args = <<Null>>
    BY DEF Cleared
  <2> QED BY <1>5, <1>12, <2>1 DEF Clear
<1>13. ASSUME NEW o \in Object, Destroy(o) PROVE CLIInv'
  <2> DEFINE gone == [args |-> <<>>, memory |-> Cleared(o).memory]
  <2>1. Become(o, {gone}, <<>>, FALSE)
    BY <1>13 DEF Destroy
  <2>2. gone.args = <<>> /\ gone.memory = Cleared(o).memory
    OBVIOUS
  <2> HIDE DEF gone
  <2> QED BY <1>5, <2>1, <2>2
<1>14. CASE UNCHANGED <<args, memory, meant, emptied>>
  <2>0. OneOwner
    BY DEF CLIInv
  <2>1. args' = args /\ meant' = meant /\ memory' = memory /\ emptied' = emptied
    BY <1>14
  <2>2. \A o \in Object : Argv(o)' = Argv(o) /\ (Alive(o)' <=> Alive(o))
    BY <2>1 DEF Argv, Alive
  <2>3. /\ args' \in [Object -> Seq(Block \cup {Null})]
        /\ meant' \in [Object -> Seq(Argument)] /\ DOMAIN memory' \subseteq Block
    BY <2>1 DEF CLIInv
  <2>4. ASSUME NEW o \in Object
        PROVE  /\ Argv(o)' \in Seq(Block)
               /\ Alive(o)' => args'[o] = Argv(o)' \o <<Null>>
               /\ \A i \in 1..Len(Argv(o)') :
                    /\ Argv(o)'[i] \in DOMAIN memory'
                    /\ memory'[Argv(o)'[i]] \in Argument
               /\ Alive(o)' /\ o \notin emptied' => HasMeant(o)'
    <3>1. HasMeant(o)' <=> HasMeant(o)
      BY <2>1, <2>2 DEF HasMeant
    <3> QED BY <2>1, <2>2, <3>1 DEF CLIInv
  <2>5. ASSUME NEW o \in Object, NEW p \in Object, NEW i \in 1..Len(Argv(o)'),
               NEW j \in 1..Len(Argv(p)'), Argv(o)'[i] = Argv(p)'[j]
        PROVE  o = p /\ i = j
    <3>1. /\ i \in 1..Len(Argv(o)) /\ j \in 1..Len(Argv(p))
          /\ Argv(o)[i] = Argv(p)[j]
      BY <2>2, <2>5
    <3> QED BY <3>1, <2>0 DEF OneOwner
  <2>6. ASSUME NEW b \in DOMAIN memory'
        PROVE  \E o \in Object : \E i \in 1..Len(Argv(o)') : Argv(o)'[i] = b
    <3>1. PICK o \in Object : \E i \in 1..Len(Argv(o)) : Argv(o)[i] = b
      BY <2>1, <2>6 DEF CLIInv
    <3> QED BY <2>2, <3>1
  <2>7. OneOwner'
    BY <2>5 DEF OneOwner
  <2> QED BY <2>3, <2>4, <2>6, <2>7 DEF CLIInv
<1> QED BY <1>7, <1>8, <1>9, <1>10, <1>11, <1>12, <1>13, <1>14
        DEF CLINext, cliVars, PlusEqualsItself

LEMMA CLIInvariant == CLISpec => []CLIInv
<1>1. CLIInit => CLIInv
  <2> SUFFICES ASSUME CLIInit PROVE CLIInv
    OBVIOUS
  <2>1. \A o \in Object : args[o] = <<>> /\ Argv(o) = <<>> /\ ~Alive(o)
    BY NoPointers DEF CLIInit, Argv, Alive
  <2>2. DOMAIN memory = {}
    BY EmptySeq, LenProperties DEF CLIInit
  <2>3. <<>> \in Seq(Block) /\ <<>> \in Seq(Block \cup {Null}) /\ <<>> \in Seq(Argument)
    OBVIOUS
  <2>4. args \in [Object -> Seq(Block \cup {Null})] /\ meant \in [Object -> Seq(Argument)]
    BY <2>3 DEF CLIInit
  <2>5. \A o \in Object : 1..Len(Argv(o)) = {}
    BY <2>1
  <2>6. OneOwner
    BY <2>5 DEF OneOwner
  <2> QED BY <2>1, <2>2, <2>4, <2>5, <2>6, <2>3 DEF CLIInv
<1> QED BY <1>1, CLIStep, PTL DEF CLISpec

\* Through any sequence of constructions, copies, assignments, additions and
\* destructions each block of memory belongs to one object, whose pointers are
\* followed by null; an object has a copy of every argument that it should have,
\* unless it, or one that it got arguments from, was assigned to itself.  All this
\* until an object with more than two arguments is appended to itself while its
\* vector is moved.
THEOREM ArgumentsAreOwned == CLISpec => []OwnsItsArguments
<1>1. CLIInv => OwnsItsArguments
  <2> SUFFICES ASSUME CLIInv PROVE OwnsItsArguments
    OBVIOUS
  <2>1. \A o \in Object : DOMAIN Argv(o) = 1..Len(Argv(o)) /\ Argv(o) \in Seq(Block)
    BY DEF CLIInv
  <2>2. \A o \in Object : ToSet(Argv(o)) = {Argv(o)[i] : i \in 1..Len(Argv(o))}
    BY <2>1 DEF ToSet
  <2>3. ASSUME NEW o \in Object, Alive(o)
        PROVE  /\ Last(args[o]) = Null /\ Null \notin ToSet(Argv(o))
               /\ ToSet(Argv(o)) \subseteq DOMAIN memory
               /\ o \notin emptied => Strings(o) = meant[o]
    <3>1. Last(args[o]) = Null
      <4>1. args[o] = Argv(o) \o <<Null>>
        BY <2>3 DEF CLIInv
      <4> QED BY <2>1, <4>1, FrontOfPushed
    <3>2. Null \notin ToSet(Argv(o))
      BY <2>1, <2>2, BoundsAssumption DEF Block
    <3>3. ToSet(Argv(o)) \subseteq DOMAIN memory
      <4>1. \A i \in 1..Len(Argv(o)) : Argv(o)[i] \in DOMAIN memory
        BY DEF CLIInv
      <4> QED BY <2>2, <4>1
    <3> QED BY <2>3, <3>1, <3>2, <3>3, StringsOf
  <2>4. \A o, p \in Object : \A i \in DOMAIN Argv(o), j \in DOMAIN Argv(p) :
          Argv(o)[i] = Argv(p)[j] => o = p /\ i = j
    <3>1. OneOwner
      BY DEF CLIInv
    <3> QED BY <2>1, <3>1 DEF OneOwner
  <2>5. DOMAIN memory \subseteq UNION {ToSet(Argv(o)) : o \in Object}
    <3> SUFFICES ASSUME NEW b \in DOMAIN memory
                 PROVE  \E o \in Object : b \in ToSet(Argv(o))
      OBVIOUS
    <3>1. PICK o \in Object : \E i \in 1..Len(Argv(o)) : Argv(o)[i] = b
      BY DEF CLIInv
    <3> QED BY <2>2, <3>1
  <2> QED BY <2>3, <2>4, <2>5 DEF OwnsItsArguments
<1> QED BY <1>1, CLIInvariant, PTL
(***************************************************************************)
(* Cgroup                                                                  *)
(***************************************************************************)

(* The lookup *)

LEMMA LeastNatural ==
  ASSUME NEW T, T \subseteq Nat, T # {}
  PROVE  \E n \in T : \A k \in T : n <= k
<1> DEFINE R == {ss \in Nat \X Nat : ss[1] < ss[2]}
<1>1. IsWellFoundedOn(R, Nat)
  BY NatLessThanWellFounded DEF OpToRel
<1>2. PICK n \in T : \A k \in T : ~(<<k, n>> \in R)
  <2> HIDE DEF R
  <2> QED BY <1>1, WFMin
<1>3. \A k \in T : ~(k < n)
  BY <1>2
<1> QED BY <1>3

\* A sequence of all hierarchies has a first one with the name, if one has it.
LEMMA FirstLine ==
  ASSUME NEW lines \in CgroupLines, NEW h \in Hierarchies, FindsAsked(h)
  PROVE  LET line == SelectInSeq(lines, FindsAsked)
         IN line # 0 /\ lines[line] \in Hierarchies /\ FindsAsked(lines[line])
<1> DEFINE n == Cardinality(Hierarchies)
           I == {i \in 1..Len(lines) : FindsAsked(lines[i])}
<1>1. n \in Nat /\ IsFiniteSet(1..n) /\ Cardinality(1..n) = n
  <2>1. n \in Nat
    BY HierarchyAssumption, FS_CardinalityType
  <2> HIDE DEF n
  <2>2. IsFiniteSet(1..n) /\ Cardinality(1..n) = IF 1 > n THEN 0 ELSE n - 1 + 1
    BY <2>1, FS_Interval
  <2> QED BY <2>1, <2>2
<1>2. /\ lines \in [1..n -> Hierarchies]
      /\ \A i, j \in 1..n : i # j => lines[i] # lines[j]
  BY DEF CgroupLines, SetToSeqs
<1>3. lines \in Injection(1..n, Hierarchies)
  BY <1>2 DEF Injection, IsInjective
<1>4. lines \in Surjection(1..n, Hierarchies)
  <2> HIDE DEF n
  <2>1. n = Cardinality(Hierarchies)
    BY DEF n
  <2> QED BY <1>1, <1>3, <2>1, HierarchyAssumption, FS_Injection
<1>5. PICK k \in 1..n : lines[k] = h
  BY <1>4 DEF Surjection
<1>6. Len(lines) = n
  <2> HIDE DEF n
  <2> QED BY <1>1, <1>2
<1>7. k \in I /\ I \subseteq Nat
  BY <1>1, <1>5, <1>6
<1>8. Min(I) \in I
  <2>1. \E m \in I : \A i \in I : m <= i
    <3> HIDE DEF I
    <3> QED BY <1>7, LeastNatural
  <2> HIDE DEF I
  <2> QED BY <2>1 DEF Min
<1>9. SelectInSeq(lines, FindsAsked) = Min(I)
  BY <1>7 DEF SelectInSeq
<1>10. Min(I) \in 1..Len(lines) /\ FindsAsked(lines[Min(I)])
  BY <1>8
<1> HIDE DEF I, n
<1> QED BY <1>2, <1>6, <1>9, <1>10

\* When names are unambiguous, one hierarchy has the name that is asked for.
LEMMA OneHierarchy ==
  ASSUME Unambiguous, NEW h \in Hierarchies, NEW k \in Hierarchies,
         FindsAsked(h), FindsAsked(k)
  PROVE  h = k
<1>1. asked \in ToSet(h) /\ asked \in ToSet(k)
  BY DEF Unambiguous, FindsAsked, Finds
<1> QED BY <1>1, HierarchyAssumption

------------------------------------------------------------------------------
(* Relative paths *)

LEMMA CommonPrefix ==
  ASSUME NEW q, IsSequence(q), NEW root, IsSequence(root)
  PROVE  LET common == LongestCommonPrefix({q, root}) IN
         /\ IsSequence(common) /\ IsPrefix(common, q) /\ IsPrefix(common, root)
<1> DEFINE P == CommonPrefixes({q, root})
           T == {Len(q) - Len(p) : p \in P}
<1>1. /\ q \in Seq(ToSet(q)) /\ root \in Seq(ToSet(root))
      /\ Len(q) \in Nat /\ Len(root) \in Nat
  BY DEF IsSequence
<1>2. ASSUME NEW p \in P
      PROVE  /\ IsPrefix(p, q) /\ IsPrefix(p, root)
             /\ p \in Seq(ToSet(q) \cup ToSet(root)) /\ Len(p) \in Nat
             /\ Len(p) <= Len(q)
  <2>1. IsPrefix(p, q) /\ IsPrefix(p, root)
    BY DEF CommonPrefixes
  <2>2. PICK s \in {q, root} : \E l \in 0..Len(s) : p = SubSeq(s, 1, l)
    BY DEF CommonPrefixes, Prefixes
  <2>3. p \in Seq(ToSet(s))
    <3>1. PICK l \in 0..Len(s) : p = SubSeq(s, 1, l)
      BY <2>2
    <3>2. \A i \in 1..l : s[i] \in ToSet(s)
      BY <1>1, ElementOfSeq
    <3>3. l \in Int
      BY <1>1
    <3> QED BY <3>1, <3>2, <3>3, SubSeqProperties
  <2>4. p \in Seq(ToSet(q) \cup ToSet(root))
    BY <2>3, SeqMonotonic
  <2> QED BY <2>1, <2>4 DEF IsPrefix
<1>3. SubSeq(q, 1, 0) = <<>> /\ SubSeq(root, 1, 0) = <<>> /\ Len(<<>>) = 0
  BY SubSeqEmpty
<1>4. <<>> \in P
  <2>1. <<>> \in Prefixes(q)
    BY <1>1, <1>3 DEF Prefixes
  <2>2. IsPrefix(<<>>, q) /\ IsPrefix(<<>>, root)
    BY <1>1, <1>3, SubSeqEmpty DEF IsPrefix
  <2> QED BY <2>1, <2>2 DEF CommonPrefixes
<1>5. T \subseteq Nat /\ T # {}
  <2>1. \A p \in P : Len(q) - Len(p) \in Nat
    <3> HIDE DEF P
    <3> QED BY <1>1, <1>2
  <2> HIDE DEF P
  <2> QED BY <1>4, <2>1
<1>6. PICK n \in T : \A k \in T : n <= k
  <2> HIDE DEF T
  <2> QED BY <1>5, LeastNatural
<1>7. PICK p \in P : n = Len(q) - Len(p)
  BY <1>6
<1>8. \A other \in P : Len(other) <= Len(p)
  <2> SUFFICES ASSUME NEW other \in P PROVE Len(other) <= Len(p)
    OBVIOUS
  <2>1. n <= Len(q) - Len(other)
    BY <1>6
  <2> QED BY <1>1, <1>2, <1>7, <2>1
<1>9. LongestCommonPrefix({q, root}) \in P
  <2> HIDE DEF P
  <2>1. \E longest \in P : \A other \in P : Len(other) <= Len(longest)
    BY <1>8
  <2> QED BY <2>1 DEF LongestCommonPrefix, P
<1> HIDE DEF P, T
<1>10. \A p1 \in P : IsSequence(p1)
  <2> SUFFICES ASSUME NEW p1 \in P PROVE IsSequence(p1)
    OBVIOUS
  <2>1. p1 \in Seq(ToSet(q) \cup ToSet(root))
    BY <1>2
  <2>2. p1 \in [1..Len(p1) -> ToSet(p1)] /\ Len(p1) \in Nat
    BY <2>1, LenProperties DEF ToSet
  <2> QED BY <2>2 DEF IsSequence
<1> QED BY <1>2, <1>9, <1>10

\* The path below the mount point that is not Outside leads to the cgroup.
LEMMA RelativeLeads ==
  ASSUME NEW q, IsSequence(q), NEW root, IsSequence(root), ~Outside(Relative(q, root))
  PROVE  root \o Relative(q, root) = q
<1> DEFINE c == LongestCommonPrefix({q, root})
           up == [i \in 1..(Len(root) - Len(c)) |-> Hidden]
           down == SubSeq(q, Len(c) + 1, Len(q))
           S == ToSet(q) \cup ToSet(root) \cup {Hidden}
<1>1. IsSequence(c) /\ IsPrefix(c, q) /\ IsPrefix(c, root)
  BY CommonPrefix
<1> HIDE DEF c
<1>2. /\ q \in Seq(S) /\ root \in Seq(S)
      /\ Len(q) \in Nat /\ Len(root) \in Nat /\ Len(c) \in Nat
      /\ c \in Seq(ToSet(c))
      /\ Len(c) <= Len(q) /\ Len(c) <= Len(root)
  <2>1. q \in Seq(ToSet(q)) /\ root \in Seq(ToSet(root)) /\ c \in Seq(ToSet(c))
    BY <1>1 DEF IsSequence
  <2>2. q \in Seq(S) /\ root \in Seq(S)
    BY <2>1, SeqMonotonic
  <2> QED BY <1>1, <2>1, <2>2 DEF IsPrefix
<1>3. Relative(q, root) = up \o down
  BY DEF Relative, c
<1>4. down \in Seq(S)
  <2>1. \A i \in Len(c) + 1..Len(q) : q[i] \in S
    BY <1>2, ElementOfSeq
  <2> HIDE DEF S
  <2> QED BY <1>2, <2>1, SubSeqProperties
<1>5. Len(c) = Len(root)
  <2> SUFFICES ASSUME Len(c) < Len(root) PROVE FALSE
    BY <1>2
  <2>1. up \in Seq(S) /\ Len(up) = Len(root) - Len(c)
    BY <1>2
  <2> HIDE DEF up, S, down
  <2>2. Len(up) \in Nat \ {0} /\ up[1] = Hidden
    BY <1>2, <2>1 DEF up
  <2>3. Len(up \o down) = Len(up) + Len(down) /\ (up \o down)[1] = up[1]
        /\ up \o down \in Seq(S) /\ Len(down) \in Nat
    <3>1. up \in Seq(S) /\ down \in Seq(S) /\ Len(down) \in Nat
      BY <1>4, <2>1
    <3>2. /\ up \o down \in Seq(S) /\ Len(up \o down) = Len(up) + Len(down)
          /\ \A i \in 1..Len(up) + Len(down) :
               (up \o down)[i] = IF i <= Len(up) THEN up[i] ELSE down[i - Len(up)]
      BY <3>1, ConcatProperties
    <3>3. 1 \in 1..Len(up) + Len(down) /\ 1 <= Len(up)
      BY <2>2, <3>1
    <3> QED BY <3>1, <3>2, <3>3
  <2>4. up \o down # <<>> /\ Head(up \o down) = Hidden
    BY <2>2, <2>3
  <2> QED BY <1>3, <2>4 DEF Outside
<1>6. up = <<>>
  BY <1>2, <1>5
<1>7. Relative(q, root) = down
  BY <1>3, <1>4, <1>6, ConcatEmptySeq
<1>8. root = SubSeq(q, 1, Len(root))
  <2>1. SubSeq(root, 1, Len(root)) = root
    BY <1>2, SubSeqFull
  <2>2. SubSeq(c, 1, Len(c)) = SubSeq(root, 1, Len(c))
        /\ SubSeq(c, 1, Len(c)) = SubSeq(q, 1, Len(c))
    BY <1>1 DEF IsPrefix
  <2> QED BY <1>5, <2>1, <2>2
<1>9. SubSeq(q, 1, Len(root)) \o SubSeq(q, Len(root) + 1, Len(q)) = q
  <2> HIDE DEF S
  <2>1. SubSeq(q, 1, Len(q)) = q
    BY <1>2, SubSeqFull
  <2>2. SubSeq(q, 1, Len(root)) \o SubSeq(q, Len(root) + 1, Len(q)) = SubSeq(q, 1, Len(q))
    <3>1. /\ 1 \in 1..Len(q) + 1 /\ Len(root) \in 0..Len(q) /\ 1 - 1 = 0
          /\ Len(q) \in Len(root)..Len(q)
      BY <1>2, <1>5
    <3>2. q \in Seq(S)
      BY <1>2
    <3> QED BY <3>1, <3>2, ConcatAdjacentSubSeq
  <2> QED BY <2>1, <2>2
<1> QED BY <1>5, <1>7, <1>8, <1>9

------------------------------------------------------------------------------
(* The invariant *)

\* What the hook may have found for a cgroup q of the process.
FoundFor(q) ==
  LET root == mounts[mount].root IN
  relative = IF root # <<>> /\ StartsWith(PathString(q), PathString(root))
             THEN Relative(q, root) ELSE q

CgroupInv ==
  /\ mounts \in MountTables
  /\ member \in [Hierarchies -> CgroupPath]
  /\ \A h \in Hierarchies : <<h, member[h]>> \in been
  /\ been \subseteq Hierarchies \X CgroupPath
  /\ hook = "mountinfo" => mount = 0
  /\ hook \in {"cgroup", "found", "whitelist"} => mount # 0
  /\ hook # "done" => allowed = {}
  /\ mount # 0 => mount \in DOMAIN mounts /\ FindsAsked(Hierarchy)
  /\ hook = "found" /\ Unambiguous => \E q : <<Hierarchy, q>> \in been /\ FoundFor(q)
  /\ hook = "whitelist" /\ Unambiguous /\ Visible => <<Hierarchy, Shown>> \in been
  /\ mount # 0 /\ Unambiguous /\ Visible => allowed \subseteq been
  /\ hook = "undefined" => exited

\* A path that was found, and does not leave the mount point, is the cgroup.
LEMMA FoundIsShown ==
  ASSUME CgroupInv, mount # 0, NEW q, <<Hierarchy, q>> \in been, FoundFor(q), Visible,
         ~Outside(relative)
  PROVE  Shown = q
<1> DEFINE root == mounts[mount].root
<1>1. IsSequence(q) /\ IsSequence(root) /\ mount \in DOMAIN mounts
  BY PathAssumption, MountAssumption DEF CgroupInv
<1>2. StartsWith(PathString(q), PathString(root))
  BY DEF Visible
<1>3. CASE root # <<>>
  BY <1>1, <1>2, <1>3, RelativeLeads DEF FoundFor, Shown
<1>4. CASE root = <<>>
  <2>1. relative = q /\ q \in Seq(ToSet(q))
    BY <1>1, <1>4 DEF FoundFor, IsSequence
  <2> QED BY <1>4, <2>1, ConcatEmptySeq DEF Shown
<1> QED BY <1>3, <1>4

LEMMA CgroupStep == CgroupInv /\ [CgroupNext]_cgroupVars => CgroupInv'
<1> SUFFICES ASSUME CgroupInv, [CgroupNext]_cgroupVars PROVE CgroupInv'
  OBVIOUS
\* What the process and its administrator do leaves the hook where it is.
<1>1. ASSUME UNCHANGED <<mounts, hookVars>>, been \subseteq been',
             been' \subseteq Hierarchies \X CgroupPath, exited => exited',
             member' \in [Hierarchies -> CgroupPath],
             \A h \in Hierarchies : <<h, member'[h]>> \in been'
      PROVE  CgroupInv'
  <2>1. UNCHANGED <<mounts, hook, asked, mount, relative, allowed>>
    BY <1>1 DEF hookVars
  <2>2. /\ (Unambiguous' <=> Unambiguous) /\ (Visible' => Visible)
        /\ Hierarchy' = Hierarchy /\ Shown' = Shown
        /\ (FindsAsked(Hierarchy)' <=> FindsAsked(Hierarchy))
        /\ \A q : FoundFor(q)' <=> FoundFor(q)
    BY <1>1, <2>1 DEF Unambiguous, Visible, Hierarchy, Shown, FindsAsked, FoundFor
  <2>3. /\ hook' = "found" /\ Unambiguous' =>
             \E q : <<Hierarchy', q>> \in been' /\ FoundFor(q)'
        /\ hook' = "whitelist" /\ Unambiguous' /\ Visible' => <<Hierarchy', Shown'>> \in been'
        /\ mount' # 0 /\ Unambiguous' /\ Visible' => allowed' \subseteq been'
    BY <1>1, <2>1, <2>2 DEF CgroupInv
  <2> QED BY <1>1, <2>1, <2>2, <2>3 DEF CgroupInv
<1>2. ASSUME NEW h \in Hierarchies, NEW q \in CgroupPath, MoveProcess(h, q)
      PROVE  CgroupInv'
  <2>1. /\ member \in [Hierarchies -> CgroupPath] /\ been \subseteq Hierarchies \X CgroupPath
        /\ \A k \in Hierarchies : <<k, member[k]>> \in been
    BY DEF CgroupInv
  <2>2. /\ UNCHANGED <<mounts, hookVars>> /\ exited' = exited
        /\ member' = [member EXCEPT ![h] = q] /\ been' = been \cup {<<h, q>>}
    BY <1>2 DEF MoveProcess
  <2>3. /\ member' \in [Hierarchies -> CgroupPath]
        /\ \A k \in Hierarchies : member'[k] = IF k = h THEN q ELSE member[k]
    BY <2>1, <2>2
  <2>4. \A k \in Hierarchies : <<k, member'[k]>> \in been'
    BY <2>1, <2>2, <2>3
  <2> QED BY <1>1, <2>1, <2>2, <2>3, <2>4
<1>3. ASSUME NEW h \in Hierarchies, NEW q \in CgroupPath, RemoveCgroup(h, q)
      PROVE  CgroupInv'
  BY <1>1, <1>3 DEF RemoveCgroup, CgroupInv
<1>4. CASE Exit
  BY <1>1, <1>4 DEF Exit, CgroupInv
\* What the hook does.
<1>5. ASSUME UNCHANGED <<mounts, member, exited, asked, been>>
      PROVE  /\ mounts' \in MountTables
             /\ member' \in [Hierarchies -> CgroupPath]
             /\ \A h \in Hierarchies : <<h, member'[h]>> \in been'
             /\ been' \subseteq Hierarchies \X CgroupPath
             /\ Unambiguous' <=> Unambiguous
             /\ \A h : FindsAsked(h)' <=> FindsAsked(h)
             /\ mount' = mount =>
                  /\ Hierarchy' = Hierarchy /\ (Visible' <=> Visible)
                  /\ relative' = relative => Shown' = Shown
  BY <1>5 DEF CgroupInv, Unambiguous, FindsAsked, Hierarchy, Visible, Shown
<1>6. CASE FindSubsystemMountPaths
  <2> DEFINE lines == IF exited THEN {}
                      ELSE {i \in DOMAIN mounts :
                              mounts[i].type = "cgroup" /\ FindsAsked(mounts[i].hierarchy)}
             first == CHOOSE i \in lines : \A j \in lines : i <= j
  <2>1. /\ UNCHANGED <<mounts, member, exited, asked, been>> /\ allowed' = {} /\ mount = 0
        /\ \/ hook' = "error" /\ mount' = 0
           \/ lines # {} /\ hook' = "cgroup" /\ mount' = first
    BY <1>6 DEF FindSubsystemMountPaths, HookStep, Goes, kernelVars, CgroupInv
  <2>2. ASSUME lines # {} PROVE first \in lines /\ first # 0 /\ first \in DOMAIN mounts
    <3>1. mounts \in Seq(ToSet(mounts))
      BY MountAssumption DEF CgroupInv, IsSequence
    <3>2. lines \subseteq DOMAIN mounts /\ DOMAIN mounts = 1..Len(mounts)
      BY <3>1
    <3>3. \E i \in lines : \A j \in lines : i <= j
      <4>1. lines \subseteq Nat
        BY <3>2
      <4> HIDE DEF lines
      <4> QED BY <2>2, <4>1, LeastNatural
    <3>4. first \in lines
      <4> HIDE DEF lines
      <4> QED BY <3>3
    <3> HIDE DEF lines, first
    <3> QED BY <3>2, <3>4
  <2>3. mount' # 0 => mount' \in DOMAIN mounts' /\ FindsAsked(Hierarchy)'
    BY <2>1, <2>2 DEF Hierarchy, FindsAsked
  <2>4. hook' \in {"cgroup", "error"} /\ (hook' = "cgroup" => mount' # 0)
    BY <2>1, <2>2
  <2> QED BY <1>5, <2>1, <2>3, <2>4 DEF CgroupInv
<1>7. CASE FindCgroupPathInHierarchy
  <2>1. /\ UNCHANGED <<mounts, member, exited, asked, been, mount, allowed>>
        /\ hook = "cgroup"
    BY <1>7 DEF FindCgroupPathInHierarchy, HookStep, kernelVars
  <2>2. /\ mount # 0 /\ allowed = {} /\ mount \in DOMAIN mounts
        /\ Hierarchy \in Hierarchies /\ FindsAsked(Hierarchy)
    BY <2>1, MountAssumption DEF CgroupInv, Hierarchy
  <2> DEFINE At(lines) == IF exited THEN 0 ELSE SelectInSeq(lines, FindsAsked)
  <2>3. PICK lines \in CgroupLines :
          LET q == member[lines[At(lines)]] IN
          \/ At(lines) = 0 /\ hook' = "undefined"
          \/ hook' = "error"
          \/ At(lines) # 0 /\ hook' = "found"
             /\ relative' = IF mounts[mount].root # <<>>
                               /\ StartsWith(PathString(q), PathString(mounts[mount].root))
                            THEN Relative(q, mounts[mount].root) ELSE q
    BY <1>7, Zenon DEF FindCgroupPathInHierarchy, Goes
  <2> DEFINE h == lines[At(lines)]
  <2>4. \/ exited /\ At(lines) = 0
        \/ At(lines) # 0 /\ h \in Hierarchies /\ FindsAsked(h)
    BY <2>2, FirstLine
  <2> HIDE DEF At
  <2>5. ASSUME hook' = "found", Unambiguous
        PROVE  \E q : <<Hierarchy, q>> \in been /\ FoundFor(q)'
    <3>1. At(lines) # 0 /\ h = Hierarchy
      BY <2>2, <2>3, <2>4, <2>5, OneHierarchy
    <3>2. PICK q : q = member[h]
      OBVIOUS
    <3>3. <<Hierarchy, q>> \in been
      BY <2>2, <3>1, <3>2 DEF CgroupInv
    <3>4. FoundFor(q)'
      BY <2>1, <2>3, <2>5, <3>2 DEF FoundFor
    <3> QED BY <3>3, <3>4
  <2>6. hook' \in {"undefined", "error", "found"} /\ (hook' = "undefined" => exited)
    BY <2>3, <2>4
  <2> QED BY <1>5, <2>1, <2>2, <2>5, <2>6 DEF CgroupInv
<1>8. CASE FindCgroupPath
  <2>1. /\ UNCHANGED <<mounts, member, exited, asked, been, mount, relative, allowed>>
        /\ hook = "found" /\ mount # 0 /\ allowed = {}
        /\ hook' \in {"whitelist", "error"}
        /\ hook' = "whitelist" => ~Outside(relative)
    BY <1>8 DEF FindCgroupPath, HookStep, Goes, kernelVars, CgroupInv
  <2>2. ASSUME hook' = "whitelist", Unambiguous, Visible
        PROVE  <<Hierarchy, Shown>> \in been
    <3>1. PICK q : <<Hierarchy, q>> \in been /\ FoundFor(q)
      BY <2>1, <2>2 DEF CgroupInv
    <3> QED BY <2>1, <2>2, <3>1, FoundIsShown
  <2>3. FindsAsked(Hierarchy) /\ mount \in DOMAIN mounts
    BY <2>1 DEF CgroupInv
  <2> QED BY <1>5, <2>1, <2>2, <2>3 DEF CgroupInv
<1>9. CASE WhitelistDeviceInCgroup
  <2>1. /\ UNCHANGED <<mounts, member, exited, asked, been, mount, relative>>
        /\ hook = "whitelist" /\ mount # 0 /\ allowed = {}
        /\ \/ hook' = "done" /\ allowed' = {<<Hierarchy, Shown>>}
           \/ hook' = "error" /\ allowed' = {}
    BY <1>9 DEF WhitelistDeviceInCgroup, Goes, CgroupInv
  <2>2. Unambiguous /\ Visible => <<Hierarchy, Shown>> \in been
    BY <2>1 DEF CgroupInv
  <2>3. FindsAsked(Hierarchy) /\ mount \in DOMAIN mounts
    BY <2>1 DEF CgroupInv
  <2> QED BY <1>5, <2>1, <2>2, <2>3 DEF CgroupInv
<1>10. CASE NotADevice
  <2>1. /\ UNCHANGED <<mounts, member, exited, asked, been, mount, relative, allowed>>
        /\ hook = "whitelist" /\ mount # 0 /\ allowed = {} /\ hook' = "error"
    BY <1>10 DEF NotADevice, HookStep, Goes, kernelVars, CgroupInv
  <2>2. FindsAsked(Hierarchy) /\ mount \in DOMAIN mounts
    BY <2>1 DEF CgroupInv
  <2> QED BY <1>5, <2>1, <2>2 DEF CgroupInv
<1>11. CASE UNCHANGED cgroupVars
  BY <1>1, <1>11 DEF cgroupVars, kernelVars, CgroupInv
<1> QED BY <1>2, <1>3, <1>4, <1>6, <1>7, <1>8, <1>9, <1>10, <1>11
        DEF CgroupNext, HookNext

LEMMA CgroupInvariant == CgroupSpec => []CgroupInv
<1>1. CgroupInit => CgroupInv
  BY DEF CgroupInit, CgroupInv
<1> QED BY <1>1, CgroupStep, PTL DEF CgroupSpec

\* Wherever the process is moved and whatever is removed while the hook looks,
\* the device is whitelisted in a cgroup of the process, and a line is read past
\* its end only when the process is gone.
THEOREM DeviceGoesToTheProcess == CgroupSpec => []CgroupIsTheProcesses
<1>1. CgroupInv => CgroupIsTheProcesses
  BY DEF CgroupInv, CgroupIsTheProcesses
<1> QED BY <1>1, CgroupInvariant, PTL
==============================================================================
