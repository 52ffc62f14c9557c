----------------------------- MODULE CallProofs ------------------------------
(***************************************************************************)
(* What a call of module Folders, or a destructor of module PathRAII, has  *)
(* done and has still to do at each of its steps while no other process    *)
(* changes the file system, for every call but copyFolder.                 *)
(*                                                                         *)
(* All is said of a call c and a file system f, and of d and g, what they  *)
(* are after a step.  In... says where a call is, ...StepWorks that a step *)
(* of it throws for one of the reasons of Excused, ends the call with all  *)
(* done that Promised asks for, or leaves it where In... says.             *)
(***************************************************************************)
EXTENDS PathRAIIProofs, WellFoundedInduction

(* Paths *)

Upto(q, k) == SubSeq(q, 1, k)

\* What a prefix is, name by name.
LEMMA PrefixFacts ==
  ASSUME NEW s \in Seq(Name), NEW t \in Seq(Name)
  PROVE  /\ Len(s) \in Nat /\ Len(t) \in Nat
         /\ IsPrefix(s, t) <=> Len(s) <= Len(t) /\ \A i \in 1..Len(s) : s[i] = t[i]
         /\ Len(s) = Len(t) /\ (\A i \in 1..Len(s) : s[i] = t[i]) => s = t
<1>1. Len(s) \in Nat /\ Len(t) \in Nat
  BY LenProperties
<1>2. Len(s) = Len(t) /\ (\A i \in 1..Len(s) : s[i] = t[i]) => s = t
  BY SeqEqual
<1>3. ASSUME Len(s) <= Len(t)
      PROVE  SubSeq(s, 1, Len(s)) = SubSeq(t, 1, Len(s)) <=> \A i \in 1..Len(s) : s[i] = t[i]
  <2>1. SubSeq(s, 1, Len(s)) = s
    BY SubSeqFull
  <2>2. \A i \in 1..Len(s) : t[i] \in Name
    BY <1>1, <1>3, LenProperties
  <2>3. /\ SubSeq(t, 1, Len(s)) \in Seq(Name)
        /\ Len(SubSeq(t, 1, Len(s))) = Len(s)
        /\ \A i \in 1..Len(s) : SubSeq(t, 1, Len(s))[i] = t[i]
    BY <1>1, <2>2, SubSeqProperties
  <2> QED BY <2>1, <2>3, SeqEqual
<1> QED BY <1>1, <1>2, <1>3 DEF IsPrefix

\* The first k names of a path.
LEMMA UptoFacts ==
  ASSUME NEW q \in Seq(Name), NEW k \in 0..Len(q)
  PROVE  /\ Len(q) \in Nat
         /\ Upto(q, k) \in Seq(Name) /\ Len(Upto(q, k)) = k
         /\ \A i \in 1..k : Upto(q, k)[i] = q[i]
         /\ IsPrefix(Upto(q, k), q)
         /\ k = 0 <=> Upto(q, k) = <<>>
         /\ k = Len(q) <=> Upto(q, k) = q
         /\ k # 0 => /\ Upto(q, k) \in Place
                     /\ Front(Upto(q, k)) = Upto(q, k - 1)
<1>1. Len(q) \in Nat /\ \A i \in 1..Len(q) : q[i] \in Name
  BY LenProperties
<1>2. /\ Upto(q, k) \in Seq(Name) /\ Len(Upto(q, k)) = k
      /\ \A i \in 1..k : Upto(q, k)[i] = q[i]
  BY <1>1, SubSeqProperties DEF Upto
<1>3. IsPrefix(Upto(q, k), q)
  BY <1>1, <1>2, PrefixFacts
<1>4. k = 0 <=> Upto(q, k) = <<>>
  BY <1>2, EmptySeq
<1>5. k = Len(q) <=> Upto(q, k) = q
  BY <1>2, SubSeqFull DEF Upto
<1>6. ASSUME k # 0 PROVE Front(Upto(q, k)) = Upto(q, k - 1)
  <2>1. Front(Upto(q, k)) = SubSeq(Upto(q, k), 1, k - 1)
    BY <1>2 DEF Front
  <2>2. CASE k = 1
    BY <2>1, <2>2, SubSeqEmpty DEF Upto
  <2>3. CASE k # 1
    <3>1. k \in 1..Len(q) /\ k - 1 \in 1..k /\ 1 \in 1..Len(q) /\ 1 \in 1..k
      BY <1>1, <1>6, <2>3
    <3>2. SubSeq(SubSeq(q, 1, k), 1, k - 1) = SubSeq(q, 1, k - 1)
      BY <1>1, <3>1, SubSeqOfSubSeq
    <3> QED BY <2>1, <3>2 DEF Upto
  <2> QED BY <2>2, <2>3
<1> QED BY <1>1, <1>2, <1>3, <1>4, <1>5, <1>6 DEF Place

\* A prefix is what the path begins with.
LEMMA PrefixIsUpto ==
  ASSUME NEW q \in Seq(Name), NEW d \in Seq(Name), IsPrefix(d, q)
  PROVE  Len(d) \in 0..Len(q) /\ d = Upto(q, Len(d))
<1>1. Len(d) \in 0..Len(q) /\ \A i \in 1..Len(d) : d[i] = q[i]
  BY PrefixFacts
<1>2. Upto(q, Len(d)) = d
  BY <1>1, UptoFacts, PrefixFacts
<1> QED BY <1>1, <1>2

\* The prefixes of a path are a chain.
LEMMA PrefixOrder ==
  ASSUME NEW s \in Seq(Name), NEW t \in Seq(Name), NEW q \in Seq(Name)
  PROVE  /\ IsPrefix(s, s)
         /\ IsPrefix(s, t) /\ IsPrefix(t, s) => s = t
         /\ IsPrefix(s, t) /\ IsPrefix(t, q) => IsPrefix(s, q)
         /\ IsPrefix(s, q) /\ IsPrefix(t, q) => IsPrefix(s, t) \/ IsPrefix(t, s)
         /\ IsPrefix(s, q) /\ IsPrefix(t, q) /\ Len(s) = Len(t) => s = t
BY PrefixFacts

\* What is above a path.
LEMMA AboveFacts ==
  ASSUME NEW q \in Seq(Name), NEW d
  PROVE  d \in Above(q) <=> d \in Place /\ IsPrefix(d, q) /\ d # q
<1>1. ASSUME d \in Above(q) PROVE d \in Place /\ IsPrefix(d, q) /\ d # q
  <2>1. PICK k \in 0..Len(q) : d = Upto(q, k)
    BY <1>1 DEF Above, Prefixes, Upto
  <2> QED BY <1>1, <2>1, UptoFacts DEF Above, Place
<1>2. ASSUME d \in Place, IsPrefix(d, q), d # q PROVE d \in Above(q)
  <2>1. Len(d) \in 0..Len(q) /\ d = Upto(q, Len(d))
    BY <1>2, PrefixIsUpto DEF Place
  <2> QED BY <1>2, <2>1 DEF Above, Prefixes, Upto, Place
<1> QED BY <1>1, <1>2

\* The folder above a path, once more.
LEMMA FrontPrefix ==
  ASSUME NEW q \in Place
  PROVE  /\ q \in Seq(Name) /\ Len(q) \in Nat \ {0}
         /\ Front(q) \in Seq(Name) /\ Len(Front(q)) = Len(q) - 1
         /\ IsPrefix(Front(q), q) /\ Front(q) # q /\ ~IsPrefix(q, Front(q))
         /\ Front(q) = Upto(q, Len(q) - 1)
         /\ \A d \in Seq(Name) : IsPrefix(d, q) /\ d # q => IsPrefix(d, Front(q))
<1>1. q \in Seq(Name) /\ Len(q) \in Nat \ {0}
  BY FrontFacts DEF Place
<1>2. Front(q) = Upto(q, Len(q) - 1)
  BY DEF Front, Upto
<1>3. /\ Front(q) \in Seq(Name) /\ Len(Front(q)) = Len(q) - 1
      /\ IsPrefix(Front(q), q) /\ Front(q) # q
      /\ \A i \in 1..(Len(q) - 1) : Front(q)[i] = q[i]
  <2> DEFINE k == Len(q) - 1
  <2>1. k \in 0..Len(q) /\ k # Len(q)
    BY <1>1
  <2> HIDE DEF k
  <2>2. /\ Upto(q, k) \in Seq(Name) /\ Len(Upto(q, k)) = k
        /\ IsPrefix(Upto(q, k), q) /\ Upto(q, k) # q
        /\ \A i \in 1..k : Upto(q, k)[i] = q[i]
    BY <1>1, <2>1, UptoFacts
  <2> QED BY <1>2, <2>2 DEF k
<1>4. ~IsPrefix(q, Front(q))
  BY <1>1, <1>3, PrefixFacts
<1>5. ASSUME NEW d \in Seq(Name), IsPrefix(d, q), d # q PROVE IsPrefix(d, Front(q))
  BY <1>1, <1>3, <1>5, PrefixFacts
<1> QED BY <1>1, <1>2, <1>3, <1>4, <1>5
------------------------------------------------------------------------------
(* File systems *)

\* What is at path q of the file system f.
Kind(f, q) == IF q = <<>> THEN "dir" ELSE IF q \in Path THEN f[q].kind ELSE "none"
There(f, q) == q # <<>> /\ Kind(f, q) # "none"
Tree(f) ==
  /\ f \in [Path -> Node]
  /\ \A q \in Path : IF f[q].kind = "none" THEN f[q] = Nothing
                                           ELSE Kind(f, Front(q)) = "dir"
Closed(p, f, q) ==
  \/ Len(q) > MaxDepth
  \/ Uid[p] # Root /\ \E a \in Above(q) : Kind(f, a) = "dir" /\ "x" \notin f[a].mode

\* The model's operators are those of the file system fs.
LEMMA KindFacts ==
  /\ \A q : IsDir(q) <=> Kind(fs, q) = "dir"
  /\ \A q : IsFile(q) <=> Kind(fs, q) = "file"
  /\ \A q : Exists(q) <=> There(fs, q)
  /\ \A p, q : Refused(p, q) <=> Closed(p, fs, q)
  /\ TreeOK <=> Tree(fs)
<1>1. /\ \A q : IsDir(q) <=> Kind(fs, q) = "dir"
      /\ \A q : IsFile(q) <=> Kind(fs, q) = "file"
      /\ \A q : Exists(q) <=> There(fs, q)
      /\ \A q \in Path : Exists(q) <=> fs[q].kind # "none"
  BY EmptyPath DEF IsDir, IsFile, Exists, Kind, There
<1>2. \A p, q : Refused(p, q) <=> Closed(p, fs, q)
  BY <1>1 DEF Refused, Closed
<1>3. TreeOK <=> Tree(fs)
  BY <1>1 DEF TreeOK, Tree
<1> QED BY <1>1, <1>2, <1>3

\* What is at a path of a tree.
LEMMA TreeFacts ==
  ASSUME NEW f, Tree(f), NEW q
  PROVE  /\ Kind(f, q) \in {"none", "dir", "file"}
         /\ There(f, q) => /\ q \in Path /\ f[q].kind = Kind(f, q) /\ q \in Place
                           /\ Kind(f, Front(q)) = "dir"
         /\ q \in Path => /\ f[q] \in Node /\ Kind(f, q) = f[q].kind
                          /\ There(f, q) <=> f[q].kind # "none"
BY EmptyPath, PathFacts DEF Tree, Kind, There, Node

\* A set of numbers has a least.
LEMMA Least ==
  ASSUME NEW T, T \subseteq Nat, T # {}
  PROVE  \E n \in T : \A k \in T : n <= k
<1> DEFINE R == {ss \in Nat \X Nat : ss[1] < ss[2]}
<1>1. IsWellFoundedOn(R, Nat)
  BY NatLessThanWellFounded DEF OpToRel
<1>2. PICK n \in T : \A k \in T : ~(<<k, n>> \in R)
  <2> HIDE DEF R
  <2> QED BY <1>1, WFMin
<1>3. \A k \in T : ~(k < n)
  BY <1>2
<1> QED BY <1>3

\* All that is above something is a directory.
LEMMA AncestorsAreDirs ==
  ASSUME NEW f, Tree(f), NEW q, There(f, q), NEW d \in Seq(Name),
         IsPrefix(d, q), d # q
  PROVE  Kind(f, d) = "dir"
<1> DEFINE n == Len(q)
           T == {k \in 0..(n - 1) : Kind(f, Upto(q, (n - 1) - k)) # "dir"}
<1>1. q \in Place /\ q \in Seq(Name) /\ n \in Nat \ {0} /\ Kind(f, Upto(q, n - 1)) = "dir"
  BY TreeFacts, FrontPrefix
<1>2. Len(d) \in 0..(n - 1) /\ d = Upto(q, Len(d))
  BY <1>1, PrefixIsUpto, UptoFacts
<1>3. T = {}
  <2> SUFFICES ASSUME T # {} PROVE FALSE
    OBVIOUS
  <2>1. PICK k \in T : \A i \in T : k <= i
    <3>1. T \subseteq Nat
      OBVIOUS
    <3> HIDE DEF T
    <3> QED BY <3>1, Least
  <2>2. k \in 1..(n - 1) /\ k - 1 \notin T /\ k - 1 \in 0..(n - 1)
    <3>1. k \in 0..(n - 1) /\ Kind(f, Upto(q, (n - 1) - k)) # "dir"
      BY <2>1
    <3>2. k # 0
      <4>1. (n - 1) - 0 = n - 1
        BY <1>1
      <4> QED BY <1>1, <3>1, <4>1
    <3> HIDE DEF n, T
    <3>3. k \in 1..(n - 1) /\ k - 1 \in 0..(n - 1) /\ ~(k <= k - 1)
      BY <1>1, <3>1, <3>2
    <3>4. k - 1 \notin T
      BY <2>1, <3>3
    <3> QED BY <3>3, <3>4
  <2> DEFINE m == n - k
  <2>3. m \in 1..(n - 1) /\ (n - 1) - (k - 1) = m /\ (n - 1) - k = m - 1
    BY <1>1, <2>2
  <2>4. Kind(f, Upto(q, m)) = "dir" /\ Kind(f, Upto(q, m - 1)) # "dir"
    <3>1. Kind(f, Upto(q, (n - 1) - (k - 1))) = "dir"
      BY <2>2
    <3>2. Kind(f, Upto(q, (n - 1) - k)) # "dir"
      BY <2>1
    <3> HIDE DEF m, n
    <3> QED BY <2>3, <3>1, <3>2
  <2> HIDE DEF m, T
  <2>5. Upto(q, m) # <<>> /\ Front(Upto(q, m)) = Upto(q, m - 1)
    BY <1>1, <2>3, UptoFacts
  <2>6. There(f, Upto(q, m))
    BY <2>4, <2>5 DEF There
  <2> QED BY <2>4, <2>5, <2>6, TreeFacts
<1>4. (n - 1) - Len(d) \in 0..(n - 1) /\ (n - 1) - ((n - 1) - Len(d)) = Len(d)
  BY <1>1, <1>2
<1>5. Kind(f, Upto(q, (n - 1) - ((n - 1) - Len(d)))) = "dir"
  BY <1>3, <1>4
<1> QED BY <1>2, <1>4, <1>5

\* Where the way down ends, nothing is below.
LEMMA NothingBelow ==
  ASSUME NEW f, Tree(f), NEW q, NEW d \in Seq(Name), IsPrefix(d, q), d # q,
         Kind(f, d) # "dir"
  PROVE  ~There(f, q)
BY AncestorsAreDirs

\* What is below a path that is closed is closed.
LEMMA ClosedAbove ==
  ASSUME NEW p, NEW f, NEW d \in Seq(Name), NEW q \in Seq(Name), IsPrefix(d, q),
         Closed(p, f, d)
  PROVE  Closed(p, f, q)
<1>1. Len(d) <= Len(q) /\ Len(d) \in Nat /\ Len(q) \in Nat /\ MaxDepth \in Nat
  BY PrefixFacts, DepthAssumption
<1>2. \A a \in Above(d) : a \in Above(q)
  <2> TAKE a \in Above(d)
  <2>1. a \in Seq(Name) /\ a \in Place /\ IsPrefix(a, d) /\ a # d
    BY AboveFacts DEF Place
  <2>2. IsPrefix(a, q) /\ a # q
    BY <2>1, PrefixOrder
  <2> QED BY <2>1, <2>2, AboveFacts
<1> QED BY <1>1, <1>2 DEF Closed
------------------------------------------------------------------------------
(* Agendas *)

\* The folders still to be made on the way to x, and what comes then.
ToMake(x, k, post) ==
  [i \in 1..(Len(x) - k) |-> Job("folder", Upto(x, i + k))] \o post

\* A job before others.
LEMMA ConsFacts ==
  ASSUME NEW j \in JobType, NEW s \in Seq(JobType)
  PROVE  /\ Cons(j, s) \in Seq(JobType) /\ Cons(j, s) # <<>>
         /\ Head(Cons(j, s)) = j /\ Tail(Cons(j, s)) = s
         /\ \A t \in Seq(JobType) : Cons(j, s) \o t = Cons(j, s \o t)
<1>1. <<j>> \in Seq(JobType) /\ Len(<<j>>) = 1 /\ <<j>>[1] = j
  OBVIOUS
<1>2. /\ Cons(j, s) \in Seq(JobType) /\ Len(Cons(j, s)) = 1 + Len(s) /\ Len(s) \in Nat
      /\ \A i \in 1..(1 + Len(s)) : Cons(j, s)[i] = IF i <= 1 THEN j ELSE s[i - 1]
  BY <1>1, ConcatProperties, LenProperties DEF Cons
<1>3. Cons(j, s) # <<>>
  BY <1>2, EmptySeq
<1>4. Head(Cons(j, s)) = j
  BY <1>2, <1>3
<1>5. Tail(Cons(j, s)) = s
  <2>1. /\ Tail(Cons(j, s)) \in Seq(JobType) /\ Len(Tail(Cons(j, s))) = Len(s)
        /\ \A i \in 1..Len(s) : Tail(Cons(j, s))[i] = Cons(j, s)[i + 1]
    BY <1>2, <1>3, HeadTailProperties
  <2>2. \A i \in 1..Len(s) : Cons(j, s)[i + 1] = s[i]
    BY <1>2
  <2> QED BY <2>1, <2>2, SeqEqual
<1>6. \A t \in Seq(JobType) : Cons(j, s) \o t = Cons(j, s \o t)
  BY <1>1, ConcatAssociative DEF Cons
<1> QED BY <1>2, <1>3, <1>4, <1>5, <1>6

\* Jobs are typed.
LEMMA JobTyped ==
  ASSUME NEW do \in JobName, NEW from \in Place, NEW at \in Place
  PROVE  /\ Job(do, at) \in JobType /\ Job(do, at).do = do
         /\ Job(do, at).at = at /\ Job(do, at).from = at
         /\ JobFrom(do, from, at) \in JobType /\ JobFrom(do, from, at).do = do
         /\ JobFrom(do, from, at).at = at /\ JobFrom(do, from, at).from = from
BY DEF Job, JobFrom, JobType

\* The folders to be made are made one by one.
LEMMA FoldersFacts ==
  ASSUME NEW x \in Seq(Name), NEW post \in Seq(JobType), NEW k \in 0..Len(x)
  PROVE  /\ ToMake(x, k, post) \in Seq(JobType)
         /\ k < Len(x) => /\ Upto(x, k + 1) \in Place
                          /\ ToMake(x, k, post) =
                               Cons(Job("folder", Upto(x, k + 1)), ToMake(x, k + 1, post))
         /\ k = Len(x) => ToMake(x, k, post) = post
         /\ ToMake(x, 0, post) = CreateFolders(x) \o post
<1> DEFINE S(n) == [i \in 1..(Len(x) - n) |-> Job("folder", Upto(x, i + n))]
<1>1. Len(x) \in Nat
  BY LenProperties
<1>2. ASSUME NEW n \in 0..Len(x)
      PROVE  /\ S(n) \in Seq(JobType) /\ Len(S(n)) = Len(x) - n
             /\ \A i \in 1..(Len(x) - n) : /\ S(n)[i] = Job("folder", Upto(x, i + n))
                                           /\ S(n)[i] \in JobType
  <2>1. ASSUME NEW i \in 1..(Len(x) - n) PROVE Job("folder", Upto(x, i + n)) \in JobType
    <3>1. i + n \in 0..Len(x) /\ i + n # 0
      BY <1>1
    <3>2. Upto(x, i + n) \in Place
      BY <3>1, UptoFacts
    <3> QED BY <3>2, JobTyped DEF JobName
  <2>2. Len(x) - n \in Nat
    BY <1>1
  <2>3. S(n) \in [1..(Len(x) - n) -> JobType]
    BY <2>1
  <2> QED BY <2>1, <2>2, <2>3
<1>3. ToMake(x, k, post) = S(k) \o post
  BY DEF ToMake
<1>4. ASSUME k < Len(x)
      PROVE  /\ Upto(x, k + 1) \in Place
             /\ S(k) \o post = Cons(Job("folder", Upto(x, k + 1)), S(k + 1) \o post)
  <2>1. k + 1 \in 0..Len(x) /\ k + 1 # 0
    BY <1>1, <1>4
  <2>2. Upto(x, k + 1) \in Place
    BY <2>1, UptoFacts
  <2> DEFINE j == Job("folder", Upto(x, k + 1))
  <2>3. j \in JobType
    BY <2>2, JobTyped DEF JobName
  <2>4. <<j>> \in Seq(JobType) /\ Len(<<j>>) = 1 /\ <<j>>[1] = j
    BY <2>3
  <2>5. /\ S(k) \in Seq(JobType) /\ Len(S(k)) = Len(x) - k
        /\ \A i \in 1..(Len(x) - k) : S(k)[i] = Job("folder", Upto(x, i + k))
    BY <1>2
  <2>6. /\ S(k + 1) \in Seq(JobType) /\ Len(S(k + 1)) = Len(x) - (k + 1)
        /\ \A i \in 1..(Len(x) - (k + 1)) : S(k + 1)[i] = Job("folder", Upto(x, i + (k + 1)))
    BY <1>2, <2>1
  <2>7. S(k) = <<j>> \o S(k + 1)
    <3> DEFINE u == S(k)
               v == S(k + 1)
    <3>0. /\ v \in Seq(JobType) /\ Len(v) = Len(x) - (k + 1) /\ Len(u) = Len(x) - k
      BY <2>5, <2>6
    <3>1. /\ <<j>> \o v \in Seq(JobType) /\ Len(<<j>> \o v) = 1 + Len(v)
          /\ \A i \in 1..(1 + Len(v)) : (<<j>> \o v)[i] = IF i <= 1 THEN j ELSE v[i - 1]
      <4> HIDE DEF v, j
      <4> QED BY <2>4, <3>0, ConcatProperties
    <3>2. Len(u) = 1 + Len(v)
      <4> HIDE DEF u, v
      <4> QED BY <1>1, <3>0
    <3>3. \A i \in 1..Len(u) : u[i] = (<<j>> \o v)[i]
      <4> TAKE i \in 1..Len(u)
      <4>1. CASE i = 1
        <5>1. u[1] = Job("folder", Upto(x, 1 + k))
          BY <1>1, <1>4, <2>5
        <5>2. (<<j>> \o v)[1] = j
          <6> HIDE DEF u, v, j
          <6> QED BY <3>0, <3>1, <1>1, <1>4
        <5>3. 1 + k = k + 1
          OBVIOUS
        <5> HIDE DEF u, v
        <5> QED BY <4>1, <5>1, <5>2, <5>3
      <4>2. CASE i # 1
        <5> DEFINE h == i - 1
        <5>1. h \in 1..(Len(x) - (k + 1)) /\ h + (k + 1) = i + k /\ i \in 1..(Len(x) - k)
          BY <1>1, <2>5, <4>2
        <5>2. u[i] = Job("folder", Upto(x, i + k))
          BY <2>5, <5>1
        <5>3. v[h] = Job("folder", Upto(x, h + (k + 1)))
          BY <2>6, <5>1
        <5>4. (<<j>> \o v)[i] = v[h]
          <6> HIDE DEF u, v, j
          <6> QED BY <3>0, <3>1, <3>2, <4>2, <1>1
        <5> HIDE DEF u, v, h
        <5> QED BY <5>1, <5>2, <5>3, <5>4
      <4> QED BY <4>1, <4>2
    <3> HIDE DEF u, v, j
    <3>4. u = <<j>> \o v
      BY <2>5, <3>1, <3>2, <3>3, SeqEqual DEF u
    <3> QED BY <3>4 DEF u, v, j
  <2> HIDE DEF S, j
  <2>8. (<<j>> \o S(k + 1)) \o post = <<j>> \o (S(k + 1) \o post)
    BY <2>4, <2>6, ConcatAssociative
  <2> QED BY <2>2, <2>7, <2>8 DEF Cons, j
<1>5. ASSUME k = Len(x) PROVE S(k) \o post = post
  <2>1. S(k) = <<>>
    BY <1>1, <1>2, <1>5, EmptySeq
  <2> QED BY <2>1, ConcatEmptySeq
<1>6. S(0) = CreateFolders(x)
  BY <1>1 DEF CreateFolders, Upto
<1>7. ToMake(x, 0, post) = S(0) \o post
  BY DEF ToMake
<1>8. ToMake(x, k + 1, post) = S(k + 1) \o post
  BY DEF ToMake
<1>9. S(k) \o post \in Seq(JobType)
  BY <1>2, ConcatProperties
<1> HIDE DEF S
<1> QED BY <1>3, <1>4, <1>5, <1>6, <1>7, <1>8, <1>9

(* Steps *)

\* The call c goes on as d, with other jobs in place of its first, or throws.
Goes(c, d, jobs) == d = [c EXCEPT !.todo = jobs \o Tail(c.todo)]
Fails(c, d)      == d = [c EXCEPT !.failed = TRUE]

Stepping(p) == FoldersInv /\ p \in Proc /\ (FolderStep(p) \/ DestructorStep(p))

\* An exception of boost at a path that is closed to p.
Refuses(p) ==
  /\ Fails(call[p], call'[p]) /\ fs' = fs
  /\ \E q \in Uses(Now(p)) : Closed(p, fs, q)

\* A call that goes on is the same call with other jobs.
LEMMA GoesFacts ==
  ASSUME NEW c \in CallType, c.todo # <<>>, NEW jobs \in Seq(JobType), NEW d,
         Goes(c, d, jobs)
  PROVE  /\ d \in CallType /\ d.todo = jobs \o Tail(c.todo) /\ d.failed = c.failed
         /\ d.op = c.op /\ d.from = c.from /\ d.at = c.at /\ d.own = c.own
         /\ d.before = c.before
<1>1. jobs \o Tail(c.todo) \in Seq(JobType)
  BY HeadTailProperties, ConcatProperties DEF CallType
<1> QED BY <1>1 DEF Goes, CallType

\* A step is that of the job at hand, or an exception of boost.
LEMMA StepOfJob ==
  ASSUME NEW p, Stepping(p)
  PROVE  /\ Active(p) /\ call[p] \in CallType /\ call[p].todo # <<>> /\ ~call[p].failed
         /\ Now(p) = Head(call[p].todo) /\ Now(p) \in JobType
         /\ Now(p).at \in Place /\ Now(p).from \in Place /\ Tree(fs)
         /\ \/ Refuses(p)
            \/ /\ \A q \in Uses(Now(p)) : ~Closed(p, fs, q)
               /\ \/ Now(p).do = "folder" /\ Folder(p)
                  \/ Now(p).do = "mkdir" /\ MakeDirectory(p)
                  \/ Now(p).do = "made" /\ CheckMade(p)
                  \/ Now(p).do = "chown" /\ SetOwner(p)
                  \/ Now(p).do = "file" /\ CheckFile(p)
                  \/ Now(p).do = "parent" /\ CheckParent(p)
                  \/ Now(p).do \in {"open", "write", "append"} /\ OpenFile(p)
                  \/ Now(p).do = "unlink" /\ RemoveIfExists(p)
                  \/ Now(p).do = "remove" /\ RemovePath(p)
                  \/ Now(p).do = "copy" /\ Copy(p)
                  \/ Now(p).do = "tree" /\ CheckSource(p)
                  \/ Now(p).do = "absent" /\ CheckAbsent(p)
                  \/ Now(p).do = "list" /\ ListFolder(p)
                  \/ Now(p).do = "entry" /\ CopyEntry(p)
                  \/ Now(p).do = "tidy" /\ CheckPath(p)
                  \/ Now(p).do = "widen" /\ Widen(p)
                  \/ Now(p).do = "clear" /\ Clear(p)
<1> DEFINE Clears == Active(p) /\ \A q \in Uses(Now(p)) : ~Refused(p, q)
<1>1. Folder(p) => Clears /\ Now(p).do = "folder"
  BY DEF Folder, Doing
<1>2. MakeDirectory(p) => Clears /\ Now(p).do = "mkdir"
  BY DEF MakeDirectory, Doing
<1>3. CheckMade(p) => Clears /\ Now(p).do = "made"
  BY DEF CheckMade, Doing
<1>4. SetOwner(p) => Clears /\ Now(p).do = "chown"
  BY DEF SetOwner, Doing
<1>5. CheckFile(p) => Clears /\ Now(p).do = "file"
  BY DEF CheckFile, Doing
<1>6. CheckParent(p) => Clears /\ Now(p).do = "parent"
  BY DEF CheckParent, Doing
<1>7. OpenFile(p) => Clears /\ Now(p).do \in {"open", "write", "append"}
  <2> SUFFICES ASSUME OpenFile(p) PROVE Clears /\ Now(p).do \in {"open", "write", "append"}
    OBVIOUS
  <2>1. \E do \in {"open", "write", "append"} : Doing(p, do)
    BY DEF OpenFile
  <2> QED BY <2>1 DEF Doing
<1>8. RemoveIfExists(p) => Clears /\ Now(p).do = "unlink"
  BY DEF RemoveIfExists, Doing
<1>9. RemovePath(p) => Clears /\ Now(p).do = "remove"
  BY DEF RemovePath, Doing
<1>10. Copy(p) => Clears /\ Now(p).do = "copy"
  BY DEF Copy, Doing
<1>11. CheckSource(p) => Clears /\ Now(p).do = "tree"
  BY DEF CheckSource, Doing
<1>12. CheckAbsent(p) => Clears /\ Now(p).do = "absent"
  BY DEF CheckAbsent, Doing
<1>13. ListFolder(p) => Clears /\ Now(p).do = "list"
  BY DEF ListFolder, Doing
<1>14. CopyEntry(p) => Clears /\ Now(p).do = "entry"
  BY DEF CopyEntry, Doing
<1>15. CheckPath(p) => Clears /\ Now(p).do = "tidy"
  BY DEF CheckPath, Doing
<1>16. Widen(p) => Clears /\ Now(p).do = "widen"
  BY DEF Widen, Doing
<1>17. Clear(p) => Clears /\ Now(p).do = "clear"
  BY DEF Clear, Doing
<1>18. ASSUME Refuse(p) PROVE Active(p) /\ Refuses(p)
  <2>1. call'[p] = [call[p] EXCEPT !.failed = TRUE] /\ fs' = fs /\ Active(p)
    BY <1>18 DEF Refuse, Throw, FoldersInv, Stepping
  <2>2. \E q \in Uses(Now(p)) : Closed(p, fs, q)
    BY <1>18, KindFacts DEF Refuse
  <2> QED BY <2>1, <2>2 DEF Refuses, Fails
<1>19. Clears => \A q \in Uses(Now(p)) : ~Closed(p, fs, q)
  BY KindFacts
<1> DEFINE Acts ==
         \/ Now(p).do = "folder" /\ Folder(p)
         \/ Now(p).do = "mkdir" /\ MakeDirectory(p)
         \/ Now(p).do = "made" /\ CheckMade(p)
         \/ Now(p).do = "chown" /\ SetOwner(p)
         \/ Now(p).do = "file" /\ CheckFile(p)
         \/ Now(p).do = "parent" /\ CheckParent(p)
         \/ Now(p).do \in {"open", "write", "append"} /\ OpenFile(p)
         \/ Now(p).do = "unlink" /\ RemoveIfExists(p)
         \/ Now(p).do = "remove" /\ RemovePath(p)
         \/ Now(p).do = "copy" /\ Copy(p)
         \/ Now(p).do = "tree" /\ CheckSource(p)
         \/ Now(p).do = "absent" /\ CheckAbsent(p)
         \/ Now(p).do = "list" /\ ListFolder(p)
         \/ Now(p).do = "entry" /\ CopyEntry(p)
         \/ Now(p).do = "tidy" /\ CheckPath(p)
         \/ Now(p).do = "widen" /\ Widen(p)
         \/ Now(p).do = "clear" /\ Clear(p)
<1>20. FolderStep(p) => Refuse(p) \/ (Clears /\ Acts)
  <2> HIDE DEF Clears
  <2> QED BY <1>1, <1>2, <1>3, <1>4, <1>5, <1>6, <1>7, <1>8, <1>9, <1>10, <1>11,
             <1>12, <1>13, <1>14 DEF FolderStep
<1>21. DestructorStep(p) => Clears /\ Acts
  <2> HIDE DEF Clears
  <2> QED BY <1>15, <1>16, <1>17 DEF DestructorStep
<1>22. Active(p)
  <2> HIDE DEF Acts
  <2> QED BY <1>18, <1>20, <1>21 DEF Stepping
<1>23. Refuses(p) \/ ((\A q \in Uses(Now(p)) : ~Closed(p, fs, q)) /\ Acts)
  <2> HIDE DEF Acts
  <2> QED BY <1>18, <1>19, <1>20, <1>21 DEF Stepping
<1>24. /\ call[p] \in CallType /\ call[p].todo # <<>> /\ ~call[p].failed
       /\ Now(p) = Head(call[p].todo)
  BY <1>22 DEF Active, Idle, Failed, Now, FoldersInv, Stepping
<1>25. Now(p) \in JobType /\ Now(p).at \in Place /\ Now(p).from \in Place /\ Tree(fs)
  BY <1>22, NowFacts, KindFacts DEF FoldersInv, Stepping
<1> HIDE DEF Acts
<1> QED BY <1>22, <1>23, <1>24, <1>25 DEF Acts

\* How the steps of the model come out.
LEMMA Outcomes ==
  ASSUME NEW p, Stepping(p)
  PROVE  /\ \A jobs : Continue(p, jobs) => Goes(call[p], call'[p], jobs)
         /\ Done(p) => Goes(call[p], call'[p], <<>>)
         /\ Throw(p) => Fails(call[p], call'[p])
BY DEF Stepping, FoldersInv, Continue, Done, Throw, Goes, Fails

(* Making things *)

Chowns(c) == c.todo # <<>> /\ Head(c.todo).do = "chown"
ChownNext(c, q) == Chowns(c) /\ Head(c.todo).at = q
Owed(p, c) == IF c.own # NoOwner /\ Uid[p] = Root THEN c.own ELSE Uid[p]

\* The call has left alone what was there, but what is in X; what is new, or in
\* X, has its owner or is about to be given to it.
Making(p, c, f, X) ==
  /\ \A q \in Path \ X : c.before[q].kind # "none" => f[q] = c.before[q]
  /\ \A q \in Path : f[q].kind # "none" /\ (c.before[q].kind = "none" \/ q \in X) =>
       f[q].owner = IF ChownNext(c, q) THEN Uid[p] ELSE Owed(p, c)
  /\ \A q \in Path : ChownNext(c, q) =>
       f[q].kind # "none" /\ (c.before[q].kind = "none" \/ q \in X)

\* The call c is creating the folders down to x, before the jobs of post.
ToFolder(c, f, x, post) ==
  \E k \in 1..Len(x) :
    /\ k = 1 \/ There(f, Upto(x, k - 1))
    /\ \/ c.todo = Cons(Job("folder", Upto(x, k)), ToMake(x, k, post))
       \/ /\ c.todo = Cons(Job("mkdir", Upto(x, k)),
                           Cons(Job("chown", Upto(x, k)), ToMake(x, k, post)))
          /\ ~There(f, Upto(x, k))
       \/ /\ c.todo = Cons(Job("chown", Upto(x, k)), ToMake(x, k, post))
          /\ There(f, Upto(x, k))

MakesFolders(c, f, x, post) ==
  \/ ToFolder(c, f, x, post)
  \/ c.todo = post /\ (x = <<>> \/ There(f, x))

\* What a step of a call that makes things does to the file system.
Quiet3(c, f, d, g) == ~Chowns(c) /\ ~Chowns(d) /\ g = f
Adds(p, c, f, d, g, q, node) ==
  /\ q \in Path /\ ~Chowns(c) /\ ChownNext(d, q)
  /\ node.kind # "none" /\ node.owner = Uid[p]
  /\ g = [f EXCEPT ![q] = node]
Gives(p, c, f, d, g, q) ==
  /\ q \in Path /\ ChownNext(c, q) /\ ~Chowns(d)
  /\ g = IF c.own # NoOwner /\ Uid[p] = Root THEN [f EXCEPT ![q].owner = c.own] ELSE f

SameCall(c, d) ==
  /\ d \in CallType /\ d.failed = c.failed
  /\ d.op = c.op /\ d.from = c.from /\ d.at = c.at /\ d.own = c.own
  /\ d.before = c.before

\* Nothing has changed.
LEMMA QuietKeeps ==
  ASSUME NEW p, NEW c, NEW f, NEW d, NEW g, NEW X, Making(p, c, f, X), SameCall(c, d),
         Quiet3(c, f, d, g)
  PROVE  Making(p, d, g, X)
BY DEF Making, SameCall, Quiet3, ChownNext, Owed

\* Something is new, and is given to its owner next.
LEMMA AddsKeeps ==
  ASSUME NEW p, NEW c, NEW f, NEW d, NEW g, NEW X, Making(p, c, f, X), SameCall(c, d),
         Tree(f), NEW q, NEW node, Adds(p, c, f, d, g, q, node),
         f[q].kind = "none" \/ q \in X
  PROVE  Making(p, d, g, X)
<1>1. \A r \in Path : g[r] = IF r = q THEN node ELSE f[r]
  BY DEF Adds, Tree
<1>2. \A r : ~ChownNext(c, r) /\ (ChownNext(d, r) <=> r = q)
  BY DEF Adds, ChownNext
<1>3. q \in Path /\ node.kind # "none" /\ node.owner = Uid[p]
  BY DEF Adds
<1>4. Owed(p, d) = Owed(p, c) /\ d.before = c.before
  BY DEF SameCall, Owed
<1>5. c.before[q].kind = "none" \/ q \in X
  BY <1>3 DEF Making
<1>6. ASSUME NEW r \in Path \ X, d.before[r].kind # "none" PROVE g[r] = d.before[r]
  BY <1>1, <1>4, <1>5, <1>6 DEF Making
<1>7. ASSUME NEW r \in Path, g[r].kind # "none", d.before[r].kind = "none" \/ r \in X
      PROVE  g[r].owner = IF ChownNext(d, r) THEN Uid[p] ELSE Owed(p, d)
  BY <1>1, <1>2, <1>3, <1>4, <1>7 DEF Making
<1>8. ASSUME NEW r \in Path, ChownNext(d, r)
      PROVE  g[r].kind # "none" /\ (d.before[r].kind = "none" \/ r \in X)
  BY <1>1, <1>2, <1>3, <1>4, <1>5, <1>8
<1> QED BY <1>6, <1>7, <1>8 DEF Making

\* It is given to its owner.
LEMMA GivesKeeps ==
  ASSUME NEW p, NEW c, NEW f, NEW d, NEW g, NEW X, Making(p, c, f, X), SameCall(c, d),
         Tree(f), NEW q, Gives(p, c, f, d, g, q)
  PROVE  /\ Making(p, d, g, X)
         /\ \A r \in Path : /\ g[r].kind = f[r].kind /\ g[r].text = f[r].text
                            /\ g[r].mode = f[r].mode /\ (r # q => g[r] = f[r])
<1>1. \A r \in Path : /\ r # q => g[r] = f[r]
                      /\ g[r].kind = f[r].kind /\ g[r].text = f[r].text
                      /\ g[r].mode = f[r].mode
  BY DEF Gives, Tree, Node
<1>2. \A r : ~ChownNext(d, r) /\ (ChownNext(c, r) <=> r = q)
  BY DEF Gives, ChownNext
<1>3. Owed(p, d) = Owed(p, c) /\ d.before = c.before
  BY DEF SameCall, Owed
<1>4. q \in Path /\ f[q].kind # "none" /\ (c.before[q].kind = "none" \/ q \in X)
      /\ f[q].owner = Uid[p]
  BY <1>2 DEF Making, Gives
<1>5. g[q].owner = Owed(p, c)
  BY <1>4 DEF Gives, Tree, Node, Owed
<1>6. ASSUME NEW r \in Path \ X, d.before[r].kind # "none" PROVE g[r] = d.before[r]
  BY <1>1, <1>3, <1>4, <1>6 DEF Making
<1>7. ASSUME NEW r \in Path, g[r].kind # "none", d.before[r].kind = "none" \/ r \in X
      PROVE  g[r].owner = IF ChownNext(d, r) THEN Uid[p] ELSE Owed(p, d)
  BY <1>1, <1>2, <1>3, <1>4, <1>5, <1>7 DEF Making
<1> QED BY <1>1, <1>2, <1>6, <1>7 DEF Making

\* The jobs that create a folder.
LEMMA DoesFolder ==
  ASSUME NEW p, Stepping(p), Now(p).do = "folder"
  PROVE  \/ Refuses(p)
         \/ /\ fs' = fs
            /\ Goes(call[p], call'[p],
                    IF There(fs, Now(p).at) THEN <<>>
                    ELSE <<Job("mkdir", Now(p).at), Job("chown", Now(p).at)>>)
<1>1. Refuses(p) \/ Folder(p)
  BY StepOfJob
<1> QED BY <1>1, Outcomes, KindFacts DEF Folder

\* A folder is made, or cannot be.
LEMMA DoesMkdir ==
  ASSUME NEW p, Stepping(p), Now(p).do = "mkdir", ~There(fs, Now(p).at)
  PROVE  \/ Refuses(p)
         \/ /\ Kind(fs, Front(Now(p).at)) # "dir"
            /\ Fails(call[p], call'[p]) /\ fs' = fs
         \/ /\ Now(p).at \in Path
            /\ Kind(fs, Front(Now(p).at)) = "dir"
            /\ fs' = [fs EXCEPT ![Now(p).at] = NewFolder(Uid[p])]
            /\ Goes(call[p], call'[p], <<>>)
<1>1. Refuses(p) \/ (MakeDirectory(p) /\ ~Closed(p, fs, Now(p).at))
  BY StepOfJob DEF Uses
<1>2. Now(p).at \in Place
  BY StepOfJob
<1>3. ~Closed(p, fs, Now(p).at) => Now(p).at \in Path
  BY <1>2, WithinDepth, KindFacts
<1>4. ~IsDir(Now(p).at) /\ ~IsFile(Now(p).at)
  BY <1>2, KindFacts DEF There, Place
<1> QED BY <1>1, <1>3, <1>4, Outcomes, KindFacts DEF MakeDirectory, Put

\* What is there is given away.
LEMMA DoesChown ==
  ASSUME NEW p, Stepping(p), Now(p).do = "chown", There(fs, Now(p).at)
  PROVE  \/ Refuses(p)
         \/ /\ fs' = IF call[p].own # NoOwner /\ Uid[p] = Root
                     THEN [fs EXCEPT ![Now(p).at].owner = call[p].own] ELSE fs
            /\ Goes(call[p], call'[p], <<>>)
<1>1. Refuses(p) \/ SetOwner(p)
  BY StepOfJob
<1>2. Exists(Now(p).at)
  BY KindFacts
<1>3. ASSUME SetOwner(p)
      PROVE  /\ fs' = IF call[p].own # NoOwner /\ Uid[p] = Root
                      THEN [fs EXCEPT ![Now(p).at].owner = call[p].own] ELSE fs
             /\ Done(p)
  BY <1>2, <1>3 DEF SetOwner, Put
<1> QED BY <1>1, <1>3, Outcomes

\* Nothing is made yet.
LEMMA StartFolders ==
  ASSUME NEW c, NEW f, NEW x \in Seq(Name), NEW post \in Seq(JobType),
         c.todo = ToMake(x, 0, post)
  PROVE  MakesFolders(c, f, x, post)
<1>1. Len(x) \in Nat /\ 0 \in 0..Len(x) /\ (x = <<>> <=> Len(x) = 0)
  BY LenProperties, EmptySeq
<1>2. CASE x = <<>>
  BY <1>1, <1>2, FoldersFacts DEF MakesFolders
<1>3. CASE x # <<>>
  <2>1. 1 \in 1..Len(x)
    BY <1>1, <1>3
  <2>2. c.todo = Cons(Job("folder", Upto(x, 0 + 1)), ToMake(x, 0 + 1, post))
    BY <1>1, <1>3, FoldersFacts
  <2> QED BY <2>1, <2>2 DEF MakesFolders, ToFolder
<1> QED BY <1>2, <1>3

\* The folder just found or made is there: on to the next.
LEMMA NextFolder ==
  ASSUME NEW d, NEW g, NEW x \in Seq(Name), NEW post \in Seq(JobType),
         NEW k \in 1..Len(x), There(g, Upto(x, k)), d.todo = ToMake(x, k, post),
         post # <<>> => Head(post).do # "chown"
  PROVE  MakesFolders(d, g, x, post) /\ ~Chowns(d)
<1>1. Len(x) \in Nat /\ k \in 0..Len(x)
  BY LenProperties
<1>2. CASE k = Len(x)
  BY <1>1, <1>2, FoldersFacts, UptoFacts DEF MakesFolders, Chowns
<1>3. CASE k # Len(x)
  <2>1. k + 1 \in 1..Len(x) /\ k + 1 \in 0..Len(x) /\ (k + 1) - 1 = k /\ k < Len(x)
    BY <1>1, <1>3
  <2>2. /\ d.todo = Cons(Job("folder", Upto(x, k + 1)), ToMake(x, k + 1, post))
        /\ Upto(x, k + 1) \in Place
    BY <1>1, <2>1, FoldersFacts
  <2>3. ToFolder(d, g, x, post)
    BY <2>1, <2>2 DEF ToFolder
  <2>4. ToMake(x, k + 1, post) \in Seq(JobType)
    BY <2>1, FoldersFacts
  <2> DEFINE j == Job("folder", Upto(x, k + 1))
  <2>5. j \in JobType /\ j.do = "folder"
    BY <2>2, JobTyped DEF JobName
  <2> HIDE DEF j
  <2>6. ~Chowns(d)
    BY <2>2, <2>4, <2>5, ConsFacts DEF Chowns, j
  <2> QED BY <2>3, <2>6 DEF MakesFolders
<1> QED BY <1>2, <1>3

\* What a job of c's that goes on with others leaves to do.
LEMMA GoesOn ==
  ASSUME NEW c \in CallType, NEW j \in JobType, NEW s \in Seq(JobType),
         c.todo = Cons(j, s), NEW d, NEW jobs \in Seq(JobType), Goes(c, d, jobs)
  PROVE  SameCall(c, d) /\ d.todo = jobs \o s
<1>1. c.todo # <<>> /\ Tail(c.todo) = s
  BY ConsFacts
<1>2. /\ d \in CallType /\ d.todo = jobs \o Tail(c.todo) /\ d.failed = c.failed
      /\ d.op = c.op /\ d.from = c.from /\ d.at = c.at /\ d.own = c.own
      /\ d.before = c.before
  BY <1>1, GoesFacts
<1> QED BY <1>1, <1>2 DEF SameCall

\* Short agendas.
LEMMA Pairs ==
  ASSUME NEW j \in JobType, NEW s \in Seq(JobType)
  PROVE  /\ \A k \in JobType : s = <<k>> => <<j, k>> = <<j>> \o s
         /\ \A k, l \in JobType : s = <<k, l>> => <<j, k, l>> = <<j>> \o s
<1>1. <<j>> \in Seq(JobType) /\ Len(<<j>>) = 1 /\ <<j>>[1] = j
  OBVIOUS
<1>2. /\ <<j>> \o s \in Seq(JobType) /\ Len(<<j>> \o s) = 1 + Len(s)
      /\ \A i \in 1..(1 + Len(s)) : (<<j>> \o s)[i] = IF i <= 1 THEN j ELSE s[i - 1]
  BY <1>1, ConcatProperties
<1> DEFINE t == <<j>> \o s
<1> HIDE DEF t
<1>3. ASSUME NEW k \in JobType, s = <<k>> PROVE <<j, k>> = t
  <2>1. Len(s) = 1 /\ s[1] = k
    BY <1>3
  <2>2. t \in Seq(JobType) /\ Len(t) = 2 /\ t[1] = j /\ t[2] = k
    BY <1>2, <2>1 DEF t
  <2>3. <<j, k>> \in Seq(JobType) /\ Len(<<j, k>>) = 2 /\ <<j, k>>[1] = j /\ <<j, k>>[2] = k
    OBVIOUS
  <2> DEFINE u == <<j, k>>
  <2> HIDE DEF u
  <2>4. \A i \in 1..2 : u[i] = t[i]
    BY <2>2, <2>3 DEF u
  <2>5. u = t
    BY <2>2, <2>3, <2>4, SeqEqual DEF u
  <2> QED BY <2>5 DEF u
<1>4. ASSUME NEW k \in JobType, NEW l \in JobType, s = <<k, l>> PROVE <<j, k, l>> = t
  <2>1. Len(s) = 2 /\ s[1] = k /\ s[2] = l
    BY <1>4
  <2>2. t \in Seq(JobType) /\ Len(t) = 3 /\ t[1] = j /\ t[2] = k /\ t[3] = l
    BY <1>2, <2>1 DEF t
  <2> DEFINE u == <<j, k, l>>
  <2>3. u \in Seq(JobType) /\ Len(u) = 3 /\ u[1] = j /\ u[2] = k /\ u[3] = l
    OBVIOUS
  <2> HIDE DEF u
  <2>4. \A i \in 1..3 : u[i] = t[i]
    BY <2>2, <2>3
  <2>5. u = t
    BY <2>2, <2>3, <2>4, SeqEqual
  <2> QED BY <2>5 DEF u
<1> QED BY <1>3, <1>4 DEF t

\* Short agendas before others.
LEMMA Shorts ==
  ASSUME NEW s \in Seq(JobType)
  PROVE  /\ <<>> \in Seq(JobType) /\ <<>> \o s = s
         /\ \A j \in JobType : <<j>> \in Seq(JobType) /\ <<j>> \o s = Cons(j, s)
         /\ \A j, k \in JobType :
              <<j, k>> \in Seq(JobType) /\ <<j, k>> \o s = Cons(j, Cons(k, s))
         /\ \A j, k, l \in JobType :
              <<j, k, l>> \in Seq(JobType) /\ <<j, k, l>> \o s = Cons(j, Cons(k, Cons(l, s)))
<1>1. <<>> \in Seq(JobType) /\ <<>> \o s = s
  BY ConcatEmptySeq, EmptySeq
<1>2. ASSUME NEW j \in JobType
      PROVE  <<j>> \in Seq(JobType) /\ <<j>> \o s = Cons(j, s)
  BY DEF Cons
<1>3. ASSUME NEW j \in JobType, NEW k \in JobType
      PROVE  <<j, k>> \in Seq(JobType) /\ <<j, k>> \o s = Cons(j, Cons(k, s))
  <2>1. <<j>> \in Seq(JobType) /\ <<k>> \in Seq(JobType) /\ <<j, k>> \in Seq(JobType)
    OBVIOUS
  <2>2. <<j, k>> = <<j>> \o <<k>>
    BY <2>1, Pairs
  <2>3. (<<j>> \o <<k>>) \o s = <<j>> \o (<<k>> \o s)
    BY <2>1, ConcatAssociative
  <2> QED BY <2>1, <2>2, <2>3 DEF Cons
<1>4. ASSUME NEW j \in JobType, NEW k \in JobType, NEW l \in JobType
      PROVE  <<j, k, l>> \in Seq(JobType) /\ <<j, k, l>> \o s = Cons(j, Cons(k, Cons(l, s)))
  <2>1. <<j>> \in Seq(JobType) /\ <<k, l>> \in Seq(JobType) /\ <<j, k, l>> \in Seq(JobType)
    OBVIOUS
  <2>2. <<j, k, l>> = <<j>> \o <<k, l>>
    BY <2>1, Pairs
  <2>3. (<<j>> \o <<k, l>>) \o s = <<j>> \o (<<k, l>> \o s)
    BY <2>1, ConcatAssociative
  <2>4. <<k, l>> \o s = Cons(k, Cons(l, s))
    <3>1. <<k>> \in Seq(JobType) /\ <<l>> \in Seq(JobType)
      OBVIOUS
    <3>0. <<k, l>> = <<k>> \o <<l>>
      BY <3>1, Pairs
    <3>2. (<<k>> \o <<l>>) \o s = <<k>> \o (<<l>> \o s)
      BY <3>1, ConcatAssociative
    <3> QED BY <3>0, <3>2 DEF Cons
  <2> QED BY <2>1, <2>2, <2>3, <2>4 DEF Cons
<1> QED BY <1>1, <1>2, <1>3, <1>4

\* A step of p's with the job j at hand and the jobs of s to come.
LEMMA AtHand ==
  ASSUME NEW p, Stepping(p), NEW j \in JobType, NEW s \in Seq(JobType),
         call[p].todo = Cons(j, s)
  PROVE  /\ Now(p) = j
         /\ Goes(call[p], call'[p], <<>>) => SameCall(call[p], call'[p]) /\ call'[p].todo = s
         /\ \A k \in JobType : Goes(call[p], call'[p], <<k>>) =>
              SameCall(call[p], call'[p]) /\ call'[p].todo = Cons(k, s)
         /\ \A k, l \in JobType : Goes(call[p], call'[p], <<k, l>>) =>
              SameCall(call[p], call'[p]) /\ call'[p].todo = Cons(k, Cons(l, s))
         /\ \A k, l, m \in JobType : Goes(call[p], call'[p], <<k, l, m>>) =>
              SameCall(call[p], call'[p]) /\ call'[p].todo = Cons(k, Cons(l, Cons(m, s)))
         /\ \A jobs \in Seq(JobType) : Goes(call[p], call'[p], jobs) =>
              SameCall(call[p], call'[p]) /\ call'[p].todo = jobs \o s
<1>1. call[p] \in CallType /\ Now(p) = Head(call[p].todo)
  BY StepOfJob
<1>2. Now(p) = j
  BY <1>1, ConsFacts
<1>3. ASSUME NEW jobs \in Seq(JobType), Goes(call[p], call'[p], jobs)
      PROVE  SameCall(call[p], call'[p]) /\ call'[p].todo = jobs \o s
  BY <1>1, <1>3, GoesOn
<1>4. ASSUME Goes(call[p], call'[p], <<>>)
      PROVE  SameCall(call[p], call'[p]) /\ call'[p].todo = s
  <2>1. <<>> \in Seq(JobType) /\ <<>> \o s = s
    BY Shorts
  <2> QED BY <1>3, <1>4, <2>1
<1>5. ASSUME NEW k \in JobType, Goes(call[p], call'[p], <<k>>)
      PROVE  SameCall(call[p], call'[p]) /\ call'[p].todo = Cons(k, s)
  <2>1. <<k>> \in Seq(JobType) /\ <<k>> \o s = Cons(k, s)
    BY Shorts
  <2> QED BY <1>3, <1>5, <2>1
<1>6. ASSUME NEW k \in JobType, NEW l \in JobType, Goes(call[p], call'[p], <<k, l>>)
      PROVE  SameCall(call[p], call'[p]) /\ call'[p].todo = Cons(k, Cons(l, s))
  <2>1. <<k, l>> \in Seq(JobType) /\ <<k, l>> \o s = Cons(k, Cons(l, s))
    BY Shorts
  <2> QED BY <1>3, <1>6, <2>1
<1>7. ASSUME NEW k \in JobType, NEW l \in JobType, NEW m \in JobType,
             Goes(call[p], call'[p], <<k, l, m>>)
      PROVE  SameCall(call[p], call'[p]) /\ call'[p].todo = Cons(k, Cons(l, Cons(m, s)))
  <2>1. /\ <<k, l, m>> \in Seq(JobType)
        /\ <<k, l, m>> \o s = Cons(k, Cons(l, Cons(m, s)))
    BY Shorts
  <2> QED BY <1>3, <1>7, <2>1
<1> QED BY <1>2, <1>3, <1>4, <1>5, <1>6, <1>7

\* What a step does while folders are created: it throws because the path is
\* closed or a file is in the way, looks, makes a folder or gives it away.
FolderChange(p, c, f, d, g, x) ==
  \E q \in Seq(Name) :
    /\ IsPrefix(q, x)
    /\ \/ Quiet3(c, f, d, g)
       \/ /\ Adds(p, c, f, d, g, q, NewFolder(Uid[p]))
          /\ ~There(f, q) /\ Kind(f, Front(q)) = "dir"
       \/ Gives(p, c, f, d, g, q)

\* A step of a call that is creating folders.
LEMMA FoldersPhase ==
  ASSUME NEW p, Stepping(p), NEW x \in Seq(Name), NEW post \in Seq(JobType),
         post # <<>> => Head(post).do # "chown", ToFolder(call[p], fs, x, post)
  PROVE  \/ /\ Fails(call[p], call'[p]) /\ fs' = fs
            /\ Closed(p, fs, x) \/ \E e \in Above(x) : Kind(fs, e) = "file"
         \/ /\ SameCall(call[p], call'[p])
            /\ MakesFolders(call'[p], fs', x, post)
            /\ FolderChange(p, call[p], fs, call'[p], fs', x)
<1> DEFINE c == call[p]
           d == call'[p]
           f == fs
           g == fs'
<1>1. PICK k \in 1..Len(x) :
        /\ k = 1 \/ There(f, Upto(x, k - 1))
        /\ \/ c.todo = Cons(Job("folder", Upto(x, k)), ToMake(x, k, post))
           \/ /\ c.todo = Cons(Job("mkdir", Upto(x, k)),
                               Cons(Job("chown", Upto(x, k)), ToMake(x, k, post)))
              /\ ~There(f, Upto(x, k))
           \/ /\ c.todo = Cons(Job("chown", Upto(x, k)), ToMake(x, k, post))
              /\ There(f, Upto(x, k))
  BY DEF ToFolder
<1> DEFINE q == Upto(x, k)
           rest == ToMake(x, k, post)
           folder == Job("folder", q)
           mkdir == Job("mkdir", q)
           chown == Job("chown", q)
<1>2. /\ Len(x) \in Nat /\ k \in 0..Len(x) /\ k # 0
      /\ q \in Place /\ q \in Seq(Name) /\ IsPrefix(q, x) /\ Front(q) = Upto(x, k - 1)
      /\ rest \in Seq(JobType)
  BY UptoFacts, FoldersFacts, LenProperties
<1>3. /\ folder \in JobType /\ folder.do = "folder" /\ folder.at = q
      /\ mkdir \in JobType /\ mkdir.do = "mkdir" /\ mkdir.at = q
      /\ chown \in JobType /\ chown.do = "chown" /\ chown.at = q
  BY <1>2, JobTyped DEF JobName
<1>4. /\ c \in CallType /\ Now(p) = Head(c.todo) /\ Tree(f) /\ c.todo # <<>>
  BY StepOfJob
<1> HIDE DEF q, rest, folder, mkdir, chown
<1>5. ASSUME Refuses(p), Now(p).at = q, Now(p).do \in {"folder", "mkdir", "chown"}
      PROVE  Fails(c, d) /\ g = f /\ Closed(p, f, x)
  <2>1. Closed(p, f, q)
    BY <1>5 DEF Refuses, Uses
  <2> QED BY <1>2, <1>5, <2>1, ClosedAbove DEF Refuses
<1>6. CASE c.todo = Cons(folder, rest)
  <2>1. /\ Now(p) = folder
        /\ Goes(c, d, <<>>) => SameCall(c, d) /\ d.todo = rest
        /\ Goes(c, d, <<mkdir, chown>>) =>
             SameCall(c, d) /\ d.todo = Cons(mkdir, Cons(chown, rest))
    BY <1>2, <1>3, <1>6, AtHand
  <2>2. ~Chowns(c)
    BY <1>3, <1>4, <2>1 DEF Chowns
  <2>3. CASE Refuses(p)
    BY <1>3, <1>5, <2>1, <2>3
  <2>4. CASE g = f /\ There(f, q) /\ Goes(c, d, <<>>)
    <3>1. SameCall(c, d)
      BY <2>1, <2>4
    <3>2. d.todo = rest
      BY <2>1, <2>4
    <3>3. MakesFolders(d, g, x, post) /\ ~Chowns(d)
      BY <2>4, <3>2, NextFolder DEF q, rest
    <3> QED BY <1>2, <2>2, <2>4, <3>1, <3>3 DEF FolderChange, Quiet3
  <2>5. CASE g = f /\ ~There(f, q) /\ Goes(c, d, <<mkdir, chown>>)
    <3>1. SameCall(c, d)
      BY <2>1, <2>5
    <3>2. d.todo = Cons(mkdir, Cons(chown, rest))
      BY <2>1, <2>5
    <3>3. MakesFolders(d, g, x, post)
      BY <1>1, <2>5, <3>2 DEF MakesFolders, ToFolder, q, rest, mkdir, chown
    <3>4. ~Chowns(d)
      <4>1. Cons(chown, rest) \in Seq(JobType)
        BY <1>2, <1>3, ConsFacts
      <4>2. Head(d.todo) = mkdir
        BY <1>3, <3>2, <4>1, ConsFacts
      <4> QED BY <1>3, <4>2 DEF Chowns
    <3> QED BY <1>2, <2>2, <2>5, <3>1, <3>3, <3>4 DEF FolderChange, Quiet3
  <2>6. Refuses(p) \/ (g = f /\ Goes(c, d, IF There(f, q) THEN <<>> ELSE <<mkdir, chown>>))
    BY <1>3, <2>1, DoesFolder DEF mkdir, chown
  <2> QED BY <2>3, <2>4, <2>5, <2>6
<1>7. CASE c.todo = Cons(mkdir, Cons(chown, rest)) /\ ~There(f, q)
  <2>0. Cons(chown, rest) \in Seq(JobType)
    BY <1>2, <1>3, ConsFacts
  <2>1. /\ Now(p) = mkdir
        /\ Goes(c, d, <<>>) => SameCall(c, d) /\ d.todo = Cons(chown, rest)
    BY <1>3, <1>7, <2>0, AtHand
  <2>2. ~Chowns(c)
    BY <1>3, <1>4, <2>1 DEF Chowns
  <2>3. CASE Refuses(p)
    BY <1>3, <1>5, <2>1, <2>3
  <2>4. CASE Kind(f, Front(q)) # "dir" /\ Fails(c, d) /\ g = f
    <3>1. Front(q) # <<>>
      BY <2>4 DEF Kind
    <3>2. k # 1
      BY <1>2, <3>1, SubSeqEmpty DEF Upto
    <3>3. There(f, Front(q))
      BY <1>1, <1>2, <3>2
    <3>4. Kind(f, Front(q)) = "file"
      BY <1>4, <2>4, <3>3, TreeFacts DEF There
    <3>5. Front(q) \in Above(x)
      <4>1. /\ Front(q) \in Seq(Name) /\ Front(q) # q /\ IsPrefix(Front(q), q)
        BY <1>2, FrontPrefix
      <4>2. IsPrefix(Front(q), x) /\ Front(q) # x
        BY <1>2, <4>1, PrefixOrder
      <4> QED BY <3>1, <4>1, <4>2, AboveFacts DEF Place
    <3> QED BY <2>4, <3>4, <3>5
  <2>5. CASE /\ q \in Path /\ Kind(f, Front(q)) = "dir"
             /\ g = [f EXCEPT ![q] = NewFolder(Uid[p])] /\ Goes(c, d, <<>>)
    <3>1. SameCall(c, d)
      BY <2>1, <2>5
    <3>2. d.todo = Cons(chown, rest)
      BY <2>1, <2>5
    <3>3. g[q] = NewFolder(Uid[p]) /\ NewFolder(Uid[p]).kind = "dir"
          /\ NewFolder(Uid[p]).owner = Uid[p]
      BY <1>4, <2>5 DEF Tree, NewFolder
    <3>4. There(g, q)
      BY <2>5, <3>3, EmptyPath DEF There, Kind
    <3>5. k = 1 \/ There(g, Upto(x, k - 1))
      <4>1. Front(q) # q /\ Kind(f, Front(q)) = "dir"
        BY <1>2, <2>5, FrontPrefix
      <4>2. Front(q) # <<>> => There(g, Front(q))
        BY <1>4, <2>5, <4>1 DEF There, Kind, Tree
      <4> QED BY <1>1, <1>2, <4>2 DEF There
    <3>6. MakesFolders(d, g, x, post)
      BY <3>2, <3>4, <3>5 DEF MakesFolders, ToFolder, q, rest, chown
    <3>7. ChownNext(d, q)
      BY <1>2, <1>3, <3>2, ConsFacts DEF ChownNext, Chowns
    <3>8. Adds(p, c, f, d, g, q, NewFolder(Uid[p]))
      BY <2>2, <2>5, <3>3, <3>7 DEF Adds
    <3> QED BY <1>2, <1>7, <2>5, <3>1, <3>6, <3>8 DEF FolderChange
  <2>6. ~There(fs, Now(p).at)
    BY <1>3, <1>7, <2>1
  <2>7. \/ Refuses(p)
        \/ Kind(f, Front(q)) # "dir" /\ Fails(c, d) /\ g = f
        \/ /\ q \in Path /\ Kind(f, Front(q)) = "dir"
           /\ g = [f EXCEPT ![q] = NewFolder(Uid[p])] /\ Goes(c, d, <<>>)
    <3>1. Now(p).at = q /\ Now(p).do = "mkdir"
      BY <1>3, <2>1
    <3> HIDE DEF c, d, f, g
    <3> QED BY <2>6, <3>1, DoesMkdir DEF c, d, f, g
  <2> QED BY <2>3, <2>4, <2>5, <2>7
<1>8. CASE c.todo = Cons(chown, rest) /\ There(f, q)
  <2>1. /\ Now(p) = chown
        /\ Goes(c, d, <<>>) => SameCall(c, d) /\ d.todo = rest
    BY <1>2, <1>3, <1>8, AtHand
  <2>2. ChownNext(c, q)
    BY <1>3, <1>4, <2>1 DEF ChownNext, Chowns
  <2>3. CASE Refuses(p)
    BY <1>3, <1>5, <2>1, <2>3
  <2>4. CASE /\ g = IF c.own # NoOwner /\ Uid[p] = Root
                    THEN [f EXCEPT ![q].owner = c.own] ELSE f
             /\ Goes(c, d, <<>>)
    <3>1. SameCall(c, d)
      BY <2>1, <2>4
    <3>2. d.todo = rest
      BY <2>1, <2>4
    <3>3. There(g, q)
      <4>1. q \in Path /\ f \in [Path -> Node]
        BY <1>4, <1>8, TreeFacts DEF Tree
      <4>2. g[q].kind = f[q].kind
        BY <2>4, <4>1 DEF Node
      <4> QED BY <1>8, <4>1, <4>2 DEF There, Kind
    <3>4. MakesFolders(d, g, x, post) /\ ~Chowns(d)
      BY <3>2, <3>3, NextFolder DEF q, rest
    <3>5. Gives(p, c, f, d, g, q)
      <4>1. q \in Path
        BY <1>4, <1>8, TreeFacts
      <4> QED BY <2>2, <2>4, <3>4, <4>1 DEF Gives
    <3> QED BY <1>2, <3>1, <3>4, <3>5 DEF FolderChange
  <2>5. \/ Refuses(p)
        \/ /\ g = IF c.own # NoOwner /\ Uid[p] = Root
                  THEN [f EXCEPT ![q].owner = c.own] ELSE f
           /\ Goes(c, d, <<>>)
    <3>1. Now(p).at = q /\ Now(p).do = "chown"
      BY <1>3, <2>1
    <3>2. There(fs, Now(p).at)
      BY <1>8, <3>1
    <3> HIDE DEF c, d, f, g
    <3> QED BY <3>1, <3>2, DoesChown DEF c, d, f, g
  <2> QED BY <2>3, <2>4, <2>5
<1> QED BY <1>1, <1>6, <1>7, <1>8 DEF q, rest, folder, mkdir, chown

\* Such a step leaves alone what it has to, and adds a folder at most.
LEMMA FolderChangeKeeps ==
  ASSUME NEW p, NEW c, NEW f, NEW d, NEW g, NEW X, Making(p, c, f, X), SameCall(c, d),
         Tree(f), NEW x \in Seq(Name), FolderChange(p, c, f, d, g, x)
  PROVE  /\ Making(p, d, g, X)
         /\ \A r \in Path :
              /\ ~IsPrefix(r, x) => g[r] = f[r]
              /\ \/ g[r].kind = f[r].kind /\ g[r].text = f[r].text /\ g[r].mode = f[r].mode
                 \/ /\ IsPrefix(r, x) /\ f[r].kind = "none" /\ g[r].kind = "dir"
                    /\ Kind(f, Front(r)) = "dir"
<1>1. PICK q \in Seq(Name) :
        /\ IsPrefix(q, x)
        /\ \/ Quiet3(c, f, d, g)
           \/ /\ Adds(p, c, f, d, g, q, NewFolder(Uid[p]))
              /\ ~There(f, q) /\ Kind(f, Front(q)) = "dir"
           \/ Gives(p, c, f, d, g, q)
  BY DEF FolderChange
<1>2. CASE Quiet3(c, f, d, g)
  BY <1>2, QuietKeeps DEF Quiet3
<1>3. CASE /\ Adds(p, c, f, d, g, q, NewFolder(Uid[p]))
           /\ ~There(f, q) /\ Kind(f, Front(q)) = "dir"
  <2>1. q \in Path /\ f[q].kind = "none"
    BY <1>3, TreeFacts DEF Adds
  <2>2. \A r \in Path : g[r] = IF r = q THEN NewFolder(Uid[p]) ELSE f[r]
    BY <1>3 DEF Adds, Tree
  <2>3. NewFolder(Uid[p]).kind = "dir"
    BY DEF NewFolder
  <2>4. Making(p, d, g, X)
    BY <1>3, <2>1, AddsKeeps
  <2> QED BY <1>1, <1>3, <2>1, <2>2, <2>3, <2>4
<1>4. CASE Gives(p, c, f, d, g, q)
  <2>1. /\ Making(p, d, g, X)
        /\ \A r \in Path : /\ g[r].kind = f[r].kind /\ g[r].text = f[r].text
                           /\ g[r].mode = f[r].mode /\ (r # q => g[r] = f[r])
    BY <1>4, GivesKeeps
  <2>2. \A r \in Path : ~IsPrefix(r, x) => g[r] = f[r]
    <3> SUFFICES ASSUME NEW r \in Path, ~IsPrefix(r, x) PROVE g[r] = f[r]
      OBVIOUS
    <3>1. r # q
      BY <1>1
    <3> QED BY <2>1, <3>1
  <2> QED BY <2>1, <2>2
<1> QED BY <1>1, <1>2, <1>3, <1>4
------------------------------------------------------------------------------
(* What a call promises *)

MovedTo(c, q) == c.at \o SubSeq(q, Len(c.from) + 1, Len(q))

\* Excused and Promised, of a call c and a file system f.
Pardoned(p, c, f) ==
  \/ Closed(p, f, c.from) \/ Closed(p, f, c.at)
  \/ \E q \in Above(c.at) : Kind(f, q) = "file"
  \/ /\ c.op = "copyFile"
     /\ \/ c.before[c.from].kind # "file"
        \/ c.from = c.at
        \/ \E d \in Below(c.at) : d # c.at /\ c.before[d].kind # "none"
  \/ /\ c.op = "copyFolder"
     /\ \/ c.before[c.from].kind # "dir"
        \/ c.before[c.at].kind # "none"
        \/ IsPrefix(c.from, c.at)
        \/ \E q \in Below(c.from) :
             /\ c.before[q].kind # "none"
             /\ \/ Closed(p, f, q) \/ Closed(p, f, MovedTo(c, q))
                \/ Kind(f, q) = "dir" /\ Uid[p] # Root /\ "r" \notin f[q].mode
  \/ c.op = "removeFile" /\ \E d \in Path : /\ Len(d) = Len(c.at) + 1
                                           /\ IsPrefix(c.at, d) /\ There(f, d)
  \/ c.op \in {"writeTextFile", "appendTextFile"} /\ Kind(f, c.at) = "dir"
  \/ /\ c.op = "~PathRAII"
     /\ \E q \in Below(c.at) :
          /\ There(f, q)
          /\ \/ Uid[p] \notin {Root, f[q].owner}
             \/ Kind(f, q) = "dir" /\ Uid[p] # Root /\ "r" \notin f[q].mode

RestKept(p, c, f) ==
  \A q \in Path :
    /\ f[q].kind # "none" /\ c.before[q].kind = "none" => f[q].owner = Owed(p, c)
    /\ c.before[q].kind # "none" /\ ~IsPrefix(c.at, q) => f[q] = c.before[q]

Fulfilled(p, c, f) ==
  /\ RestKept(p, c, f)
  /\ CASE c.op = "createFoldersIfNecessary" ->
            IF c.before[c.at].kind = "none" THEN Kind(f, c.at) = "dir"
                                            ELSE f[c.at] = c.before[c.at]
       [] c.op = "createFileIfNecessary" ->
            IF c.before[c.at].kind = "none"
            THEN Kind(f, c.at) = "file" /\ f[c.at].text = <<>>
            ELSE f[c.at] = c.before[c.at]
       [] c.op = "copyFile" ->
            /\ Kind(f, c.at) = "file" /\ f[c.at].owner = Owed(p, c)
            /\ f[c.at].text = c.before[c.from].text
       [] c.op = "copyFolder" ->
            /\ \A q \in Below(c.from) : c.before[q].kind # "none" =>
                 /\ f[MovedTo(c, q)].kind = c.before[q].kind
                 /\ c.before[q].kind = "file" => f[MovedTo(c, q)].text = c.before[q].text
            /\ \A d \in Below(c.at) : There(f, d) =>
                 \E q \in Below(c.from) : c.before[q].kind # "none" /\ d = MovedTo(c, q)
       [] c.op = "writeTextFile" -> Kind(f, c.at) = "file" /\ f[c.at].text = <<p>>
       [] c.op = "appendTextFile" ->
            Kind(f, c.at) = "file" /\ f[c.at].text = Append(c.before[c.at].text, p)
       [] OTHER -> ~There(f, c.at)

\* What the call was asked, and found.
Asked(c) ==
  /\ c \in CallType /\ c.op \in Op /\ c.from \in Path /\ c.at \in Path /\ Tree(c.before)
  /\ c.op \notin {"copyFile", "copyFolder"} => c.from = c.at
  /\ c.op \in {"removeFile", "writeTextFile", "appendTextFile", "~PathRAII"} =>
       c.own = NoOwner

\* Pardoned is what Excused says of p's call.
LEMMA PardonedIsExcused ==
  ASSUME NEW p, Asked(call[p]), Pardoned(p, call[p], fs)
  PROVE  Excused(p)
<1> DEFINE c == call[p]
<1>1. \A q \in Path : Before(p, q) = c.before[q].kind
  BY EmptyPath DEF Before
<1>2. c.from \in Path /\ c.at \in Path
  BY DEF Asked
<1>3. \A q : Below(q) \subseteq Path
  BY DEF Below
<1>4. \A q : MovedTo(c, q) = Moved(p, q)
  BY DEF MovedTo, Moved
<1>5. \A d \in Path : Len(d) = Len(c.at) + 1 /\ IsPrefix(c.at, d) /\ There(fs, d) =>
        Children(c.at) # {}
  BY KindFacts DEF Children
<1>6. \A q : Kind(fs, q) = "dir" /\ Uid[p] # Root /\ "r" \notin fs[q].mode =>
        IsDir(q) /\ ~CanList(p, q)
  BY KindFacts DEF CanList
<1>7. \A q \in Path : Uid[p] \notin {Root, fs[q].owner} => ~MayChangeMode(p, q)
  BY DEF MayChangeMode
<1> QED BY <1>1, <1>2, <1>3, <1>4, <1>5, <1>6, <1>7, KindFacts DEF Pardoned, Excused

\* Fulfilled is what Promised says of p's call.
LEMMA FulfilledIsPromised ==
  ASSUME NEW p, Asked(call[p]), Fulfilled(p, call[p], fs)
  PROVE  Promised(p)
<1> DEFINE c == call[p]
<1>1. \A q \in Path : Before(p, q) = c.before[q].kind /\ (Exists(q) <=> fs[q].kind # "none")
  BY EmptyPath DEF Before, Exists
<1>2. c.from \in Path /\ c.at \in Path /\ c.op \in Op
  BY DEF Asked
<1>3. \A q : Below(q) \subseteq Path
  BY DEF Below
<1>4. \A q : MovedTo(c, q) = Moved(p, q)
  BY DEF MovedTo, Moved
<1>5. Owed(p, c) = NewOwner(p)
  BY DEF Owed, NewOwner
<1>6. \A q \in Path :
       /\ Exists(q) /\ Before(p, q) = "none" => fs[q].owner = NewOwner(p)
       /\ Before(p, q) # "none" /\ ~IsPrefix(c.at, q) => fs[q] = c.before[q]
  BY <1>1, <1>5 DEF Fulfilled, RestKept
<1>7. CASE c.op = "createFoldersIfNecessary"
  BY <1>1, <1>2, <1>6, <1>7, KindFacts DEF Fulfilled, Promised
<1>8. CASE c.op = "createFileIfNecessary"
  BY <1>1, <1>2, <1>6, <1>8, KindFacts DEF Fulfilled, Promised
<1>9. CASE c.op = "copyFile"
  BY <1>1, <1>2, <1>5, <1>6, <1>9, KindFacts DEF Fulfilled, Promised
<1>10. CASE c.op = "copyFolder"
  <2>1. /\ \A q \in Below(c.from) : c.before[q].kind # "none" =>
             /\ fs[MovedTo(c, q)].kind = c.before[q].kind
             /\ c.before[q].kind = "file" => fs[MovedTo(c, q)].text = c.before[q].text
        /\ \A d \in Below(c.at) : There(fs, d) =>
             \E q \in Below(c.from) : c.before[q].kind # "none" /\ d = MovedTo(c, q)
    BY <1>10 DEF Fulfilled
  <2>2. /\ \A q \in Below(c.from) : Before(p, q) # "none" =>
             /\ fs[Moved(p, q)].kind = Before(p, q)
             /\ Before(p, q) = "file" => fs[Moved(p, q)].text = c.before[q].text
        /\ \A d \in Below(c.at) : Exists(d) =>
             \E q \in Below(c.from) : Before(p, q) # "none" /\ d = Moved(p, q)
    BY <1>1, <1>3, <1>4, <2>1, KindFacts
  <2> QED BY <1>6, <1>10, <2>2 DEF Promised
<1>11. CASE c.op = "writeTextFile"
  BY <1>1, <1>2, <1>6, <1>11, KindFacts DEF Fulfilled, Promised
<1>12. CASE c.op = "appendTextFile"
  BY <1>1, <1>2, <1>6, <1>12, KindFacts DEF Fulfilled, Promised
<1>13. CASE c.op \in {"removeFile", "~PathRAII"}
  BY <1>1, <1>2, <1>6, <1>13, KindFacts DEF Fulfilled, Promised
<1> QED BY <1>2, <1>7, <1>8, <1>9, <1>10, <1>11, <1>12, <1>13 DEF Op

\* A call that has made everything and given it away has kept the rest.
LEMMA MakingKept ==
  ASSUME NEW p, NEW c, NEW f, NEW X, Making(p, c, f, X), Asked(c), X \subseteq {c.at},
         ~Chowns(c)
  PROVE  RestKept(p, c, f)
<1>1. IsPrefix(c.at, c.at)
  BY PrefixOrder, PathFacts DEF Asked
<1> QED BY <1>1 DEF Making, RestKept, ChownNext

(* What each job does *)

\* A file is looked for.
LEMMA DoesFile ==
  ASSUME NEW p, Stepping(p), Now(p).do = "file"
  PROVE  \/ Refuses(p)
         \/ /\ fs' = fs
            /\ Goes(call[p], call'[p],
                    IF There(fs, Now(p).at) THEN <<>>
                    ELSE <<Job("parent", Now(p).at), Job("open", Now(p).at),
                           Job("chown", Now(p).at)>>)
<1>1. Refuses(p) \/ CheckFile(p)
  BY StepOfJob
<1> QED BY <1>1, Outcomes, KindFacts DEF CheckFile

\* Its folder is looked for.
LEMMA DoesParent ==
  ASSUME NEW p, Stepping(p), Now(p).do = "parent"
  PROVE  \/ Refuses(p)
         \/ /\ fs' = fs
            /\ Goes(call[p], call'[p], IF There(fs, Front(Now(p).at)) THEN <<>>
                                       ELSE CreateFolders(Front(Now(p).at)))
<1>1. Refuses(p) \/ CheckParent(p)
  BY StepOfJob
<1> QED BY <1>1, Outcomes, KindFacts DEF CheckParent

\* A file is opened and written, or cannot be.
LEMMA DoesOpen ==
  ASSUME NEW p, Stepping(p), Now(p).do \in {"open", "write", "append"}
  PROVE  LET at == Now(p).at
             keep == IF Now(p).do = "append" /\ Kind(fs, at) = "file" THEN fs[at].text ELSE <<>>
             new  == IF Now(p).do = "open" THEN <<>> ELSE <<p>>
             can  == Kind(fs, Front(at)) = "dir" /\ Kind(fs, at) # "dir"
         IN  \/ Refuses(p)
             \/ ~can /\ Fails(call[p], call'[p]) /\ fs' = fs
             \/ /\ can /\ at \in Path
                /\ fs' = [fs EXCEPT ![at] =
                     NewFile(IF Kind(fs, at) = "file" THEN fs[at].owner ELSE Uid[p], keep \o new)]
                /\ Goes(call[p], call'[p], <<>>)
<1>1. Refuses(p) \/ (OpenFile(p) /\ ~Closed(p, fs, Now(p).at))
  BY StepOfJob DEF Uses
<1>2. Now(p).at \in Place
  BY StepOfJob
<1>3. ~Closed(p, fs, Now(p).at) => Now(p).at \in Path
  BY <1>2, WithinDepth, KindFacts
<1> QED BY <1>1, <1>3, Outcomes, KindFacts DEF OpenFile, CanOpen, Put

\* A path to be removed is looked for.
LEMMA DoesUnlink ==
  ASSUME NEW p, Stepping(p), Now(p).do = "unlink"
  PROVE  \/ Refuses(p)
         \/ /\ fs' = fs
            /\ Goes(call[p], call'[p],
                    IF There(fs, Now(p).at) THEN <<Job("remove", Now(p).at)>> ELSE <<>>)
<1>1. Refuses(p) \/ RemoveIfExists(p)
  BY StepOfJob
<1> QED BY <1>1, Outcomes, KindFacts DEF RemoveIfExists

\* A child of q in the file system f.
ChildOf(f, q, d) == d \in Path /\ Len(d) = Len(q) + 1 /\ IsPrefix(q, d) /\ There(f, d)

\* A path is removed, or is a folder that is not empty.
LEMMA DoesRemove ==
  ASSUME NEW p, Stepping(p), Now(p).do = "remove"
  PROVE  LET at == Now(p).at
         IN  \/ Refuses(p)
             \/ /\ \E d : ChildOf(fs, at, d)
                /\ Fails(call[p], call'[p]) /\ fs' = fs
             \/ ~There(fs, at) /\ Goes(call[p], call'[p], <<>>) /\ fs' = fs
             \/ /\ There(fs, at) /\ ~\E d : ChildOf(fs, at, d)
                /\ Goes(call[p], call'[p], <<>>) /\ fs' = [fs EXCEPT ![at] = Nothing]
<1>1. Refuses(p) \/ RemovePath(p)
  BY StepOfJob
<1>2. Children(Now(p).at) = {d \in Path : ChildOf(fs, Now(p).at, d)}
  BY KindFacts DEF Children, ChildOf
<1>3. Children(Now(p).at) # {} <=> \E d : ChildOf(fs, Now(p).at, d)
  BY <1>2 DEF ChildOf
<1> QED BY <1>1, <1>3, Outcomes, KindFacts DEF RemovePath, Put

\* A file is copied, or cannot be.
LEMMA DoesCopy ==
  ASSUME NEW p, Stepping(p), Now(p).do = "copy"
  PROVE  LET j == Now(p)
             can == /\ Kind(fs, j.from) = "file" /\ ~There(fs, j.at)
                    /\ Kind(fs, Front(j.at)) = "dir"
         IN  \/ Refuses(p)
             \/ ~can /\ Fails(call[p], call'[p]) /\ fs' = fs
             \/ /\ can /\ j.at \in Path /\ Goes(call[p], call'[p], <<>>)
                /\ fs' = [fs EXCEPT ![j.at] = NewFile(Uid[p], fs[j.from].text)]
<1>1. Refuses(p) \/ (Copy(p) /\ ~Closed(p, fs, Now(p).at))
  BY StepOfJob DEF Uses
<1>2. Now(p).at \in Place
  BY StepOfJob
<1>3. ~Closed(p, fs, Now(p).at) => Now(p).at \in Path
  BY <1>2, WithinDepth, KindFacts
<1> QED BY <1>1, <1>3, Outcomes, KindFacts DEF Copy, Put

\* The last job.
LEMMA AtLast ==
  ASSUME NEW p, Stepping(p), NEW j \in JobType, call[p].todo = Cons(j, <<>>)
  PROVE  /\ Now(p) = j
         /\ Goes(call[p], call'[p], <<>>) => SameCall(call[p], call'[p]) /\ call'[p].todo = <<>>
         /\ \A k \in JobType : Goes(call[p], call'[p], <<k>>) =>
              SameCall(call[p], call'[p]) /\ call'[p].todo = Cons(k, <<>>)
         /\ \A k, l, m \in JobType : Goes(call[p], call'[p], <<k, l, m>>) =>
              SameCall(call[p], call'[p]) /\ call'[p].todo = Cons(k, Cons(l, Cons(m, <<>>)))
<1> DEFINE s == <<>>
<1>1. s \in Seq(JobType) /\ call[p].todo = Cons(j, s)
  BY Shorts
<1> HIDE DEF s
<1>2. /\ Now(p) = j
      /\ Goes(call[p], call'[p], <<>>) => SameCall(call[p], call'[p]) /\ call'[p].todo = s
      /\ \A k \in JobType : Goes(call[p], call'[p], <<k>>) =>
           SameCall(call[p], call'[p]) /\ call'[p].todo = Cons(k, s)
      /\ \A k, l, m \in JobType : Goes(call[p], call'[p], <<k, l, m>>) =>
           SameCall(call[p], call'[p]) /\ call'[p].todo = Cons(k, Cons(l, Cons(m, s)))
  BY <1>1, AtHand
<1> QED BY <1>2 DEF s
------------------------------------------------------------------------------
(* Calls that create one thing *)

\* What is new is a folder on the way to x.
FoldersOnly(c, f, x) ==
  \A q \in Path : f[q].kind # "none" /\ c.before[q].kind = "none" =>
    f[q].kind = "dir" /\ IsPrefix(q, x)

WayTo(p, c, f, x, post) ==
  MakesFolders(c, f, x, post) /\ Making(p, c, f, {}) /\ FoldersOnly(c, f, x)

\* A step of a call that is on its way to x.
LEMMA WayToStep ==
  ASSUME NEW p, Stepping(p), NEW x \in Seq(Name), NEW post \in Seq(JobType),
         post # <<>> => Head(post).do # "chown", ToFolder(call[p], fs, x, post),
         WayTo(p, call[p], fs, x, post)
  PROVE  \/ /\ Fails(call[p], call'[p]) /\ fs' = fs
            /\ Closed(p, fs, x) \/ \E e \in Above(x) : Kind(fs, e) = "file"
         \/ /\ SameCall(call[p], call'[p])
            /\ WayTo(p, call'[p], fs', x, post)
            /\ \A r \in Path : ~IsPrefix(r, x) => fs'[r] = fs[r]
<1> DEFINE c == call[p]
           d == call'[p]
<1>1. Tree(fs) /\ Making(p, c, fs, {}) /\ FoldersOnly(c, fs, x)
  BY StepOfJob DEF WayTo
<1>2. CASE /\ SameCall(c, d) /\ MakesFolders(d, fs', x, post)
           /\ FolderChange(p, c, fs, d, fs', x)
  <2>1. /\ Making(p, d, fs', {})
        /\ \A r \in Path :
             /\ ~IsPrefix(r, x) => fs'[r] = fs[r]
             /\ \/ /\ fs'[r].kind = fs[r].kind /\ fs'[r].text = fs[r].text
                   /\ fs'[r].mode = fs[r].mode
                \/ /\ IsPrefix(r, x) /\ fs[r].kind = "none" /\ fs'[r].kind = "dir"
                   /\ Kind(fs, Front(r)) = "dir"
    BY <1>1, <1>2, FolderChangeKeeps
  <2>2. d.before = c.before
    BY <1>2 DEF SameCall
  <2>3. FoldersOnly(d, fs', x)
    BY <1>1, <2>1, <2>2 DEF FoldersOnly
  <2> QED BY <1>2, <2>1, <2>3 DEF WayTo
<1> QED BY <1>2, FoldersPhase

\* The first job of a way is not to give something away.
LEMMA StartsQuiet ==
  ASSUME NEW c, NEW x \in Seq(Name), NEW post \in Seq(JobType), c.todo = ToMake(x, 0, post),
         post # <<>> => Head(post).do # "chown"
  PROVE  ~Chowns(c)
<1>1. Len(x) \in Nat /\ 0 \in 0..Len(x)
  BY LenProperties
<1>2. CASE Len(x) = 0
  <2>1. c.todo = post
    BY <1>1, <1>2, FoldersFacts
  <2> QED BY <2>1 DEF Chowns
<1>3. CASE Len(x) # 0
  <2> DEFINE j == Job("folder", Upto(x, 0 + 1))
             s == ToMake(x, 0 + 1, post)
  <2>1. Upto(x, 0 + 1) \in Place /\ c.todo = Cons(j, s)
    BY <1>1, <1>3, FoldersFacts
  <2>2. s \in Seq(JobType)
    <3>1. 0 + 1 \in 0..Len(x)
      BY <1>1, <1>3
    <3> QED BY <3>1, FoldersFacts
  <2>3. j \in JobType /\ j.do = "folder"
    BY <2>1, JobTyped DEF JobName
  <2> HIDE DEF j, s
  <2>4. Head(c.todo) = j
    BY <2>1, <2>2, <2>3, ConsFacts
  <2> QED BY <2>3, <2>4 DEF Chowns
<1> QED BY <1>2, <1>3

\* A call that has not begun.
LEMMA NotBegun ==
  ASSUME NEW p, NEW c, c.before = c.before, ~Chowns(c)
  PROVE  /\ Making(p, c, c.before, {}) /\ RestKept(p, c, c.before)
         /\ \A x : FoldersOnly(c, c.before, x)
BY DEF Making, ChownNext, RestKept, FoldersOnly
------------------------------------------------------------------------------
(* Where each call is *)

InFolders(p, c, f) == ToFolder(c, f, c.at, <<>>) /\ WayTo(p, c, f, c.at, <<>>)

ToOpen(c) == Cons(Job("open", c.at), Cons(Job("chown", c.at), <<>>))
InFile(p, c, f) ==
  \/ c.todo = Cons(Job("file", c.at), <<>>) /\ f = c.before
  \/ c.todo = Cons(Job("parent", c.at), ToOpen(c)) /\ f = c.before /\ ~There(f, c.at)
  \/ WayTo(p, c, f, Front(c.at), ToOpen(c)) /\ ~There(f, c.at)
  \/ /\ c.todo = Cons(Job("chown", c.at), <<>>) /\ Making(p, c, f, {})
     /\ Kind(f, c.at) = "file" /\ f[c.at].text = <<>>

ToCopy(c)   == Cons(JobFrom("copy", c.from, c.at), Cons(Job("chown", c.at), <<>>))
ToRemove(c) == Cons(Job("remove", c.at), ToCopy(c))
InCopy(p, c, f) ==
  \/ WayTo(p, c, f, Front(c.at), ToRemove(c))
  \/ /\ c.todo = ToCopy(c) /\ Making(p, c, f, {c.at})
     /\ FoldersOnly(c, f, Front(c.at)) /\ ~There(f, c.at)
     /\ Front(c.at) = <<>> \/ There(f, Front(c.at))
  \/ /\ c.todo = Cons(Job("chown", c.at), <<>>) /\ Making(p, c, f, {c.at})
     /\ Kind(f, c.at) = "file" /\ f[c.at].text = c.before[c.from].text

ToWrite(c) ==
  Cons(Job(IF c.op = "writeTextFile" THEN "write" ELSE "append", c.at), <<>>)
InWrite(p, c, f) == WayTo(p, c, f, Front(c.at), ToWrite(c))

InRemove(p, c, f) ==
  /\ f = c.before
  /\ \/ c.todo = Cons(Job("unlink", c.at), <<>>)
     \/ c.todo = Cons(Job("remove", c.at), <<>>)

\* How a step of a call comes out.
Throwing(p, c, d, g) == Fails(c, d) /\ Pardoned(p, c, g)
Ending(p, c, d, g)   == SameCall(c, d) /\ d.todo = <<>> /\ Fulfilled(p, d, g)

\* The steps of createFoldersIfNecessary.
LEMMA FoldersStepWorks ==
  ASSUME NEW p, Stepping(p), Asked(call[p]), call[p].op = "createFoldersIfNecessary",
         InFolders(p, call[p], fs)
  PROVE  \/ Throwing(p, call[p], call'[p], fs')
         \/ Ending(p, call[p], call'[p], fs')
         \/ SameCall(call[p], call'[p]) /\ InFolders(p, call'[p], fs')
<1> DEFINE c == call[p]
           d == call'[p]
           at == c.at
<1>1. at \in Path /\ at \in Seq(Name) /\ at \in Place /\ <<>> \in Seq(JobType)
  BY PathFacts, Shorts DEF Asked, Place
<1>2. CASE /\ Fails(c, d) /\ fs' = fs
           /\ Closed(p, fs, at) \/ \E e \in Above(at) : Kind(fs, e) = "file"
  BY <1>2 DEF Throwing, Pardoned
<1>3. CASE SameCall(c, d) /\ WayTo(p, d, fs', at, <<>>)
  <2>1. d.at = at /\ d.op = "createFoldersIfNecessary" /\ d.before = c.before
    BY <1>3 DEF SameCall
  <2>2. CASE ToFolder(d, fs', at, <<>>)
    BY <1>3, <2>1, <2>2 DEF InFolders
  <2>3. CASE d.todo = <<>> /\ There(fs', at)
    <3>1. /\ RestKept(p, d, fs')
      <4>1. Asked(d)
        BY <1>3 DEF Asked, SameCall
      <4> QED BY <1>3, <2>3, <4>1, MakingKept DEF WayTo, Chowns
    <3>2. IF d.before[at].kind = "none" THEN Kind(fs', at) = "dir"
                                        ELSE fs'[at] = d.before[at]
      BY <1>1, <1>3, <2>3, EmptyPath DEF WayTo, Making, FoldersOnly, There, Kind
    <3> QED BY <1>3, <2>1, <2>3, <3>1, <3>2 DEF Ending, Fulfilled
  <2> QED BY <1>1, <1>3, <2>2, <2>3 DEF WayTo, MakesFolders, Place
<1> QED BY <1>1, <1>2, <1>3, WayToStep DEF InFolders

\* The steps of removeFile.
LEMMA RemoveStepWorks ==
  ASSUME NEW p, Stepping(p), Asked(call[p]), call[p].op = "removeFile",
         InRemove(p, call[p], fs)
  PROVE  \/ Throwing(p, call[p], call'[p], fs')
         \/ Ending(p, call[p], call'[p], fs')
         \/ SameCall(call[p], call'[p]) /\ InRemove(p, call'[p], fs')
<1> DEFINE c == call[p]
           d == call'[p]
           at == c.at
           unlink == Job("unlink", at)
           remove == Job("remove", at)
<1>1. at \in Path /\ at \in Seq(Name) /\ at \in Place /\ <<>> \in Seq(JobType)
  BY PathFacts, Shorts DEF Asked, Place
<1>2. /\ unlink \in JobType /\ unlink.do = "unlink" /\ unlink.at = at
      /\ remove \in JobType /\ remove.do = "remove" /\ remove.at = at
  BY <1>1, JobTyped DEF JobName
<1>3. Refuses(p) /\ Now(p).at = at /\ Now(p).do \in {"unlink", "remove"} =>
        Throwing(p, c, d, fs')
  BY DEF Refuses, Uses, Throwing, Pardoned
<1>4. ASSUME SameCall(c, d), d.todo = <<>>, ~There(fs', at),
             \A q \in Path \ {at} : fs'[q] = fs[q]
      PROVE  Ending(p, c, d, fs')
  <2>1. fs = d.before /\ d.at = at /\ d.op = "removeFile"
    BY <1>4 DEF SameCall, InRemove
  <2>2. RestKept(p, d, fs')
    <3>1. IsPrefix(at, at)
      BY <1>1, PrefixOrder
    <3>2. fs'[at].kind = "none"
      BY <1>1, <1>4, EmptyPath DEF There, Kind
    <3> QED BY <1>1, <1>4, <2>1, <3>1, <3>2 DEF RestKept
  <2> QED BY <1>4, <2>1, <2>2 DEF Ending, Fulfilled
<1> HIDE DEF unlink, remove
<1>5. CASE c.todo = Cons(unlink, <<>>)
  <2>1. /\ Now(p) = unlink
        /\ Goes(c, d, <<>>) => SameCall(c, d) /\ d.todo = <<>>
        /\ Goes(c, d, <<remove>>) => SameCall(c, d) /\ d.todo = Cons(remove, <<>>)
    BY <1>2, <1>5, AtLast
  <2>2. Now(p).at = at /\ Now(p).do = "unlink"
    BY <1>2, <2>1
  <2>3. \/ Refuses(p)
        \/ fs' = fs /\ Goes(c, d, IF There(fs, at) THEN <<remove>> ELSE <<>>)
    BY <2>2, DoesUnlink DEF remove
  <2>4. CASE fs' = fs /\ There(fs, at) /\ Goes(c, d, <<remove>>)
    <3>1. SameCall(c, d) /\ d.todo = Cons(remove, <<>>)
      BY <2>1, <2>4
    <3> QED BY <2>4, <3>1 DEF InRemove, SameCall, remove
  <2>5. CASE fs' = fs /\ ~There(fs, at) /\ Goes(c, d, <<>>)
    <3>1. SameCall(c, d) /\ d.todo = <<>>
      BY <2>1, <2>5
    <3> QED BY <1>4, <2>5, <3>1
  <2> QED BY <1>3, <2>2, <2>3, <2>4, <2>5
<1>6. CASE c.todo = Cons(remove, <<>>)
  <2>1. /\ Now(p) = remove
        /\ Goes(c, d, <<>>) => SameCall(c, d) /\ d.todo = <<>>
    BY <1>2, <1>6, AtLast
  <2>2. Now(p).at = at /\ Now(p).do = "remove"
    BY <1>2, <2>1
  <2>3. \/ Refuses(p)
        \/ (\E e : ChildOf(fs, at, e)) /\ Fails(c, d) /\ fs' = fs
        \/ ~There(fs, at) /\ Goes(c, d, <<>>) /\ fs' = fs
        \/ There(fs, at) /\ Goes(c, d, <<>>) /\ fs' = [fs EXCEPT ![at] = Nothing]
    BY <2>2, DoesRemove
  <2>4. CASE (\E e : ChildOf(fs, at, e)) /\ Fails(c, d) /\ fs' = fs
    BY <2>4 DEF Throwing, Pardoned, ChildOf
  <2>5. CASE ~There(fs, at) /\ Goes(c, d, <<>>) /\ fs' = fs
    BY <1>4, <2>1, <2>5
  <2>6. CASE There(fs, at) /\ Goes(c, d, <<>>) /\ fs' = [fs EXCEPT ![at] = Nothing]
    <3>1. fs \in [Path -> Node]
      BY StepOfJob DEF Tree
    <3>2. ~There(fs', at) /\ \A q \in Path \ {at} : fs'[q] = fs[q]
      BY <1>1, <2>6, <3>1, EmptyPath DEF There, Kind, Nothing
    <3> QED BY <1>4, <2>1, <2>6, <3>2
  <2> QED BY <1>3, <2>2, <2>3, <2>4, <2>5, <2>6
<1> QED BY <1>5, <1>6 DEF InRemove, unlink, remove

\* The paths of a call and the folder above.
LEMMA AskedPaths ==
  ASSUME NEW c, Asked(c)
  PROVE  /\ c.at \in Path /\ c.at \in Seq(Name) /\ c.at \in Place /\ c.at # <<>>
         /\ c.from \in Path /\ c.from \in Seq(Name) /\ c.from \in Place
         /\ Front(c.at) \in Seq(Name) /\ IsPrefix(Front(c.at), c.at)
         /\ ~IsPrefix(c.at, Front(c.at)) /\ IsPrefix(c.at, c.at)
         /\ Tree(c.before) /\ c \in CallType /\ c.op \in Op
<1>1. /\ c.at \in Path /\ c.at \in Seq(Name) /\ c.at \in Place /\ c.at # <<>>
      /\ c.from \in Path /\ c.from \in Seq(Name) /\ c.from \in Place
  BY PathFacts DEF Asked, Place
<1> QED BY <1>1, FrontPrefix, PrefixOrder DEF Asked

\* Why a call may throw while it makes the folder above its path.
LEMMA FolderAbove ==
  ASSUME NEW p, NEW c, NEW f, Asked(c), Tree(f)
  PROVE  /\ Closed(p, f, Front(c.at)) => Pardoned(p, c, f)
         /\ (\E e \in Above(Front(c.at)) : Kind(f, e) = "file") => Pardoned(p, c, f)
         /\ /\ Front(c.at) = <<>> \/ There(f, Front(c.at))
            /\ Kind(f, Front(c.at)) # "dir"
            => Pardoned(p, c, f)
<1> DEFINE x == Front(c.at)
<1>1. /\ c.at \in Seq(Name) /\ c.at # <<>> /\ x \in Seq(Name) /\ IsPrefix(x, c.at)
      /\ ~IsPrefix(c.at, x) /\ IsPrefix(c.at, c.at)
  BY AskedPaths
<1> HIDE DEF x
<1>2. Closed(p, f, x) => Closed(p, f, c.at)
  BY <1>1, ClosedAbove
<1>3. \A e \in Above(x) : e \in Above(c.at)
  <2> TAKE e \in Above(x)
  <2>1. e \in Seq(Name) /\ e # <<>> /\ IsPrefix(e, x)
    BY <1>1, AboveFacts DEF Place
  <2>2. IsPrefix(e, c.at) /\ e # c.at
    BY <1>1, <2>1, PrefixOrder
  <2> QED BY <1>1, <2>1, <2>2, AboveFacts DEF Place
<1>4. x # <<>> => x \in Above(c.at)
  BY <1>1, AboveFacts DEF Place
<1>5. Kind(f, <<>>) = "dir" /\ Kind(f, x) \in {"none", "dir", "file"}
  BY TreeFacts DEF Kind
<1> QED BY <1>2, <1>3, <1>4, <1>5 DEF Pardoned, There, x

AddsFile(p, c, f, d, g, X, text) ==
  /\ SameCall(c, d) /\ Making(p, c, f, X) /\ ~Chowns(c)
  /\ d.todo = Cons(Job("chown", c.at), <<>>)
  /\ c.at \in X \/ f[c.at].kind = "none"
  /\ g = [f EXCEPT ![c.at] = NewFile(Uid[p], text)]

\* A new path, or one in X, is written and given to its owner next.
LEMMA FileAdded ==
  ASSUME NEW p, NEW c, NEW f, NEW d, NEW g, NEW X, NEW text, Asked(c), Tree(f),
         AddsFile(p, c, f, d, g, X, text)
  PROVE  Making(p, d, g, X) /\ Kind(g, c.at) = "file" /\ g[c.at].text = text
<1> DEFINE node == NewFile(Uid[p], text)
<1>1. c.at \in Path /\ c.at \in Place /\ c.at # <<>>
  BY AskedPaths
<1>2. node.kind = "file" /\ node.owner = Uid[p] /\ node.text = text
  BY DEF NewFile
<1> HIDE DEF node
<1>3. ChownNext(d, c.at)
  <2> DEFINE j == Job("chown", c.at)
             s == <<>>
  <2>1. j \in JobType /\ j.do = "chown" /\ j.at = c.at /\ s \in Seq(JobType)
    BY <1>1, JobTyped, Shorts DEF JobName
  <2> HIDE DEF j, s
  <2>2. Cons(j, s) # <<>> /\ Head(Cons(j, s)) = j
    BY <2>1, ConsFacts
  <2> QED BY <2>1, <2>2 DEF ChownNext, Chowns, j, s, AddsFile
<1>4. Adds(p, c, f, d, g, c.at, node)
  BY <1>1, <1>2, <1>3 DEF Adds, AddsFile, node
<1>5. Making(p, d, g, X)
  BY <1>4, AddsKeeps DEF AddsFile
<1>6. g[c.at] = node
  BY <1>1 DEF Tree, AddsFile, node
<1> QED BY <1>1, <1>2, <1>5, <1>6 DEF Kind

\* The last job of a call that makes a file.
LEMMA FileGiven ==
  ASSUME NEW p, Stepping(p), Asked(call[p]), NEW X, X \subseteq {call[p].at},
         call[p].todo = Cons(Job("chown", call[p].at), <<>>),
         Making(p, call[p], fs, X), Kind(fs, call[p].at) = "file"
  PROVE  \/ Throwing(p, call[p], call'[p], fs')
         \/ /\ SameCall(call[p], call'[p]) /\ call'[p].todo = <<>>
            /\ Making(p, call'[p], fs', X) /\ RestKept(p, call'[p], fs')
            /\ Kind(fs', call[p].at) = "file" /\ fs'[call[p].at].text = fs[call[p].at].text
<1> DEFINE c == call[p]
           d == call'[p]
           at == c.at
           chown == Job("chown", at)
           new == IF c.own # NoOwner /\ Uid[p] = Root THEN [fs EXCEPT ![at].owner = c.own] ELSE fs
<1>1. at \in Path /\ at \in Place /\ at # <<>>
  BY AskedPaths
<1>2. chown \in JobType /\ chown.do = "chown" /\ chown.at = at
  BY <1>1, JobTyped DEF JobName
<1> HIDE DEF chown
<1>3. /\ Now(p) = chown
      /\ Goes(c, d, <<>>) => SameCall(c, d) /\ d.todo = <<>>
  BY <1>2, AtLast DEF chown
<1>4. Now(p).at = at /\ Now(p).do = "chown" /\ There(fs, at)
  BY <1>1, <1>2, <1>3 DEF There
<1>5. Refuses(p) \/ (fs' = new /\ Goes(c, d, <<>>))
  BY <1>4, DoesChown
<1>6. CASE Refuses(p)
  BY <1>4, <1>6 DEF Refuses, Uses, Throwing, Pardoned
<1>7. CASE fs' = new /\ Goes(c, d, <<>>)
  <2>1. SameCall(c, d) /\ d.todo = <<>>
    BY <1>3, <1>7
  <2>2. ChownNext(c, at) /\ Tree(fs)
    BY <1>2, <1>3, StepOfJob DEF ChownNext, Chowns
  <2>3. Gives(p, c, fs, d, fs', at)
    BY <1>1, <1>7, <2>1, <2>2 DEF Gives, Chowns
  <2>4. /\ Making(p, d, fs', X)
        /\ fs'[at].kind = fs[at].kind /\ fs'[at].text = fs[at].text
    BY <1>1, <2>1, <2>2, <2>3, GivesKeeps
  <2>5. RestKept(p, d, fs')
    <3>1. Asked(d) /\ d.at = at
      BY <2>1 DEF Asked, SameCall
    <3> QED BY <2>1, <2>4, <3>1, MakingKept DEF Chowns
  <2> QED BY <1>1, <2>1, <2>4, <2>5 DEF Kind
<1> QED BY <1>5, <1>6, <1>7

\* The steps of createFileIfNecessary.
LEMMA FileStepWorks ==
  ASSUME NEW p, Stepping(p), Asked(call[p]), call[p].op = "createFileIfNecessary",
         InFile(p, call[p], fs)
  PROVE  \/ Throwing(p, call[p], call'[p], fs')
         \/ Ending(p, call[p], call'[p], fs')
         \/ SameCall(call[p], call'[p]) /\ InFile(p, call'[p], fs')
<1> DEFINE c == call[p]
           d == call'[p]
           at == c.at
           file == Job("file", at)
           parent == Job("parent", at)
           open == Job("open", at)
           chown == Job("chown", at)
           toChown == Cons(chown, <<>>)
           toOpen == Cons(open, toChown)
<1>1. /\ at \in Path /\ at \in Seq(Name) /\ at \in Place /\ at # <<>>
      /\ Front(at) \in Seq(Name) /\ ~IsPrefix(at, Front(at)) /\ Tree(fs)
  BY AskedPaths, StepOfJob
<1>2. /\ file \in JobType /\ file.do = "file" /\ file.at = at
      /\ parent \in JobType /\ parent.do = "parent" /\ parent.at = at
      /\ open \in JobType /\ open.do = "open" /\ open.at = at
      /\ chown \in JobType /\ chown.do = "chown" /\ chown.at = at
  BY <1>1, JobTyped DEF JobName
<1>3. ToOpen(c) = toOpen
  BY DEF ToOpen
<1>4. Refuses(p) /\ Now(p).at = at /\ Now(p).do \in {"file", "parent", "open"} =>
        Throwing(p, c, d, fs')
  BY DEF Refuses, Uses, Throwing, Pardoned
<1> HIDE DEF file, parent, open, chown
<1>5. toChown \in Seq(JobType) /\ toOpen \in Seq(JobType) /\ toOpen # <<>> /\ Head(toOpen) = open
  <2> DEFINE s == <<>>
  <2>1. s \in Seq(JobType)
    BY Shorts
  <2> HIDE DEF s
  <2>2. Cons(chown, s) \in Seq(JobType)
    BY <1>2, <2>1, ConsFacts
  <2>3. /\ Cons(open, Cons(chown, s)) \in Seq(JobType) /\ Cons(open, Cons(chown, s)) # <<>>
        /\ Head(Cons(open, Cons(chown, s))) = open
    BY <1>2, <2>2, ConsFacts
  <2> QED BY <2>2, <2>3 DEF s
<1> HIDE DEF toChown, toOpen
<1>6. CASE c.todo = Cons(file, <<>>) /\ fs = c.before
  <2>1. /\ Now(p) = file
        /\ Goes(c, d, <<>>) => SameCall(c, d) /\ d.todo = <<>>
        /\ Goes(c, d, <<parent, open, chown>>) =>
             SameCall(c, d) /\ d.todo = Cons(parent, toOpen)
    BY <1>2, <1>6, AtLast DEF toOpen, toChown
  <2>2. Now(p).at = at /\ Now(p).do = "file"
    BY <1>2, <2>1
  <2>3. \/ Refuses(p)
        \/ fs' = fs /\ Goes(c, d, IF There(fs, at) THEN <<>> ELSE <<parent, open, chown>>)
    BY <2>2, DoesFile DEF parent, open, chown
  <2>4. CASE fs' = fs /\ There(fs, at) /\ Goes(c, d, <<>>)
    <3>1. SameCall(c, d) /\ d.todo = <<>> /\ d.before = fs' /\ d.at = at
          /\ d.op = "createFileIfNecessary"
      BY <1>6, <2>1, <2>4 DEF SameCall
    <3>2. RestKept(p, d, fs')
      BY <3>1, NotBegun DEF Chowns
    <3>3. d.before[at].kind # "none"
      BY <1>1, <2>4, <3>1 DEF There, Kind
    <3> QED BY <3>1, <3>2, <3>3 DEF Ending, Fulfilled
  <2>5. CASE fs' = fs /\ ~There(fs, at) /\ Goes(c, d, <<parent, open, chown>>)
    <3>1. SameCall(c, d) /\ d.todo = Cons(parent, toOpen)
      BY <2>1, <2>5
    <3>2. d.at = at /\ d.before = c.before
      BY <3>1 DEF SameCall
    <3>3. ToOpen(d) = toOpen
      BY <3>2, <1>3 DEF ToOpen
    <3> QED BY <1>6, <2>5, <3>1, <3>2, <3>3 DEF InFile, parent
  <2> QED BY <1>4, <2>2, <2>3, <2>4, <2>5
<1>7. CASE c.todo = Cons(parent, toOpen) /\ fs = c.before /\ ~There(fs, at)
  <2>1. /\ Now(p) = parent
        /\ Goes(c, d, <<>>) => SameCall(c, d) /\ d.todo = toOpen
        /\ \A jobs \in Seq(JobType) : Goes(c, d, jobs) => SameCall(c, d) /\ d.todo = jobs \o toOpen
    BY <1>2, <1>5, <1>7, AtHand
  <2>2. Now(p).at = at /\ Now(p).do = "parent"
    BY <1>2, <2>1
  <2>3. \/ Refuses(p)
        \/ fs' = fs /\ Goes(c, d, IF There(fs, Front(at)) THEN <<>> ELSE CreateFolders(Front(at)))
    BY <2>2, DoesParent
  <2>4. ASSUME fs' = fs, SameCall(c, d), MakesFolders(d, fs, Front(at), toOpen), ~Chowns(d)
        PROVE  SameCall(c, d) /\ InFile(p, d, fs')
    <3>1. d.at = at /\ d.before = fs
      BY <1>7, <2>4 DEF SameCall
    <3>2. Making(p, d, fs, {}) /\ FoldersOnly(d, fs, Front(at))
      BY <2>4, <3>1, NotBegun
    <3>3. ToOpen(d) = toOpen
      BY <3>1, <1>3 DEF ToOpen
    <3> QED BY <1>7, <2>4, <3>1, <3>2, <3>3 DEF InFile, WayTo
  <2>5. CASE fs' = fs /\ There(fs, Front(at)) /\ Goes(c, d, <<>>)
    <3>1. SameCall(c, d) /\ d.todo = toOpen
      BY <2>1, <2>5
    <3>2. ~Chowns(d)
      BY <1>2, <1>5, <3>1 DEF Chowns
    <3>3. MakesFolders(d, fs, Front(at), toOpen)
      BY <2>5, <3>1 DEF MakesFolders
    <3> QED BY <2>4, <2>5, <3>1, <3>2, <3>3
  <2>6. CASE fs' = fs /\ ~There(fs, Front(at)) /\ Goes(c, d, CreateFolders(Front(at)))
    <3>1. /\ CreateFolders(Front(at)) \in Seq(JobType) /\ 0 \in 0..Len(Front(at))
          /\ ToMake(Front(at), 0, toOpen) = CreateFolders(Front(at)) \o toOpen
      BY <1>1, <1>5, CreateFoldersFacts, FoldersFacts, LenProperties
    <3>2. SameCall(c, d) /\ d.todo = ToMake(Front(at), 0, toOpen)
      BY <2>1, <2>6, <3>1
    <3>3. MakesFolders(d, fs, Front(at), toOpen)
      BY <1>1, <1>5, <3>2, StartFolders
    <3>4. ~Chowns(d)
      BY <1>1, <1>2, <1>5, <3>2, StartsQuiet
    <3> QED BY <2>4, <2>6, <3>2, <3>3, <3>4
  <2> QED BY <1>4, <2>2, <2>3, <2>5, <2>6
<1>8. CASE WayTo(p, c, fs, Front(at), toOpen) /\ ~There(fs, at)
  <2>1. CASE ToFolder(c, fs, Front(at), toOpen)
    <3>1. \/ /\ Fails(c, d) /\ fs' = fs
             /\ Closed(p, fs, Front(at)) \/ \E e \in Above(Front(at)) : Kind(fs, e) = "file"
          \/ /\ SameCall(c, d) /\ WayTo(p, d, fs', Front(at), toOpen)
             /\ fs'[at] = fs[at]
      BY <1>1, <1>2, <1>5, <1>8, <2>1, WayToStep
    <3>2. CASE SameCall(c, d) /\ WayTo(p, d, fs', Front(at), toOpen) /\ fs'[at] = fs[at]
      <4>1. d.at = at /\ ToOpen(d) = toOpen
        BY <1>3, <3>2 DEF SameCall, ToOpen
      <4>2. ~There(fs', at)
        BY <1>1, <1>8, <3>2 DEF There, Kind
      <4> QED BY <3>2, <4>1, <4>2 DEF InFile
    <3> QED BY <1>1, <3>1, <3>2, FolderAbove DEF Throwing
  <2>2. CASE c.todo = toOpen /\ (Front(at) = <<>> \/ There(fs, Front(at)))
    <3>1. /\ Now(p) = open
          /\ Goes(c, d, <<>>) => SameCall(c, d) /\ d.todo = toChown
      BY <1>2, <1>5, <2>2, AtHand DEF toOpen
    <3>2. Now(p).at = at /\ Now(p).do = "open" /\ ~Chowns(c)
      BY <1>2, <1>5, <2>2, <3>1 DEF Chowns
    <3>3. fs[at].kind = "none" /\ Kind(fs, at) = "none"
      BY <1>1, <1>8 DEF There, Kind
    <3>4. \/ Refuses(p)
          \/ Kind(fs, Front(at)) # "dir" /\ Fails(c, d) /\ fs' = fs
          \/ fs' = [fs EXCEPT ![at] = NewFile(Uid[p], <<>>)] /\ Goes(c, d, <<>>)
      <4>1. <<>> \o <<>> = <<>>
        OBVIOUS
      <4> QED BY <3>2, <3>3, <4>1, DoesOpen
    <3>5. CASE fs' = [fs EXCEPT ![at] = NewFile(Uid[p], <<>>)] /\ Goes(c, d, <<>>)
      <4>1. SameCall(c, d) /\ d.todo = Cons(Job("chown", c.at), <<>>)
        BY <3>1, <3>5 DEF toChown, chown
      <4>2. Making(p, d, fs', {}) /\ Kind(fs', at) = "file" /\ fs'[at].text = <<>>
        <5> DEFINE t == <<>>
                   X == {}
        <5>1. AddsFile(p, c, fs, d, fs', X, t)
          BY <1>8, <3>2, <3>3, <3>5, <4>1 DEF WayTo, AddsFile
        <5> HIDE DEF t, X
        <5>2. Making(p, d, fs', X) /\ Kind(fs', c.at) = "file" /\ fs'[c.at].text = t
          BY <1>1, <5>1, FileAdded
        <5> QED BY <5>2 DEF t, X
      <4> QED BY <4>1, <4>2 DEF InFile, SameCall
    <3> QED BY <1>1, <1>4, <2>2, <3>2, <3>4, <3>5, FolderAbove DEF Throwing
  <2> QED BY <1>8, <2>1, <2>2 DEF WayTo, MakesFolders
<1>9. CASE /\ c.todo = Cons(chown, <<>>) /\ Making(p, c, fs, {})
           /\ Kind(fs, at) = "file" /\ fs[at].text = <<>>
  <2>1. CASE /\ SameCall(c, d) /\ d.todo = <<>> /\ Making(p, d, fs', {})
             /\ RestKept(p, d, fs') /\ Kind(fs', at) = "file" /\ fs'[at].text = fs[at].text
    <3>1. d.at = at /\ d.op = "createFileIfNecessary"
      BY <2>1 DEF SameCall
    <3>2. d.before[at].kind # "none" => fs'[at] = d.before[at]
      BY <1>1, <2>1 DEF Making
    <3> QED BY <1>9, <2>1, <3>1, <3>2 DEF Ending, Fulfilled
  <2>2. {} \subseteq {c.at} /\ c.todo = Cons(Job("chown", c.at), <<>>)
    BY <1>9 DEF chown
  <2> QED BY <1>9, <2>1, <2>2, FileGiven
<1> QED BY <1>3, <1>6, <1>7, <1>8, <1>9 DEF InFile, file, parent, chown

\* The steps of copyFile.
LEMMA CopyStepWorks ==
  ASSUME NEW p, Stepping(p), Asked(call[p]), call[p].op = "copyFile",
         InCopy(p, call[p], fs)
  PROVE  \/ Throwing(p, call[p], call'[p], fs')
         \/ Ending(p, call[p], call'[p], fs')
         \/ SameCall(call[p], call'[p]) /\ InCopy(p, call'[p], fs')
<1> DEFINE c == call[p]
           d == call'[p]
           at == c.at
           from == c.from
           remove == Job("remove", at)
           copy == JobFrom("copy", from, at)
           chown == Job("chown", at)
           toChown == Cons(chown, <<>>)
           toCopy == Cons(copy, toChown)
           toRemove == Cons(remove, toCopy)
<1>1. /\ at \in Path /\ at \in Seq(Name) /\ at \in Place /\ at # <<>>
      /\ from \in Path /\ from \in Place /\ from # <<>>
      /\ Front(at) \in Seq(Name) /\ ~IsPrefix(at, Front(at)) /\ Tree(fs)
      /\ IsPrefix(Front(at), at)
  BY AskedPaths, StepOfJob DEF Place
<1>2. /\ remove \in JobType /\ remove.do = "remove" /\ remove.at = at
      /\ copy \in JobType /\ copy.do = "copy" /\ copy.at = at /\ copy.from = from
      /\ chown \in JobType /\ chown.do = "chown" /\ chown.at = at
  BY <1>1, JobTyped DEF JobName
<1>3. ToRemove(c) = toRemove /\ ToCopy(c) = toCopy
  BY DEF ToRemove, ToCopy
<1>4. Refuses(p) /\ Now(p).at = at /\ Now(p).from \in {at, from}
        /\ Now(p).do \in {"remove", "copy"} => Throwing(p, c, d, fs')
  BY DEF Refuses, Uses, Throwing, Pardoned
<1>5. SameCall(c, d) => /\ d.at = at /\ d.from = from /\ d.before = c.before
                        /\ d.op = "copyFile"
                        /\ ToRemove(d) = toRemove /\ ToCopy(d) = toCopy
  BY DEF ToRemove, ToCopy, SameCall
<1> HIDE DEF remove, copy, chown
<1>6. /\ toChown \in Seq(JobType) /\ toCopy \in Seq(JobType) /\ toRemove \in Seq(JobType)
      /\ toRemove # <<>> /\ Head(toRemove) = remove
      /\ toCopy # <<>> /\ Head(toCopy) = copy
  <2> DEFINE s == <<>>
  <2>1. s \in Seq(JobType)
    BY Shorts
  <2> HIDE DEF s
  <2>2. Cons(chown, s) \in Seq(JobType)
    BY <1>2, <2>1, ConsFacts
  <2> DEFINE t == Cons(chown, s)
  <2> HIDE DEF t
  <2>3. Cons(copy, t) \in Seq(JobType) /\ Cons(copy, t) # <<>> /\ Head(Cons(copy, t)) = copy
    BY <1>2, <2>2, ConsFacts DEF t
  <2> DEFINE v == Cons(copy, t)
  <2> HIDE DEF v
  <2>4. Cons(remove, v) \in Seq(JobType) /\ Cons(remove, v) # <<>> /\ Head(Cons(remove, v)) = remove
    BY <1>2, <2>3, ConsFacts DEF v
  <2> QED BY <2>2, <2>3, <2>4 DEF s, t, v
<1> HIDE DEF toChown, toCopy, toRemove
<1>7. CASE WayTo(p, c, fs, Front(at), toRemove)
  <2>1. CASE ToFolder(c, fs, Front(at), toRemove)
    <3>1. \/ /\ Fails(c, d) /\ fs' = fs
             /\ Closed(p, fs, Front(at)) \/ \E e \in Above(Front(at)) : Kind(fs, e) = "file"
          \/ /\ SameCall(c, d) /\ WayTo(p, d, fs', Front(at), toRemove)
             /\ fs'[at] = fs[at]
      BY <1>1, <1>2, <1>6, <1>7, <2>1, WayToStep
    <3>2. CASE SameCall(c, d) /\ WayTo(p, d, fs', Front(at), toRemove)
      BY <1>5, <3>2 DEF InCopy
    <3> QED BY <1>1, <3>1, <3>2, FolderAbove DEF Throwing
  <2>2. CASE c.todo = toRemove /\ (Front(at) = <<>> \/ There(fs, Front(at)))
    <3>1. /\ Now(p) = remove
          /\ Goes(c, d, <<>>) => SameCall(c, d) /\ d.todo = toCopy
      BY <1>2, <1>6, <2>2, AtHand DEF toRemove
    <3>2. Now(p).at = at /\ Now(p).do = "remove" /\ ~Chowns(c)
      BY <1>2, <1>6, <2>2, <3>1 DEF Chowns
    <3>3. Refuses(p) => Throwing(p, c, d, fs')
      BY <3>2 DEF Refuses, Uses, Throwing, Pardoned
    <3>4. \/ Refuses(p)
          \/ (\E e : ChildOf(fs, at, e)) /\ Fails(c, d) /\ fs' = fs
          \/ ~There(fs, at) /\ Goes(c, d, <<>>) /\ fs' = fs
          \/ There(fs, at) /\ Goes(c, d, <<>>) /\ fs' = [fs EXCEPT ![at] = Nothing]
      BY <3>2, DoesRemove
    <3>5. ASSUME NEW e, ChildOf(fs, at, e), Fails(c, d), fs' = fs PROVE Throwing(p, c, d, fs')
      <4>1. e \in Path /\ e \in Seq(Name) /\ IsPrefix(at, e) /\ fs[e].kind # "none" /\ e # at
        BY <1>1, <3>5, PathFacts, LenProperties, EmptyPath DEF ChildOf, There, Kind, Place
      <4>2. ~IsPrefix(e, Front(at))
        BY <1>1, <4>1, PrefixOrder
      <4>3. c.before[e].kind # "none"
        BY <1>7, <4>1, <4>2 DEF WayTo, FoldersOnly
      <4> QED BY <3>5, <4>1, <4>3 DEF Throwing, Pardoned, Below
    <3>6. CASE Goes(c, d, <<>>) /\ fs' = IF There(fs, at) THEN [fs EXCEPT ![at] = Nothing] ELSE fs
      <4>1. SameCall(c, d) /\ d.todo = toCopy
        BY <3>1, <3>6
      <4>2. /\ fs'[at].kind = "none" /\ \A q \in Path : q # at => fs'[q] = fs[q]
            /\ ~There(fs', at)
        BY <1>1, <3>6, EmptyPath DEF There, Kind, Nothing, Tree
      <4>3. ~Chowns(d)
        BY <1>2, <1>6, <4>1 DEF Chowns
      <4>4. Making(p, d, fs', {at})
        <5>1. /\ \A q \in Path : c.before[q].kind # "none" => fs[q] = c.before[q]
              /\ \A q \in Path : fs[q].kind # "none" /\ c.before[q].kind = "none" =>
                   fs[q].owner = Owed(p, c)
          BY <1>7, <3>2 DEF WayTo, Making, ChownNext
        <5>2. Owed(p, d) = Owed(p, c) /\ d.before = c.before /\ \A q : ~ChownNext(d, q)
          BY <4>1, <4>3 DEF SameCall, Owed, ChownNext
        <5> QED BY <4>2, <5>1, <5>2 DEF Making
      <4>5. FoldersOnly(d, fs', Front(at))
        BY <1>5, <1>7, <4>1, <4>2 DEF WayTo, FoldersOnly
      <4>6. Front(at) = <<>> \/ There(fs', Front(at))
        <5>1. Front(at) # at
          BY <1>1, PrefixOrder
        <5> QED BY <2>2, <4>2, <5>1 DEF There, Kind
      <4> QED BY <1>5, <4>1, <4>2, <4>4, <4>5, <4>6 DEF InCopy
    <3> QED BY <3>3, <3>4, <3>5, <3>6
  <2> QED BY <1>7, <2>1, <2>2 DEF WayTo, MakesFolders
<1>8. CASE /\ c.todo = toCopy /\ Making(p, c, fs, {at})
           /\ FoldersOnly(c, fs, Front(at)) /\ ~There(fs, at)
           /\ Front(at) = <<>> \/ There(fs, Front(at))
  <2>1. /\ Now(p) = copy
        /\ Goes(c, d, <<>>) => SameCall(c, d) /\ d.todo = toChown
    BY <1>2, <1>6, <1>8, AtHand DEF toCopy
  <2>2. /\ Now(p).at = at /\ Now(p).from = from /\ Now(p).do = "copy" /\ ~Chowns(c)
    BY <1>2, <1>6, <1>8, <2>1 DEF Chowns
  <2>3. \/ Refuses(p)
        \/ /\ \/ Kind(fs, from) # "file" \/ Kind(fs, Front(at)) # "dir"
           /\ Fails(c, d) /\ fs' = fs
        \/ /\ Kind(fs, from) = "file" /\ Goes(c, d, <<>>)
           /\ fs' = [fs EXCEPT ![at] = NewFile(Uid[p], fs[from].text)]
    BY <1>8, <2>2, DoesCopy
  <2>4. from # at /\ c.before[from].kind = "file" => Kind(fs, from) = "file"
    BY <1>1, <1>8, EmptyPath DEF Making, Kind
  <2>5. Kind(fs, from) = "file" => fs[from].text = c.before[from].text
    <3> SUFFICES ASSUME Kind(fs, from) = "file" PROVE fs[from] = c.before[from]
      OBVIOUS
    <3>1. fs[from].kind = "file" /\ from # at
      BY <1>1, <1>8, EmptyPath DEF Kind, There
    <3>2. c.before[from].kind # "none"
      BY <1>1, <1>8, <3>1 DEF FoldersOnly
    <3> QED BY <1>1, <1>8, <3>1, <3>2 DEF Making
  <2>6. CASE /\ Kind(fs, from) # "file" \/ Kind(fs, Front(at)) # "dir"
             /\ Fails(c, d) /\ fs' = fs
    <3>1. CASE Kind(fs, from) # "file"
      BY <2>4, <2>6, <3>1 DEF Throwing, Pardoned
    <3>2. CASE Kind(fs, Front(at)) # "dir"
      BY <1>1, <1>8, <2>6, <3>2, FolderAbove DEF Throwing
    <3> QED BY <2>6, <3>1, <3>2
  <2>7. CASE /\ Kind(fs, from) = "file" /\ Goes(c, d, <<>>)
             /\ fs' = [fs EXCEPT ![at] = NewFile(Uid[p], fs[from].text)]
    <3>1. SameCall(c, d) /\ d.todo = Cons(Job("chown", c.at), <<>>)
      BY <2>1, <2>7 DEF toChown, chown
    <3>2. /\ Making(p, d, fs', {at}) /\ Kind(fs', at) = "file"
          /\ fs'[at].text = fs[from].text
      <4> DEFINE t == fs[from].text
                 X == {c.at}
      <4>1. AddsFile(p, c, fs, d, fs', X, t)
        BY <1>8, <2>2, <2>7, <3>1 DEF AddsFile
      <4> HIDE DEF t, X
      <4>2. Making(p, d, fs', X) /\ Kind(fs', c.at) = "file" /\ fs'[c.at].text = t
        BY <1>1, <4>1, FileAdded
      <4> QED BY <4>2 DEF t, X
    <3> QED BY <1>5, <2>5, <2>7, <3>1, <3>2 DEF InCopy
  <2> QED BY <1>4, <2>2, <2>3, <2>6, <2>7
<1>9. CASE /\ c.todo = Cons(chown, <<>>) /\ Making(p, c, fs, {at})
           /\ Kind(fs, at) = "file" /\ fs[at].text = c.before[from].text
  <2>1. CASE /\ SameCall(c, d) /\ d.todo = <<>> /\ Making(p, d, fs', {at})
             /\ RestKept(p, d, fs') /\ Kind(fs', at) = "file" /\ fs'[at].text = fs[at].text
    <3>1. fs'[at].owner = Owed(p, d)
      BY <1>1, <2>1 DEF Making, Kind, ChownNext, Chowns
    <3> QED BY <1>5, <1>9, <2>1, <3>1 DEF Ending, Fulfilled
  <2>2. {at} \subseteq {c.at} /\ c.todo = Cons(Job("chown", c.at), <<>>)
    BY <1>9 DEF chown
  <2> QED BY <1>9, <2>1, <2>2, FileGiven
<1> QED BY <1>3, <1>7, <1>8, <1>9 DEF InCopy, chown

\* The steps of writeTextFile.
LEMMA WriteStepWorks ==
  ASSUME NEW p, Stepping(p), Asked(call[p]),
         call[p].op \in {"writeTextFile", "appendTextFile"}, InWrite(p, call[p], fs)
  PROVE  \/ Throwing(p, call[p], call'[p], fs')
         \/ Ending(p, call[p], call'[p], fs')
         \/ SameCall(call[p], call'[p]) /\ InWrite(p, call'[p], fs')
<1> DEFINE c == call[p]
           d == call'[p]
           at == c.at
           do == IF c.op = "writeTextFile" THEN "write" ELSE "append"
           write == Job(do, at)
           toWrite == Cons(write, <<>>)
<1>1. /\ at \in Path /\ at \in Seq(Name) /\ at \in Place /\ at # <<>>
      /\ Front(at) \in Seq(Name) /\ ~IsPrefix(at, Front(at)) /\ Tree(fs)
      /\ IsPrefix(Front(at), at) /\ IsPrefix(at, at) /\ Tree(c.before)
  BY AskedPaths, StepOfJob DEF Place
<1>2. write \in JobType /\ write.do = do /\ write.at = at /\ do \in {"write", "append"}
  BY <1>1, JobTyped DEF JobName
<1>3. ToWrite(c) = toWrite
  BY DEF ToWrite
<1>4. SameCall(c, d) => /\ d.at = at /\ d.before = c.before /\ d.op = c.op /\ d.own = c.own
                        /\ ToWrite(d) = toWrite
  BY DEF ToWrite, SameCall
<1> HIDE DEF write
<1>5. toWrite \in Seq(JobType) /\ toWrite # <<>> /\ Head(toWrite) = write
  <2> DEFINE s == <<>>
  <2>1. s \in Seq(JobType)
    BY Shorts
  <2> HIDE DEF s
  <2>2. Cons(write, s) \in Seq(JobType) /\ Cons(write, s) # <<>> /\ Head(Cons(write, s)) = write
    BY <1>2, <2>1, ConsFacts
  <2> QED BY <2>2 DEF s
<1>6. WayTo(p, c, fs, Front(at), toWrite)
  BY <1>3 DEF InWrite
<1> HIDE DEF toWrite
<1>7. CASE ToFolder(c, fs, Front(at), toWrite)
  <2>1. \/ /\ Fails(c, d) /\ fs' = fs
           /\ Closed(p, fs, Front(at)) \/ \E e \in Above(Front(at)) : Kind(fs, e) = "file"
        \/ SameCall(c, d) /\ WayTo(p, d, fs', Front(at), toWrite)
    <3>1. write.do # "chown"
      BY <1>2
    <3> QED BY <1>1, <1>5, <1>6, <1>7, <3>1, WayToStep
  <2>2. CASE SameCall(c, d) /\ WayTo(p, d, fs', Front(at), toWrite)
    BY <1>4, <2>2 DEF InWrite
  <2> QED BY <1>1, <2>1, <2>2, FolderAbove DEF Throwing
<1>8. CASE c.todo = toWrite /\ (Front(at) = <<>> \/ There(fs, Front(at)))
  <2>1. Now(p) = write /\ (Goes(c, d, <<>>) => SameCall(c, d) /\ d.todo = <<>>)
    BY <1>2, <1>8, AtLast DEF toWrite
  <2>2. Now(p).at = at /\ Now(p).do = do /\ ~Chowns(c)
    BY <1>2, <1>5, <1>8, <2>1 DEF Chowns
  <2> DEFINE keep == IF do = "append" /\ Kind(fs, at) = "file" THEN fs[at].text ELSE <<>>
             node == NewFile(IF Kind(fs, at) = "file" THEN fs[at].owner ELSE Uid[p], keep \o <<p>>)
  <2>3. \/ Refuses(p)
        \/ /\ Kind(fs, Front(at)) # "dir" \/ Kind(fs, at) = "dir"
           /\ Fails(c, d) /\ fs' = fs
        \/ /\ fs' = [fs EXCEPT ![at] = node] /\ Goes(c, d, <<>>)
           /\ Kind(fs, at) # "dir"
    BY <1>2, <2>2, DoesOpen
  <2>4. Refuses(p) => Throwing(p, c, d, fs')
    BY <1>2, <2>2 DEF Refuses, Uses, Throwing, Pardoned
  <2>5. CASE /\ Kind(fs, Front(at)) # "dir" \/ Kind(fs, at) = "dir"
             /\ Fails(c, d) /\ fs' = fs
    <3>1. CASE Kind(fs, at) = "dir"
      BY <2>5, <3>1 DEF Throwing, Pardoned
    <3>2. CASE Kind(fs, Front(at)) # "dir"
      BY <1>1, <1>8, <2>5, <3>2, FolderAbove DEF Throwing
    <3> QED BY <2>5, <3>1, <3>2
  <2>6. CASE /\ fs' = [fs EXCEPT ![at] = node] /\ Goes(c, d, <<>>)
             /\ Kind(fs, at) # "dir"
    <3>1. SameCall(c, d) /\ d.todo = <<>>
      BY <2>1, <2>6
    <3>2. node.kind = "file" /\ node.text = keep \o <<p>>
          /\ node.owner = IF Kind(fs, at) = "file" THEN fs[at].owner ELSE Uid[p]
      BY DEF NewFile
    <3>3. fs[at] = c.before[at]
      <4>1. fs[at].kind # "none" => c.before[at].kind # "none"
        BY <1>1, <1>6 DEF WayTo, FoldersOnly
      <4>2. c.before[at].kind # "none" => fs[at] = c.before[at]
        BY <1>1, <1>6 DEF WayTo, Making
      <4> QED BY <1>1, <4>1, <4>2 DEF Tree
    <3>4. keep \o <<p>> = IF c.op = "writeTextFile" THEN <<p>> ELSE Append(c.before[at].text, p)
      <4>1. <<>> \o <<p>> = <<p>> /\ Append(<<>>, p) = <<p>>
        OBVIOUS
      <4>2. fs[at].text \in Seq(Proc \cup {"old"}) /\ p \in Proc
        BY <1>1 DEF Tree, Node, Stepping
      <4>3. fs[at].text \o <<p>> = Append(fs[at].text, p)
        BY <4>2
      <4>4. Kind(fs, at) # "file" => fs[at].text = <<>>
        BY <1>1, <2>6, EmptyPath DEF Tree, Node, Nothing, Kind
      <4> QED BY <3>3, <4>1, <4>3, <4>4
    <3> HIDE DEF node, keep
    <3>5. fs'[at] = node /\ (\A q \in Path : q # at => fs'[q] = fs[q])
      BY <1>1, <2>6 DEF Tree
    <3>6. RestKept(p, d, fs')
      <4>1. Owed(p, d) = Owed(p, c) /\ Owed(p, c) = Uid[p]
        BY <1>4, <3>1 DEF Owed, Asked
      <4>2. \A q \in Path : fs[q].kind # "none" /\ c.before[q].kind = "none" =>
              fs[q].owner = Owed(p, c)
        BY <1>6, <2>2 DEF WayTo, Making, ChownNext
      <4>3. \A q \in Path : c.before[q].kind # "none" => fs[q] = c.before[q]
        BY <1>6 DEF WayTo, Making
      <4>4. c.before[at].kind = "none" => node.owner = Uid[p]
        BY <1>1, <3>2, <3>3 DEF Kind
      <4> QED BY <1>1, <1>4, <3>1, <3>5, <4>1, <4>2, <4>3, <4>4 DEF RestKept
    <3>7. Kind(fs', at) = "file" /\ fs'[at].text = node.text
      BY <1>1, <3>2, <3>5 DEF Kind
    <3> QED BY <1>4, <3>1, <3>2, <3>4, <3>6, <3>7 DEF Ending, Fulfilled
  <2> QED BY <2>3, <2>4, <2>5, <2>6
<1> QED BY <1>6, <1>7, <1>8 DEF WayTo, MakesFolders

(* The destructor *)

\* A job for each child.
LEMMA ForAllLists ==
  ASSUME NEW do \in {"widen", "clear"}, NEW q \in Place
  PROVE  /\ ForAll(do, Children(q)) \in Seq(JobType)
         /\ \A i \in 1..Len(ForAll(do, Children(q))) :
              /\ ForAll(do, Children(q))[i].do = do
              /\ ChildOf(fs, q, ForAll(do, Children(q))[i].at)
         /\ \A e : ChildOf(fs, q, e) =>
              \E i \in 1..Len(ForAll(do, Children(q))) : ForAll(do, Children(q))[i].at = e
<1> DEFINE S == Children(q)
           n == Cardinality(S)
           s == SetToSeq(S)
<1>1. IsFiniteSet(S) /\ n \in Nat
  BY ChildrenFinite, FS_CardinalityType
<1>2. s \in [1..n -> S] /\ IsInjective(s)
  <2>1. ExistsBijection(1..n, S)
    <3>1. PICK m \in Nat : ExistsBijection(1..m, S)
      BY <1>1, FS_NatBijection
    <3> QED BY <3>1, FS_CountingElements
  <2>2. \E f \in [1..n -> S] : IsInjective(f)
    BY <2>1 DEF ExistsBijection, Bijection, Injection
  <2> QED BY <2>2 DEF SetToSeq
<1>3. S \subseteq Place /\ \A e : e \in S <=> ChildOf(fs, q, e)
  BY PathFacts, KindFacts DEF Children, ChildOf
<1> HIDE DEF S, n, s
<1>4. \A e \in S : \E i \in 1..n : s[i] = e
  <2>1. s \in Injection(1..n, S)
    BY <1>2 DEF Injection
  <2>2. IsFiniteSet(1..n) /\ Cardinality(1..n) = n
    BY <1>1, FS_Interval
  <2>3. s \in Surjection(1..n, S)
    BY <1>1, <2>1, <2>2, FS_Injection DEF n
  <2> QED BY <2>3 DEF Surjection
<1> DEFINE jobs == [i \in 1..n |-> Job(do, s[i])]
<1>5. /\ jobs \in [1..n -> JobType]
      /\ \A i \in 1..n : jobs[i].do = do /\ jobs[i].at = s[i] /\ s[i] \in S
  BY <1>2, <1>3 DEF Job, JobType, JobName
<1>6. ForAll(do, Children(q)) = jobs
  BY <1>2 DEF ForAll, s, S
<1> HIDE DEF jobs
<1>7. jobs \in Seq(JobType) /\ Len(jobs) = n
  BY <1>1, <1>5
<1> QED BY <1>3, <1>4, <1>5, <1>6, <1>7

\* The first job of an agenda is replaced by others.
LEMMA Spliced ==
  ASSUME NEW s \in Seq(JobType), s # <<>>, NEW jobs \in Seq(JobType), NEW t, t = jobs \o Tail(s)
  PROVE  /\ t \in Seq(JobType) /\ Len(jobs) \in Nat /\ Len(s) \in Nat \ {0}
         /\ Len(t) = Len(jobs) + Len(s) - 1
         /\ \A i \in 1..Len(jobs) : i \in 1..Len(t) /\ t[i] = jobs[i]
         /\ \A i \in 2..Len(s) : /\ Len(jobs) + i - 1 \in 1..Len(t)
                                 /\ t[Len(jobs) + i - 1] = s[i]
         /\ \A i \in 1..Len(t) : i > Len(jobs) => /\ i - Len(jobs) + 1 \in 2..Len(s)
                                                  /\ t[i] = s[i - Len(jobs) + 1]
<1>1. /\ Len(s) \in Nat \ {0} /\ Tail(s) \in Seq(JobType) /\ Len(Tail(s)) = Len(s) - 1
      /\ \A k \in 1..Len(Tail(s)) : Tail(s)[k] = s[k + 1]
  BY LenProperties, HeadTailProperties, EmptySeq
<1>2. /\ Len(jobs) \in Nat
      /\ jobs \o Tail(s) \in Seq(JobType)
      /\ Len(jobs \o Tail(s)) = Len(jobs) + (Len(s) - 1)
      /\ \A k \in 1..(Len(jobs) + (Len(s) - 1)) :
           (jobs \o Tail(s))[k] = IF k <= Len(jobs) THEN jobs[k] ELSE Tail(s)[k - Len(jobs)]
  BY <1>1, LenProperties, ConcatProperties
<1> DEFINE u == Tail(s)
<1>3. /\ u \in Seq(JobType) /\ Len(u) = Len(s) - 1
      /\ \A k \in 1..(Len(s) - 1) : u[k] = s[k + 1]
      /\ \A k \in 1..(Len(jobs) + (Len(s) - 1)) :
           t[k] = IF k <= Len(jobs) THEN jobs[k] ELSE u[k - Len(jobs)]
      /\ t \in Seq(JobType) /\ Len(t) = Len(jobs) + (Len(s) - 1)
  BY <1>1, <1>2
<1> HIDE DEF u
<1>4. \A i \in 1..Len(jobs) : i \in 1..Len(t) /\ t[i] = jobs[i]
  BY <1>1, <1>2, <1>3
<1>5. ASSUME NEW i \in 2..Len(s)
      PROVE  Len(jobs) + i - 1 \in 1..Len(t) /\ t[Len(jobs) + i - 1] = s[i]
  <2>1. /\ Len(jobs) + i - 1 \in 1..Len(t) /\ ~(Len(jobs) + i - 1 <= Len(jobs))
        /\ (Len(jobs) + i - 1) - Len(jobs) = i - 1 /\ i - 1 \in 1..(Len(s) - 1)
        /\ (i - 1) + 1 = i
    BY <1>1, <1>2, <1>3
  <2> QED BY <1>3, <2>1
<1>6. ASSUME NEW i \in 1..Len(t), i > Len(jobs)
      PROVE  i - Len(jobs) + 1 \in 2..Len(s) /\ t[i] = s[i - Len(jobs) + 1]
  <2>1. i - Len(jobs) \in 1..(Len(s) - 1) /\ i - Len(jobs) + 1 \in 2..Len(s) /\ ~(i <= Len(jobs))
    BY <1>1, <1>2, <1>3, <1>6
  <2> QED BY <1>3, <2>1
<1>7. Len(t) = Len(jobs) + Len(s) - 1
  BY <1>1, <1>2, <1>3
<1> QED BY <1>1, <1>2, <1>3, <1>4, <1>5, <1>6, <1>7

\* The destructor looks for its path.
LEMMA DoesTidy ==
  ASSUME NEW p, Stepping(p), Now(p).do = "tidy"
  PROVE  \/ Refuses(p)
         \/ /\ fs' = fs
            /\ Goes(call[p], call'[p],
                    IF There(fs, Now(p).at)
                    THEN <<Job("widen", Now(p).at), Job("clear", Now(p).at)>> ELSE <<>>)
<1>1. Refuses(p) \/ CheckPath(p)
  BY StepOfJob
<1> QED BY <1>1, Outcomes, KindFacts DEF CheckPath

\* A path is widened, or may not be.
LEMMA DoesWiden ==
  ASSUME NEW p, Stepping(p), Now(p).do = "widen"
  PROVE  LET q == Now(p).at
         IN  \/ Refuses(p)
             \/ /\ ~There(fs, q) \/ Uid[p] \notin {Root, fs[q].owner}
                /\ Fails(call[p], call'[p]) /\ fs' = fs
             \/ Kind(fs, q) = "file" /\ Goes(call[p], call'[p], <<>>) /\ fs' = fs
             \/ /\ Kind(fs, q) = "dir" /\ fs' = [fs EXCEPT ![q].mode = @ \cup {"x"}]
                /\ \/ Goes(call[p], call'[p], ForAll("widen", Children(q)))
                   \/ /\ Uid[p] # Root /\ "r" \notin fs[q].mode
                      /\ Fails(call[p], call'[p])
<1>1. Refuses(p) \/ Widen(p)
  BY StepOfJob
<1>2. \A q : CanList(p, q) <=> Kind(fs, q) = "dir" /\ (Uid[p] = Root \/ "r" \in fs[q].mode)
  BY KindFacts DEF CanList
<1> QED BY <1>1, <1>2, Outcomes, KindFacts DEF Widen, MayChangeMode

\* A path is to be removed after its children.
LEMMA DoesClear ==
  ASSUME NEW p, Stepping(p), Now(p).do = "clear"
  PROVE  \/ Refuses(p)
         \/ /\ fs' = fs
            /\ Goes(call[p], call'[p],
                    ForAll("clear", Children(Now(p).at)) \o <<Job("remove", Now(p).at)>>)
<1>1. Refuses(p) \/ Clear(p)
  BY StepOfJob
<1> QED BY <1>1, Outcomes DEF Clear

Wide(p, f, q) == Uid[p] = Root \/ "x" \in f[q].mode

\* The agenda s of a destructor of the path at: first directories are widened
\* from the top down, then everything is removed from the bottom up.
WidensDown(p, at, s, f) ==
  \A i \in 1..Len(s) : s[i].do = "widen" =>
    /\ There(f, s[i].at)
    /\ \A d \in Path : IsPrefix(at, d) /\ IsPrefix(d, s[i].at) /\ d # s[i].at =>
         Wide(p, f, d)
    /\ \A k \in 1..i : s[k].do = "widen"

RemovesUp(s, f) ==
  \A i \in 1..Len(s) : s[i].do = "remove" => \A e : ChildOf(f, s[i].at, e) =>
    \E k \in 1..(i - 1) : s[k].do \in {"clear", "remove"} /\ s[k].at = e

Tidies(p, at, s, f) ==
  /\ \A i \in 1..Len(s) : /\ s[i].do \in {"widen", "clear", "remove"}
                          /\ s[i].at \in Path /\ IsPrefix(at, s[i].at)
  /\ WidensDown(p, at, s, f)
  /\ RemovesUp(s, f)
  /\ \A d \in Path : IsPrefix(at, d) /\ Kind(f, d) = "dir" =>
       Wide(p, f, d) \/ \E i \in 1..Len(s) : s[i].do = "widen" /\ IsPrefix(s[i].at, d)
  /\ There(f, at) => \E i \in 1..Len(s) : s[i].do \in {"clear", "remove"} /\ s[i].at = at

\* Nothing is new, and what is not to be removed is as it was.
OnlyLess(c, f) ==
  \A q \in Path : IF IsPrefix(c.at, q) THEN f[q].kind # "none" => c.before[q].kind # "none"
                                       ELSE f[q] = c.before[q]

InTidy(p, c, f) ==
  \/ c.todo = Cons(Job("tidy", c.at), <<>>) /\ f = c.before
  \/ Tidies(p, c.at, c.todo, f) /\ OnlyLess(c, f)

\* A path at which the destructor works is closed only if its own path is.
LEMMA TidyOpen ==
  ASSUME NEW p, NEW at \in Path, NEW s \in Seq(JobType), NEW f, Tree(f), s # <<>>,
         Tidies(p, at, s, f), Closed(p, f, s[1].at)
  PROVE  Closed(p, f, at)
<1> DEFINE q == s[1].at
<1>1. 1 \in 1..Len(s)
  BY LenProperties, EmptySeq
<1>2. q \in Path /\ IsPrefix(at, q) /\ q \in Seq(Name) /\ at \in Seq(Name) /\ at # <<>>
      /\ Len(q) \in 1..MaxDepth /\ MaxDepth \in Nat
  BY <1>1, PathFacts, DepthAssumption DEF Tidies, Place
<1>3. PICK a \in Above(q) : Uid[p] # Root /\ Kind(f, a) = "dir" /\ "x" \notin f[a].mode
  BY <1>2 DEF Closed
<1>4. a \in Seq(Name) /\ a # <<>> /\ IsPrefix(a, q) /\ a # q
  BY <1>2, AboveFacts DEF Place
<1>5. a \in Path
  BY <1>3, <1>4 DEF Kind
<1>6. CASE IsPrefix(at, a)
  <2>1. PICK i \in 1..Len(s) : s[i].do = "widen" /\ IsPrefix(s[i].at, a)
    BY <1>3, <1>5, <1>6 DEF Tidies, Wide
  <2>2. s[1].do = "widen"
    <3>1. 1 \in 1..i
      BY <1>1
    <3> QED BY <2>1, <3>1 DEF Tidies, WidensDown
  <2>3. Wide(p, f, a)
    BY <1>1, <1>4, <1>5, <1>6, <2>2 DEF Tidies, WidensDown
  <2> QED BY <1>3, <2>3 DEF Wide
<1>7. CASE ~IsPrefix(at, a)
  <2>1. IsPrefix(a, at)
    BY <1>2, <1>4, <1>7, PrefixOrder
  <2>2. a # at
    BY <1>2, <1>7, PrefixOrder
  <2>3. a \in Above(at)
    BY <1>2, <1>4, <2>1, <2>2, AboveFacts DEF Place
  <2> QED BY <1>3, <2>3 DEF Closed
<1> QED BY <1>6, <1>7

\* On the way to something below q there is a child of q's.
LEMMA WayDown ==
  ASSUME NEW f, Tree(f), NEW q \in Seq(Name), NEW d, There(f, d), IsPrefix(q, d), d # q
  PROVE  \E e : ChildOf(f, q, e) /\ IsPrefix(e, d)
<1>1. d \in Place /\ d \in Seq(Name) /\ d \in Path
  BY TreeFacts DEF Place
<1>2. Len(q) \in Nat /\ Len(d) \in Nat /\ Len(q) <= Len(d) /\ Len(q) # Len(d)
  BY <1>1, PrefixFacts
<1> DEFINE k == Len(q) + 1
           e == Upto(d, k)
<1>3. k \in 0..Len(d) /\ k # 0
  BY <1>2
<1> HIDE DEF k
<1>4. /\ e \in Seq(Name) /\ Len(e) = k /\ (\A i \in 1..k : e[i] = d[i]) /\ IsPrefix(e, d)
      /\ e # <<>>
  BY <1>1, <1>3, UptoFacts
<1> HIDE DEF e
<1>5. IsPrefix(q, e)
  BY <1>1, <1>2, <1>4, PrefixFacts DEF k
<1>6. There(f, e)
  <2>1. CASE e = d
    BY <2>1
  <2>2. CASE e # d
    BY <1>4, <2>2, AncestorsAreDirs DEF There
  <2> QED BY <2>1, <2>2
<1>7. e \in Path
  BY <1>6, TreeFacts
<1> QED BY <1>4, <1>5, <1>6, <1>7 DEF ChildOf, k

\* A child is in the directory it is a child of.
LEMMA ChildFacts ==
  ASSUME NEW f, Tree(f), NEW q \in Seq(Name), NEW e, ChildOf(f, q, e)
  PROVE  /\ e \in Path /\ e \in Seq(Name) /\ e \in Place /\ Front(e) = q /\ Kind(f, q) = "dir"
         /\ IsPrefix(q, e) /\ e # q /\ There(f, e)
<1>1. e \in Path /\ e \in Place /\ e \in Seq(Name) /\ IsPrefix(q, e) /\ Len(e) = Len(q) + 1
      /\ There(f, e)
  BY PathFacts DEF ChildOf, Place
<1>2. /\ Front(e) \in Seq(Name) /\ IsPrefix(Front(e), e) /\ Len(Front(e)) = Len(e) - 1
      /\ Len(q) \in Nat
  BY <1>1, FrontPrefix, LenProperties
<1>3. Front(e) = q
  BY <1>1, <1>2, PrefixOrder
<1>4. Kind(f, q) = "dir"
  BY <1>1, <1>3, TreeFacts
<1> QED BY <1>1, <1>2, <1>3, <1>4

\* What has children is removed after them.
LEMMA RemovesFirst ==
  ASSUME NEW s, NEW f, RemovesUp(s, f), NEW m \in 1..Len(s), s[m].do = "remove",
         NEW e, ChildOf(f, s[m].at, e)
  PROVE  \E k \in 1..(m - 1) : s[k].do \in {"clear", "remove"} /\ s[k].at = e
BY DEF RemovesUp

\* The first directory to widen has been, and its children are next.
LEMMA WidenTidies ==
  ASSUME NEW p, NEW at \in Path, NEW s \in Seq(JobType), s # <<>>, NEW f, Tree(f), NEW g,
         Tidies(p, at, s, f), s[1].do = "widen",
         \A r \in Path : g[r].kind = f[r].kind /\ (Wide(p, f, r) => Wide(p, g, r)),
         Kind(f, s[1].at) = "dir" => Wide(p, g, s[1].at),
         NEW jobs \in Seq(JobType), NEW t, t = jobs \o Tail(s),
         \A i \in 1..Len(jobs) : jobs[i].do = "widen" /\ ChildOf(f, s[1].at, jobs[i].at),
         \A e : ChildOf(f, s[1].at, e) => \E i \in 1..Len(jobs) : jobs[i].at = e
  PROVE  t \in Seq(JobType) /\ Tidies(p, at, t, g)
<1> DEFINE q == s[1].at
           n == Len(jobs)
<1>1. /\ t \in Seq(JobType) /\ n \in Nat /\ Len(s) \in Nat \ {0} /\ Len(t) = n + Len(s) - 1
      /\ \A i \in 1..n : i \in 1..Len(t) /\ t[i] = jobs[i]
      /\ \A i \in 2..Len(s) : n + i - 1 \in 1..Len(t) /\ t[n + i - 1] = s[i]
      /\ \A i \in 1..Len(t) : i > n => i - n + 1 \in 2..Len(s) /\ t[i] = s[i - n + 1]
  BY Spliced
<1>2. /\ q \in Path /\ q \in Seq(Name) /\ at \in Seq(Name) /\ IsPrefix(at, q) /\ There(f, q)
      /\ \A d \in Path : IsPrefix(at, d) /\ IsPrefix(d, q) /\ d # q => Wide(p, f, d)
  <2>1. 1 \in 1..Len(s)
    BY <1>1
  <2>2. s[1].at \in Path /\ IsPrefix(at, s[1].at)
    BY <2>1 DEF Tidies
  <2>3. WidensDown(p, at, s, f)
    BY DEF Tidies
  <2>4. /\ There(f, s[1].at)
        /\ \A d \in Path : IsPrefix(at, d) /\ IsPrefix(d, s[1].at) /\ d # s[1].at => Wide(p, f, d)
    BY <2>1, <2>3 DEF WidensDown
  <2>5. s[1].at \in Seq(Name) /\ at \in Seq(Name)
    BY <2>2, PathFacts DEF Place
  <2> QED BY <2>2, <2>4, <2>5
<1>3. ASSUME NEW i \in 1..n
      PROVE  /\ jobs[i].at \in Path /\ jobs[i].at \in Seq(Name) /\ IsPrefix(q, jobs[i].at)
             /\ Front(jobs[i].at) = q /\ jobs[i].at \in Place /\ Kind(f, q) = "dir"
             /\ There(f, jobs[i].at)
  <2> DEFINE e == jobs[i].at
  <2>1. ChildOf(f, q, e)
    OBVIOUS
  <2> HIDE DEF e, q
  <2>2. /\ e \in Path /\ e \in Seq(Name) /\ IsPrefix(q, e) /\ Front(e) = q /\ e \in Place
        /\ Kind(f, q) = "dir" /\ There(f, e)
    BY <1>2, <2>1, ChildFacts
  <2> QED BY <2>2 DEF e
<1>4. \A r : (There(g, r) <=> There(f, r)) /\ Kind(g, r) = Kind(f, r)
  BY DEF There, Kind
<1> HIDE DEF q, n
<1>5. ASSUME NEW i \in 1..Len(t)
      PROVE  t[i].do \in {"widen", "clear", "remove"} /\ t[i].at \in Path /\ IsPrefix(at, t[i].at)
  <2>1. CASE i <= n
    <3>1. i \in 1..n
      BY <1>1, <2>1
    <3>2. jobs[i].do = "widen"
      BY <3>1 DEF n
    <3>3. IsPrefix(at, jobs[i].at)
      BY <1>2, <1>3, <3>1, PrefixOrder
    <3> QED BY <1>1, <1>3, <3>1, <3>2, <3>3
  <2>2. CASE i > n
    BY <1>1, <2>2 DEF Tidies
  <2> QED BY <1>1, <2>1, <2>2
<1>6. ASSUME NEW i \in 1..Len(t), t[i].do = "widen"
      PROVE  /\ There(g, t[i].at)
             /\ \A d \in Path : IsPrefix(at, d) /\ IsPrefix(d, t[i].at) /\ d # t[i].at =>
                  Wide(p, g, d)
             /\ \A k \in 1..i : t[k].do = "widen"
  <2>0. \A k \in 1..n : t[k].do = "widen"
    BY <1>1 DEF n
  <2>3. n \in Nat /\ Len(t) \in Nat /\ i \in 1..Len(t) /\ Len(s) \in Nat
    BY <1>1, LenProperties
  <2>4. i <= n \/ i > n
    BY ONLY <2>3
  <2>1. CASE i <= n
    <3>1. i \in 1..n /\ t[i].at = jobs[i].at /\ \A k \in 1..i : k \in 1..n
      BY <1>1, <2>1
    <3>2. ASSUME NEW d \in Path, IsPrefix(at, d), IsPrefix(d, t[i].at), d # t[i].at
          PROVE  Wide(p, g, d)
      <4>1. d \in Seq(Name) /\ IsPrefix(d, q)
        <5>1. d \in Seq(Name)
          BY PathFacts DEF Place
        <5>2. IsPrefix(d, Front(jobs[i].at))
          BY <1>3, <3>1, <3>2, <5>1, FrontPrefix
        <5> QED BY <1>3, <3>1, <5>1, <5>2
      <4>2. CASE d = q
        BY <1>3, <3>1, <4>2 DEF q
      <4>3. CASE d # q
        BY <1>2, <3>2, <4>1, <4>3
      <4> QED BY <4>2, <4>3
    <3> QED BY <1>3, <1>4, <2>0, <3>1, <3>2
  <2>2. CASE i > n
    <3>0. i - n + 1 \in 2..Len(s) /\ t[i] = s[i - n + 1]
      BY <1>1, <2>2
    <3>1. PICK m \in 1..Len(s) : m \in 2..Len(s) /\ t[i] = s[m] /\ m = i - n + 1
      BY ONLY <2>3, <3>0
    <3>2. /\ There(f, s[m].at) /\ \A k \in 1..m : s[k].do = "widen"
          /\ \A d \in Path : IsPrefix(at, d) /\ IsPrefix(d, s[m].at) /\ d # s[m].at =>
               Wide(p, f, d)
      BY <1>6, <3>1 DEF Tidies, WidensDown
    <3>3. ASSUME NEW k \in 1..i, k > n PROVE t[k].do = "widen"
      <4>1. k \in 1..Len(t) /\ k - n + 1 \in 1..m
        BY ONLY <2>3, <3>1, <3>3
      <4>2. t[k] = s[k - n + 1]
        BY <1>1, <3>3, <4>1
      <4> QED BY <3>2, <4>1, <4>2
    <3>4. \A k \in 1..i : t[k].do = "widen"
      BY <1>1, <2>0, <3>3
    <3> QED BY <1>4, <3>1, <3>2, <3>4
  <2> QED BY ONLY <2>1, <2>2, <2>4
<1>7. ASSUME NEW i \in 1..Len(t), t[i].do = "remove", NEW e, ChildOf(g, t[i].at, e)
      PROVE  \E k \in 1..(i - 1) : t[k].do \in {"clear", "remove"} /\ t[k].at = e
  <2>1. n \in Nat /\ Len(t) \in Nat /\ i \in 1..Len(t) /\ Len(s) \in Nat
    BY <1>1, LenProperties
  <2>2. i > n
    <3>1. i \in 1..n => t[i].do = "widen"
      BY <1>1 DEF n
    <3>2. i \notin 1..n
      BY <1>7, <3>1
    <3> QED BY ONLY <2>1, <3>2
  <2>0. i - n + 1 \in 2..Len(s) /\ t[i] = s[i - n + 1]
    BY <1>1, <2>2
  <2>3. PICK m \in 1..Len(s) : m \in 2..Len(s) /\ t[i] = s[m] /\ m = i - n + 1
    BY ONLY <2>0, <2>1
  <2>4. ChildOf(f, s[m].at, e) /\ s[m].do = "remove"
    BY <1>4, <1>7, <2>3 DEF ChildOf
  <2>5. PICK k \in 1..(m - 1) : s[k].do \in {"clear", "remove"} /\ s[k].at = e
    <3>1. RemovesUp(s, f)
      BY DEF Tidies
    <3>2. m \in 1..Len(s) /\ s[m].do = "remove" /\ ChildOf(f, s[m].at, e)
      BY <2>3, <2>4
    <3> QED BY ONLY <3>1, <3>2, RemovesFirst
  <2>6. k # 1 /\ k \in 1..(m - 1)
    BY <2>5
  <2>7. k \in 2..Len(s) /\ n + k - 1 \in 1..(i - 1)
    BY ONLY <2>1, <2>3, <2>6
  <2>8. t[n + k - 1] = s[k]
    BY <1>1, <2>7
  <2> QED BY <2>5, <2>7, <2>8
<1>8. ASSUME NEW d \in Path, IsPrefix(at, d), Kind(g, d) = "dir", ~Wide(p, g, d)
      PROVE  \E i \in 1..Len(t) : t[i].do = "widen" /\ IsPrefix(t[i].at, d)
  <2>1. PICK i \in 1..Len(s) : s[i].do = "widen" /\ IsPrefix(s[i].at, d)
    BY <1>4, <1>8 DEF Tidies
  <2>2. CASE i = 1
    <3>1. IsPrefix(q, d) /\ d # q /\ There(f, d)
      BY <1>4, <1>8, <2>1, <2>2, EmptyPath DEF q, There
    <3>2. PICK e : ChildOf(f, q, e) /\ IsPrefix(e, d)
      BY <1>2, <3>1, WayDown
    <3>3. PICK k \in 1..n : jobs[k].at = e
      BY <3>2 DEF n, q
    <3>4. jobs[k].do = "widen" /\ k \in 1..Len(t) /\ t[k] = jobs[k]
      BY <1>1, <3>3 DEF n
    <3> QED BY <3>2, <3>3, <3>4
  <2>3. CASE i # 1
    <3>1. i \in 2..Len(s)
      BY <1>1, <2>3
    <3>2. n + i - 1 \in 1..Len(t) /\ t[n + i - 1] = s[i]
      BY <1>1, <3>1
    <3> QED BY <2>1, <3>2
  <2> QED BY <2>2, <2>3
<1>9. ASSUME There(g, at) PROVE \E i \in 1..Len(t) : t[i].do \in {"clear", "remove"} /\ t[i].at = at
  <2>1. PICK i \in 1..Len(s) : s[i].do \in {"clear", "remove"} /\ s[i].at = at
    BY <1>4, <1>9 DEF Tidies
  <2>2. i # 1
    BY <2>1
  <2>3. i \in 2..Len(s)
    BY <1>1, <2>2
  <2>4. n + i - 1 \in 1..Len(t) /\ t[n + i - 1] = s[i]
    BY <1>1, <2>3
  <2> QED BY <2>1, <2>4
<1> QED BY <1>1, <1>5, <1>6, <1>7, <1>8, <1>9 DEF Tidies, WidensDown, RemovesUp

\* Once the first job is not to widen, there is none to widen.
LEMMA AllWide ==
  ASSUME NEW p, NEW at, NEW s \in Seq(JobType), s # <<>>, NEW f,
         Tidies(p, at, s, f), s[1].do # "widen"
  PROVE  \A i \in 1..Len(s) : s[i].do \in {"clear", "remove"}
<1> SUFFICES ASSUME NEW i \in 1..Len(s), s[i].do = "widen" PROVE FALSE
  BY DEF Tidies
<1>1. 1 \in 1..i
  BY LenProperties
<1> QED BY <1>1 DEF Tidies, WidensDown

Splices(s, jobs, t) == t = jobs \o Tail(s)
ClearsAll(f, q, jobs) ==
  /\ jobs # <<>> /\ jobs[Len(jobs)].do = "remove" /\ jobs[Len(jobs)].at = q
  /\ \A i \in 1..(Len(jobs) - 1) : jobs[i].do = "clear" /\ ChildOf(f, q, jobs[i].at)
  /\ \A e : ChildOf(f, q, e) => \E i \in 1..(Len(jobs) - 1) : jobs[i].at = e

\* A directory is next to be removed, after its children.
LEMMA ClearTidies ==
  ASSUME NEW p, NEW at \in Path, NEW s \in Seq(JobType), s # <<>>, NEW f, Tree(f),
         Tidies(p, at, s, f), s[1].do = "clear",
         NEW jobs \in Seq(JobType), NEW t, Splices(s, jobs, t),
         ClearsAll(f, s[1].at, jobs)
  PROVE  t \in Seq(JobType) /\ Tidies(p, at, t, f)
<1> DEFINE q == s[1].at
           n == Len(jobs)
<1>0. /\ jobs # <<>> /\ jobs[n].do = "remove" /\ jobs[n].at = q
      /\ \A i \in 1..(n - 1) : jobs[i].do = "clear" /\ ChildOf(f, q, jobs[i].at)
      /\ \A e : ChildOf(f, q, e) => \E i \in 1..(n - 1) : jobs[i].at = e
  BY DEF ClearsAll
<1>1. /\ t \in Seq(JobType) /\ n \in Nat /\ Len(s) \in Nat \ {0} /\ Len(t) = n + Len(s) - 1
      /\ \A i \in 1..n : i \in 1..Len(t) /\ t[i] = jobs[i]
      /\ \A i \in 2..Len(s) : n + i - 1 \in 1..Len(t) /\ t[n + i - 1] = s[i]
      /\ \A i \in 1..Len(t) : i > n => i - n + 1 \in 2..Len(s) /\ t[i] = s[i - n + 1]
      /\ n # 0
  BY <1>0, Spliced, EmptySeq DEF Splices
<1>2. /\ q \in Path /\ q \in Seq(Name) /\ at \in Seq(Name) /\ IsPrefix(at, q)
  BY <1>1, PathFacts DEF Tidies, Place
<1>3. ASSUME NEW i \in 1..(n - 1)
      PROVE  jobs[i].at \in Path /\ jobs[i].at \in Seq(Name) /\ IsPrefix(q, jobs[i].at)
  <2> DEFINE e == jobs[i].at
  <2>1. ChildOf(f, q, e)
    BY <1>0
  <2> HIDE DEF e, q
  <2>2. e \in Path /\ e \in Seq(Name) /\ IsPrefix(q, e)
    BY <1>2, <2>1, ChildFacts
  <2> QED BY <2>2 DEF e
<1>4. \A i \in 1..Len(s) : s[i].do \in {"clear", "remove"}
  BY AllWide
<1>5. \A i \in 1..n : i = n \/ i \in 1..(n - 1)
  BY <1>1
<1> HIDE DEF q, n
<1>6. ASSUME NEW i \in 1..Len(t)
      PROVE  t[i].do \in {"clear", "remove"} /\ t[i].at \in Path /\ IsPrefix(at, t[i].at)
  <2>1. CASE i <= n
    <3>1. i \in 1..n /\ t[i] = jobs[i]
      BY <1>1, <2>1
    <3>2. CASE i = n
      BY <1>0, <1>2, <3>1, <3>2
    <3>3. CASE i \in 1..(n - 1)
      <4>1. IsPrefix(at, jobs[i].at)
        BY <1>2, <1>3, <3>3, PrefixOrder
      <4>2. jobs[i].do = "clear"
        BY <1>0, <3>3
      <4> QED BY <1>3, <3>1, <3>3, <4>1, <4>2
    <3> QED BY <1>5, <3>1, <3>2, <3>3
  <2>2. CASE i > n
    <3> DEFINE m == i - n + 1
    <3>1. m \in 2..Len(s) /\ t[i] = s[m]
      BY <1>1, <2>2
    <3> HIDE DEF m
    <3>2. m \in 1..Len(s)
      BY <1>1, <3>1
    <3> QED BY <1>4, <3>1, <3>2 DEF Tidies
  <2> QED BY <1>1, <2>1, <2>2
<1>7. ASSUME NEW i \in 1..Len(t), t[i].do = "remove", NEW e, ChildOf(f, t[i].at, e)
      PROVE  \E k \in 1..(i - 1) : t[k].do \in {"clear", "remove"} /\ t[k].at = e
  <2>1. CASE i <= n
    <3>1. i = n
      <4>1. i \in 1..n /\ t[i] = jobs[i]
        BY <1>1, <2>1
      <4> QED BY <1>0, <1>5, <1>7, <4>1
    <3>2. ChildOf(f, q, e)
      BY <1>0, <1>1, <1>7, <3>1
    <3>3. PICK k \in 1..(n - 1) : jobs[k].at = e
      BY <1>0, <3>2
    <3>4. k \in 1..n /\ jobs[k].do = "clear"
      BY <1>0, <1>1, <3>3
    <3> QED BY <1>1, <3>1, <3>3, <3>4
  <2>2. CASE i > n
    <3>1. PICK m \in 1..Len(s) : m \in 2..Len(s) /\ t[i] = s[m] /\ m - 1 = i - n
      <4>1. i - n + 1 \in 2..Len(s) /\ t[i] = s[i - n + 1]
        BY <1>1, <2>2
      <4>2. i - n + 1 \in 1..Len(s) /\ (i - n + 1) - 1 = i - n
        <5>1. i \in Int /\ n \in Int /\ Len(s) \in Int
          BY <1>1
        <5> QED BY <4>1, <5>1
      <4> QED BY <4>1, <4>2
    <3>2. PICK k \in 1..(m - 1) : s[k].do \in {"clear", "remove"} /\ s[k].at = e
      <4>1. RemovesUp(s, f)
        BY DEF Tidies
      <4>2. s[m].do = "remove" /\ ChildOf(f, s[m].at, e)
        BY <1>7, <3>1
      <4> QED BY <4>1, <4>2, RemovesFirst
    <3>3. CASE k = 1
      <4>1. n \in 1..(i - 1) /\ n \in 1..n
        BY <1>1, <2>2
      <4>2. t[n] = jobs[n] /\ jobs[n].do = "remove" /\ jobs[n].at = e
        <5>1. jobs[n].do = "remove" /\ jobs[n].at = q /\ q = e
          BY <1>0, <3>2, <3>3 DEF q
        <5> QED BY <1>1, <4>1, <5>1
      <4> QED BY <4>1, <4>2
    <3>4. CASE k # 1
      <4>1. k \in 2..Len(s) /\ n + k - 1 \in 1..(i - 1)
        BY <1>1, <2>2, <3>1, <3>2, <3>4
      <4>2. t[n + k - 1] = s[k]
        BY <1>1, <4>1
      <4> QED BY <3>2, <4>1, <4>2
    <3> QED BY <3>3, <3>4
  <2>3. i <= n \/ i > n
    BY <1>1
  <2> QED BY <2>1, <2>2, <2>3
<1>8. \A d \in Path : IsPrefix(at, d) /\ Kind(f, d) = "dir" => Wide(p, f, d)
  BY <1>4 DEF Tidies
<1>9. ASSUME There(f, at) PROVE \E i \in 1..Len(t) : t[i].do \in {"clear", "remove"} /\ t[i].at = at
  <2>1. PICK i \in 1..Len(s) : s[i].do \in {"clear", "remove"} /\ s[i].at = at
    BY <1>9 DEF Tidies
  <2>2. CASE i = 1
    <3>1. n \in 1..n
      BY <1>1
    <3> QED BY <1>0, <1>1, <2>1, <2>2, <3>1 DEF q
  <2>3. CASE i # 1
    <3>1. i \in 2..Len(s)
      BY <1>1, <2>3
    <3>2. n + i - 1 \in 1..Len(t) /\ t[n + i - 1] = s[i]
      BY <1>1, <3>1
    <3> QED BY <2>1, <3>2
  <2> QED BY <2>2, <2>3
<1> QED BY <1>1, <1>6, <1>7, <1>8, <1>9 DEF Tidies, WidensDown, RemovesUp

\* The first path to remove is not there any more.
LEMMA RemoveTidies ==
  ASSUME NEW p, NEW at \in Path, NEW s \in Seq(JobType), s # <<>>, NEW f, NEW g,
         Tidies(p, at, s, f), s[1].do = "remove", NEW t, t = <<>> \o Tail(s),
         \A r \in Path : r # s[1].at => g[r] = f[r], ~There(g, s[1].at)
  PROVE  t \in Seq(JobType) /\ Tidies(p, at, t, g)
<1> DEFINE q == s[1].at
<1>1. /\ t \in Seq(JobType) /\ Len(s) \in Nat \ {0} /\ Len(t) = Len(s) - 1
      /\ \A i \in 1..Len(t) : i + 1 \in 2..Len(s) /\ t[i] = s[i + 1]
      /\ \A i \in 2..Len(s) : i - 1 \in 1..Len(t) /\ t[i - 1] = s[i]
  <2> DEFINE jobs == <<>>
  <2>1. jobs \in Seq(JobType) /\ Len(jobs) = 0 /\ t = jobs \o Tail(s)
    BY Shorts
  <2> HIDE DEF jobs
  <2>2. /\ t \in Seq(JobType) /\ Len(s) \in Nat \ {0}
        /\ Len(t) = Len(jobs) + Len(s) - 1
        /\ \A i \in 2..Len(s) : /\ Len(jobs) + i - 1 \in 1..Len(t)
                                /\ t[Len(jobs) + i - 1] = s[i]
        /\ \A i \in 1..Len(t) : i > Len(jobs) => /\ i - Len(jobs) + 1 \in 2..Len(s)
                                                 /\ t[i] = s[i - Len(jobs) + 1]
    BY <2>1, Spliced
  <2>3. \A i \in 2..Len(s) : 0 + i - 1 = i - 1
    BY <2>2
  <2>4. \A i \in 1..Len(t) : i - 0 + 1 = i + 1 /\ i > 0
    BY <2>2
  <2> QED BY <2>1, <2>2, <2>3, <2>4
<1>2. \A i \in 1..Len(s) : s[i].do \in {"clear", "remove"}
  BY AllWide
<1>3. \A r : r # q => (There(g, r) <=> There(f, r)) /\ Kind(g, r) = Kind(f, r)
  BY DEF There, Kind
<1>4. \A r : There(g, r) => r # q /\ There(f, r)
  BY <1>3
<1> HIDE DEF q
<1>5. ASSUME NEW i \in 1..Len(t)
      PROVE  t[i].do \in {"clear", "remove"} /\ t[i].at \in Path /\ IsPrefix(at, t[i].at)
  BY <1>1, <1>2 DEF Tidies
<1>6. ASSUME NEW i \in 1..Len(t), t[i].do = "remove", NEW e, ChildOf(g, t[i].at, e)
      PROVE  \E k \in 1..(i - 1) : t[k].do \in {"clear", "remove"} /\ t[k].at = e
  <2>1. ChildOf(f, s[i + 1].at, e) /\ e # q /\ s[i + 1].do = "remove" /\ i + 1 \in 1..Len(s)
    BY <1>1, <1>4, <1>6 DEF ChildOf
  <2> DEFINE m == i + 1
  <2>2. PICK k \in 1..(m - 1) : s[k].do \in {"clear", "remove"} /\ s[k].at = e
    <3>1. ChildOf(f, s[m].at, e) /\ s[m].do = "remove" /\ m \in 1..Len(s)
      BY <2>1
    <3> HIDE DEF m
    <3>2. RemovesUp(s, f)
      BY DEF Tidies
    <3> QED BY <3>1, <3>2 DEF RemovesUp
  <2>3. k # 1
    BY <2>1, <2>2 DEF q
  <2>4. k \in 2..Len(s) /\ k - 1 \in 1..(i - 1)
    BY <1>1, <2>1, <2>2, <2>3
  <2> QED BY <1>1, <2>2, <2>4
<1>7. ASSUME NEW d \in Path, IsPrefix(at, d), Kind(g, d) = "dir" PROVE Wide(p, g, d)
  <2>1. There(g, d)
    BY <1>7, EmptyPath DEF There
  <2>2. Kind(f, d) = "dir" /\ g[d] = f[d]
    BY <1>3, <1>4, <1>7, <2>1 DEF q
  <2>3. Wide(p, f, d)
    BY <1>2, <1>7, <2>2 DEF Tidies
  <2> QED BY <2>2, <2>3 DEF Wide
<1>8. ASSUME There(g, at) PROVE \E i \in 1..Len(t) : t[i].do \in {"clear", "remove"} /\ t[i].at = at
  <2>1. PICK i \in 1..Len(s) : s[i].do \in {"clear", "remove"} /\ s[i].at = at
    BY <1>4, <1>8 DEF Tidies
  <2>2. i # 1
    BY <1>4, <1>8, <2>1 DEF q
  <2>3. i \in 2..Len(s)
    BY <1>1, <2>2
  <2> QED BY <1>1, <2>1, <2>3
<1> QED BY <1>1, <1>5, <1>6, <1>7, <1>8 DEF Tidies, WidensDown, RemovesUp

\* The agenda of a destructor that found its path.
LEMMA FirstTidies ==
  ASSUME NEW p, NEW at \in Path, NEW f, There(f, at), NEW s,
         s = <<Job("widen", at), Job("clear", at)>>
  PROVE  Tidies(p, at, s, f)
<1>1. at \in Seq(Name) /\ \A d \in Path : d \in Seq(Name)
  BY PathFacts DEF Place
<1>2. /\ Len(s) = 2 /\ s[1].do = "widen" /\ s[2].do = "clear" /\ s[1].at = at /\ s[2].at = at
      /\ \A i \in 1..Len(s) : i = 1 \/ i = 2
  BY DEF Job
<1>3. IsPrefix(at, at) /\ \A d \in Path : IsPrefix(at, d) /\ IsPrefix(d, at) => d = at
  BY <1>1, PrefixOrder
<1>4. WidensDown(p, at, s, f)
  <2> SUFFICES ASSUME NEW i \in 1..Len(s), s[i].do = "widen"
               PROVE  /\ There(f, s[i].at)
                      /\ \A d \in Path : IsPrefix(at, d) /\ IsPrefix(d, s[i].at) /\ d # s[i].at =>
                           Wide(p, f, d)
                      /\ \A k \in 1..i : s[k].do = "widen"
    BY DEF WidensDown
  <2>1. i = 1
    BY <1>2
  <2>2. \A k \in 1..1 : k = 1
    OBVIOUS
  <2> QED BY <1>2, <1>3, <2>1, <2>2
<1>5. RemovesUp(s, f)
  BY <1>2 DEF RemovesUp
<1>6. 1 \in 1..Len(s) /\ 2 \in 1..Len(s)
  BY <1>2
<1> QED BY <1>2, <1>3, <1>4, <1>5, <1>6 DEF Tidies

\* When the agenda is done the path is not there, and nothing else has changed.
LEMMA TidyEnds ==
  ASSUME NEW p, NEW c, NEW f, Asked(c), c.op = "~PathRAII", InTidy(p, c, f), c.todo = <<>>
  PROVE  Fulfilled(p, c, f)
<1>1. Tidies(p, c.at, c.todo, f) /\ OnlyLess(c, f)
  <2> DEFINE j == Job("tidy", c.at)
             s == <<>>
  <2>1. j \in JobType /\ s \in Seq(JobType)
    BY AskedPaths, JobTyped, Shorts DEF JobName
  <2> HIDE DEF j, s
  <2>2. Cons(j, s) # <<>>
    BY <2>1, ConsFacts
  <2> QED BY <2>2 DEF InTidy, j, s
<1>2. ~There(f, c.at)
  <2>1. ~\E i \in 1..Len(c.todo) : TRUE
    OBVIOUS
  <2> QED BY <1>1, <2>1 DEF Tidies
<1>3. RestKept(p, c, f)
  <2>1. \A q \in Path : f[q].kind # "none" => c.before[q].kind # "none"
    BY <1>1 DEF OnlyLess
  <2>2. \A q \in Path : ~IsPrefix(c.at, q) => f[q] = c.before[q]
    BY <1>1 DEF OnlyLess
  <2> QED BY <2>1, <2>2 DEF RestKept
<1> QED BY <1>2, <1>3 DEF Fulfilled

\* The steps of the destructor.
LEMMA TidyStepWorks ==
  ASSUME NEW p, Stepping(p), Asked(call[p]), call[p].op = "~PathRAII",
         InTidy(p, call[p], fs)
  PROVE  \/ Throwing(p, call[p], call'[p], fs')
         \/ Ending(p, call[p], call'[p], fs')
         \/ SameCall(call[p], call'[p]) /\ InTidy(p, call'[p], fs')
<1> DEFINE c == call[p]
           d == call'[p]
           at == c.at
           tidy == Job("tidy", at)
           widen == Job("widen", at)
           clear == Job("clear", at)
<1>1. /\ at \in Path /\ at \in Seq(Name) /\ at \in Place /\ IsPrefix(at, at)
      /\ Tree(fs) /\ c \in CallType /\ c.todo # <<>> /\ Now(p) = Head(c.todo)
      /\ c.todo \in Seq(JobType)
  BY AskedPaths, StepOfJob DEF CallType
<1>2. /\ tidy \in JobType /\ tidy.do = "tidy" /\ tidy.at = at
      /\ widen \in JobType /\ clear \in JobType
  BY <1>1, JobTyped DEF JobName
<1> HIDE DEF tidy, widen, clear
<1>3. CASE c.todo = Cons(tidy, <<>>) /\ fs = c.before
  <2> DEFINE s == <<>>
  <2>0. s \in Seq(JobType) /\ \A jobs \in Seq(JobType) : jobs \o s = jobs
    BY Shorts, ConcatEmptySeq
  <2>1. c.todo = Cons(tidy, s)
    BY <1>3
  <2>2. s = <<>>
    OBVIOUS
  <2> HIDE DEF s
  <2>3. /\ Now(p) = tidy
        /\ Goes(c, d, <<>>) => SameCall(c, d) /\ d.todo = s
        /\ \A jobs \in Seq(JobType) : Goes(c, d, jobs) => SameCall(c, d) /\ d.todo = jobs \o s
    BY <1>2, <2>0, <2>1, AtHand
  <2>4. Now(p).at = at /\ Now(p).do = "tidy"
    BY <1>2, <2>3
  <2>5. \/ Refuses(p)
        \/ fs' = fs /\ Goes(c, d, IF There(fs, at) THEN <<widen, clear>> ELSE <<>>)
    BY <2>4, DoesTidy DEF widen, clear
  <2>6. CASE Refuses(p)
    BY <2>4, <2>6 DEF Refuses, Uses, Throwing, Pardoned
  <2>7. CASE fs' = fs /\ There(fs, at) /\ Goes(c, d, <<widen, clear>>)
    <3>1. <<widen, clear>> \in Seq(JobType)
      BY <1>2
    <3>2. SameCall(c, d) /\ d.todo = <<widen, clear>>
      BY <2>0, <2>3, <2>7, <3>1
    <3>3. Tidies(p, at, d.todo, fs')
      BY <1>1, <2>7, <3>2, FirstTidies DEF widen, clear
    <3>4. d.at = at /\ d.before = fs'
      BY <1>3, <2>7, <3>2 DEF SameCall
    <3>5. OnlyLess(d, fs')
      BY <3>4 DEF OnlyLess
    <3> QED BY <3>2, <3>3, <3>4, <3>5 DEF InTidy
  <2>8. CASE fs' = fs /\ ~There(fs, at) /\ Goes(c, d, <<>>)
    <3>1. SameCall(c, d) /\ d.todo = <<>>
      BY <2>2, <2>3, <2>8
    <3>2. d.at = at /\ d.before = fs' /\ d.op = "~PathRAII"
      BY <1>3, <2>8, <3>1 DEF SameCall
    <3>3. RestKept(p, d, fs')
      BY <3>1, <3>2, NotBegun DEF Chowns
    <3> QED BY <2>8, <3>1, <3>2, <3>3 DEF Ending, Fulfilled
  <2> QED BY <2>5, <2>6, <2>7, <2>8
<1>4. CASE Tidies(p, at, c.todo, fs) /\ OnlyLess(c, fs)
  <2> DEFINE s == c.todo
             q == s[1].at
  <2>1. s \in Seq(JobType) /\ s # <<>> /\ Now(p) = s[1] /\ 1 \in 1..Len(s) /\ Tidies(p, at, s, fs)
    <3>1. Len(c.todo) \in Nat \ {0}
      BY <1>1, LenProperties, EmptySeq
    <3> QED BY <1>1, <1>4, <3>1
  <2>2. \A jobs \in Seq(JobType) : Goes(c, d, jobs) => SameCall(c, d) /\ d.todo = jobs \o Tail(s)
    <3> SUFFICES ASSUME NEW jobs \in Seq(JobType), Goes(c, d, jobs)
                 PROVE  SameCall(c, d) /\ d.todo = jobs \o Tail(s)
      OBVIOUS
    <3>1. /\ d \in CallType /\ d.todo = jobs \o Tail(c.todo) /\ d.failed = c.failed
          /\ d.op = c.op /\ d.from = c.from /\ d.at = c.at /\ d.own = c.own
          /\ d.before = c.before
      <4>1. c \in CallType /\ c.todo # <<>>
        BY <1>1
      <4>2. Goes(c, d, jobs)
        OBVIOUS
      <4> HIDE DEF c, d
      <4> QED BY <4>1, <4>2, GoesFacts
    <3> QED BY <3>1 DEF SameCall
  <2> HIDE DEF s
  <2>3. /\ s[1].do \in {"widen", "clear", "remove"} /\ q \in Path /\ IsPrefix(at, q)
        /\ WidensDown(p, at, s, fs) /\ RemovesUp(s, fs)
    BY <2>1 DEF Tidies
  <2>4. q \in Place /\ q \in Seq(Name) /\ q \in Below(at) /\ Now(p).at = q
    BY <2>1, <2>3, PathFacts DEF Below, Place
  <2> HIDE DEF q
  <2>5. CASE Refuses(p)
    <3>1. Closed(p, fs, q)
      BY <2>1, <2>3, <2>4, <2>5 DEF Refuses, Uses
    <3>2. Closed(p, fs, at)
      BY <1>1, <2>1, <3>1, TidyOpen DEF q
    <3> QED BY <2>5, <3>2 DEF Refuses, Throwing, Pardoned
  <2>6. ASSUME SameCall(c, d), Tidies(p, at, d.todo, fs'),
               \A r \in Path : /\ ~IsPrefix(at, r) => fs'[r] = fs[r]
                               /\ fs'[r].kind # "none" => fs[r].kind # "none"
        PROVE  SameCall(c, d) /\ InTidy(p, d, fs')
    <3>1. d.at = at /\ d.before = c.before
      BY <2>6 DEF SameCall
    <3>2. OnlyLess(d, fs')
      <4>1. \A r \in Path : IF IsPrefix(at, r) THEN fs[r].kind # "none" => c.before[r].kind # "none"
                                               ELSE fs[r] = c.before[r]
        BY <1>4 DEF OnlyLess
      <4> QED BY <2>6, <3>1, <4>1 DEF OnlyLess
    <3> QED BY <2>6, <3>1, <3>2 DEF InTidy
  <2>7. CASE s[1].do = "widen"
    <3>0. There(fs, q)
      BY <2>1, <2>3, <2>7 DEF WidensDown, q
    <3>1. \/ Refuses(p)
          \/ /\ ~There(fs, q) \/ Uid[p] \notin {Root, fs[q].owner}
             /\ Fails(c, d) /\ fs' = fs
          \/ Kind(fs, q) = "file" /\ Goes(c, d, <<>>) /\ fs' = fs
          \/ /\ Kind(fs, q) = "dir" /\ fs' = [fs EXCEPT ![q].mode = @ \cup {"x"}]
             /\ \/ Goes(c, d, ForAll("widen", Children(q)))
                \/ Uid[p] # Root /\ "r" \notin fs[q].mode /\ Fails(c, d)
      <4>1. Now(p).do = "widen"
        BY <2>1, <2>7
      <4> QED BY <2>4, <4>1, DoesWiden
    <3>2. CASE Uid[p] \notin {Root, fs[q].owner} /\ Fails(c, d) /\ fs' = fs
      BY <2>4, <3>0, <3>2 DEF Throwing, Pardoned
    <3>3. CASE Kind(fs, q) = "file" /\ Goes(c, d, <<>>) /\ fs' = fs
      <4> DEFINE jobs == <<>>
      <4>1. jobs \in Seq(JobType) /\ Goes(c, d, jobs) /\ Len(jobs) = 0
        BY <3>3, Shorts
      <4> HIDE DEF jobs
      <4>2. SameCall(c, d) /\ d.todo = jobs \o Tail(s)
        BY <2>2, <4>1
      <4>3. \A e : ~ChildOf(fs, q, e)
        BY <1>1, <2>4, <3>3, ChildFacts
      <4>4. \A i \in 1..Len(jobs) : FALSE
        BY <4>1
      <4>5. Tidies(p, at, d.todo, fs')
        BY <1>1, <2>1, <2>7, <3>3, <4>1, <4>2, <4>3, <4>4, WidenTidies DEF q
      <4> QED BY <2>6, <3>3, <4>2, <4>5
    <3>4. CASE Kind(fs, q) = "dir" /\ fs' = [fs EXCEPT ![q].mode = @ \cup {"x"}]
      <4>1. /\ \A r \in Path : r # q => fs'[r] = fs[r]
            /\ fs'[q].kind = fs[q].kind /\ fs'[q].mode = fs[q].mode \cup {"x"}
        BY <1>1, <2>3, <3>4 DEF Tree, Node
      <4>2. \A r \in Path : fs'[r].kind = fs[r].kind /\ (Wide(p, fs, r) => Wide(p, fs', r))
        BY <4>1 DEF Wide
      <4>3. CASE Uid[p] # Root /\ "r" \notin fs[q].mode /\ Fails(c, d)
        <5>1. "r" \notin fs'[q].mode
          BY <4>1, <4>3
        <5>2. Kind(fs', q) = "dir" /\ There(fs', q)
          BY <2>3, <2>4, <3>0, <3>4, <4>1 DEF Kind, There
        <5> QED BY <2>4, <4>3, <5>1, <5>2 DEF Throwing, Pardoned
      <4>4. CASE Goes(c, d, ForAll("widen", Children(q)))
        <5> DEFINE jobs == ForAll("widen", Children(q))
        <5>1. /\ jobs \in Seq(JobType)
              /\ \A i \in 1..Len(jobs) : jobs[i].do = "widen" /\ ChildOf(fs, q, jobs[i].at)
              /\ \A e : ChildOf(fs, q, e) => \E i \in 1..Len(jobs) : jobs[i].at = e
          BY <2>4, ForAllLists
        <5> HIDE DEF jobs
        <5>2. SameCall(c, d) /\ d.todo = jobs \o Tail(s)
          BY <2>2, <4>4, <5>1 DEF jobs
        <5>3. Wide(p, fs', q)
          BY <4>1 DEF Wide
        <5>4. Tidies(p, at, d.todo, fs')
          BY <1>1, <2>1, <2>7, <4>2, <5>1, <5>2, <5>3, WidenTidies DEF q
        <5>5. \A r \in Path : ~IsPrefix(at, r) => fs'[r] = fs[r]
          BY <2>3, <4>1
        <5> QED BY <2>6, <4>2, <5>2, <5>4, <5>5
      <4> QED BY <2>5, <3>1, <3>0, <3>4, <4>3, <4>4, <3>2, <3>3
    <3> QED BY <2>5, <3>0, <3>1, <3>2, <3>3, <3>4
  <2>8. CASE s[1].do = "clear"
    <3> DEFINE list == ForAll("clear", Children(q))
               last == Job("remove", q)
               jobs == list \o <<last>>
    <3>1. /\ list \in Seq(JobType) /\ Len(list) \in Nat
          /\ \A i \in 1..Len(list) : list[i].do = "clear" /\ ChildOf(fs, q, list[i].at)
          /\ \A e : ChildOf(fs, q, e) => \E i \in 1..Len(list) : list[i].at = e
      BY <2>4, ForAllLists, LenProperties
    <3>2. last \in JobType /\ last.do = "remove" /\ last.at = q
      BY <2>4, JobTyped DEF JobName
    <3>3. Refuses(p) \/ (fs' = fs /\ Goes(c, d, jobs))
      <4>1. Now(p).do = "clear"
        BY <2>1, <2>8
      <4> QED BY <2>4, <4>1, DoesClear
    <3> HIDE DEF list, last
    <3>4. /\ jobs \in Seq(JobType) /\ Len(jobs) = Len(list) + 1
          /\ \A i \in 1..Len(list) : jobs[i] = list[i]
          /\ jobs[Len(list) + 1] = last
      <4> DEFINE one == <<last>>
      <4>1. one \in Seq(JobType) /\ Len(one) = 1 /\ one[1] = last
        BY <3>2
      <4> HIDE DEF one
      <4> DEFINE u == list \o one
      <4>2. /\ u \in Seq(JobType) /\ Len(u) = Len(list) + Len(one)
            /\ \A i \in 1..(Len(list) + Len(one)) :
                 u[i] = IF i <= Len(list) THEN list[i] ELSE one[i - Len(list)]
        <5>1. list \in Seq(JobType) /\ one \in Seq(JobType)
          BY <3>1, <4>1
        <5> QED BY <5>1, ConcatProperties
      <4> HIDE DEF u
      <4>3. u \in Seq(JobType) /\ Len(u) = Len(list) + 1 /\ Len(list) \in Nat
        BY <3>1, <4>1, <4>2
      <4>4. \A i \in 1..Len(list) : u[i] = list[i]
        BY <4>1, <4>2, <4>3
      <4>5. u[Len(list) + 1] = last
        <5>1. Len(list) + 1 \in 1..(Len(list) + Len(one)) /\ ~(Len(list) + 1 <= Len(list))
              /\ (Len(list) + 1) - Len(list) = 1
          BY <4>1, <4>3
        <5> QED BY <4>1, <4>2, <5>1
      <4> QED BY <4>3, <4>4, <4>5 DEF u, one
    <3> HIDE DEF jobs
    <3>5. ClearsAll(fs, q, jobs)
      <4>1. jobs # <<>> /\ Len(jobs) - 1 = Len(list)
        BY <3>1, <3>4, EmptySeq
      <4>2. jobs[Len(jobs)] = last
        BY <3>4
      <4>3. \A i \in 1..Len(list) : jobs[i].do = "clear" /\ ChildOf(fs, q, jobs[i].at)
        BY <3>1, <3>4
      <4>4. \A e : ChildOf(fs, q, e) => \E i \in 1..Len(list) : jobs[i].at = e
        BY <3>1, <3>4
      <4> QED BY <3>2, <4>1, <4>2, <4>3, <4>4 DEF ClearsAll
    <3>6. CASE fs' = fs /\ Goes(c, d, jobs)
      <4>1. SameCall(c, d) /\ d.todo = jobs \o Tail(s)
        BY <2>2, <3>4, <3>6
      <4>2. Tidies(p, at, d.todo, fs)
        BY <1>1, <2>1, <2>8, <3>4, <3>5, <4>1, ClearTidies DEF q, Splices
      <4> QED BY <2>6, <3>6, <4>1, <4>2
    <3> QED BY <2>5, <3>3, <3>6
  <2>9. CASE s[1].do = "remove"
    <3> DEFINE jobs == <<>>
    <3>1. jobs \in Seq(JobType) /\ jobs = <<>>
      BY Shorts
    <3> HIDE DEF jobs
    <3>2. ~\E e : ChildOf(fs, q, e)
      <4>1. ~\E k \in 1..(1 - 1) : TRUE
        OBVIOUS
      <4> QED BY <2>1, <2>3, <2>9, <4>1 DEF RemovesUp, q
    <3>3. \/ Refuses(p)
          \/ ~There(fs, q) /\ Goes(c, d, jobs) /\ fs' = fs
          \/ Goes(c, d, jobs) /\ fs' = [fs EXCEPT ![q] = Nothing]
      <4>1. Now(p).do = "remove"
        BY <2>1, <2>9
      <4> QED BY <2>4, <3>1, <3>2, <4>1, DoesRemove
    <3>4. ASSUME Goes(c, d, jobs), ~There(fs', q), \A r \in Path : r # q => fs'[r] = fs[r]
          PROVE  SameCall(c, d) /\ InTidy(p, d, fs')
      <4>1. SameCall(c, d) /\ d.todo = <<>> \o Tail(s)
        BY <2>2, <3>1, <3>4
      <4>2. Tidies(p, at, d.todo, fs')
        BY <1>1, <2>1, <2>9, <3>4, <4>1, RemoveTidies DEF q
      <4>3. fs'[q].kind = "none"
        BY <2>3, <2>4, <3>4 DEF There, Kind, Place
      <4>4. \A r \in Path : /\ ~IsPrefix(at, r) => fs'[r] = fs[r]
                            /\ fs'[r].kind # "none" => fs[r].kind # "none"
        BY <2>3, <3>4, <4>3
      <4> QED BY <2>6, <4>1, <4>2, <4>4
    <3>5. CASE Goes(c, d, jobs) /\ fs' = [fs EXCEPT ![q] = Nothing]
      <4>1. ~There(fs', q) /\ \A r \in Path : r # q => fs'[r] = fs[r]
        BY <1>1, <2>3, <3>5, EmptyPath DEF Tree, There, Kind, Nothing
      <4> QED BY <3>4, <3>5, <4>1
    <3>6. CASE ~There(fs, q) /\ Goes(c, d, jobs) /\ fs' = fs
      BY <3>4, <3>6
    <3> QED BY <2>5, <3>3, <3>5, <3>6
  <2> QED BY <2>3, <2>7, <2>8, <2>9
<1> QED BY <1>3, <1>4 DEF InTidy, tidy
==============================================================================
