--------------------------- MODULE PathRAIIProofs ----------------------------
(***************************************************************************)
(* Theorems about Folders and PathRAII, for all processes, users, file     *)
(* systems, requests and objects: every step of a call keeps FoldersInv,   *)
(* and leaves alone what the call has to leave alone.                      *)
(*                                                                         *)
(* First the agendas: what their jobs find, and what they leave alone,     *)
(* whatever other processes do between them.                               *)
(***************************************************************************)
EXTENDS PathRAII, SequenceTheorems, FiniteSetTheorems, TLAPS

(* Places and jobs *)

\* A place is a path of any length.
JobName == {"folder", "mkdir", "made", "chown", "file", "parent", "open",
            "write", "append", "unlink", "remove", "copy", "tree", "absent",
            "list", "entry", "tidy", "widen", "clear"}
Place   == Seq(Name) \ {<<>>}
JobType == [do : JobName, at : Place, from : Place]

\* A path is a place that is not too long.
LEMMA PathFacts ==
  /\ Path \subseteq Place
  /\ \A q : q \in Path <=> q \in Seq(Name) /\ Len(q) \in 1..MaxDepth
<1>1. MaxDepth \in Nat
  BY DepthAssumption
<1>2. ASSUME NEW q \in Path PROVE q \in Seq(Name) /\ Len(q) \in 1..MaxDepth
  <2>1. PICK n \in 1..MaxDepth : q \in [1..n -> Name]
    BY DEF Path
  <2> QED BY <1>1, <2>1
<1>3. ASSUME NEW q \in Seq(Name), Len(q) \in 1..MaxDepth PROVE q \in Path
  <2>1. q \in [1..Len(q) -> Name]
    BY LenProperties
  <2> QED BY <1>3, <2>1 DEF Path
<1> QED BY <1>2, <1>3, EmptySeq DEF Place

\* The folder above a path.
LEMMA FrontFacts ==
  ASSUME NEW at \in Place
  PROVE  /\ Len(at) \in Nat \ {0} /\ Front(at) \in Seq(Name)
         /\ Len(Front(at)) = Len(at) - 1
         /\ \A i \in 1..(Len(at) - 1) : Front(at)[i] = at[i]
         /\ Front(at) # <<>> => Front(at) \in Place /\ Front(at) \in Above(at)
<1>1. Len(at) \in Nat \ {0} /\ at \in [1..Len(at) -> Name]
  BY EmptySeq, LenProperties DEF Place
<1>2. \A i \in 1..(Len(at) - 1) : at[i] \in Name
  BY <1>1
<1>3. /\ Front(at) \in Seq(Name) /\ Len(Front(at)) = Len(at) - 1
      /\ \A i \in 1..(Len(at) - 1) : Front(at)[i] = at[i]
  BY <1>1, <1>2, SubSeqProperties DEF Front
<1>4. Front(at) \in Prefixes(at)
  <2>1. Len(at) - 1 \in 0..Len(at)
    BY <1>1
  <2> QED BY <2>1 DEF Front, Prefixes
<1>5. Front(at) # at
  BY <1>1, <1>3
<1> QED BY <1>1, <1>3, <1>4, <1>5 DEF Place, Above

\* A path is a child of the folder above it.
LEMMA ChildOfFront ==
  ASSUME NEW q \in Path, Exists(q), Front(q) # <<>>
  PROVE  Front(q) \in Path /\ q \in Children(Front(q))
<1>1. q \in Place /\ Len(q) \in 1..MaxDepth
  BY PathFacts
<1>2. Front(q) \in Path
  BY <1>1, FrontFacts, PathFacts, DepthAssumption, EmptySeq DEF Place
<1>3. Len(q) = Len(Front(q)) + 1
  BY <1>1, FrontFacts
<1>4. SubSeq(Front(q), 1, Len(Front(q))) = SubSeq(q, 1, Len(Front(q)))
  <2>1. SubSeq(Front(q), 1, Len(Front(q))) = Front(q)
    BY <1>1, FrontFacts, SubSeqFull
  <2>2. SubSeq(q, 1, Len(Front(q))) = Front(q)
    BY <1>1, FrontFacts DEF Front
  <2> QED BY <2>1, <2>2
<1>5. IsPrefix(Front(q), q)
  BY <1>1, <1>3, <1>4, FrontFacts DEF IsPrefix
<1> QED BY <1>2, <1>3, <1>5 DEF Children

LEMMA JobTypes ==
  /\ \A do \in JobName, at \in Place :
       Job(do, at) \in JobType /\ Job(do, at).do = do /\ Job(do, at).at = at
  /\ \A do \in JobName, from, at \in Place :
       /\ JobFrom(do, from, at) \in JobType
       /\ JobFrom(do, from, at).do = do
       /\ JobFrom(do, from, at).from = from /\ JobFrom(do, from, at).at = at
BY DEF Job, JobFrom, JobType

\* createFoldersIfNecessary makes the folders from the top down.
LEMMA CreateFoldersFacts ==
  ASSUME NEW at \in Seq(Name)
  PROVE  /\ CreateFolders(at) \in Seq(JobType) /\ Len(CreateFolders(at)) = Len(at)
         /\ \A i \in 1..Len(at) :
              /\ SubSeq(at, 1, i) \in Place
              /\ CreateFolders(at)[i] = Job("folder", SubSeq(at, 1, i))
              /\ Front(SubSeq(at, 1, i)) = IF i = 1 THEN <<>> ELSE SubSeq(at, 1, i - 1)
<1>1. Len(at) \in Nat /\ at \in [1..Len(at) -> Name]
  BY LenProperties
<1>2. ASSUME NEW i \in 1..Len(at)
      PROVE  /\ SubSeq(at, 1, i) \in Seq(Name) /\ Len(SubSeq(at, 1, i)) = i
             /\ \A k \in 1..i : SubSeq(at, 1, i)[k] = at[k]
  <2>1. \A k \in 1..i : at[k] \in Name
    BY <1>1
  <2> QED BY <1>1, <2>1, SubSeqProperties
<1>3. \A i \in 1..Len(at) : SubSeq(at, 1, i) \in Place
  BY <1>1, <1>2, EmptySeq DEF Place
<1>4. ASSUME NEW i \in 1..Len(at)
      PROVE  Front(SubSeq(at, 1, i)) = IF i = 1 THEN <<>> ELSE SubSeq(at, 1, i - 1)
  <2>1. Front(SubSeq(at, 1, i)) = SubSeq(SubSeq(at, 1, i), 1, i - 1)
    BY <1>2 DEF Front
  <2>2. CASE i = 1
    BY <2>1, <2>2, SubSeqEmpty
  <2>3. CASE i # 1
    <3>1. i - 1 \in 1..Len(at) /\ i - 1 <= i
      BY <1>1, <2>3
    <3>2. SubSeq(SubSeq(at, 1, i), 1, i - 1) = SubSeq(at, 1, i - 1)
      BY <1>1, <1>2, <3>1, SubSeqOfSubSeq
    <3> QED BY <2>1, <2>3, <3>2
  <2> QED BY <2>2, <2>3
<1>5. CreateFolders(at) \in [1..Len(at) -> JobType]
  <2>1. \A i \in 1..Len(at) : Job("folder", SubSeq(at, 1, i)) \in JobType
    BY <1>3, JobTypes DEF JobName
  <2> QED BY <2>1 DEF CreateFolders
<1>6. CreateFolders(at) \in Seq(JobType) /\ Len(CreateFolders(at)) = Len(at)
  BY <1>1, <1>5
<1>7. \A i \in 1..Len(at) : CreateFolders(at)[i] = Job("folder", SubSeq(at, 1, i))
  BY DEF CreateFolders
<1> QED BY <1>3, <1>4, <1>6, <1>7
------------------------------------------------------------------------------
(* Agendas *)

Makes == {"folder", "mkdir", "made", "open", "copy"}

\* The paths of the first jobs of an agenda that make something.
MadeBy(s, n) == {s[k].at : k \in {k \in 1..n : s[k].do \in Makes}}

\* What has to be there, or to have been there, for a folder to be made or a
\* new path to be given to its owner.
Needs(j) == CASE j.do \in {"folder", "mkdir"} -> {Front(j.at)}
              [] j.do \in {"made", "chown"} -> {j.at}
              [] OTHER -> {}

\* Each job of the agenda finds what it needs in W or among what those before
\* it have made.
Led(s, W) == \A i \in 1..Len(s) : Needs(s[i]) \subseteq W \cup MadeBy(s, i - 1)

LEMMA LedMonotonic ==
  ASSUME NEW s, NEW W, NEW V, Led(s, W), W \subseteq V
  PROVE  Led(s, V)
BY DEF Led

\* One agenda after another.
LEMMA LedConcat ==
  ASSUME NEW s \in Seq(JobType), NEW t \in Seq(JobType), NEW W,
         Led(s, W), Led(t, W \cup MadeBy(s, Len(s)))
  PROVE  Led(s \o t, W)
<1> SUFFICES ASSUME NEW i \in 1..Len(s \o t), NEW q \in Needs((s \o t)[i]), q \notin W
             PROVE  q \in MadeBy(s \o t, i - 1)
  BY DEF Led
<1>1. /\ Len(s) \in Nat /\ Len(t) \in Nat /\ Len(s \o t) = Len(s) + Len(t)
      /\ \A k \in 1..(Len(s) + Len(t)) :
           (s \o t)[k] = IF k <= Len(s) THEN s[k] ELSE t[k - Len(s)]
  BY LenProperties, ConcatProperties
<1>2. ASSUME NEW k \in 1..Len(s), k <= i - 1, s[k].do \in Makes
      PROVE  s[k].at \in MadeBy(s \o t, i - 1)
  BY <1>1, <1>2 DEF MadeBy
<1>3. CASE i <= Len(s)
  <2>1. q \in MadeBy(s, i - 1)
    BY <1>1, <1>3 DEF Led
  <2> QED BY <1>1, <1>2, <1>3, <2>1 DEF MadeBy
<1>4. CASE i > Len(s)
  <2>1. i - Len(s) \in 1..Len(t) /\ q \in Needs(t[i - Len(s)])
    BY <1>1, <1>4
  <2>2. q \in MadeBy(s, Len(s)) \cup MadeBy(t, (i - Len(s)) - 1)
    BY <2>1 DEF Led
  <2>3. CASE q \in MadeBy(s, Len(s))
    BY <1>1, <1>2, <1>4, <2>3 DEF MadeBy
  <2>4. CASE q \in MadeBy(t, (i - Len(s)) - 1)
    <3>1. PICK k \in 1..((i - Len(s)) - 1) : t[k].do \in Makes /\ q = t[k].at
      BY <2>4 DEF MadeBy
    <3>2. k + Len(s) \in 1..(i - 1) /\ (s \o t)[k + Len(s)] = t[k]
      BY <1>1, <1>4, <3>1
    <3> QED BY <3>1, <3>2 DEF MadeBy
  <2> QED BY <2>2, <2>3, <2>4
<1> QED BY <1>1, <1>3, <1>4

\* What the rest of an agenda finds when its first job is replaced by others.
LEMMA LedTail ==
  ASSUME NEW s \in Seq(JobType), s # <<>>, NEW W, NEW V, Led(s, W), W \subseteq V,
         Head(s).do \in Makes => Head(s).at \in V
  PROVE  Led(Tail(s), V)
<1> SUFFICES ASSUME NEW i \in 1..Len(Tail(s)), NEW q \in Needs(Tail(s)[i]), q \notin V
             PROVE  q \in MadeBy(Tail(s), i - 1)
  BY DEF Led
<1>1. /\ Len(s) \in Nat /\ Len(Tail(s)) = Len(s) - 1 /\ Head(s) = s[1]
      /\ \A k \in 1..Len(Tail(s)) : Tail(s)[k] = s[k + 1]
  BY LenProperties, HeadTailProperties
<1>2. q \in MadeBy(s, i)
  BY <1>1 DEF Led
<1>3. PICK k \in 1..i : s[k].do \in Makes /\ q = s[k].at
  BY <1>2 DEF MadeBy
<1>4. k # 1
  BY <1>1, <1>3
<1>5. k - 1 \in 1..(i - 1) /\ Tail(s)[k - 1] = s[k]
  BY <1>1, <1>3, <1>4
<1> QED BY <1>3, <1>5 DEF MadeBy

\* Each folder is made in the one made before it.
LEMMA FoldersLed ==
  ASSUME NEW at \in Seq(Name), NEW W, <<>> \in W
  PROVE  /\ Led(CreateFolders(at), W)
         /\ at # <<>> => at \in MadeBy(CreateFolders(at), Len(at))
<1> DEFINE s == CreateFolders(at)
<1>1. /\ Len(s) = Len(at) /\ Len(at) \in Nat
      /\ \A i \in 1..Len(at) :
           /\ s[i].do = "folder" /\ s[i].at = SubSeq(at, 1, i)
           /\ Front(s[i].at) = IF i = 1 THEN <<>> ELSE SubSeq(at, 1, i - 1)
  <2>1. /\ Len(s) = Len(at) /\ Len(at) \in Nat
        /\ \A i \in 1..Len(at) :
             /\ s[i] = Job("folder", SubSeq(at, 1, i))
             /\ Front(SubSeq(at, 1, i)) = IF i = 1 THEN <<>> ELSE SubSeq(at, 1, i - 1)
    BY CreateFoldersFacts, LenProperties
  <2> HIDE DEF s
  <2>3. ASSUME NEW i \in 1..Len(at)
        PROVE  /\ s[i].do = "folder" /\ s[i].at = SubSeq(at, 1, i)
               /\ Front(s[i].at) = IF i = 1 THEN <<>> ELSE SubSeq(at, 1, i - 1)
    <3>1. s[i] = Job("folder", SubSeq(at, 1, i))
      BY <2>1
    <3>2. s[i].do = "folder" /\ s[i].at = SubSeq(at, 1, i)
      BY <3>1 DEF Job
    <3> QED BY <2>1, <3>2
  <2> QED BY <2>1, <2>3
<1> HIDE DEF s
<1>2. ASSUME NEW i \in 1..Len(s) PROVE Needs(s[i]) \subseteq W \cup MadeBy(s, i - 1)
  <2>1. Needs(s[i]) = {Front(s[i].at)}
    BY <1>1 DEF Needs
  <2>2. CASE i = 1
    BY <1>1, <2>1, <2>2
  <2>3. CASE i # 1
    <3>1. i - 1 \in 1..(i - 1) /\ i - 1 \in 1..Len(at)
      BY <1>1, <2>3
    <3>2. s[i - 1].do \in Makes /\ s[i - 1].at = Front(s[i].at)
      BY <1>1, <2>3, <3>1 DEF Makes
    <3>3. Front(s[i].at) \in MadeBy(s, i - 1)
      BY <3>1, <3>2 DEF MadeBy
    <3> QED BY <2>1, <3>3
  <2> QED BY <2>2, <2>3
<1>3. ASSUME at # <<>> PROVE at \in MadeBy(s, Len(at))
  <2>1. Len(at) \in 1..Len(at) /\ SubSeq(at, 1, Len(at)) = at
    BY <1>1, <1>3, EmptySeq, SubSeqFull
  <2> DEFINE n == Len(at)
  <2>2. n \in 1..n /\ s[n].do \in Makes /\ s[n].at = at
    BY <1>1, <2>1 DEF Makes
  <2> HIDE DEF n
  <2>3. at \in MadeBy(s, n)
    BY <2>2 DEF MadeBy
  <2> QED BY <2>3 DEF n
<1> QED BY <1>2, <1>3 DEF Led, s

\* Short agendas.
LEMMA LedShort ==
  /\ \A W : Led(<<>>, W)
  /\ \A j, W : Led(<<j>>, W) <=> Needs(j) \subseteq W
  /\ \A j, k, W : Led(<<j, k>>, W) <=>
       /\ Needs(j) \subseteq W
       /\ Needs(k) \subseteq W \cup (IF j.do \in Makes THEN {j.at} ELSE {})
  /\ \A j, k, l, W :
       /\ Needs(j) \subseteq W
       /\ Needs(k) \subseteq W \cup (IF j.do \in Makes THEN {j.at} ELSE {})
       /\ Needs(l) \subseteq W \cup (IF j.do \in Makes THEN {j.at} ELSE {})
                            \cup (IF k.do \in Makes THEN {k.at} ELSE {})
       => Led(<<j, k, l>>, W)
<1>1. \A s : MadeBy(s, 0) = {}
  BY DEF MadeBy
<1>2. \A s : MadeBy(s, 1) = IF s[1].do \in Makes THEN {s[1].at} ELSE {}
  BY DEF MadeBy
<1>3. \A s : MadeBy(s, 2) = (IF s[1].do \in Makes THEN {s[1].at} ELSE {})
                             \cup (IF s[2].do \in Makes THEN {s[2].at} ELSE {})
  BY DEF MadeBy
<1> HIDE DEF Needs, MadeBy
<1>4. \A W : Led(<<>>, W)
  BY DEF Led
<1>5. \A j, W : Led(<<j>>, W) <=> Needs(j) \subseteq W
  BY <1>1 DEF Led
<1>6. ASSUME NEW j, NEW k, NEW W
      PROVE  Led(<<j, k>>, W) <=>
               /\ Needs(j) \subseteq W
               /\ Needs(k) \subseteq W \cup (IF j.do \in Makes THEN {j.at} ELSE {})
  <2> DEFINE s == <<j, k>>
  <2>1. Led(s, W) <=> /\ Needs(s[1]) \subseteq W \cup MadeBy(s, 0)
                      /\ Needs(s[2]) \subseteq W \cup MadeBy(s, 1)
    BY DEF Led
  <2>2. s[1] = j /\ s[2] = k
    OBVIOUS
  <2> HIDE DEF s
  <2>3. MadeBy(s, 0) = {} /\ MadeBy(s, 1) = IF j.do \in Makes THEN {j.at} ELSE {}
    BY <1>1, <1>2, <2>2
  <2>4. Led(s, W) <=> /\ Needs(j) \subseteq W
                      /\ Needs(k) \subseteq W \cup (IF j.do \in Makes THEN {j.at} ELSE {})
    BY <2>1, <2>2, <2>3
  <2> QED BY <2>4 DEF s
<1>7. ASSUME NEW j, NEW k, NEW l, NEW W,
       /\ Needs(j) \subseteq W
       /\ Needs(k) \subseteq W \cup (IF j.do \in Makes THEN {j.at} ELSE {})
       /\ Needs(l) \subseteq W \cup (IF j.do \in Makes THEN {j.at} ELSE {})
                            \cup (IF k.do \in Makes THEN {k.at} ELSE {})
       PROVE Led(<<j, k, l>>, W)
  <2> DEFINE s == <<j, k, l>>
  <2>1. Led(s, W) <=> /\ Needs(s[1]) \subseteq W \cup MadeBy(s, 0)
                      /\ Needs(s[2]) \subseteq W \cup MadeBy(s, 1)
                      /\ Needs(s[3]) \subseteq W \cup MadeBy(s, 2)
    BY DEF Led
  <2>2. s[1] = j /\ s[2] = k /\ s[3] = l
    OBVIOUS
  <2> HIDE DEF s
  <2>3. Led(s, W)
    BY <1>1, <1>2, <1>3, <1>7, <2>1, <2>2
  <2> QED BY <2>3 DEF s
<1> QED BY <1>4, <1>5, <1>6, <1>7
------------------------------------------------------------------------------
(* Jobs that spare what was there *)

\* Jobs that remove, or only lead to jobs that do; jobs that change what is at
\* their path, whatever it is.
DestructorJobs == {"tidy", "widen", "clear", "unlink"}
Overwriting    == {"chown", "open", "write", "append", "remove", "entry"}

\* Job j, in an agenda with the given first job, leaves the paths in K alone.
\* A folder is listed, and its entries copied, only if the check that it is
\* absent is the first job, or found that nothing of K is in it.
SafeJob(j, K, first) ==
  /\ j.do \in DestructorJobs => K = {}
  /\ j.do \in Overwriting => j.at \notin K
  /\ j.do = "list" => \/ \A q \in K : Front(q) # j.at
                      \/ first = Job("absent", j.at)

Careful(s, K) == \A i \in 1..Len(s) : SafeJob(s[i], K, s[1])

LEMMA CarefulMonotonic ==
  ASSUME NEW s, NEW K, NEW L, Careful(s, K), L \subseteq K
  PROVE  Careful(s, L)
BY DEF Careful, SafeJob

LEMMA CarefulConcat ==
  ASSUME NEW s \in Seq(JobType), NEW t \in Seq(JobType), NEW K, Careful(s, K),
         \A i \in 1..Len(t) : SafeJob(t[i], K, IF s = <<>> THEN t[1] ELSE s[1])
  PROVE  Careful(s \o t, K)
<1> SUFFICES ASSUME NEW i \in 1..Len(s \o t)
             PROVE  SafeJob((s \o t)[i], K, (s \o t)[1])
  BY DEF Careful
<1>1. /\ Len(s) \in Nat /\ Len(t) \in Nat /\ Len(s \o t) = Len(s) + Len(t)
      /\ \A k \in 1..(Len(s) + Len(t)) :
           (s \o t)[k] = IF k <= Len(s) THEN s[k] ELSE t[k - Len(s)]
      /\ Len(s) = 0 <=> s = <<>>
  BY LenProperties, ConcatProperties, EmptySeq
<1>2. (s \o t)[1] = IF s = <<>> THEN t[1] ELSE s[1]
  BY <1>1
<1>3. CASE i <= Len(s)
  BY <1>1, <1>2, <1>3 DEF Careful
<1>4. CASE i > Len(s)
  <2>1. i - Len(s) \in 1..Len(t)
    BY <1>1, <1>4
  <2> QED BY <1>1, <1>2, <1>4, <2>1
<1> QED BY <1>1, <1>3, <1>4

\* The jobs that replace the first one, and the rest.
LEMMA CarefulContinue ==
  ASSUME NEW s \in Seq(JobType), s # <<>>, NEW jobs \in Seq(JobType), NEW K,
         Careful(s, K), Careful(jobs, K),
         Head(s).do = "absent" => \A q \in K : Front(q) # Head(s).at
  PROVE  Careful(jobs \o Tail(s), K)
<1>1. /\ Len(s) \in Nat /\ Len(Tail(s)) = Len(s) - 1 /\ Head(s) = s[1]
      /\ \A k \in 1..Len(Tail(s)) : Tail(s)[k] = s[k + 1]
      /\ Tail(s) \in Seq(JobType)
  BY LenProperties, HeadTailProperties
<1>2. ASSUME NEW i \in 1..Len(Tail(s)), NEW first
      PROVE  SafeJob(Tail(s)[i], K, first)
  <2>1. SafeJob(s[i + 1], K, s[1]) /\ Tail(s)[i] = s[i + 1]
    BY <1>1 DEF Careful
  <2>2. s[1] = Job("absent", s[i + 1].at) =>
          s[1].do = "absent" /\ s[1].at = s[i + 1].at
    BY DEF Job
  <2> QED BY <1>1, <2>1, <2>2 DEF SafeJob
<1> QED BY <1>1, <1>2, CarefulConcat

\* Agendas that change nothing by themselves.
LEMMA CarefulShort ==
  /\ \A K : Careful(<<>>, K)
  /\ \A j, K : SafeJob(j, K, j) => Careful(<<j>>, K)
  /\ \A j, k, K : SafeJob(j, K, j) /\ SafeJob(k, K, j) => Careful(<<j, k>>, K)
  /\ \A j, k, l, K : SafeJob(j, K, j) /\ SafeJob(k, K, j) /\ SafeJob(l, K, j)
                       => Careful(<<j, k, l>>, K)
<1>1. \A K : Careful(<<>>, K)
  BY DEF Careful
<1>2. \A j, K : SafeJob(j, K, j) => Careful(<<j>>, K)
  BY DEF Careful
<1>3. ASSUME NEW j, NEW k, NEW K, SafeJob(j, K, j), SafeJob(k, K, j)
      PROVE  Careful(<<j, k>>, K)
  BY <1>3 DEF Careful
<1>4. ASSUME NEW j, NEW k, NEW l, NEW K,
             SafeJob(j, K, j), SafeJob(k, K, j), SafeJob(l, K, j)
      PROVE  Careful(<<j, k, l>>, K)
  BY <1>4 DEF Careful
<1> QED BY <1>1, <1>2, <1>3, <1>4

LEMMA FoldersDo ==
  ASSUME NEW at \in Seq(Name), NEW i \in 1..Len(CreateFolders(at))
  PROVE  CreateFolders(at)[i].do = "folder"
<1>1. CreateFolders(at)[i] = Job("folder", SubSeq(at, 1, i))
  BY CreateFoldersFacts
<1> QED BY <1>1 DEF Job

LEMMA FoldersCareful ==
  ASSUME NEW at \in Seq(Name), NEW K
  PROVE  Careful(CreateFolders(at), K)
BY FoldersDo DEF Careful, SafeJob, DestructorJobs, Overwriting

LEMMA CopyFileFacts ==
  ASSUME NEW from \in Place, NEW at \in Place
  PROVE  /\ CopyFile(from, at) \in Seq(JobType)
         /\ \A W : <<>> \in W => Led(CopyFile(from, at), W)
         /\ \A K : at \notin K => Careful(CopyFile(from, at), K)
<1> DEFINE s == CreateFolders(Front(at))
           j == Job("remove", at)
           k == JobFrom("copy", from, at)
           l == Job("chown", at)
<1>1. /\ Front(at) \in Seq(Name) /\ s \in Seq(JobType)
      /\ CopyFile(from, at) = s \o <<j, k, l>>
  BY FrontFacts, CreateFoldersFacts DEF CopyFile
<1>2. /\ j \in JobType /\ j.do = "remove" /\ j.at = at
      /\ k \in JobType /\ k.do = "copy" /\ k.at = at
      /\ l \in JobType /\ l.do = "chown" /\ l.at = at
  BY DEF Job, JobFrom, JobType, JobName
<1>3. <<j, k, l>> \in Seq(JobType)
  BY <1>2
<1>4. ASSUME NEW W, <<>> \in W PROVE Led(s \o <<j, k, l>>, W)
  <2>1. Led(s, W)
    BY <1>1, <1>4, FoldersLed
  <2>2. Needs(j) = {} /\ Needs(k) = {} /\ Needs(l) = {at}
    BY <1>2 DEF Needs
  <2>3. k.do \in Makes
    BY <1>2 DEF Makes
  <2> HIDE DEF s, j, k, l
  <2>4. Led(<<j, k, l>>, W \cup MadeBy(s, Len(s)))
    BY <1>2, <2>2, <2>3, LedShort
  <2> QED BY <1>1, <1>3, <2>1, <2>4, LedConcat
<1>5. ASSUME NEW K, at \notin K PROVE Careful(s \o <<j, k, l>>, K)
  <2>1. Careful(s, K)
    BY <1>1, FoldersCareful
  <2>2. \A first : SafeJob(j, K, first) /\ SafeJob(k, K, first) /\ SafeJob(l, K, first)
    BY <1>2, <1>5 DEF SafeJob, DestructorJobs, Overwriting
  <2> HIDE DEF s, j, k, l
  <2>3. \A i \in 1..Len(<<j, k, l>>) : \A first : SafeJob(<<j, k, l>>[i], K, first)
    BY <2>2
  <2> QED BY <1>1, <1>3, <2>1, <2>3, CarefulConcat
<1> HIDE DEF s, j, k, l
<1>6. CopyFile(from, at) \in Seq(JobType)
  BY <1>1, <1>3, ConcatProperties
<1> QED BY <1>1, <1>4, <1>5, <1>6
------------------------------------------------------------------------------
(* The agendas of the calls *)

Creator == {"createFoldersIfNecessary", "createFileIfNecessary", "copyFolder"}
Writer  == {"copyFile", "writeTextFile", "appendTextFile"}

LEMMA WriteAgenda ==
  ASSUME NEW at \in Path, NEW do \in {"write", "append"}
  PROVE  LET s == CreateFolders(Front(at)) \o <<Job(do, at)>>
         IN  /\ s \in Seq(JobType)
             /\ \A W : <<>> \in W => Led(s, W)
             /\ \A K : at \notin K => Careful(s, K)
<1> DEFINE s == CreateFolders(Front(at))
           j == Job(do, at)
<1>1. at \in Place /\ Front(at) \in Seq(Name)
  BY PathFacts, FrontFacts
<1>2. s \in Seq(JobType) /\ j \in JobType /\ j.do = do /\ j.at = at
  BY <1>1, CreateFoldersFacts DEF Job, JobType, JobName
<1>3. \A W : <<>> \in W => Led(s, W)
  BY <1>1, FoldersLed
<1>4. \A K : Careful(s, K)
  BY <1>1, FoldersCareful
<1> HIDE DEF s, j
<1>5. <<j>> \in Seq(JobType) /\ Len(<<j>>) = 1 /\ <<j>>[1] = j /\ s \o <<j>> \in Seq(JobType)
  BY <1>2, ConcatProperties
<1>6. ASSUME NEW W, <<>> \in W PROVE Led(s \o <<j>>, W)
  <2>1. Needs(j) = {}
    BY <1>2 DEF Needs
  <2>2. Led(<<j>>, W \cup MadeBy(s, Len(s)))
    BY <2>1, LedShort
  <2> QED BY <1>2, <1>3, <1>5, <1>6, <2>2, LedConcat
<1>7. ASSUME NEW K, at \notin K PROVE Careful(s \o <<j>>, K)
  <2>1. \A first : SafeJob(j, K, first)
    BY <1>2, <1>7 DEF SafeJob, DestructorJobs, Overwriting
  <2>2. \A i \in 1..Len(<<j>>) : SafeJob(<<j>>[i], K, IF s = <<>> THEN <<j>>[1] ELSE s[1])
    BY <1>5, <2>1
  <2> QED BY <1>2, <1>4, <1>5, <2>2, CarefulConcat
<1> QED BY <1>5, <1>6, <1>7 DEF s, j

\* The agenda of a call is in order, and spares what the call has to keep.
LEMMA AgendaFacts ==
  ASSUME NEW r, r.op \in Op, r.from \in Path, r.at \in Path, NEW W, <<>> \in W, NEW K,
         r.op \in Writer => r.at \notin K,
         r.op \notin Creator \cup Writer => K = {}
  PROVE  Agenda(r) \in Seq(JobType) /\ Led(Agenda(r), W) /\ Careful(Agenda(r), K)
<1>1. r.at \in Place /\ r.from \in Place /\ r.at \in Seq(Name)
  BY PathFacts DEF Place
<1>2. ASSUME NEW j \in JobType, Needs(j) = {}, SafeJob(j, K, j)
      PROVE  <<j>> \in Seq(JobType) /\ Led(<<j>>, W) /\ Careful(<<j>>, K)
  BY <1>2, LedShort, CarefulShort
<1>3. ASSUME NEW do \in {"file", "unlink", "tidy"}, do # "file" => K = {}
      PROVE  /\ <<Job(do, r.at)>> \in Seq(JobType) /\ Led(<<Job(do, r.at)>>, W)
             /\ Careful(<<Job(do, r.at)>>, K)
  <2> DEFINE j == Job(do, r.at)
  <2>1. j \in JobType /\ j.do = do
    BY <1>1 DEF Job, JobType, JobName
  <2> HIDE DEF j
  <2>2. Needs(j) = {} /\ SafeJob(j, K, j)
    BY <1>3, <2>1 DEF Needs, SafeJob, DestructorJobs, Overwriting
  <2>3. <<j>> \in Seq(JobType) /\ Led(<<j>>, W) /\ Careful(<<j>>, K)
    BY <1>2, <2>1, <2>2
  <2> QED BY <2>3 DEF j
<1>4. CASE r.op = "createFoldersIfNecessary"
  <2>1. Agenda(r) = CreateFolders(r.at)
    BY <1>4 DEF Agenda
  <2> QED BY <1>1, <2>1, CreateFoldersFacts, FoldersLed, FoldersCareful
<1>5. CASE r.op = "createFileIfNecessary"
  <2>1. Agenda(r) = <<Job("file", r.at)>>
    BY <1>5 DEF Agenda
  <2> QED BY <1>3, <2>1
<1>6. CASE r.op = "copyFile"
  <2>1. Agenda(r) = CopyFile(r.from, r.at) /\ r.at \notin K
    BY <1>6 DEF Agenda, Writer
  <2> QED BY <1>1, <2>1, CopyFileFacts
<1>7. CASE r.op = "copyFolder"
  <2> DEFINE j == JobFrom("tree", r.from, r.at)
  <2>1. Agenda(r) = <<j>>
    BY <1>7 DEF Agenda
  <2>2. j \in JobType /\ j.do = "tree"
    BY <1>1 DEF JobFrom, JobType, JobName
  <2> HIDE DEF j
  <2>3. Needs(j) = {} /\ SafeJob(j, K, j)
    BY <2>2 DEF Needs, SafeJob, DestructorJobs, Overwriting
  <2> QED BY <1>2, <2>1, <2>2, <2>3
<1>8. CASE r.op = "removeFile"
  <2>1. Agenda(r) = <<Job("unlink", r.at)>> /\ K = {}
    BY <1>8 DEF Agenda, Creator, Writer
  <2> QED BY <1>3, <2>1
<1>9. CASE r.op = "writeTextFile"
  <2>1. Agenda(r) = CreateFolders(Front(r.at)) \o <<Job("write", r.at)>> /\ r.at \notin K
    BY <1>9 DEF Agenda, Writer
  <2> QED BY <2>1, WriteAgenda
<1>10. CASE r.op = "appendTextFile"
  <2>1. Agenda(r) = CreateFolders(Front(r.at)) \o <<Job("append", r.at)>> /\ r.at \notin K
    BY <1>10 DEF Agenda, Writer
  <2> QED BY <2>1, WriteAgenda
<1>11. CASE r.op = "~PathRAII"
  <2>1. Agenda(r) = <<Job("tidy", r.at)>> /\ K = {}
    BY <1>11 DEF Agenda, Creator, Writer
  <2> QED BY <1>3, <2>1
<1> QED BY <1>4, <1>5, <1>6, <1>7, <1>8, <1>9, <1>10, <1>11 DEF Op
------------------------------------------------------------------------------
(* The file system *)

\* The shape of a file system.
TreeOK ==
  /\ fs \in [Path -> Node]
  /\ \A q \in Path : IF Exists(q) THEN IsDir(Front(q)) ELSE fs[q] = Nothing

LEMMA NodeTypes ==
  /\ Nothing \in Node /\ Nothing.kind = "none"
  /\ \A o \in Owner : NewFolder(o) \in Node /\ NewFolder(o).kind = "dir"
  /\ \A o \in Owner \cup {NoOwner}, t \in Seq(Proc \cup {"old"}) :
       NewFile(o, t) \in Node /\ NewFile(o, t).kind = "file"
BY DEF Nothing, NewFolder, NewFile, Node

LEMMA EmptyPath == <<>> \notin Path
BY PathFacts DEF Place

\* What may be put where.
LEMMA PutKeepsTree ==
  ASSUME TreeOK, NEW q, NEW node \in Node, Put(q, node),
         \/ node.kind = "dir" /\ IsDir(Front(q))
         \/ node.kind = "file" /\ IsDir(Front(q)) /\ ~IsDir(q)
         \/ node = Nothing /\ Children(q) = {}
         \/ Exists(q) /\ node.kind = fs[q].kind
  PROVE  TreeOK'
<1>1. fs' \in [Path -> Node] /\ \A d \in Path : fs'[d] = IF d = q THEN node ELSE fs[d]
  BY DEF TreeOK, Put
<1>2. ASSUME NEW d \in Path PROVE (IF Exists(d) THEN IsDir(Front(d)) ELSE fs[d] = Nothing)'
  <2>1. CASE d = q
    <3>1. Front(d) # q
      BY <2>1, PathFacts, FrontFacts
    <3>2. fs'[d] = node /\ (Front(d) \in Path => fs'[Front(d)] = fs[Front(d)])
      BY <1>1, <2>1, <3>1
    <3>3. IsDir(Front(d)) \/ node = Nothing
      BY <2>1 DEF TreeOK
    <3> QED BY <3>2, <3>3, NodeTypes DEF Exists, IsDir
  <2>2. CASE d # q
    <3>1. fs'[d] = fs[d] /\ (Front(d) \in Path \ {q} => fs'[Front(d)] = fs[Front(d)])
      BY <1>1, <2>2
    <3>2. CASE Front(d) # q \/ ~Exists(d)
      BY <3>1, <3>2 DEF TreeOK, Exists, IsDir
    <3>3. CASE Front(d) = q /\ Exists(d)
      <4>1. CASE q = <<>>
        BY <3>1, <3>3, <4>1 DEF Exists, IsDir
      <4>2. CASE q # <<>>
        <5>1. q \in Path /\ d \in Children(q) /\ IsDir(q)
          BY <3>3, <4>2, ChildOfFront DEF TreeOK
        <5>2. node.kind = "dir"
          BY <5>1, <4>2 DEF IsDir, Exists
        <5>3. fs'[q] = node
          BY <1>1, <5>1
        <5> QED BY <3>1, <3>3, <5>1, <5>2, <5>3 DEF Exists, IsDir
      <4> QED BY <4>1, <4>2
    <3> QED BY <3>2, <3>3
  <2> QED BY <2>1, <2>2
<1> QED BY <1>1, <1>2 DEF TreeOK
------------------------------------------------------------------------------
(* What no step undoes *)

\* What is there, or has been and was removed.
Seen == {<<>>} \cup {q \in Path : Exists(q)} \cup touched

\* What the call of p has to leave alone.
Kept(p) ==
  {q \in Path \ touched : /\ Before(p, q) # "none"
                          /\ \/ call[p].op \in Creator
                             \/ call[p].op \in Writer /\ q # call[p].at}

\* Why the creation of a folder may throw at q.
InTheWay(p, q) ==
  Refused(p, q) \/ \E d \in Above(q) \cup {q} : IsFile(d) \/ d \in touched

\* What a step of any process does to the history.
Frame ==
  /\ TreeOK /\ TreeOK' /\ touched \subseteq Path /\ touched' \subseteq Path
  /\ touched \subseteq touched'
  /\ \A q \in Path : Exists(q) /\ (fs'[q].kind # fs[q].kind \/ fs'[q].mode # fs[q].mode)
                       => q \in touched'

LEMMA NotedFrame ==
  ASSUME TreeOK, TreeOK', touched \subseteq Path, NEW p, Noted(p)
  PROVE  Frame
BY DEF Frame, Noted

LEMMA SeenStays == Frame => Seen \subseteq Seen'
BY DEF Frame, Seen, Exists

LEMMA InTheWayStays ==
  ASSUME Frame, NEW p, NEW q, InTheWay(p, q)
  PROVE  InTheWay(p, q)'
<1>1. \A d : IsFile(d) => IsFile(d)' \/ d \in touched'
  BY DEF Frame, IsFile, Exists
<1>2. \A d : IsDir(d) /\ d # <<>> /\ "x" \notin fs[d].mode =>
        (IsDir(d)' /\ "x" \notin fs'[d].mode) \/ d \in touched'
  BY DEF Frame, IsDir, Exists
<1>3. <<>> \notin Above(q)
  BY DEF Above
<1> QED BY <1>1, <1>2, <1>3 DEF InTheWay, Refused, Frame
------------------------------------------------------------------------------
(* The invariant *)

CallType == [op : Op \cup {"none"}, from : Seq(Name), at : Seq(Name),
             own : Owner \cup {NoOwner}, todo : Seq(JobType), failed : BOOLEAN,
             made : Nat, before : [Path -> Node]]

CreationJobs == {"folder", "mkdir", "made", "chown"}

\* What is true of a call at every point of it: its jobs find what they need, or
\* what was there has been removed; no job to come can touch what it has to
\* keep; and a creation that has failed has its reason.
AgendaOK(p) ==
  /\ call[p].made <= MaxCalls[p]
  /\ Led(call[p].todo, Seen)
  /\ Careful(call[p].todo, Kept(p))
  /\ \A q \in Path \ touched : Before(p, q) # "none" => Exists(q)
  /\ Failed(p) => ~Idle(p)
  /\ Failed(p) /\ Now(p).do \in CreationJobs => InTheWay(p, Now(p).at)

FoldersInv ==
  /\ TreeOK /\ touched \subseteq Path /\ alone \in [Proc -> BOOLEAN]
  /\ call \in [Proc -> CallType]
  /\ \A p \in Proc : AgendaOK(p)

\* Steps of others, and the steps of a call in general.
LEMMA BeforeStays ==
  ASSUME NEW p, call'[p].before = call[p].before, NEW q
  PROVE  Before(p, q)' = Before(p, q)
BY DEF Before

LEMMA KeptShrinks ==
  ASSUME Frame, NEW p, call'[p].before = call[p].before,
         call'[p].op = call[p].op, call'[p].at = call[p].at
  PROVE  Kept(p)' \subseteq Kept(p)
BY BeforeStays DEF Frame, Kept

LEMMA KeptIsThere ==
  ASSUME NEW p, AgendaOK(p), NEW q \in Kept(p)
  PROVE  q \in Path /\ Exists(q)
BY DEF AgendaOK, Kept

LEMMA OthersStay ==
  ASSUME Frame, NEW p, AgendaOK(p), call'[p] = call[p]
  PROVE  AgendaOK(p)'
<1>1. Led(call'[p].todo, Seen')
  BY SeenStays, LedMonotonic DEF AgendaOK
<1>2. Careful(call'[p].todo, Kept(p)')
  BY KeptShrinks, CarefulMonotonic DEF AgendaOK
<1>3. \A q \in Path \ touched' : Before(p, q)' # "none" => Exists(q)'
  BY BeforeStays DEF AgendaOK, Frame, Exists
<1>4. (Failed(p) /\ Now(p).do \in CreationJobs => InTheWay(p, Now(p).at))'
  <2>1. Now(p)' = Now(p) /\ Failed(p)' = Failed(p)
    BY DEF Now, Failed
  <2> DEFINE q == Now(p).at
  <2>2. InTheWay(p, q) => (\A d : d = q => InTheWay(p, d)')
    BY InTheWayStays
  <2> QED BY <2>1, <2>2 DEF AgendaOK
<1> QED BY <1>1, <1>2, <1>3, <1>4 DEF AgendaOK, Failed, Idle

LEMMA ContinueFacts ==
  ASSUME call \in [Proc -> CallType], NEW p \in Proc, Active(p),
         NEW jobs \in Seq(JobType), Continue(p, jobs)
  PROVE  /\ call' \in [Proc -> CallType]
         /\ \A r \in Proc \ {p} : call'[r] = call[r]
         /\ call'[p] = [call[p] EXCEPT !.todo = jobs \o Tail(call[p].todo)]
         /\ call'[p].todo = jobs \o Tail(call[p].todo)
         /\ call'[p].before = call[p].before /\ call'[p].op = call[p].op
         /\ call'[p].at = call[p].at /\ call'[p].made = call[p].made
         /\ call'[p].own = call[p].own
         /\ ~Failed(p)'
<1>1. call[p].todo \in Seq(JobType) /\ call[p].todo # <<>> /\ call[p].failed = FALSE
  BY DEF CallType, Active, Idle, Failed
<1>2. jobs \o Tail(call[p].todo) \in Seq(JobType)
  BY <1>1, HeadTailProperties, ConcatProperties
<1>3. call'[p] = [call[p] EXCEPT !.todo = jobs \o Tail(call[p].todo)]
  BY DEF Continue
<1>4. call'[p] \in CallType
  BY <1>2, <1>3 DEF CallType
<1>5. \A r \in Proc \ {p} : call'[r] = call[r]
  BY DEF Continue
<1>6. call' \in [Proc -> CallType]
  BY <1>4, <1>5 DEF Continue
<1> QED BY <1>1, <1>3, <1>5, <1>6 DEF CallType, Failed

\* The first job is replaced by others, which find what they need.
LEMMA Advances ==
  ASSUME Frame, FoldersInv, NEW p \in Proc, Active(p), NEW jobs \in Seq(JobType),
         Continue(p, jobs), Led(jobs, Seen), Careful(jobs, Kept(p)),
         Now(p).do \in Makes => Now(p).at \in Seen' \cup MadeBy(jobs, Len(jobs)),
         Now(p).do = "absent" => \A q \in Kept(p) : Front(q) # Now(p).at
  PROVE  call' \in [Proc -> CallType] /\ \A r \in Proc : AgendaOK(r)'
<1> DEFINE s == call[p].todo
<1>1. s \in Seq(JobType) /\ s # <<>> /\ Now(p) = Head(s) /\ AgendaOK(p)
  BY DEF FoldersInv, CallType, Active, Idle, Now
<1>2. /\ call' \in [Proc -> CallType] /\ \A r \in Proc \ {p} : call'[r] = call[r]
      /\ call'[p].todo = jobs \o Tail(s) /\ call'[p].made = call[p].made
      /\ call'[p].before = call[p].before /\ call'[p].op = call[p].op
      /\ call'[p].at = call[p].at /\ ~Failed(p)'
  BY ContinueFacts DEF FoldersInv
<1> HIDE DEF s
<1>3. Led(jobs \o Tail(s), Seen')
  <2>1. Led(jobs, Seen') /\ Seen \subseteq Seen' \cup MadeBy(jobs, Len(jobs))
    BY SeenStays, LedMonotonic
  <2>2. Led(s, Seen)
    BY <1>1 DEF AgendaOK, s
  <2>3. Led(Tail(s), Seen' \cup MadeBy(jobs, Len(jobs)))
    BY <1>1, <2>1, <2>2, LedTail
  <2>4. Tail(s) \in Seq(JobType)
    BY <1>1, HeadTailProperties
  <2> QED BY <2>1, <2>3, <2>4, LedConcat
<1>4. Careful(jobs \o Tail(s), Kept(p)')
  <2>1. Careful(s, Kept(p))
    BY <1>1 DEF AgendaOK, s
  <2>2. Careful(jobs \o Tail(s), Kept(p))
    BY <1>1, <2>1, CarefulContinue
  <2> QED BY <1>2, <2>2, KeptShrinks, CarefulMonotonic
<1>5. \A q \in Path \ touched' : Before(p, q)' # "none" => Exists(q)'
  BY <1>1, <1>2, BeforeStays DEF AgendaOK, Frame, Exists
<1>6. AgendaOK(p)'
  BY <1>1, <1>2, <1>3, <1>4, <1>5 DEF AgendaOK
<1>7. ASSUME NEW r \in Proc \ {p} PROVE AgendaOK(r)'
  BY <1>2, OthersStay DEF FoldersInv
<1> QED BY <1>2, <1>6, <1>7

\* A job throws, a creation for a reason.
LEMMA Throws ==
  ASSUME Frame, FoldersInv, NEW p \in Proc, Active(p), Throw(p),
         Now(p).do \in CreationJobs => InTheWay(p, Now(p).at)
  PROVE  call' \in [Proc -> CallType] /\ \A r \in Proc : AgendaOK(r)'
<1>1. /\ call[p].todo \in Seq(JobType) /\ call[p].todo # <<>> /\ AgendaOK(p)
      /\ call[p] \in CallType
  BY DEF FoldersInv, CallType, Active, Idle
<1>2. call'[p] = [call[p] EXCEPT !.failed = TRUE]
  BY DEF Throw, FoldersInv
<1>3. call'[p] \in CallType
  BY <1>1, <1>2 DEF CallType
<1>4. \A r \in Proc \ {p} : call'[r] = call[r]
  BY DEF Throw, FoldersInv
<1>5. call' \in [Proc -> CallType]
  BY <1>3, <1>4 DEF Throw, FoldersInv
<1>6. /\ call'[p].todo = call[p].todo /\ call'[p].made = call[p].made
      /\ call'[p].before = call[p].before /\ call'[p].op = call[p].op
      /\ call'[p].at = call[p].at
  BY <1>1, <1>2 DEF CallType
<1>7. AgendaOK(p)'
  <2>1. Led(call'[p].todo, Seen')
    BY <1>1, <1>6, SeenStays, LedMonotonic DEF AgendaOK
  <2>2. Careful(call'[p].todo, Kept(p)')
    BY <1>1, <1>6, KeptShrinks, CarefulMonotonic DEF AgendaOK
  <2>3. \A q \in Path \ touched' : Before(p, q)' # "none" => Exists(q)'
    BY <1>1, <1>6, BeforeStays DEF AgendaOK, Frame, Exists
  <2>4. Now(p)' = Now(p)
    BY <1>6 DEF Now
  <2>5. (Now(p).do \in CreationJobs => InTheWay(p, Now(p).at))'
    <3> DEFINE q == Now(p).at
    <3>1. InTheWay(p, q) => (\A d : d = q => InTheWay(p, d)')
      BY InTheWayStays
    <3> QED BY <2>4, <3>1
  <2> QED BY <1>1, <1>6, <2>1, <2>2, <2>3, <2>5 DEF AgendaOK, Idle
<1>8. ASSUME NEW r \in Proc \ {p} PROVE AgendaOK(r)'
  BY <1>4, OthersStay DEF FoldersInv
<1> QED BY <1>5, <1>7, <1>8
------------------------------------------------------------------------------
(* The steps of a call *)

\* The job at hand.
LEMMA NowFacts ==
  ASSUME FoldersInv, NEW p \in Proc, Active(p)
  PROVE  /\ call[p] \in CallType /\ AgendaOK(p) /\ Now(p) \in JobType
         /\ Now(p).at \in Place /\ Now(p).from \in Place
         /\ Needs(Now(p)) \subseteq Seen
         /\ Now(p).do \in DestructorJobs => Kept(p) = {}
         /\ Now(p).do \in Overwriting => Now(p).at \notin Kept(p)
         /\ Now(p).do = "list" => \A q \in Kept(p) : Front(q) # Now(p).at
<1> DEFINE s == call[p].todo
<1>1. /\ call[p] \in CallType /\ AgendaOK(p)
      /\ s \in Seq(JobType) /\ s # <<>> /\ Now(p) = Head(s)
  BY DEF FoldersInv, CallType, Active, Idle, Now
<1>2. Led(s, Seen) /\ Careful(s, Kept(p))
  BY <1>1 DEF AgendaOK
<1> HIDE DEF s
<1>3. 1 \in 1..Len(s) /\ Now(p) = s[1] /\ Now(p) \in JobType
  BY <1>1, EmptySeq, HeadTailProperties
<1>4. Needs(Now(p)) \subseteq Seen
  <2>1. MadeBy(s, 1 - 1) = {}
    BY DEF MadeBy
  <2> QED BY <1>2, <1>3, <2>1 DEF Led
<1>5. SafeJob(Now(p), Kept(p), Now(p))
  BY <1>2, <1>3 DEF Careful
<1>6. Now(p).do = "list" => Now(p) # Job("absent", Now(p).at)
  BY DEF Job
<1>7. Now(p).at \in Place /\ Now(p).from \in Place
  BY <1>3 DEF JobType
<1> QED BY <1>1, <1>3, <1>4, <1>5, <1>6, <1>7 DEF SafeJob

\* What every step of p does: it keeps the invariant, and leaves alone what its
\* call has to leave alone.
Keeps(p) == FoldersInv' /\ \A q \in Kept(p) : fs'[q] = fs[q]

LEMMA AdvanceKeeps ==
  ASSUME FoldersInv, NEW p \in Proc, Active(p), Noted(p), TreeOK',
         \A q \in Kept(p) : fs'[q] = fs[q],
         NEW jobs \in Seq(JobType),
         Continue(p, jobs), Led(jobs, Seen), Careful(jobs, Kept(p)),
         Now(p).do \in Makes => Now(p).at \in Seen' \cup MadeBy(jobs, Len(jobs)),
         Now(p).do = "absent" => \A q \in Kept(p) : Front(q) # Now(p).at
  PROVE  Keeps(p)
<1>1. Frame
  BY NotedFrame DEF FoldersInv
<1>2. call' \in [Proc -> CallType] /\ \A r \in Proc : AgendaOK(r)'
  BY <1>1, Advances
<1>3. alone' \in [Proc -> BOOLEAN]
  BY DEF FoldersInv, Noted
<1> QED BY <1>1, <1>2, <1>3 DEF Keeps, FoldersInv, Frame

LEMMA ThrowKeeps ==
  ASSUME FoldersInv, NEW p \in Proc, Active(p), Noted(p), TreeOK',
         \A q \in Kept(p) : fs'[q] = fs[q], Throw(p),
         Now(p).do \in CreationJobs => InTheWay(p, Now(p).at)
  PROVE  Keeps(p)
<1>1. Frame
  BY NotedFrame DEF FoldersInv
<1>2. call' \in [Proc -> CallType] /\ \A r \in Proc : AgendaOK(r)'
  BY <1>1, Throws
<1>3. alone' \in [Proc -> BOOLEAN]
  BY DEF FoldersInv, Noted
<1> QED BY <1>1, <1>2, <1>3 DEF Keeps, FoldersInv, Frame

\* A step that only looks.
LEMMA Quiet ==
  ASSUME FoldersInv, UNCHANGED fs, NEW p
  PROVE  TreeOK' /\ \A q \in Kept(p) : fs'[q] = fs[q]
BY DEF FoldersInv, TreeOK, IsDir, Exists

\* A job that is done, with nothing more to do.
LEMMA DoneKeeps ==
  ASSUME FoldersInv, NEW p \in Proc, Active(p), Noted(p), TreeOK',
         \A q \in Kept(p) : fs'[q] = fs[q], Done(p),
         Now(p).do \in Makes => Now(p).at \in Seen',
         Now(p).do = "absent" => \A q \in Kept(p) : Front(q) # Now(p).at
  PROVE  Keeps(p)
<1>1. <<>> \in Seq(JobType) /\ Led(<<>>, Seen) /\ Careful(<<>>, Kept(p))
  BY EmptySeq, LedShort, CarefulShort
<1>2. Continue(p, <<>>)
  BY DEF Done
<1> QED BY <1>1, <1>2, AdvanceKeeps

LEMMA ExistingKind ==
  ASSUME TreeOK, NEW q, q \in Seen, q # <<>>
  PROVE  (Exists(q) /\ (IsDir(q) \/ IsFile(q))) \/ q \in touched
BY DEF Seen, TreeOK, Node, Exists, IsDir, IsFile

LEMMA WithinDepth ==
  ASSUME NEW p, NEW q \in Place, ~Refused(p, q)
  PROVE  q \in Path
<1>1. Len(q) \in Nat \ {0} /\ Len(q) <= MaxDepth
  BY EmptySeq, DepthAssumption DEF Place, Refused
<1> QED BY <1>1, PathFacts, DepthAssumption DEF Place

\* One lemma for each action: it does what AdvanceKeeps or ThrowKeeps asks for.
LEMMA FolderKeeps ==
  ASSUME FoldersInv, NEW p \in Proc, Folder(p), Noted(p) PROVE Keeps(p)
<1> DEFINE at == Now(p).at
<1>1. Active(p) /\ Now(p).do = "folder" /\ UNCHANGED fs
  BY DEF Folder, Doing
<1>2. at \in Place /\ Front(at) \in Seen /\ AgendaOK(p)
  BY <1>1, NowFacts DEF Needs
<1>3. CASE Exists(at)
  <2>1. at \in Seen'
    BY <1>1, <1>3 DEF Exists, Seen
  <2> QED BY <1>1, <1>3, <2>1, Quiet, DoneKeeps DEF Folder
<1>4. CASE ~Exists(at)
  <2> DEFINE j == Job("mkdir", at)
             k == Job("chown", at)
  <2>1. /\ j \in JobType /\ j.do = "mkdir" /\ j.at = at
        /\ k \in JobType /\ k.do = "chown" /\ k.at = at
    BY <1>2 DEF Job, JobType, JobName
  <2>2. Continue(p, <<j, k>>)
    BY <1>4 DEF Folder
  <2> HIDE DEF j, k
  <2>3. <<j, k>> \in Seq(JobType) /\ Len(<<j, k>>) = 2 /\ <<j, k>>[1] = j
    BY <2>1
  <2>4. Led(<<j, k>>, Seen) /\ at \in MadeBy(<<j, k>>, 2)
    <3>1. Needs(j) = {Front(at)} /\ Needs(k) = {at} /\ j.do \in Makes
      BY <2>1 DEF Needs, Makes
    <3>2. Led(<<j, k>>, Seen)
      BY <1>2, <2>1, <3>1, LedShort
    <3>3. at \in MadeBy(<<j, k>>, 2)
      BY <2>1, <3>1 DEF MadeBy
    <3> QED BY <3>2, <3>3
  <2>5. at \notin Kept(p)
    BY <1>2, <1>4, KeptIsThere
  <2>6. Careful(<<j, k>>, Kept(p))
    BY <2>1, <2>5, CarefulShort DEF SafeJob, DestructorJobs, Overwriting
  <2> QED BY <1>1, <2>2, <2>3, <2>4, <2>6, Quiet, AdvanceKeeps
<1> QED BY <1>3, <1>4

LEMMA MakeDirectoryKeeps ==
  ASSUME FoldersInv, NEW p \in Proc, MakeDirectory(p), Noted(p) PROVE Keeps(p)
<1> DEFINE at == Now(p).at
<1>1. Active(p) /\ Now(p).do = "mkdir" /\ ~Refused(p, at)
  BY DEF MakeDirectory, Doing, Uses
<1>2. at \in Place /\ Front(at) \in Seen /\ AgendaOK(p) /\ TreeOK
  BY <1>1, NowFacts DEF Needs, FoldersInv
<1>3. at \in Path /\ at # <<>>
  BY <1>1, <1>2, WithinDepth DEF Place
<1>4. CASE IsDir(Front(at)) /\ ~Exists(at) /\ Put(at, NewFolder(Uid[p])) /\ Done(p)
  <2>1. NewFolder(Uid[p]) \in Node /\ NewFolder(Uid[p]).kind = "dir"
    BY OwnerAssumption, NodeTypes
  <2>2. TreeOK'
    BY <1>2, <1>4, <2>1, PutKeepsTree
  <2>3. fs'[at] = NewFolder(Uid[p]) /\ \A q \in Path \ {at} : fs'[q] = fs[q]
    BY <1>2, <1>3, <1>4 DEF Put, TreeOK
  <2>4. \A q \in Kept(p) : fs'[q] = fs[q]
    BY <1>2, <1>4, <2>3, KeptIsThere
  <2>5. at \in Seen'
    BY <1>3, <2>1, <2>3 DEF Seen, Exists
  <2> QED BY <1>1, <1>4, <2>2, <2>4, <2>5, DoneKeeps
<1>5. CASE IsDir(at) /\ Continue(p, <<Job("made", at)>>) /\ UNCHANGED fs
  <2> DEFINE j == Job("made", at)
  <2>1. j \in JobType /\ j.do = "made" /\ j.at = at
    BY <1>2 DEF Job, JobType, JobName
  <2>2. Continue(p, <<j>>)
    BY <1>5
  <2> HIDE DEF j
  <2>3. <<j>> \in Seq(JobType) /\ Len(<<j>>) = 1 /\ <<j>>[1] = j
    BY <2>1
  <2>4. at \in Seen
    BY <1>3, <1>5 DEF IsDir, Seen, Exists
  <2>5. Led(<<j>>, Seen) /\ at \in MadeBy(<<j>>, 1)
    <3>1. Needs(j) = {at} /\ j.do \in Makes
      BY <2>1 DEF Needs, Makes
    <3>2. Led(<<j>>, Seen)
      BY <2>4, <3>1, LedShort
    <3>3. at \in MadeBy(<<j>>, 1)
      BY <2>1, <3>1 DEF MadeBy
    <3> QED BY <3>2, <3>3
  <2>6. Careful(<<j>>, Kept(p))
    BY <2>1, CarefulShort DEF SafeJob, DestructorJobs, Overwriting
  <2> QED BY <1>1, <1>5, <2>2, <2>3, <2>5, <2>6, Quiet, AdvanceKeeps
<1>6. CASE (~IsDir(Front(at)) \/ IsFile(at)) /\ Throw(p) /\ UNCHANGED fs
  <2>1. ASSUME ~IsDir(Front(at)) PROVE InTheWay(p, at)
    <3>1. Front(at) # <<>> /\ Front(at) \in Above(at)
      BY <1>2, <2>1, FrontFacts DEF IsDir
    <3> QED BY <1>2, <2>1, <3>1, ExistingKind DEF InTheWay
  <2>2. InTheWay(p, at)
    BY <1>6, <2>1 DEF InTheWay
  <2> QED BY <1>1, <1>6, <2>2, Quiet, ThrowKeeps
<1> QED BY <1>4, <1>5, <1>6 DEF MakeDirectory

LEMMA CheckMadeKeeps ==
  ASSUME FoldersInv, NEW p \in Proc, CheckMade(p), Noted(p) PROVE Keeps(p)
<1> DEFINE at == Now(p).at
<1>1. Active(p) /\ Now(p).do = "made" /\ UNCHANGED fs
  BY DEF CheckMade, Doing
<1>2. at \in Place /\ at \in Seen /\ at # <<>> /\ TreeOK
  BY <1>1, NowFacts DEF Needs, FoldersInv, Place
<1>3. CASE IsDir(at)
  <2>1. at \in Seen'
    BY <1>1, <1>2, <1>3 DEF IsDir, Exists, Seen
  <2> QED BY <1>1, <1>3, <2>1, Quiet, DoneKeeps DEF CheckMade
<1>4. CASE ~IsDir(at)
  <2>1. InTheWay(p, at)
    BY <1>2, <1>4, ExistingKind DEF InTheWay
  <2> QED BY <1>1, <1>4, <2>1, Quiet, ThrowKeeps DEF CheckMade
<1> QED BY <1>3, <1>4

LEMMA SetOwnerKeeps ==
  ASSUME FoldersInv, NEW p \in Proc, SetOwner(p), Noted(p) PROVE Keeps(p)
<1> DEFINE at  == Now(p).at
           own == call[p].own
<1>1. Active(p) /\ Now(p).do = "chown"
  BY DEF SetOwner, Doing
<1>2. /\ at \in Place /\ at \in Seen /\ at # <<>> /\ TreeOK /\ at \notin Kept(p)
      /\ own \in Owner \cup {NoOwner}
  BY <1>1, NowFacts DEF Needs, FoldersInv, Place, Overwriting, CallType
<1>3. CASE Done(p) /\ UNCHANGED fs
  BY <1>1, <1>3, Quiet, DoneKeeps DEF Makes
<1>4. CASE ~Exists(at) /\ Throw(p) /\ UNCHANGED fs
  <2>1. InTheWay(p, at)
    BY <1>2, <1>4, ExistingKind DEF InTheWay
  <2> QED BY <1>1, <1>4, <2>1, Quiet, ThrowKeeps
<1>5. CASE Exists(at) /\ Put(at, [fs[at] EXCEPT !.owner = own]) /\ Done(p)
  <2> DEFINE node == [fs[at] EXCEPT !.owner = own]
  <2>1. node \in Node /\ node.kind = fs[at].kind
    <3>1. fs[at] \in Node
      BY <1>2, <1>5 DEF TreeOK, Exists
    <3> QED BY <1>2, <3>1 DEF Node
  <2> HIDE DEF node
  <2>2. Put(at, node)
    BY <1>5 DEF node
  <2>3. TreeOK'
    BY <1>2, <1>5, <2>1, <2>2, PutKeepsTree
  <2>4. \A q \in Kept(p) : fs'[q] = fs[q]
    BY <1>2, <2>2 DEF Put, TreeOK, Kept
  <2> QED BY <1>1, <1>5, <2>3, <2>4, DoneKeeps DEF Makes
<1> QED BY <1>3, <1>4, <1>5 DEF SetOwner

LEMMA CheckFileKeeps ==
  ASSUME FoldersInv, NEW p \in Proc, CheckFile(p), Noted(p) PROVE Keeps(p)
<1> DEFINE at == Now(p).at
<1>1. Active(p) /\ Now(p).do = "file" /\ UNCHANGED fs
  BY DEF CheckFile, Doing
<1>2. at \in Place /\ AgendaOK(p)
  BY <1>1, NowFacts
<1>3. CASE Exists(at)
  BY <1>1, <1>3, Quiet, DoneKeeps DEF CheckFile, Makes
<1>4. CASE ~Exists(at)
  <2> DEFINE j == Job("parent", at)
             k == Job("open", at)
             l == Job("chown", at)
  <2>1. /\ j \in JobType /\ j.do = "parent" /\ j.at = at
        /\ k \in JobType /\ k.do = "open" /\ k.at = at
        /\ l \in JobType /\ l.do = "chown" /\ l.at = at
    BY <1>2 DEF Job, JobType, JobName
  <2>2. Continue(p, <<j, k, l>>)
    BY <1>4 DEF CheckFile
  <2> HIDE DEF j, k, l
  <2>3. <<j, k, l>> \in Seq(JobType)
    BY <2>1
  <2>4. Led(<<j, k, l>>, Seen)
    <3>1. Needs(j) = {} /\ Needs(k) = {} /\ Needs(l) = {at} /\ k.do \in Makes
      BY <2>1 DEF Needs, Makes
    <3> QED BY <2>1, <3>1, LedShort
  <2>5. at \notin Kept(p)
    BY <1>2, <1>4, KeptIsThere
  <2>6. Careful(<<j, k, l>>, Kept(p))
    BY <2>1, <2>5, CarefulShort DEF SafeJob, DestructorJobs, Overwriting
  <2> QED BY <1>1, <2>2, <2>3, <2>4, <2>6, Quiet, AdvanceKeeps DEF Makes
<1> QED BY <1>3, <1>4

LEMMA CheckParentKeeps ==
  ASSUME FoldersInv, NEW p \in Proc, CheckParent(p), Noted(p) PROVE Keeps(p)
<1> DEFINE at == Now(p).at
<1>1. Active(p) /\ Now(p).do = "parent" /\ UNCHANGED fs
  BY DEF CheckParent, Doing
<1>2. at \in Place /\ Front(at) \in Seq(Name)
  BY <1>1, NowFacts, FrontFacts
<1>3. CASE Exists(Front(at))
  BY <1>1, <1>3, Quiet, DoneKeeps DEF CheckParent, Makes
<1>4. CASE ~Exists(Front(at))
  <2> DEFINE s == CreateFolders(Front(at))
  <2>1. s \in Seq(JobType) /\ Continue(p, s)
    BY <1>2, <1>4, CreateFoldersFacts DEF CheckParent
  <2>2. Led(s, Seen) /\ Careful(s, Kept(p))
    BY <1>2, FoldersLed, FoldersCareful DEF Seen
  <2> HIDE DEF s
  <2> QED BY <1>1, <2>1, <2>2, Quiet, AdvanceKeeps DEF Makes
<1> QED BY <1>3, <1>4

LEMMA OpenFileKeeps ==
  ASSUME FoldersInv, NEW p \in Proc, OpenFile(p), Noted(p) PROVE Keeps(p)
<1> DEFINE at   == Now(p).at
           keep == IF Now(p).do = "append" /\ IsFile(at) THEN fs[at].text ELSE <<>>
           new  == IF Now(p).do = "open" THEN <<>> ELSE <<p>>
           node == NewFile(IF IsFile(at) THEN fs[at].owner ELSE Uid[p], keep \o new)
<1>1. Active(p) /\ Now(p).do \in {"open", "write", "append"} /\ ~Refused(p, at)
  BY DEF OpenFile, Doing, Uses
<1>2. at \in Place /\ at \notin Kept(p) /\ TreeOK
  BY <1>1, NowFacts DEF Overwriting, FoldersInv
<1>3. at \in Path
  BY <1>1, <1>2, WithinDepth
<1>4. CASE CanOpen(at)
  <2>1. Put(at, node) /\ Done(p)
    BY <1>4 DEF OpenFile
  <2>2. fs[at] \in Node
    BY <1>2, <1>3 DEF TreeOK
  <2>3. fs[at].text \in Seq(Proc \cup {"old"}) /\ fs[at].owner \in Owner \cup {NoOwner}
    BY <2>2 DEF Node
  <2>4. keep \in Seq(Proc \cup {"old"}) /\ new \in Seq(Proc \cup {"old"})
    <3>1. <<>> \in Seq(Proc \cup {"old"}) /\ <<p>> \in Seq(Proc \cup {"old"})
      BY EmptySeq
    <3> QED BY <2>3, <3>1
  <2>5. keep \o new \in Seq(Proc \cup {"old"})
    BY <2>4, ConcatProperties
  <2>6. Uid[p] \in Owner
    BY OwnerAssumption
  <2>7. node \in Node /\ node.kind = "file"
    BY <2>3, <2>5, <2>6, NodeTypes
  <2> HIDE DEF node
  <2>8. TreeOK'
    BY <1>2, <1>4, <2>1, <2>7, PutKeepsTree DEF CanOpen
  <2>9. fs'[at] = node /\ \A q \in Path \ {at} : fs'[q] = fs[q]
    BY <1>2, <1>3, <2>1 DEF Put, TreeOK
  <2>10. (\A q \in Kept(p) : fs'[q] = fs[q]) /\ at \in Seen'
    BY <1>2, <1>3, <2>7, <2>9 DEF Kept, Seen, Exists
  <2> QED BY <1>1, <2>1, <2>8, <2>10, DoneKeeps
<1>5. CASE ~CanOpen(at)
  BY <1>1, <1>5, Quiet, ThrowKeeps DEF OpenFile, CreationJobs
<1> QED BY <1>4, <1>5

LEMMA RemoveIfExistsKeeps ==
  ASSUME FoldersInv, NEW p \in Proc, RemoveIfExists(p), Noted(p) PROVE Keeps(p)
<1> DEFINE at == Now(p).at
           j  == Job("remove", at)
<1>1. Active(p) /\ Now(p).do = "unlink" /\ UNCHANGED fs
  BY DEF RemoveIfExists, Doing
<1>2. at \in Place /\ Kept(p) = {}
  BY <1>1, NowFacts DEF DestructorJobs
<1>3. CASE Exists(at)
  <2>1. j \in JobType /\ j.do = "remove" /\ j.at = at /\ Continue(p, <<j>>)
    BY <1>2, <1>3 DEF Job, JobType, JobName, RemoveIfExists
  <2> HIDE DEF j
  <2>2. <<j>> \in Seq(JobType) /\ Needs(j) = {}
    BY <2>1 DEF Needs
  <2>3. Led(<<j>>, Seen)
    BY <2>2, LedShort
  <2>4. Careful(<<j>>, Kept(p))
    BY <1>2, <2>1, CarefulShort DEF SafeJob, DestructorJobs
  <2> QED BY <1>1, <2>1, <2>2, <2>3, <2>4, Quiet, AdvanceKeeps DEF Makes
<1>4. CASE ~Exists(at)
  BY <1>1, <1>4, Quiet, DoneKeeps DEF RemoveIfExists, Makes
<1> QED BY <1>3, <1>4

LEMMA RemovePathKeeps ==
  ASSUME FoldersInv, NEW p \in Proc, RemovePath(p), Noted(p) PROVE Keeps(p)
<1> DEFINE at == Now(p).at
<1>1. Active(p) /\ Now(p).do = "remove"
  BY DEF RemovePath, Doing
<1>2. at \notin Kept(p) /\ TreeOK
  BY <1>1, NowFacts DEF Overwriting, FoldersInv
<1>3. CASE Done(p) /\ UNCHANGED fs
  BY <1>1, <1>3, Quiet, DoneKeeps DEF Makes
<1>4. CASE Children(at) = {} /\ Put(at, Nothing) /\ Done(p)
  <2>1. TreeOK'
    BY <1>2, <1>4, PutKeepsTree, NodeTypes
  <2>2. \A q \in Kept(p) : fs'[q] = fs[q]
    BY <1>2, <1>4 DEF Put, TreeOK, Kept
  <2> QED BY <1>1, <1>4, <2>1, <2>2, DoneKeeps DEF Makes
<1>5. CASE Throw(p) /\ UNCHANGED fs
  BY <1>1, <1>5, Quiet, ThrowKeeps DEF CreationJobs
<1> QED BY <1>3, <1>4, <1>5 DEF RemovePath

LEMMA CopyKeeps ==
  ASSUME FoldersInv, NEW p \in Proc, Copy(p), Noted(p) PROVE Keeps(p)
<1> DEFINE j    == Now(p)
           node == NewFile(Uid[p], fs[j.from].text)
<1>1. Active(p) /\ j.do = "copy" /\ ~Refused(p, j.at)
  BY DEF Copy, Doing, Uses
<1>2. j.at \in Path /\ TreeOK /\ AgendaOK(p)
  BY <1>1, NowFacts, WithinDepth DEF FoldersInv
<1>3. CASE IsFile(j.from) /\ ~Exists(j.at) /\ IsDir(Front(j.at))
  <2>1. Put(j.at, node) /\ Done(p)
    BY <1>3 DEF Copy
  <2>2. fs[j.from] \in Node
    BY <1>2, <1>3 DEF TreeOK, IsFile
  <2>3. node \in Node /\ node.kind = "file"
    <3>1. fs[j.from].text \in Seq(Proc \cup {"old"}) /\ Uid[p] \in Owner
      BY <2>2, OwnerAssumption DEF Node
    <3> QED BY <3>1, NodeTypes
  <2> HIDE DEF node
  <2>4. ~IsDir(j.at)
    BY <1>2, <1>3, EmptyPath DEF IsDir, Exists
  <2>5. TreeOK'
    BY <1>2, <1>3, <2>1, <2>3, <2>4, PutKeepsTree
  <2>6. fs'[j.at] = node /\ \A q \in Path \ {j.at} : fs'[q] = fs[q]
    BY <1>2, <2>1 DEF Put, TreeOK
  <2>7. \A q \in Kept(p) : fs'[q] = fs[q]
    BY <1>2, <1>3, <2>6, KeptIsThere
  <2>8. j.at \in Seen'
    BY <1>2, <2>3, <2>6 DEF Seen, Exists
  <2> QED BY <1>1, <2>1, <2>5, <2>7, <2>8, DoneKeeps
<1>4. CASE ~(IsFile(j.from) /\ ~Exists(j.at) /\ IsDir(Front(j.at)))
  BY <1>1, <1>4, Quiet, ThrowKeeps DEF Copy, CreationJobs
<1> QED BY <1>3, <1>4

LEMMA CheckSourceKeeps ==
  ASSUME FoldersInv, NEW p \in Proc, CheckSource(p), Noted(p) PROVE Keeps(p)
<1> DEFINE j == Now(p)
           a == Job("absent", j.at)
           s == CreateFolders(j.at)
           l == JobFrom("list", j.from, j.at)
<1>1. Active(p) /\ j.do = "tree" /\ UNCHANGED fs
  BY DEF CheckSource, Doing
<1>2. j.at \in Place /\ j.from \in Place /\ j.at \in Seq(Name)
  BY <1>1, NowFacts DEF Place
<1>3. CASE IsDir(j.from)
  <2>1. Continue(p, <<a>> \o s \o <<l>>)
    BY <1>3 DEF CheckSource
  <2>2. /\ a \in JobType /\ a.do = "absent"
        /\ l \in JobType /\ l.do = "list" /\ l.at = j.at
        /\ s \in Seq(JobType) /\ a = Job("absent", l.at)
    BY <1>2, CreateFoldersFacts DEF Job, JobFrom, JobType, JobName
  <2>3. /\ <<a>> \in Seq(JobType) /\ <<l>> \in Seq(JobType)
        /\ <<a>>[1] = a /\ <<l>>[1] = l /\ Len(<<l>>) = 1 /\ <<a>> # <<>> /\ Len(<<a>>) = 1
    BY <2>2
  <2>4. Led(s, Seen) /\ Careful(s, Kept(p))
    BY <1>2, FoldersLed, FoldersCareful DEF Seen
  <2> DEFINE as == <<a>> \o s
  <2>5. Needs(a) = {} /\ Needs(l) = {}
    BY <2>2 DEF Needs
  <2> HIDE DEF a, s, l
  <2>6. as \in Seq(JobType) /\ as[1] = a /\ as # <<>>
    BY <2>2, <2>3, ConcatProperties, EmptySeq, LenProperties
  <2>7. Led(as, Seen)
    <3>1. Led(<<a>>, Seen) /\ Led(s, Seen \cup MadeBy(<<a>>, Len(<<a>>)))
      BY <2>4, <2>5, LedShort, LedMonotonic
    <3> QED BY <2>2, <2>3, <3>1, LedConcat
  <2>8. Careful(as, Kept(p))
    <3>1. Careful(<<a>>, Kept(p))
      BY <2>2, CarefulShort DEF SafeJob, DestructorJobs, Overwriting
    <3>2. ASSUME NEW i \in 1..Len(s) PROVE SafeJob(s[i], Kept(p), a)
      <4>1. s[i].do = "folder"
        BY <1>2, FoldersDo DEF s
      <4> QED BY <4>1 DEF SafeJob, DestructorJobs, Overwriting
    <3> QED BY <2>2, <2>3, <3>1, <3>2, CarefulConcat
  <2> HIDE DEF as
  <2>9. Led(as \o <<l>>, Seen)
    <3>1. Led(<<l>>, Seen \cup MadeBy(as, Len(as)))
      BY <2>5, LedShort
    <3> QED BY <2>3, <2>6, <2>7, <3>1, LedConcat
  <2>10. Careful(as \o <<l>>, Kept(p))
    <3>1. SafeJob(l, Kept(p), a)
      BY <2>2 DEF SafeJob, DestructorJobs, Overwriting
    <3>2. \A i \in 1..Len(<<l>>) :
            SafeJob(<<l>>[i], Kept(p), IF as = <<>> THEN <<l>>[1] ELSE as[1])
      BY <2>3, <2>6, <3>1
    <3> QED BY <2>3, <2>6, <2>8, <3>2, CarefulConcat
  <2>11. as \o <<l>> \in Seq(JobType) /\ Continue(p, as \o <<l>>)
    BY <2>1, <2>3, <2>6, ConcatProperties DEF as
  <2> QED BY <1>1, <2>9, <2>10, <2>11, Quiet, AdvanceKeeps DEF Makes
<1>4. CASE ~IsDir(j.from)
  BY <1>1, <1>4, Quiet, ThrowKeeps DEF CheckSource, CreationJobs
<1> QED BY <1>3, <1>4

LEMMA CheckAbsentKeeps ==
  ASSUME FoldersInv, NEW p \in Proc, CheckAbsent(p), Noted(p) PROVE Keeps(p)
<1> DEFINE at == Now(p).at
<1>1. Active(p) /\ Now(p).do = "absent" /\ UNCHANGED fs
  BY DEF CheckAbsent, Doing
<1>2. at \in Place /\ AgendaOK(p) /\ TreeOK
  BY <1>1, NowFacts DEF FoldersInv
<1>3. CASE Exists(at)
  BY <1>1, <1>3, Quiet, ThrowKeeps DEF CheckAbsent, CreationJobs
<1>4. CASE ~Exists(at)
  <2>1. ASSUME NEW q \in Kept(p) PROVE Front(q) # at
    <3>1. IsDir(Front(q))
      BY <1>2, KeptIsThere DEF TreeOK
    <3> QED BY <1>2, <1>4, <3>1 DEF IsDir, Exists, Place
  <2> QED BY <1>1, <1>4, <2>1, Quiet, DoneKeeps DEF CheckAbsent, Makes
<1> QED BY <1>3, <1>4

LEMMA RefuseKeeps ==
  ASSUME FoldersInv, NEW p \in Proc, Refuse(p), Noted(p) PROVE Keeps(p)
<1>1. Active(p) /\ Throw(p) /\ UNCHANGED fs /\ \E q \in Uses(Now(p)) : Refused(p, q)
  BY DEF Refuse
<1>2. Now(p).do \in CreationJobs => Uses(Now(p)) = {Now(p).at}
  BY DEF Uses, CreationJobs
<1>3. Now(p).do \in CreationJobs => InTheWay(p, Now(p).at)
  BY <1>1, <1>2 DEF InTheWay
<1> QED BY <1>1, <1>3, Quiet, ThrowKeeps

\* A folder has finitely many entries.
LEMMA ChildrenFinite ==
  ASSUME NEW q \in Place
  PROVE  IsFiniteSet(Children(q))
<1> DEFINE f == [n \in Name |-> Append(q, n)]
           T == {f[n] : n \in Name}
<1>1. IsFiniteSet(T)
  <2>1. f \in Surjection(Name, T)
    BY DEF Surjection
  <2> QED BY <2>1, FS_Surjection, DepthAssumption
<1>2. Children(q) \subseteq T
  <2> SUFFICES ASSUME NEW c \in Children(q) PROVE c \in T
    OBVIOUS
  <2>1. c \in Seq(Name) /\ Len(c) = Len(q) + 1 /\ Len(q) \in Nat /\ IsPrefix(q, c) /\ q \in Seq(Name)
    BY PathFacts, LenProperties DEF Children, Place
  <2>2. c[Len(c)] \in Name /\ c \in [1..Len(c) -> Name]
    BY <2>1, LenProperties
  <2>3. SubSeq(q, 1, Len(q)) = q /\ SubSeq(c, 1, Len(q)) = q
    BY <2>1, SubSeqFull DEF IsPrefix
  <2>4. \A i \in 1..Len(q) : c[i] = q[i]
    <3>1. \A i \in 1..Len(q) : c[i] \in Name
      BY <2>1, <2>2
    <3>2. \A i \in 1..Len(q) : SubSeq(c, 1, Len(q))[i] = c[i]
      BY <2>1, <3>1, SubSeqProperties
    <3> QED BY <2>3, <3>2
  <2> DEFINE d == Append(q, c[Len(c)])
  <2>5. /\ d \in Seq(Name) /\ Len(d) = Len(q) + 1 /\ d[Len(q) + 1] = c[Len(c)]
        /\ \A i \in 1..Len(q) : d[i] = q[i]
    BY <2>1, <2>2, AppendProperties
  <2>6. c = d
    <3> HIDE DEF d
    <3>1. \A i \in 1..Len(c) : c[i] = d[i]
      BY <2>1, <2>4, <2>5
    <3> QED BY <2>1, <2>5, <3>1, SeqEqual
  <2> QED BY <2>2, <2>6
<1> HIDE DEF T
<1> QED BY <1>1, <1>2, FS_Subset

LEMMA CopyEntryKeeps ==
  ASSUME FoldersInv, NEW p \in Proc, CopyEntry(p), Noted(p) PROVE Keeps(p)
<1> DEFINE j == Now(p)
           k == JobFrom("tree", j.from, j.at)
<1>1. Active(p) /\ j.do = "entry" /\ UNCHANGED fs
  BY DEF CopyEntry, Doing
<1>2. j.at \in Place /\ j.from \in Place /\ j.at \notin Kept(p) /\ <<>> \in Seen
  BY <1>1, NowFacts DEF Overwriting, Seen
<1>3. CASE IsDir(j.from)
  <2>1. k \in JobType /\ k.do = "tree" /\ Continue(p, <<k>>)
    BY <1>2, <1>3 DEF JobFrom, JobType, JobName, CopyEntry
  <2> HIDE DEF k
  <2>2. <<k>> \in Seq(JobType) /\ Needs(k) = {}
    BY <2>1 DEF Needs
  <2>3. Led(<<k>>, Seen)
    BY <2>2, LedShort
  <2>4. Careful(<<k>>, Kept(p))
    BY <2>1, CarefulShort DEF SafeJob, DestructorJobs, Overwriting
  <2> QED BY <1>1, <2>1, <2>2, <2>3, <2>4, Quiet, AdvanceKeeps DEF Makes
<1>4. CASE ~IsDir(j.from)
  <2>1. Continue(p, CopyFile(j.from, j.at))
    BY <1>4 DEF CopyEntry
  <2> DEFINE s == CopyFile(j.from, j.at)
  <2>2. s \in Seq(JobType) /\ Led(s, Seen) /\ Careful(s, Kept(p))
    BY <1>2, CopyFileFacts
  <2> HIDE DEF s
  <2>3. Continue(p, s)
    BY <2>1 DEF s
  <2> QED BY <1>1, <2>2, <2>3, Quiet, AdvanceKeeps DEF Makes
<1> QED BY <1>3, <1>4

LEMMA ListFolderKeeps ==
  ASSUME FoldersInv, NEW p \in Proc, ListFolder(p), Noted(p) PROVE Keeps(p)
<1> DEFINE j == Now(p)
<1>1. Active(p) /\ j.do = "list" /\ UNCHANGED fs
  BY DEF ListFolder, Doing
<1>2. /\ j.at \in Place /\ j.from \in Place /\ AgendaOK(p)
      /\ \A q \in Kept(p) : Front(q) # j.at
  BY <1>1, NowFacts
<1>3. ASSUME NEW entries \in SetToSeqs(Children(j.from)),
             Continue(p, [i \in DOMAIN entries |->
               JobFrom("entry", entries[i], Append(j.at, Last(entries[i])))])
      PROVE  Keeps(p)
  <2> DEFINE n == Cardinality(Children(j.from))
             s == [i \in DOMAIN entries |->
                     JobFrom("entry", entries[i], Append(j.at, Last(entries[i])))]
  <2>1. n \in Nat
    BY <1>2, ChildrenFinite, FS_CardinalityType
  <2>2. entries \in [1..n -> Children(j.from)]
    BY DEF SetToSeqs
  <2> HIDE DEF n
  <2>3. ASSUME NEW i \in 1..n
        PROVE  /\ entries[i] \in Place /\ Append(j.at, Last(entries[i])) \in Place
               /\ Front(Append(j.at, Last(entries[i]))) = j.at
    <3>1. entries[i] \in Place
      BY <2>2, PathFacts DEF Children
    <3>2. Last(entries[i]) \in Name
      BY <3>1, LenProperties, EmptySeq DEF Last, Place
    <3> DEFINE a == Append(j.at, Last(entries[i]))
    <3>3. /\ j.at \in Seq(Name) /\ a \in Seq(Name) /\ a # <<>> /\ Len(a) = Len(j.at) + 1
          /\ \A k \in 1..Len(j.at) : a[k] = j.at[k]
      BY <1>2, <3>2, AppendProperties DEF Place
    <3> HIDE DEF a
    <3>4. Front(a) = j.at
      <4>1. a \in Place /\ Len(j.at) \in Nat
        BY <3>3, LenProperties DEF Place
      <4>2. /\ Front(a) \in Seq(Name) /\ Len(Front(a)) = Len(j.at)
            /\ \A k \in 1..Len(j.at) : Front(a)[k] = j.at[k]
        <5>1. (Len(j.at) + 1) - 1 = Len(j.at)
          BY <4>1
        <5> QED BY <3>3, <4>1, <5>1, FrontFacts
      <4> QED BY <3>3, <4>2, SeqEqual
    <3> QED BY <3>1, <3>3, <3>4 DEF a, Place
  <2>4. s \in [1..n -> JobType]
        /\ \A i \in 1..n : s[i].do = "entry" /\ Front(s[i].at) = j.at
    <3>1. s = [i \in 1..n |-> JobFrom("entry", entries[i], Append(j.at, Last(entries[i])))]
      BY <2>2
    <3>2. ASSUME NEW i \in 1..n
          PROVE  s[i] \in JobType /\ s[i].do = "entry" /\ Front(s[i].at) = j.at
      <4> DEFINE a == Append(j.at, Last(entries[i]))
      <4>1. s[i] = JobFrom("entry", entries[i], a)
        BY <3>1
      <4>2. entries[i] \in Place /\ a \in Place /\ Front(a) = j.at
        BY <2>3
      <4> HIDE DEF a, s
      <4>3. /\ JobFrom("entry", entries[i], a) \in JobType
            /\ JobFrom("entry", entries[i], a).do = "entry"
            /\ JobFrom("entry", entries[i], a).at = a
        BY <4>2 DEF JobFrom, JobType, JobName
      <4> QED BY <4>1, <4>2, <4>3
    <3> QED BY <3>1, <3>2
  <2>5. Continue(p, s)
    BY <1>3
  <2> HIDE DEF s
  <2>6. s \in Seq(JobType) /\ Len(s) = n
    BY <2>1, <2>4
  <2>7. Led(s, Seen)
    BY <2>4, <2>6 DEF Led, Needs
  <2>8. Careful(s, Kept(p))
    BY <1>2, <2>4, <2>6 DEF Careful, SafeJob, DestructorJobs, Overwriting
  <2> QED BY <1>1, <2>5, <2>6, <2>7, <2>8, Quiet, AdvanceKeeps DEF Makes
<1>4. CASE ~CanList(p, j.from)
  BY <1>1, <1>4, Quiet, ThrowKeeps DEF ListFolder, CreationJobs
<1> QED BY <1>3, <1>4 DEF ListFolder
------------------------------------------------------------------------------
(* New calls *)

LEMMA UnchangedFrame ==
  ASSUME FoldersInv, UNCHANGED <<fs, touched>>
  PROVE  Frame
BY DEF Frame, FoldersInv, TreeOK, IsDir, Exists

\* A call begins with an agenda in order.
LEMMA CallKeepsInv ==
  ASSUME FoldersInv, NEW p \in Proc, NEW r,
         r.op \in Op, r.from \in Path, r.at \in Path, r.own \in Owner \cup {NoOwner},
         Call(p, r)
  PROVE  FoldersInv'
<1> DEFINE new == [op |-> r.op, from |-> r.from, at |-> r.at, own |-> r.own,
                   todo |-> Agenda(r), failed |-> FALSE, made |-> call[p].made + 1,
                   before |-> fs]
<1>1. /\ call' = [call EXCEPT ![p] = new] /\ alone' = [alone EXCEPT ![p] = TRUE]
      /\ UNCHANGED <<fs, touched>> /\ call[p].made < MaxCalls[p]
  BY DEF Call
<1>2. Frame
  BY <1>1, UnchangedFrame
<1>3. call[p].made \in Nat /\ MaxCalls[p] \in Nat
  BY CallsAssumption DEF FoldersInv, CallType
<1>4. call'[p] = new
  BY <1>1 DEF FoldersInv
<1>5. \A q \in Path : Before(p, q)' = fs[q].kind
  BY <1>4, EmptyPath DEF Before
<1>6. /\ r.op \in Writer => r.at \notin Kept(p)'
      /\ r.op \notin Creator \cup Writer => Kept(p)' = {}
      /\ call'[p].op = r.op /\ call'[p].at = r.at
  BY <1>4 DEF Kept, Creator, Writer
<1>7. Agenda(r) \in Seq(JobType) /\ Led(Agenda(r), Seen') /\ Careful(Agenda(r), Kept(p)')
  <2>1. <<>> \in Seen'
    BY DEF Seen
  <2> QED BY <1>6, <2>1, AgendaFacts
<1>8. new \in CallType
  <2>1. r.from \in Seq(Name) /\ r.at \in Seq(Name) /\ fs \in [Path -> Node]
    BY PathFacts DEF FoldersInv, TreeOK
  <2> QED BY <1>3, <1>7, <2>1 DEF CallType
<1>9. AgendaOK(p)'
  <2>1. \A q \in Path \ touched' : Before(p, q)' # "none" => Exists(q)'
    BY <1>1, <1>5 DEF Exists
  <2>2. ~Failed(p)' /\ call'[p].made <= MaxCalls[p] /\ call'[p].todo = Agenda(r)
    BY <1>1, <1>3, <1>4 DEF Failed
  <2> QED BY <1>7, <2>1, <2>2 DEF AgendaOK
<1>10. \A o \in Proc \ {p} : AgendaOK(o)'
  BY <1>1, <1>2, OthersStay DEF FoldersInv
<1>11. call' \in [Proc -> CallType] /\ alone' \in [Proc -> BOOLEAN]
  BY <1>1, <1>8 DEF FoldersInv
<1> QED BY <1>2, <1>9, <1>10, <1>11 DEF FoldersInv, Frame

LEMMA RequestTypes ==
  ASSUME NEW p \in Proc, NEW r \in Request[p]
  PROVE  /\ r.op \in Op /\ r.from \in Path /\ r.at \in Path
         /\ r.own \in Owner \cup {NoOwner}
BY RequestAssumption

\* A call that has nothing to keep.
LEMMA CarefulOfNothing == \A s : Careful(s, {})
BY DEF Careful, SafeJob
------------------------------------------------------------------------------
(* The steps of the destructor *)

LEMMA ForAllFacts ==
  ASSUME NEW do \in {"widen", "clear"}, NEW q \in Place
  PROVE  /\ ForAll(do, Children(q)) \in Seq(JobType)
         /\ \A i \in 1..Len(ForAll(do, Children(q))) : ForAll(do, Children(q))[i].do = do
<1> DEFINE S == Children(q)
           n == Cardinality(S)
           s == SetToSeq(S)
<1>1. IsFiniteSet(S) /\ n \in Nat
  BY ChildrenFinite, FS_CardinalityType
<1>2. s \in [1..n -> S]
  <2>1. ExistsBijection(1..n, S)
    <3>1. PICK m \in Nat : ExistsBijection(1..m, S)
      BY <1>1, FS_NatBijection
    <3> QED BY <3>1, FS_CountingElements
  <2>2. \E f \in [1..n -> S] : IsInjective(f)
    BY <2>1 DEF ExistsBijection, Bijection, Injection
  <2> QED BY <2>2 DEF SetToSeq
<1>3. S \subseteq Place
  BY PathFacts DEF Children
<1> HIDE DEF S, n, s
<1> DEFINE jobs == [i \in 1..n |-> Job(do, s[i])]
<1>4. jobs \in [1..n -> JobType] /\ \A i \in 1..n : jobs[i].do = do
  BY <1>2, <1>3 DEF Job, JobType, JobName
<1>5. ForAll(do, Children(q)) = jobs
  BY <1>2 DEF ForAll, s, S
<1> QED BY <1>1, <1>4, <1>5

LEMMA CheckPathKeeps ==
  ASSUME FoldersInv, NEW p \in Proc, CheckPath(p), Noted(p) PROVE Keeps(p)
<1> DEFINE j == Job("widen", Now(p).at)
           k == Job("clear", Now(p).at)
<1>1. Active(p) /\ Now(p).do = "tidy" /\ UNCHANGED fs
  BY DEF CheckPath, Doing
<1>2. Now(p).at \in Place /\ Kept(p) = {}
  BY <1>1, NowFacts DEF DestructorJobs
<1>3. CASE Exists(Now(p).at)
  <2>1. /\ j \in JobType /\ j.do = "widen" /\ k \in JobType /\ k.do = "clear"
        /\ Continue(p, <<j, k>>)
    BY <1>2, <1>3 DEF Job, JobType, JobName, CheckPath
  <2> HIDE DEF j, k
  <2>2. <<j, k>> \in Seq(JobType) /\ Needs(j) = {} /\ Needs(k) = {}
    BY <2>1 DEF Needs
  <2>3. Led(<<j, k>>, Seen) /\ Careful(<<j, k>>, Kept(p))
    BY <1>2, <2>2, LedShort, CarefulOfNothing
  <2> QED BY <1>1, <2>1, <2>2, <2>3, Quiet, AdvanceKeeps DEF Makes
<1>4. CASE ~Exists(Now(p).at)
  BY <1>1, <1>4, Quiet, DoneKeeps DEF CheckPath, Makes
<1> QED BY <1>3, <1>4

LEMMA WidenKeeps ==
  ASSUME FoldersInv, NEW p \in Proc, Widen(p), Noted(p) PROVE Keeps(p)
<1> DEFINE q == Now(p).at
           node == [fs[q] EXCEPT !.mode = @ \cup {"x"}]
           s == ForAll("widen", Children(q))
<1>1. Active(p) /\ Now(p).do = "widen"
  BY DEF Widen, Doing
<1>2. q \in Place /\ Kept(p) = {} /\ TreeOK /\ q # <<>>
  BY <1>1, NowFacts DEF DestructorJobs, FoldersInv, Place
<1>3. CASE Throw(p) /\ UNCHANGED fs
  BY <1>1, <1>3, Quiet, ThrowKeeps DEF CreationJobs
<1>4. CASE Done(p) /\ UNCHANGED fs
  BY <1>1, <1>4, Quiet, DoneKeeps DEF Makes
<1>5. CASE /\ IsDir(q) /\ fs' = [fs EXCEPT ![q].mode = @ \cup {"x"}]
           /\ Continue(p, s) \/ Throw(p)
  <2>1. q \in Path /\ fs[q] \in Node /\ Exists(q)
    BY <1>2, <1>5 DEF IsDir, TreeOK, Exists
  <2>2. node \in Node /\ node.kind = fs[q].kind
    BY <2>1 DEF Node
  <2>3. Put(q, node)
    BY <1>5, <2>1 DEF Put
  <2> HIDE DEF node
  <2>4. TreeOK'
    BY <1>2, <2>1, <2>2, <2>3, PutKeepsTree
  <2>5. CASE Throw(p)
    BY <1>1, <1>2, <2>4, <2>5, ThrowKeeps DEF CreationJobs
  <2>6. CASE Continue(p, s)
    <3>1. s \in Seq(JobType) /\ \A i \in 1..Len(s) : s[i].do = "widen"
      BY <1>2, ForAllFacts
    <3> HIDE DEF s
    <3>2. Led(s, Seen) /\ Careful(s, Kept(p))
      BY <1>2, <3>1, CarefulOfNothing DEF Led, Needs
    <3> QED BY <1>1, <1>2, <2>4, <2>6, <3>1, <3>2, AdvanceKeeps DEF Makes
  <2> QED BY <1>5, <2>5, <2>6
<1> QED BY <1>3, <1>4, <1>5 DEF Widen

LEMMA ClearKeeps ==
  ASSUME FoldersInv, NEW p \in Proc, Clear(p), Noted(p) PROVE Keeps(p)
<1> DEFINE q == Now(p).at
           s == ForAll("clear", Children(q))
           j == Job("remove", q)
<1>1. Active(p) /\ Now(p).do = "clear" /\ UNCHANGED fs /\ Continue(p, s \o <<j>>)
  BY DEF Clear, Doing
<1>2. q \in Place /\ Kept(p) = {}
  BY <1>1, NowFacts DEF DestructorJobs
<1>3. j \in JobType /\ j.do = "remove"
  BY <1>2 DEF Job, JobType, JobName
<1>4. s \in Seq(JobType) /\ \A i \in 1..Len(s) : s[i].do = "clear"
  BY <1>2, ForAllFacts
<1> HIDE DEF s, j
<1>5. Led(s, Seen)
  BY <1>4 DEF Led, Needs
<1>6. <<j>> \in Seq(JobType) /\ Led(<<j>>, Seen \cup MadeBy(s, Len(s)))
  <2>1. Needs(j) = {}
    BY <1>3 DEF Needs
  <2> QED BY <1>3, <2>1, LedShort
<1>7. s \o <<j>> \in Seq(JobType) /\ Led(s \o <<j>>, Seen)
  BY <1>4, <1>5, <1>6, LedConcat, ConcatProperties
<1> QED BY <1>1, <1>2, <1>7, CarefulOfNothing, Quiet, AdvanceKeeps DEF Makes
------------------------------------------------------------------------------
(* The invariant of the specification *)

LEMMA StepKeeps ==
  ASSUME FoldersInv, NEW p \in Proc, Step(p) PROVE Keeps(p)
<1>1. CASE FolderStep(p)
  BY <1>1, FolderKeeps, MakeDirectoryKeeps, CheckMadeKeeps, SetOwnerKeeps,
     CheckFileKeeps, CheckParentKeeps, OpenFileKeeps, RemoveIfExistsKeeps,
     RemovePathKeeps, CopyKeeps, CheckSourceKeeps, CheckAbsentKeeps,
     ListFolderKeeps, CopyEntryKeeps, RefuseKeeps DEF FolderStep
<1>2. CASE DestructorStep(p)
  BY <1>2, CheckPathKeeps, WidenKeeps, ClearKeeps DEF DestructorStep
<1> QED BY <1>1, <1>2 DEF Step

\* An object manages a path that was given to one.
ManagedType == managed \in [Handle -> Managed \cup {NoPath, Dead}]

Managing == ManagedType /\ ManagedOnce

LEMMA NextCases ==
  ASSUME Next
  PROVE  \/ \E p \in Proc : Step(p) /\ UNCHANGED managed
         \/ \E p \in Proc : \E r \in Request[p] : Call(p, r) /\ UNCHANGED managed
         \/ \E h \in Handle :
              \/ \E q \in Managed : Construct(h, q)
              \/ \E g \in Handle : MoveConstruct(h, g) \/ MoveAssign(h, g)
              \/ Release(h)
              \/ Destroy(h)
BY DEF Next, Step

LEMMA ManagingStep == Managing /\ [Next]_allVars => Managing'
<1> SUFFICES ASSUME Managing, [Next]_allVars PROVE Managing'
  OBVIOUS
<1> USE DEF Managing, ManagedType, ManagedOnce, Manages, Alive
<1>1. ASSUME NEW h \in Handle, NEW q \in Managed, Construct(h, q) PROVE Managing'
  BY <1>1 DEF Construct
<1>2. ASSUME NEW h \in Handle, NEW g \in Handle, MoveConstruct(h, g) PROVE Managing'
  BY <1>2 DEF MoveConstruct
<1>3. ASSUME NEW h \in Handle, NEW g \in Handle, MoveAssign(h, g) PROVE Managing'
  BY <1>3 DEF MoveAssign
<1>4. ASSUME NEW h \in Handle, Release(h) PROVE Managing'
  BY <1>4 DEF Release
<1>5. ASSUME NEW h \in Handle, Destroy(h) PROVE Managing'
  BY <1>5 DEF Destroy
<1>6. CASE UNCHANGED managed
  BY <1>6
<1> QED BY <1>1, <1>2, <1>3, <1>4, <1>5, <1>6, NextCases DEF allVars

LEMMA FoldersStep == FoldersInv /\ Managing /\ [Next]_allVars => FoldersInv'
<1> SUFFICES ASSUME FoldersInv, Managing, [Next]_allVars PROVE FoldersInv'
  OBVIOUS
<1>1. ASSUME NEW p \in Proc, Step(p) PROVE FoldersInv'
  BY <1>1, StepKeeps DEF Keeps
<1>2. ASSUME NEW p \in Proc, NEW r \in Request[p], Call(p, r) PROVE FoldersInv'
  BY <1>2, RequestTypes, CallKeepsInv
<1>3. CASE UNCHANGED vars
  <2>1. Frame
    BY <1>3, UnchangedFrame DEF vars
  <2>2. \A p \in Proc : AgendaOK(p)'
    BY <1>3, <2>1, OthersStay DEF FoldersInv, vars
  <2> QED BY <1>3, <2>1, <2>2 DEF FoldersInv, Frame, vars
<1>4. ASSUME NEW h \in Handle, Destroy(h) PROVE FoldersInv'
  <2>1. CASE Manages(h)
    <3> DEFINE r == [op |-> "~PathRAII", from |-> managed[h], at |-> managed[h],
                     own |-> NoOwner]
    <3>1. managed[h] \in Path
      BY <2>1, HandleAssumption DEF Managing, ManagedType, Manages, Alive
    <3>2. Call(HandleOf[h], r) /\ HandleOf[h] \in Proc
      BY <1>4, <2>1, HandleAssumption DEF Destroy
    <3>3. /\ r.op \in Op /\ r.from \in Path /\ r.at \in Path
          /\ r.own \in Owner \cup {NoOwner}
      BY <3>1 DEF Op
    <3> HIDE DEF r
    <3> QED BY <3>2, <3>3, CallKeepsInv
  <2>2. CASE ~Manages(h)
    BY <1>3, <1>4, <2>2 DEF Destroy
  <2> QED BY <2>1, <2>2
<1>5. ASSUME NEW h \in Handle,
             \/ \E q \in Managed : Construct(h, q)
             \/ \E g \in Handle : MoveConstruct(h, g) \/ MoveAssign(h, g)
             \/ Release(h)
      PROVE  FoldersInv'
  BY <1>3, <1>5 DEF Construct, MoveConstruct, MoveAssign, Release
<1> QED BY <1>1, <1>2, <1>3, <1>4, <1>5, NextCases DEF allVars

LEMMA FoldersInit == PathInit => FoldersInv /\ Managing
<1> SUFFICES ASSUME PathInit PROVE FoldersInv /\ Managing
  OBVIOUS
<1>1. Managing
  BY DEF PathInit, Managing, ManagedType, ManagedOnce, Manages, Alive
<1>2. TreeOK
  <2>1. /\ fs \in [Path -> Node]
        /\ \A q \in Path : IF fs[q].kind = "none" THEN fs[q] = Nothing
                           ELSE Len(q) = 1 \/ fs[Front(q)].kind = "dir"
    BY TreesAssumption DEF PathInit, Init
  <2>2. ASSUME NEW q \in Path PROVE Front(q) = <<>> \/ (Len(q) # 1 /\ Front(q) \in Path)
    <3>1. /\ q \in Place /\ Len(q) \in 1..MaxDepth /\ Front(q) \in Seq(Name)
          /\ Len(Front(q)) = Len(q) - 1
      BY PathFacts, FrontFacts
    <3>2. Len(q) = 1 => Front(q) = <<>>
      BY <3>1, EmptySeq
    <3>3. Len(q) # 1 => Len(Front(q)) \in 1..MaxDepth
      BY <3>1, DepthAssumption
    <3> QED BY <3>1, <3>2, <3>3, PathFacts
  <2>3. ASSUME NEW q \in Path PROVE IF Exists(q) THEN IsDir(Front(q)) ELSE fs[q] = Nothing
    BY <2>1, <2>2 DEF Exists, IsDir
  <2> QED BY <2>1, <2>3 DEF TreeOK
<1>3. \A p \in Proc : call[p] =
        [op |-> "none", from |-> <<>>, at |-> <<>>, own |-> NoOwner,
         todo |-> <<>>, failed |-> FALSE, made |-> 0, before |-> fs]
  BY DEF PathInit, Init
<1>4. ASSUME NEW p \in Proc PROVE call[p] \in CallType /\ AgendaOK(p)
  <2>1. fs \in [Path -> Node] /\ <<>> \in Seq(Name) /\ <<>> \in Seq(JobType)
    BY <1>2, EmptySeq DEF TreeOK
  <2>2. call[p] \in CallType
    <3>1. /\ "none" \in Op \cup {"none"} /\ NoOwner \in Owner \cup {NoOwner}
          /\ 0 \in Nat /\ FALSE \in BOOLEAN
      OBVIOUS
    <3>2. \A op, from, at, own, todo, failed, made, before :
            /\ op \in Op \cup {"none"} /\ from \in Seq(Name) /\ at \in Seq(Name)
            /\ own \in Owner \cup {NoOwner} /\ todo \in Seq(JobType)
            /\ failed \in BOOLEAN /\ made \in Nat /\ before \in [Path -> Node]
            => [op |-> op, from |-> from, at |-> at, own |-> own, todo |-> todo,
                failed |-> failed, made |-> made, before |-> before] \in CallType
      BY DEF CallType
    <3>3. [op |-> "none", from |-> <<>>, at |-> <<>>, own |-> NoOwner,
           todo |-> <<>>, failed |-> FALSE, made |-> 0, before |-> fs] \in CallType
      BY <2>1, <3>1, <3>2
    <3> QED BY <1>3, <3>3
  <2>3. \A q \in Path : Before(p, q) # "none" => Exists(q)
    BY <1>3, EmptyPath DEF Before, Exists
  <2>4. Led(call[p].todo, Seen) /\ Careful(call[p].todo, Kept(p))
    BY <1>3, LedShort, CarefulShort
  <2>5. call[p].made <= MaxCalls[p] /\ ~Failed(p)
    BY <1>3, CallsAssumption DEF Failed
  <2> QED BY <2>2, <2>3, <2>4, <2>5 DEF AgendaOK
<1>5. /\ call \in [Proc -> CallType] /\ touched \subseteq Path
      /\ alone \in [Proc -> BOOLEAN]
  BY <1>4 DEF PathInit, Init
<1> QED BY <1>1, <1>2, <1>4, <1>5 DEF FoldersInv

LEMMA FoldersInvariant == Spec => [](FoldersInv /\ Managing)
<1>1. FoldersInv /\ Managing /\ [Next]_allVars => (FoldersInv /\ Managing)'
  BY FoldersStep, ManagingStep
<1> QED BY <1>1, FoldersInit, PTL DEF Spec

\* A step goes on with other jobs in place of the first, or throws.
LEMMA StepOfAgenda ==
  ASSUME NEW r, Step(r)
  PROVE  (\E jobs : Continue(r, jobs)) \/ Throw(r)
<1>1. FolderStep(r) => (\E jobs : Continue(r, jobs)) \/ Throw(r)
  <2> USE DEF Done
  <2>1. Folder(r) \/ MakeDirectory(r) \/ CheckMade(r) \/ SetOwner(r) =>
          (\E jobs : Continue(r, jobs)) \/ Throw(r)
    BY DEF Folder, MakeDirectory, CheckMade, SetOwner
  <2>2. CheckFile(r) \/ CheckParent(r) \/ OpenFile(r) \/ RemoveIfExists(r) =>
          (\E jobs : Continue(r, jobs)) \/ Throw(r)
    BY DEF CheckFile, CheckParent, OpenFile, RemoveIfExists
  <2>3. RemovePath(r) \/ Copy(r) \/ CheckSource(r) \/ CheckAbsent(r) =>
          (\E jobs : Continue(r, jobs)) \/ Throw(r)
    BY DEF RemovePath, Copy, CheckSource, CheckAbsent
  <2>4. ListFolder(r) \/ CopyEntry(r) \/ Refuse(r) =>
          (\E jobs : Continue(r, jobs)) \/ Throw(r)
    BY DEF ListFolder, CopyEntry, Refuse
  <2> QED BY <2>1, <2>2, <2>3, <2>4 DEF FolderStep
<1>2. DestructorStep(r) => (\E jobs : Continue(r, jobs)) \/ Throw(r)
  BY DEF DestructorStep, CheckPath, Widen, Clear, Done
<1> QED BY <1>1, <1>2 DEF Step

\* A process works off its own agenda only, and in the same call.
LEMMA OnlyOwnCall ==
  ASSUME FoldersInv, NEW r \in Proc, Step(r)
  PROVE  /\ \A p \in Proc \ {r} : call'[p] = call[p]
         /\ call'[r].op = call[r].op
<1>1. call \in [Proc -> CallType]
  BY DEF FoldersInv
<1>2. CASE \E jobs : Continue(r, jobs)
  <2>1. PICK jobs : Continue(r, jobs)
    BY <1>2
  <2> QED BY <1>1, <2>1 DEF Continue, CallType
<1>3. CASE Throw(r)
  BY <1>1, <1>3 DEF Throw, CallType
<1> QED BY <1>2, <1>3, StepOfAgenda
------------------------------------------------------------------------------
(* Theorems *)

\* Whatever calls processes make and whatever comes between their jobs, what
\* exists is in a directory, and every call is of its type.
THEOREM FoldersTypes == Spec => []TypeOK
<1>1. FoldersInv => TypeOK
  <2> SUFFICES ASSUME FoldersInv PROVE TypeOK
    OBVIOUS
  <2>1. ASSUME NEW p \in Proc
        PROVE  /\ call[p].op \in Op \cup {"none"}
               /\ call[p].own \in Owner \cup {NoOwner}
               /\ call[p].made \in 0..MaxCalls[p]
               /\ Failed(p) => ~Idle(p)
    BY CallsAssumption DEF FoldersInv, CallType, AgendaOK
  <2> QED BY <2>1 DEF FoldersInv, TreeOK, TypeOK
<1> QED BY <1>1, FoldersInvariant, PTL

\* createFoldersIfNecessary and the functions that call it throw only if a file
\* is in the way of a folder, one above was removed or closed, or the path is
\* too long: never because another process makes the same folders.
THEOREM CreatorsTolerate == Spec => []CreatorsTolerateEachOther
<1>1. FoldersInv => CreatorsTolerateEachOther
  BY DEF FoldersInv, AgendaOK, CreationJobs, InTheWay, CreatorsTolerateEachOther
<1> QED BY <1>1, FoldersInvariant, PTL

\* A call of the functions that create, copy or write leaves alone what was
\* there when it began and was not removed since, but the one file it is told
\* to replace.
THEOREM CreatorsKeep == Spec => CreatorsKeepWhatExisted
<1> DEFINE Spared == \A p \in Proc : Active(p) /\ call'[p] # call[p] =>
                      \A q \in Kept(p) : fs'[q] = fs[q]
<1>1. FoldersInv /\ Managing /\ [Next]_allVars => [Spared]_vars
  <2> SUFFICES ASSUME FoldersInv, [Next]_allVars, ~UNCHANGED vars,
                      NEW p \in Proc, Active(p), call'[p] # call[p],
                      NEW q \in Kept(p)
               PROVE  fs'[q] = fs[q]
    OBVIOUS
  <2>1. ASSUME NEW r \in Proc, Step(r) PROVE fs'[q] = fs[q]
    <3>1. CASE r = p
      BY <2>1, <3>1, StepKeeps DEF Keeps
    <3>2. CASE r # p
      <4>1. call'[p] = call[p]
        BY <2>1, <3>2, OnlyOwnCall
      <4> QED BY <4>1
    <3> QED BY <3>1, <3>2
  <2>2. ASSUME NEW r \in Proc, NEW c, Call(r, c) PROVE fs' = fs
    BY <2>2 DEF Call
  <2>3. ASSUME NEW h \in Handle,
               \/ \E d \in Managed : Construct(h, d)
               \/ \E g \in Handle : MoveConstruct(h, g) \/ MoveAssign(h, g)
               \/ Release(h)
               \/ Destroy(h)
        PROVE  fs' = fs
    BY <2>3 DEF Construct, MoveConstruct, MoveAssign, Release, Destroy, Call, vars
  <2>4. Next
    BY DEF allVars, vars
  <2> QED BY <2>1, <2>2, <2>3, <2>4, NextCases
<1>2. [Spared]_vars => 
        [\A p \in Proc : Active(p) /\ call'[p] # call[p] =>
           \A q \in Path \ touched :
             /\ Before(p, q) # "none"
             /\ \/ call[p].op \in {"createFoldersIfNecessary",
                                   "createFileIfNecessary", "copyFolder"}
                \/ /\ call[p].op \in {"copyFile", "writeTextFile", "appendTextFile"}
                   /\ q # call[p].at
             => fs'[q] = fs[q]]_vars
  BY DEF Kept, Creator, Writer
<1> HIDE DEF Spared
<1> QED BY <1>1, <1>2, FoldersInvariant, PTL DEF CreatorsKeepWhatExisted, Spec

\* However PathRAII objects are constructed, moved and destroyed, no two of them
\* manage the same path.
THEOREM PathsManagedOnce == Spec => []ManagedOnce
BY FoldersInvariant, PTL DEF Managing

\* A path is given up only by release(), by the destructor that goes on to
\* remove it, or by the assignment to the object that has it.
THEOREM PathsStayManaged == Spec => StaysManaged
<1> DEFINE Left(h) ==
      \/ Release(h)
      \/ /\ ~Alive(h)' /\ Active(HandleOf[h])'
         /\ call[HandleOf[h]]'.op = "~PathRAII"
         /\ call[HandleOf[h]]'.at = managed[h]
      \/ \E g \in Handle : MoveAssign(h, g)
    Stays == \A h \in Handle :
      Manages(h) /\ (\A g \in Handle : managed'[g] # managed[h]) => Left(h)
<1>1. FoldersInv /\ Managing /\ [Next]_allVars => [Stays]_allVars
  <2> SUFFICES ASSUME FoldersInv, Managing, [Next]_allVars, ~UNCHANGED allVars,
                      NEW h \in Handle, Manages(h),
                      \A g \in Handle : managed'[g] # managed[h]
               PROVE  Left(h)
    OBVIOUS
  <2>1. managed \in [Handle -> Managed \cup {NoPath, Dead}]
    BY DEF Managing, ManagedType
  <2>2. managed'[h] # managed[h]
    OBVIOUS
  <2>3. ASSUME NEW i \in Handle, NEW q \in Managed, Construct(i, q) PROVE FALSE
    BY <2>1, <2>2, <2>3 DEF Construct, Manages
  <2>4. ASSUME NEW i \in Handle, NEW g \in Handle, MoveConstruct(i, g) PROVE FALSE
    BY <2>1, <2>2, <2>4 DEF MoveConstruct, Manages
  <2>5. ASSUME NEW i \in Handle, NEW g \in Handle, MoveAssign(i, g) PROVE Left(h)
    <3>1. CASE i = h
      BY <2>5, <3>1
    <3>2. CASE i # h
      BY <2>1, <2>2, <2>5, <3>2 DEF MoveAssign, Manages
    <3> QED BY <3>1, <3>2
  <2>6. ASSUME NEW i \in Handle, Release(i) PROVE Left(h)
    <3>1. i = h
      BY <2>1, <2>2, <2>6 DEF Release
    <3> QED BY <2>6, <3>1
  <2>7. ASSUME NEW i \in Handle, Destroy(i) PROVE Left(h)
    <3>1. i = h /\ ~Alive(h)'
      BY <2>1, <2>2, <2>7 DEF Destroy, Alive
    <3> DEFINE p == HandleOf[h]
               r == [op |-> "~PathRAII", from |-> managed[h], at |-> managed[h],
                     own |-> NoOwner]
    <3>2. Call(p, r) /\ p \in Proc
      BY <2>7, <3>1, HandleAssumption DEF Destroy
    <3>3. call'[p].op = r.op /\ call'[p].at = r.at /\ call'[p].todo = Agenda(r)
          /\ call'[p].failed = FALSE
      <4> HIDE DEF r
      <4> QED BY <3>2 DEF Call, FoldersInv
    <3>4. r.op = "~PathRAII" /\ r.at = managed[h]
      OBVIOUS
    <3>5. Agenda(r) = <<Job("tidy", r.at)>>
      <4> HIDE DEF r
      <4> QED BY <3>4 DEF Agenda
    <3>6. call'[p].todo # <<>>
      BY <3>3, <3>5
    <3>7. Active(p)'
      BY <3>3, <3>6 DEF Active, Idle, Failed
    <3> QED BY <3>1, <3>3, <3>4, <3>7
  <2>8. ASSUME UNCHANGED managed PROVE FALSE
    BY <2>2, <2>8
  <2>9. Next
    OBVIOUS
  <2> QED BY <2>3, <2>4, <2>5, <2>6, <2>7, <2>8, <2>9, NextCases
<1> QED BY <1>1, FoldersInvariant, PTL DEF StaysManaged, Spec
==============================================================================
