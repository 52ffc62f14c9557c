-------------------------- MODULE UndisturbedProofs --------------------------
(***************************************************************************)
(* A call of module Folders during which no other process changes the file *)
(* system does all that it promises or throws for a good reason:           *)
(* UndisturbedCallsWork, for all trees, requests, processes and objects.   *)
(*                                                                         *)
(* First copyFolder, whose agenda grows with what it finds: a copy of a    *)
(* folder into itself never comes to an end without throwing; of any other *)
(* the sources are divided, at every step, into those that are copied and  *)
(* those below the entries still to be copied.  Then the invariant of the  *)
(* specification, Undisturbed.                                             *)
(***************************************************************************)
EXTENDS CallProofs

(* Copying a folder: what each job leaves to do *)

ToTree(x, a, E) == Cons(JobFrom("tree", x, a), E)
ToList(x, a, E) == Cons(JobFrom("list", x, a), E)
ToMakeTree(x, a, E) == Cons(Job("absent", a), ToMake(a, 0, ToList(x, a, E)))
ToGive(a, E) == Cons(Job("chown", a), E)
ToCopyFile(x, a, E) == Cons(JobFrom("copy", x, a), ToGive(a, E))
ToMakeFile(x, a, E) == Cons(Job("remove", a), ToCopyFile(x, a, E))

\* Entries to be copied.
Entries(E) == E \in Seq(JobType) /\ \A i \in 1..Len(E) : E[i].do = "entry"

\* Entries are not to be given away.
LEMMA EntriesQuiet ==
  ASSUME NEW E, Entries(E), NEW c, c.todo = E
  PROVE  ~Chowns(c)
<1>1. E # <<>> => Len(E) \in Nat \ {0} /\ Head(E) = E[1]
  BY EmptySeq, LenProperties DEF Entries
<1>2. E # <<>> => 1 \in 1..Len(E)
  BY <1>1
<1> QED BY <1>1, <1>2 DEF Entries, Chowns

\* The jobs of a copy are jobs.
LEMMA CopyJobs ==
  ASSUME NEW x \in Place, NEW a \in Place, NEW E \in Seq(JobType)
  PROVE  /\ ToTree(x, a, E) \in Seq(JobType) /\ ToList(x, a, E) \in Seq(JobType)
         /\ ToGive(a, E) \in Seq(JobType) /\ ToCopyFile(x, a, E) \in Seq(JobType)
         /\ ToMakeFile(x, a, E) \in Seq(JobType)
         /\ ToList(x, a, E) # <<>> /\ Head(ToList(x, a, E)).do = "list"
         /\ ToMakeFile(x, a, E) # <<>> /\ Head(ToMakeFile(x, a, E)).do = "remove"
         /\ ToTree(x, a, E) # <<>> /\ Head(ToTree(x, a, E)).do = "tree"
         /\ ToCopyFile(x, a, E) # <<>> /\ Head(ToCopyFile(x, a, E)).do = "copy"
         /\ ToGive(a, E) # <<>> /\ Head(ToGive(a, E)).do = "chown"
         /\ Head(ToGive(a, E)).at = a
         /\ JobFrom("tree", x, a) \in JobType /\ JobFrom("list", x, a) \in JobType
         /\ JobFrom("copy", x, a) \in JobType /\ JobFrom("entry", x, a) \in JobType
         /\ Job("remove", a) \in JobType /\ Job("chown", a) \in JobType
         /\ Job("absent", a) \in JobType
<1> DEFINE tree == JobFrom("tree", x, a)
           list == JobFrom("list", x, a)
           copy == JobFrom("copy", x, a)
           remove == Job("remove", a)
           chown == Job("chown", a)
<1>1. /\ tree \in JobType /\ tree.do = "tree" /\ list \in JobType /\ list.do = "list"
      /\ copy \in JobType /\ copy.do = "copy" /\ remove \in JobType /\ remove.do = "remove"
      /\ chown \in JobType /\ chown.do = "chown" /\ chown.at = a
      /\ JobFrom("entry", x, a) \in JobType /\ Job("absent", a) \in JobType
  BY JobTyped DEF JobName
<1> HIDE DEF tree, list, copy, remove, chown
<1>2. /\ Cons(tree, E) \in Seq(JobType) /\ Cons(tree, E) # <<>> /\ Head(Cons(tree, E)) = tree
      /\ Cons(list, E) \in Seq(JobType) /\ Cons(list, E) # <<>> /\ Head(Cons(list, E)) = list
      /\ Cons(chown, E) \in Seq(JobType) /\ Cons(chown, E) # <<>> /\ Head(Cons(chown, E)) = chown
  BY <1>1, ConsFacts
<1>3. /\ Cons(copy, Cons(chown, E)) \in Seq(JobType) /\ Cons(copy, Cons(chown, E)) # <<>>
      /\ Head(Cons(copy, Cons(chown, E))) = copy
  BY <1>1, <1>2, ConsFacts
<1>4. /\ Cons(remove, Cons(copy, Cons(chown, E))) \in Seq(JobType)
      /\ Cons(remove, Cons(copy, Cons(chown, E))) # <<>>
      /\ Head(Cons(remove, Cons(copy, Cons(chown, E)))) = remove
  BY <1>1, <1>3, ConsFacts
<1> QED BY <1>1, <1>2, <1>3, <1>4 DEF ToTree, ToList, ToGive, ToCopyFile, ToMakeFile,
                                      tree, list, copy, remove, chown

\* A file is copied after the folders above it are made.
LEMMA CopyFileAgenda ==
  ASSUME NEW x \in Place, NEW a \in Place, NEW E \in Seq(JobType)
  PROVE  /\ CopyFile(x, a) \in Seq(JobType)
         /\ CopyFile(x, a) \o E = ToMake(Front(a), 0, ToMakeFile(x, a, E))
<1> DEFINE s == CreateFolders(Front(a))
           remove == Job("remove", a)
           copy == JobFrom("copy", x, a)
           chown == Job("chown", a)
           t == <<remove, copy, chown>>
           post == ToMakeFile(x, a, E)
<1>1. Front(a) \in Seq(Name) /\ 0 \in 0..Len(Front(a))
  BY FrontFacts, LenProperties
<1>2. s \in Seq(JobType) /\ post \in Seq(JobType)
  BY <1>1, CreateFoldersFacts, CopyJobs
<1>3. ToMake(Front(a), 0, post) = s \o post
  BY <1>1, <1>2, FoldersFacts
<1>4. remove \in JobType /\ copy \in JobType /\ chown \in JobType
  BY CopyJobs
<1>5. t \in Seq(JobType) /\ t \o E = Cons(remove, Cons(copy, Cons(chown, E)))
  <2> HIDE DEF remove, copy, chown
  <2> QED BY <1>4, Shorts
<1>6. CopyFile(x, a) = s \o t /\ post = Cons(remove, Cons(copy, Cons(chown, E)))
  BY DEF CopyFile, ToMakeFile, ToCopyFile, ToGive
<1>7. s \o t \in Seq(JobType) /\ (s \o t) \o E = s \o (t \o E)
  <2> HIDE DEF s, t
  <2>1. s \in Seq(JobType) /\ t \in Seq(JobType) /\ E \in Seq(JobType)
    BY <1>2, <1>5
  <2>2. s \o t \in Seq(JobType)
    BY <2>1, ConcatProperties
  <2>3. (s \o t) \o E = s \o (t \o E)
    BY <2>1, ConcatAssociative
  <2> QED BY <2>2, <2>3
<1> HIDE DEF s, t, post, remove, copy, chown
<1> QED BY <1>3, <1>5, <1>6, <1>7 DEF post

\* The source is a folder, or the copy throws.
LEMMA DoesTree ==
  ASSUME NEW p, Stepping(p), Now(p).do = "tree"
  PROVE  LET j == Now(p)
         IN  \/ Refuses(p)
             \/ Kind(fs, j.from) # "dir" /\ Fails(call[p], call'[p]) /\ fs' = fs
             \/ /\ Kind(fs, j.from) = "dir" /\ fs' = fs
                /\ Goes(call[p], call'[p],
                        <<Job("absent", j.at)>> \o CreateFolders(j.at)
                          \o <<JobFrom("list", j.from, j.at)>>)
<1>1. Refuses(p) \/ CheckSource(p)
  BY StepOfJob
<1> QED BY <1>1, Outcomes, KindFacts DEF CheckSource

\* The destination is not there, or the copy throws.
LEMMA DoesAbsent ==
  ASSUME NEW p, Stepping(p), Now(p).do = "absent"
  PROVE  \/ Refuses(p)
         \/ There(fs, Now(p).at) /\ Fails(call[p], call'[p]) /\ fs' = fs
         \/ ~There(fs, Now(p).at) /\ Goes(call[p], call'[p], <<>>) /\ fs' = fs
<1>1. Refuses(p) \/ CheckAbsent(p)
  BY StepOfJob
<1> QED BY <1>1, Outcomes, KindFacts DEF CheckAbsent

\* An entry is a folder or is copied as a file.
LEMMA DoesEntry ==
  ASSUME NEW p, Stepping(p), Now(p).do = "entry"
  PROVE  \/ Refuses(p)
         \/ /\ fs' = fs
            /\ Goes(call[p], call'[p],
                    IF Kind(fs, Now(p).from) = "dir"
                    THEN <<JobFrom("tree", Now(p).from, Now(p).at)>>
                    ELSE CopyFile(Now(p).from, Now(p).at))
<1>1. Refuses(p) \/ CopyEntry(p)
  BY StepOfJob
<1> QED BY <1>1, Outcomes, KindFacts DEF CopyEntry

\* The entries of a folder x to be copied to a.
Lists(f, x, a, s) ==
  /\ s \in Seq(JobType)
  /\ \A i \in 1..Len(s) : /\ ChildOf(f, x, s[i].from)
                          /\ s[i] = JobFrom("entry", s[i].from, Append(a, Last(s[i].from)))
                          /\ s[i].do = "entry" /\ s[i].at = Append(a, Last(s[i].from))
  /\ \A i, k \in 1..Len(s) : s[i].from = s[k].from => i = k
  /\ \A e : ChildOf(f, x, e) => \E i \in 1..Len(s) : s[i].from = e

\* The entries of a folder are listed, or may not be.
LEMMA DoesList ==
  ASSUME NEW p, Stepping(p), Now(p).do = "list"
  PROVE  LET j == Now(p)
         IN  \/ Refuses(p)
             \/ /\ Kind(fs, j.from) # "dir" \/ (Uid[p] # Root /\ "r" \notin fs[j.from].mode)
                /\ Fails(call[p], call'[p]) /\ fs' = fs
             \/ /\ fs' = fs
                /\ \E s : Lists(fs, j.from, j.at, s) /\ Goes(call[p], call'[p], s)
<1> DEFINE j == Now(p)
           S == Children(j.from)
           n == Cardinality(S)
<1>1. Refuses(p) \/ ListFolder(p)
  BY StepOfJob
<1>2. j.at \in Place /\ j.from \in Place
  BY StepOfJob
<1>3. /\ n \in Nat /\ IsFiniteSet(S) /\ S \subseteq Place
      /\ \A e : e \in S <=> ChildOf(fs, j.from, e)
  <2>1. IsFiniteSet(S)
    BY <1>2, ChildrenFinite
  <2>2. n \in Nat
    BY <2>1, FS_CardinalityType
  <2>3. S \subseteq Place /\ \A e : e \in S <=> ChildOf(fs, j.from, e)
    BY PathFacts, KindFacts DEF Children, ChildOf
  <2> QED BY <2>1, <2>2, <2>3
<1>4. ASSUME NEW entries \in SetToSeqs(S), NEW s,
             s = [i \in DOMAIN entries |->
                    JobFrom("entry", entries[i], Append(j.at, Last(entries[i])))]
      PROVE  Lists(fs, j.from, j.at, s)
  <2>1. /\ entries \in [1..n -> S]
        /\ \A i, k \in 1..n : i # k => entries[i] # entries[k]
    BY DEF SetToSeqs
  <2> HIDE DEF S, n
  <2>2. \A e \in S : \E i \in 1..n : entries[i] = e
    <3>1. entries \in Injection(1..n, S)
      BY <2>1 DEF Injection, IsInjective
    <3>2. IsFiniteSet(1..n) /\ Cardinality(1..n) = n
      BY <1>3, FS_Interval
    <3>3. entries \in Surjection(1..n, S)
      BY <1>3, <3>1, <3>2, FS_Injection DEF n
    <3> QED BY <3>3 DEF Surjection
  <2>3. ASSUME NEW i \in 1..n
        PROVE  entries[i] \in Place /\ Append(j.at, Last(entries[i])) \in Place
    <3>1. entries[i] \in Place
      BY <1>3, <2>1
    <3>2. Last(entries[i]) \in Name
      BY <3>1, LenProperties, EmptySeq DEF Last, Place
    <3>3. /\ j.at \in Seq(Name)
          /\ Append(j.at, Last(entries[i])) \in Seq(Name)
          /\ Append(j.at, Last(entries[i])) # <<>>
      BY <1>2, <3>2, AppendProperties DEF Place
    <3> QED BY <3>1, <3>3 DEF Place
  <2>4. s = [i \in 1..n |-> JobFrom("entry", entries[i], Append(j.at, Last(entries[i])))]
    BY <1>4, <2>1
  <2>5. ASSUME NEW i \in 1..n
        PROVE  /\ s[i] = JobFrom("entry", entries[i], Append(j.at, Last(entries[i])))
               /\ s[i] \in JobType /\ s[i].do = "entry" /\ s[i].from = entries[i]
               /\ s[i].at = Append(j.at, Last(entries[i]))
    <3> DEFINE x == entries[i]
               a == Append(j.at, Last(entries[i]))
    <3>1. s[i] = JobFrom("entry", x, a)
      BY <2>4
    <3>2. x \in Place /\ a \in Place
      BY <2>3
    <3> HIDE DEF x, a
    <3>3. /\ JobFrom("entry", x, a) \in JobType /\ JobFrom("entry", x, a).do = "entry"
          /\ JobFrom("entry", x, a).from = x /\ JobFrom("entry", x, a).at = a
      BY <3>2, JobTyped DEF JobName
    <3> QED BY <3>1, <3>3 DEF x, a
  <2>6. s \in Seq(JobType) /\ Len(s) = n
    <3>1. s \in [1..n -> JobType]
      BY <2>4, <2>5
    <3> QED BY <1>3, <3>1
  <2>7. \A i \in 1..n : ChildOf(fs, j.from, entries[i])
    BY <1>3, <2>1
  <2> QED BY <1>3, <2>1, <2>2, <2>5, <2>6, <2>7 DEF Lists
<1>5. CanList(p, j.from) <=> Kind(fs, j.from) = "dir" /\ (Uid[p] = Root \/ "r" \in fs[j.from].mode)
  BY KindFacts DEF CanList
<1>6. CASE ListFolder(p) /\ CanList(p, j.from)
  <2>1. fs' = fs
    BY <1>6 DEF ListFolder
  <2>2. PICK entries \in SetToSeqs(S) :
          Continue(p, [i \in DOMAIN entries |->
            JobFrom("entry", entries[i], Append(j.at, Last(entries[i])))])
    BY <1>6 DEF ListFolder
  <2> DEFINE s == [i \in DOMAIN entries |->
                     JobFrom("entry", entries[i], Append(j.at, Last(entries[i])))]
  <2>3. Lists(fs, j.from, j.at, s)
    BY <1>4
  <2>4. Goes(call[p], call'[p], s)
    <3>1. Continue(p, s)
      BY <2>2
    <3> HIDE DEF s
    <3> QED BY <3>1, Outcomes
  <2> HIDE DEF s
  <2> QED BY <2>1, <2>3, <2>4
<1>7. CASE ListFolder(p) /\ ~CanList(p, j.from)
  <2>1. fs' = fs /\ Throw(p)
    BY <1>7 DEF ListFolder
  <2>2. Fails(call[p], call'[p])
    BY <2>1, Outcomes
  <2> QED BY <1>5, <1>7, <2>1, <2>2
<1> QED BY <1>1, <1>6, <1>7

\* The jobs that copy a tree.
LEMMA CopyTreeAgenda ==
  ASSUME NEW x \in Place, NEW a \in Place, NEW E \in Seq(JobType)
  PROVE  LET jobs == <<Job("absent", a)>> \o CreateFolders(a) \o <<JobFrom("list", x, a)>>
         IN  jobs \in Seq(JobType) /\ jobs \o E = ToMakeTree(x, a, E)
<1> DEFINE absent == Job("absent", a)
           list == JobFrom("list", x, a)
           s == CreateFolders(a)
           o == <<absent>>
           l == <<list>>
           post == ToList(x, a, E)
<1>1. a \in Seq(Name) /\ 0 \in 0..Len(a)
  BY LenProperties DEF Place
<1>2. s \in Seq(JobType) /\ post \in Seq(JobType)
  BY <1>1, CreateFoldersFacts, CopyJobs
<1>3. ToMake(a, 0, post) = s \o post
  BY <1>1, <1>2, FoldersFacts
<1>4. absent \in JobType /\ list \in JobType
  BY CopyJobs
<1>5. o \in Seq(JobType) /\ l \in Seq(JobType) /\ E \in Seq(JobType)
  <2> HIDE DEF absent, list
  <2> QED BY <1>4
<1>6. post = l \o E /\ ToMakeTree(x, a, E) = o \o ToMake(a, 0, post)
  BY DEF ToList, ToMakeTree, Cons
<1> HIDE DEF s, o, l, post, absent, list
<1>7. o \o s \in Seq(JobType) /\ (o \o s) \o l \in Seq(JobType)
  BY <1>2, <1>5, ConcatProperties
<1>8. ((o \o s) \o l) \o E = (o \o s) \o (l \o E)
  <2> DEFINE os == o \o s
  <2>1. os \in Seq(JobType) /\ l \in Seq(JobType) /\ E \in Seq(JobType)
    BY <1>5, <1>7
  <2> HIDE DEF os
  <2>2. (os \o l) \o E = os \o (l \o E)
    BY <2>1, ConcatAssociative
  <2> QED BY <2>2 DEF os
<1>9. (o \o s) \o post = o \o (s \o post)
  <2>1. o \in Seq(JobType) /\ s \in Seq(JobType) /\ post \in Seq(JobType)
    BY <1>2, <1>5
  <2> QED BY <2>1, ConcatAssociative
<1>10. (o \o s) \o l \in Seq(JobType) /\ ((o \o s) \o l) \o E = ToMakeTree(x, a, E)
  BY <1>3, <1>6, <1>7, <1>8, <1>9
<1> QED BY <1>10 DEF o, l, s, absent, list

\* The steps of a copy of x to a, before the entries E: the source is checked,
LEMMA TreeStep ==
  ASSUME NEW p, Stepping(p), NEW x \in Place, NEW a \in Place, NEW E, Entries(E),
         call[p].todo = ToTree(x, a, E)
  PROVE  \/ /\ Fails(call[p], call'[p]) /\ fs' = fs
            /\ Closed(p, fs, x) \/ Kind(fs, x) # "dir"
         \/ /\ SameCall(call[p], call'[p]) /\ Quiet3(call[p], fs, call'[p], fs')
            /\ Kind(fs, x) = "dir" /\ call'[p].todo = ToMakeTree(x, a, E)
<1> DEFINE c == call[p]
           d == call'[p]
           j == JobFrom("tree", x, a)
           jobs == <<Job("absent", a)>> \o CreateFolders(a) \o <<JobFrom("list", x, a)>>
<1>1. E \in Seq(JobType) /\ c.todo # <<>> /\ Now(p) = Head(c.todo)
  BY StepOfJob DEF Entries
<1>2. j \in JobType /\ j.do = "tree" /\ j.from = x /\ j.at = a
  BY JobTyped DEF JobName
<1>3. jobs \in Seq(JobType) /\ jobs \o E = ToMakeTree(x, a, E)
  BY <1>1, CopyTreeAgenda
<1>4. c.todo = Cons(j, E)
  BY DEF ToTree
<1> HIDE DEF j
<1>5. Now(p) = j /\ (\A u \in Seq(JobType) : Goes(c, d, u) => SameCall(c, d) /\ d.todo = u \o E)
  BY <1>1, <1>2, <1>4, AtHand
<1>6. \/ Refuses(p)
      \/ Kind(fs, x) # "dir" /\ Fails(c, d) /\ fs' = fs
      \/ Kind(fs, x) = "dir" /\ fs' = fs /\ Goes(c, d, jobs)
  <2>1. Now(p).do = "tree" /\ Now(p).from = x /\ Now(p).at = a
    BY <1>2, <1>5
  <2> QED BY <2>1, DoesTree
<1> HIDE DEF jobs
<1>7. CASE Refuses(p)
  BY <1>2, <1>5, <1>7 DEF Refuses, Uses
<1>8. CASE Kind(fs, x) = "dir" /\ fs' = fs /\ Goes(c, d, jobs)
  <2>1. SameCall(c, d) /\ d.todo = ToMakeTree(x, a, E)
    BY <1>3, <1>5, <1>8
  <2>2. ~Chowns(c)
    BY <1>1, <1>2, <1>5 DEF Chowns
  <2>3. ~Chowns(d)
    <3> DEFINE k == Job("absent", a)
               s == ToMake(a, 0, ToList(x, a, E))
    <3>1. k \in JobType /\ k.do = "absent"
      BY JobTyped DEF JobName
    <3>2. s \in Seq(JobType)
      <4>1. a \in Seq(Name) /\ 0 \in 0..Len(a) /\ ToList(x, a, E) \in Seq(JobType)
        BY <1>1, CopyJobs, LenProperties DEF Place
      <4> QED BY <4>1, FoldersFacts
    <3>3. d.todo = Cons(k, s)
      BY <2>1 DEF ToMakeTree
    <3> HIDE DEF k, s
    <3>4. Head(d.todo) = k
      BY <3>1, <3>2, <3>3, ConsFacts
    <3> QED BY <3>1, <3>4 DEF Chowns
  <2> QED BY <1>8, <2>1, <2>2, <2>3 DEF Quiet3
<1> QED BY <1>6, <1>7, <1>8

\* then the destination;
LEMMA AbsentStep ==
  ASSUME NEW p, Stepping(p), NEW x \in Place, NEW a \in Place, NEW E, Entries(E),
         call[p].todo = ToMakeTree(x, a, E)
  PROVE  \/ /\ Fails(call[p], call'[p]) /\ fs' = fs
            /\ Closed(p, fs, a) \/ There(fs, a)
         \/ /\ SameCall(call[p], call'[p]) /\ Quiet3(call[p], fs, call'[p], fs')
            /\ ~There(fs, a) /\ MakesFolders(call'[p], fs', a, ToList(x, a, E))
<1> DEFINE c == call[p]
           d == call'[p]
           j == Job("absent", a)
           post == ToList(x, a, E)
           s == ToMake(a, 0, post)
<1>1. c.todo # <<>> /\ Now(p) = Head(c.todo) /\ a \in Seq(Name) /\ 0 \in 0..Len(a)
  BY StepOfJob, LenProperties DEF Place
<1>2. j \in JobType /\ j.do = "absent" /\ j.at = a
  BY JobTyped DEF JobName
<1>3. post \in Seq(JobType) /\ post # <<>> /\ Head(post).do = "list"
  BY CopyJobs DEF Entries
<1>4. s \in Seq(JobType)
  BY <1>1, <1>3, FoldersFacts
<1>5. c.todo = Cons(j, s)
  BY DEF ToMakeTree
<1> HIDE DEF j, s, post
<1>6. Now(p) = j /\ (Goes(c, d, <<>>) => SameCall(c, d) /\ d.todo = s)
  BY <1>2, <1>4, <1>5, AtHand
<1>7. \/ Refuses(p)
      \/ There(fs, a) /\ Fails(c, d) /\ fs' = fs
      \/ ~There(fs, a) /\ Goes(c, d, <<>>) /\ fs' = fs
  <2>1. Now(p).do = "absent" /\ Now(p).at = a
    BY <1>2, <1>6
  <2> QED BY <2>1, DoesAbsent
<1>8. CASE Refuses(p)
  BY <1>2, <1>6, <1>8 DEF Refuses, Uses
<1>9. CASE ~There(fs, a) /\ Goes(c, d, <<>>) /\ fs' = fs
  <2>1. SameCall(c, d) /\ d.todo = s
    BY <1>6, <1>9
  <2>2. ~Chowns(c)
    BY <1>1, <1>2, <1>6 DEF Chowns
  <2>3. MakesFolders(d, fs', a, post) /\ ~Chowns(d)
    BY <1>1, <1>3, <2>1, StartFolders, StartsQuiet DEF s
  <2> QED BY <1>9, <2>1, <2>2, <2>3 DEF Quiet3, post
<1> QED BY <1>7, <1>8, <1>9

\* the folder is made, and the source is listed;
LEMMA ListStep ==
  ASSUME NEW p, Stepping(p), NEW x \in Place, NEW a \in Place, NEW E, Entries(E),
         MakesFolders(call[p], fs, a, ToList(x, a, E))
  PROVE  \/ /\ Fails(call[p], call'[p]) /\ fs' = fs
            /\ \/ Closed(p, fs, a) \/ \E e \in Above(a) : Kind(fs, e) = "file"
               \/ Closed(p, fs, x) \/ Kind(fs, x) # "dir"
               \/ Uid[p] # Root /\ "r" \notin fs[x].mode
         \/ /\ SameCall(call[p], call'[p])
            /\ MakesFolders(call'[p], fs', a, ToList(x, a, E))
            /\ FolderChange(p, call[p], fs, call'[p], fs', a)
         \/ /\ SameCall(call[p], call'[p]) /\ fs' = fs /\ There(fs, a) /\ ~Chowns(call[p])
            /\ \E s : Lists(fs, x, a, s) /\ call'[p].todo = s \o E
<1> DEFINE c == call[p]
           d == call'[p]
           j == JobFrom("list", x, a)
           post == ToList(x, a, E)
<1>1. /\ c.todo # <<>> /\ Now(p) = Head(c.todo) /\ a \in Seq(Name) /\ a # <<>>
      /\ E \in Seq(JobType)
  BY StepOfJob DEF Place, Entries
<1>2. j \in JobType /\ j.do = "list" /\ j.from = x /\ j.at = a
  BY JobTyped DEF JobName
<1>3. post \in Seq(JobType) /\ post # <<>> /\ Head(post).do = "list"
  BY CopyJobs DEF Entries
<1>4. post = Cons(j, E)
  BY DEF ToList
<1> HIDE DEF j, post
<1>5. CASE ToFolder(c, fs, a, post)
  BY <1>1, <1>3, <1>5, FoldersPhase DEF post
<1>6. CASE c.todo = post /\ There(fs, a)
  <2>1. Now(p) = j /\ (\A u \in Seq(JobType) : Goes(c, d, u) => SameCall(c, d) /\ d.todo = u \o E)
    BY <1>1, <1>2, <1>4, <1>6, AtHand
  <2>2. Now(p).do = "list" /\ Now(p).from = x /\ Now(p).at = a
    BY <1>2, <2>1
  <2>3. \/ Refuses(p)
        \/ /\ Kind(fs, x) # "dir" \/ (Uid[p] # Root /\ "r" \notin fs[x].mode)
           /\ Fails(c, d) /\ fs' = fs
        \/ fs' = fs /\ \E s : Lists(fs, x, a, s) /\ Goes(c, d, s)
    BY <2>2, DoesList
  <2>4. CASE Refuses(p)
    BY <2>2, <2>4 DEF Refuses, Uses
  <2>5. CASE fs' = fs /\ \E s : Lists(fs, x, a, s) /\ Goes(c, d, s)
    <3>1. PICK s : Lists(fs, x, a, s) /\ Goes(c, d, s)
      BY <2>5
    <3>2. SameCall(c, d) /\ d.todo = s \o E
      BY <2>1, <3>1 DEF Lists
    <3>3. ~Chowns(c)
      BY <1>1, <2>2 DEF Chowns
    <3> QED BY <1>6, <2>5, <3>1, <3>2, <3>3
  <2> QED BY <2>3, <2>4, <2>5
<1> QED BY <1>1, <1>5, <1>6 DEF MakesFolders, post

\* an entry is looked at;
LEMMA EntryStep ==
  ASSUME NEW p, Stepping(p), NEW x \in Place, NEW a \in Place, NEW E, Entries(E),
         call[p].todo = Cons(JobFrom("entry", x, a), E)
  PROVE  \/ Fails(call[p], call'[p]) /\ fs' = fs /\ Closed(p, fs, x)
         \/ /\ SameCall(call[p], call'[p]) /\ Quiet3(call[p], fs, call'[p], fs')
            /\ \/ Kind(fs, x) = "dir" /\ call'[p].todo = ToTree(x, a, E)
               \/ /\ Kind(fs, x) # "dir"
                  /\ MakesFolders(call'[p], fs', Front(a), ToMakeFile(x, a, E))
<1> DEFINE c == call[p]
           d == call'[p]
           j == JobFrom("entry", x, a)
           k == JobFrom("tree", x, a)
           jobs == CopyFile(x, a)
           post == ToMakeFile(x, a, E)
<1>1. /\ c.todo # <<>> /\ Now(p) = Head(c.todo) /\ E \in Seq(JobType)
      /\ Front(a) \in Seq(Name)
  BY StepOfJob, FrontFacts DEF Entries
<1>2. j \in JobType /\ j.do = "entry" /\ j.from = x /\ j.at = a /\ k \in JobType
  BY JobTyped DEF JobName
<1>3. jobs \in Seq(JobType) /\ jobs \o E = ToMake(Front(a), 0, post)
  BY <1>1, CopyFileAgenda
<1>4. c.todo = Cons(j, E)
  OBVIOUS
<1> HIDE DEF j
<1>5. /\ Now(p) = j
      /\ \A u \in Seq(JobType) : Goes(c, d, u) => SameCall(c, d) /\ d.todo = u \o E
      /\ \A u \in JobType : Goes(c, d, <<u>>) => SameCall(c, d) /\ d.todo = Cons(u, E)
  BY <1>1, <1>2, <1>4, AtHand
<1>6. \/ Refuses(p)
      \/ fs' = fs /\ Goes(c, d, IF Kind(fs, x) = "dir" THEN <<k>> ELSE jobs)
  <2>1. Now(p).do = "entry" /\ Now(p).from = x /\ Now(p).at = a
    BY <1>2, <1>5
  <2> QED BY <2>1, DoesEntry
<1> HIDE DEF jobs, k, post
<1>7. ~Chowns(c)
  BY <1>1, <1>2, <1>5 DEF Chowns
<1>8. CASE Refuses(p)
  BY <1>2, <1>5, <1>8 DEF Refuses, Uses
<1>9. CASE fs' = fs /\ Kind(fs, x) = "dir" /\ Goes(c, d, <<k>>)
  <2>1. SameCall(c, d) /\ d.todo = ToTree(x, a, E)
    BY <1>2, <1>5, <1>9 DEF ToTree, k
  <2>2. ~Chowns(d)
    BY <1>1, <2>1, CopyJobs DEF Chowns
  <2> QED BY <1>7, <1>9, <2>1, <2>2 DEF Quiet3
<1>10. CASE fs' = fs /\ Kind(fs, x) # "dir" /\ Goes(c, d, jobs)
  <2>1. SameCall(c, d) /\ d.todo = ToMake(Front(a), 0, post)
    BY <1>3, <1>5, <1>10
  <2>2. post \in Seq(JobType) /\ post # <<>> /\ Head(post).do = "remove"
    BY <1>1, CopyJobs DEF post
  <2>3. MakesFolders(d, fs', Front(a), post) /\ ~Chowns(d)
    BY <1>1, <2>1, <2>2, StartFolders, StartsQuiet
  <2> QED BY <1>7, <1>10, <2>1, <2>3 DEF Quiet3, post
<1> QED BY <1>6, <1>8, <1>9, <1>10

\* the folder above a file is made, and what is there removed;
LEMMA FileStep ==
  ASSUME NEW p, Stepping(p), NEW x \in Place, NEW a \in Place, NEW E, Entries(E),
         MakesFolders(call[p], fs, Front(a), ToMakeFile(x, a, E))
  PROVE  \/ /\ Fails(call[p], call'[p]) /\ fs' = fs
            /\ \/ Closed(p, fs, Front(a)) \/ \E e \in Above(Front(a)) : Kind(fs, e) = "file"
               \/ Closed(p, fs, a) \/ \E e : ChildOf(fs, a, e)
         \/ /\ SameCall(call[p], call'[p])
            /\ MakesFolders(call'[p], fs', Front(a), ToMakeFile(x, a, E))
            /\ FolderChange(p, call[p], fs, call'[p], fs', Front(a))
         \/ /\ SameCall(call[p], call'[p]) /\ ~Chowns(call[p]) /\ ~Chowns(call'[p])
            /\ call'[p].todo = ToCopyFile(x, a, E) /\ (There(fs, a) \/ fs' = fs)
<1> DEFINE c == call[p]
           d == call'[p]
           j == Job("remove", a)
           s == ToCopyFile(x, a, E)
           post == ToMakeFile(x, a, E)
<1>1. /\ c.todo # <<>> /\ Now(p) = Head(c.todo) /\ E \in Seq(JobType)
      /\ Front(a) \in Seq(Name)
  BY StepOfJob, FrontFacts DEF Entries
<1>2. j \in JobType /\ j.do = "remove" /\ j.at = a
  BY JobTyped DEF JobName
<1>3. /\ post \in Seq(JobType) /\ post # <<>> /\ Head(post).do = "remove"
      /\ s \in Seq(JobType) /\ s # <<>> /\ Head(s).do = "copy"
  BY <1>1, CopyJobs
<1>4. post = Cons(j, s)
  BY DEF ToMakeFile
<1> HIDE DEF j, s, post
<1>5. CASE ToFolder(c, fs, Front(a), post)
  BY <1>1, <1>3, <1>5, FoldersPhase DEF post
<1>6. CASE c.todo = post
  <2>1. Now(p) = j /\ (Goes(c, d, <<>>) => SameCall(c, d) /\ d.todo = s)
    BY <1>2, <1>3, <1>4, <1>6, AtHand
  <2>2. Now(p).do = "remove" /\ Now(p).at = a
    BY <1>2, <2>1
  <2>3. \/ Refuses(p)
        \/ (\E e : ChildOf(fs, a, e)) /\ Fails(c, d) /\ fs' = fs
        \/ Goes(c, d, <<>>) /\ (There(fs, a) \/ fs' = fs)
    BY <2>2, DoesRemove
  <2>4. CASE Refuses(p)
    BY <2>2, <2>4 DEF Refuses, Uses
  <2>5. CASE Goes(c, d, <<>>) /\ (There(fs, a) \/ fs' = fs)
    BY <1>1, <1>3, <2>1, <2>2, <2>5 DEF Chowns, s
  <2> QED BY <2>3, <2>4, <2>5
<1> QED BY <1>5, <1>6 DEF MakesFolders, post

\* the file is copied,
LEMMA CopyStep ==
  ASSUME NEW p, Stepping(p), NEW x \in Place, NEW a \in Place, NEW E, Entries(E),
         call[p].todo = ToCopyFile(x, a, E)
  PROVE  \/ /\ Fails(call[p], call'[p]) /\ fs' = fs
            /\ \/ Closed(p, fs, x) \/ Closed(p, fs, a)
               \/ Kind(fs, x) # "file" \/ There(fs, a) \/ Kind(fs, Front(a)) # "dir"
         \/ /\ SameCall(call[p], call'[p]) /\ call'[p].todo = ToGive(a, E)
            /\ Kind(fs, x) = "file" /\ ~There(fs, a) /\ Kind(fs, Front(a)) = "dir"
            /\ Adds(p, call[p], fs, call'[p], fs', a, NewFile(Uid[p], fs[x].text))
<1> DEFINE c == call[p]
           d == call'[p]
           j == JobFrom("copy", x, a)
           s == ToGive(a, E)
<1>1. /\ c.todo # <<>> /\ Now(p) = Head(c.todo) /\ E \in Seq(JobType)
  BY StepOfJob DEF Entries
<1>2. j \in JobType /\ j.do = "copy" /\ j.at = a /\ j.from = x
  BY JobTyped DEF JobName
<1>3. /\ s \in Seq(JobType) /\ s # <<>> /\ Head(s).do = "chown" /\ Head(s).at = a
  BY <1>1, CopyJobs
<1>4. c.todo = Cons(j, s)
  BY DEF ToCopyFile
<1> HIDE DEF j, s
<1>5. Now(p) = j /\ (Goes(c, d, <<>>) => SameCall(c, d) /\ d.todo = s)
  BY <1>2, <1>3, <1>4, AtHand
<1>6. Now(p).do = "copy" /\ Now(p).at = a /\ Now(p).from = x
  BY <1>2, <1>5
<1> DEFINE can == Kind(fs, x) = "file" /\ ~There(fs, a) /\ Kind(fs, Front(a)) = "dir"
<1>7. \/ Refuses(p)
      \/ ~can /\ Fails(c, d) /\ fs' = fs
      \/ /\ can /\ a \in Path /\ Goes(c, d, <<>>)
         /\ fs' = [fs EXCEPT ![a] = NewFile(Uid[p], fs[x].text)]
  BY <1>6, DoesCopy
<1>8. CASE Refuses(p)
  BY <1>6, <1>8 DEF Refuses, Uses
<1>9. CASE /\ can /\ a \in Path /\ Goes(c, d, <<>>)
           /\ fs' = [fs EXCEPT ![a] = NewFile(Uid[p], fs[x].text)]
  <2>1. SameCall(c, d) /\ d.todo = s
    BY <1>5, <1>9
  <2>2. ~Chowns(c) /\ ChownNext(d, a)
    BY <1>1, <1>3, <1>6, <2>1 DEF Chowns, ChownNext
  <2>3. NewFile(Uid[p], fs[x].text).kind = "file" /\ NewFile(Uid[p], fs[x].text).owner = Uid[p]
    BY DEF NewFile
  <2>4. Adds(p, c, fs, d, fs', a, NewFile(Uid[p], fs[x].text))
    BY <1>9, <2>2, <2>3 DEF Adds
  <2> QED BY <1>9, <2>1, <2>4 DEF s
<1> QED BY <1>7, <1>8, <1>9

\* and the copy is given to its owner.
LEMMA GiveStep ==
  ASSUME NEW p, Stepping(p), NEW a \in Place, NEW E, Entries(E),
         call[p].todo = ToGive(a, E), There(fs, a)
  PROVE  \/ Fails(call[p], call'[p]) /\ fs' = fs /\ Closed(p, fs, a)
         \/ /\ SameCall(call[p], call'[p]) /\ call'[p].todo = E
            /\ Gives(p, call[p], fs, call'[p], fs', a)
<1> DEFINE c == call[p]
           d == call'[p]
           j == Job("chown", a)
           g == IF c.own # NoOwner /\ Uid[p] = Root THEN [fs EXCEPT ![a].owner = c.own] ELSE fs
<1>1. /\ c.todo # <<>> /\ Now(p) = Head(c.todo) /\ E \in Seq(JobType) /\ a \in Path
  BY StepOfJob, TreeFacts DEF Entries
<1>2. j \in JobType /\ j.do = "chown" /\ j.at = a
  BY JobTyped DEF JobName
<1>3. c.todo = Cons(j, E)
  BY DEF ToGive
<1> HIDE DEF j
<1>4. Now(p) = j /\ (Goes(c, d, <<>>) => SameCall(c, d) /\ d.todo = E)
  BY <1>1, <1>2, <1>3, AtHand
<1>5. Now(p).do = "chown" /\ Now(p).at = a
  BY <1>2, <1>4
<1>6. Refuses(p) \/ (fs' = g /\ Goes(c, d, <<>>))
  BY <1>5, DoesChown
<1>7. CASE Refuses(p)
  BY <1>5, <1>7 DEF Refuses, Uses
<1>8. CASE fs' = g /\ Goes(c, d, <<>>)
  <2>1. SameCall(c, d) /\ d.todo = E
    BY <1>4, <1>8
  <2>2. ChownNext(c, a)
    BY <1>1, <1>5 DEF Chowns, ChownNext
  <2>3. ~Chowns(d)
    BY <2>1, EntriesQuiet
  <2> QED BY <1>1, <1>8, <2>1, <2>2, <2>3 DEF Gives
<1> QED BY <1>6, <1>7, <1>8

(* Copying a folder: where the call is *)

Within(s, t) == IsPrefix(s, t) /\ s # t

\* What is to be copied, a path or a file below it.
Source(c, q) == q \in Path /\ IsPrefix(c.from, q) /\ c.before[q].kind # "none"

\* The call c is copying x to a, before the entries E.
Copies(c, f, x, a, E) ==
  \/ c.todo = ToTree(x, a, E)
  \/ c.todo = ToMakeTree(x, a, E)
  \/ MakesFolders(c, f, a, ToList(x, a, E))
  \/ MakesFolders(c, f, Front(a), ToMakeFile(x, a, E))
  \/ c.todo = ToCopyFile(x, a, E)

\* A copy into the folder that is copied: some entry goes below itself.
Deepens(E) == \E i \in 1..Len(E) : Within(E[i].from, E[i].at)
InVain(c, f) ==
  \E E : /\ Entries(E)
         /\ \/ c.todo = E /\ Deepens(E)
            \/ \E x, a \in Place : (Within(x, a) \/ Deepens(E)) /\ Copies(c, f, x, a, E)
            \/ \E a \in Place : Deepens(E) /\ c.todo = ToGive(a, E) /\ There(f, a)

\* The entries P are sources of the call c, none below another.
Planned(c, P) ==
  /\ Entries(P)
  /\ \A i \in 1..Len(P) : /\ Source(c, P[i].from)
                          /\ P[i].at = MovedTo(c, P[i].from)
                          /\ P[i] = JobFrom("entry", P[i].from, P[i].at)
  /\ \A i, k \in 1..Len(P) : IsPrefix(P[i].from, P[k].from) => i = k

\* All sources are copied but those in the entries P; nothing else is.
NewOnly(c, f) ==
  \A q \in Path : f[q].kind # "none" /\ c.before[q].kind = "none" =>
    IsPrefix(q, c.at) \/ IsPrefix(c.at, q)
IsCopy(c, f, q, d) ==
  /\ Source(c, q) /\ d = MovedTo(c, q) /\ f[d].kind = c.before[q].kind
  /\ c.before[q].kind = "file" => f[d].text = c.before[q].text
Copied(c, f) ==
  \A d \in Path : f[d].kind # "none" /\ IsPrefix(c.at, d) => \E q : IsCopy(c, f, q, d)
AllBut(c, f, P) ==
  \A q : Source(c, q) => \/ There(f, MovedTo(c, q))
                         \/ \E i \in 1..Len(P) : IsPrefix(P[i].from, q)
Leading(c, f, P) ==
  \A i \in 1..Len(P) : P[i].from = c.from \/ Kind(f, Front(P[i].at)) = "dir"
Absent(f, P, k) == \A i \in 1..Len(P) : i >= k => ~There(f, P[i].at)

Main(p, c, f, P) ==
  /\ Planned(c, P) /\ Making(p, c, f, {})
  /\ NewOnly(c, f) /\ Copied(c, f) /\ AllBut(c, f, P) /\ Leading(c, f, P)

\* The first of the entries P is being copied.
CopiesFolder(c, f, P) ==
  LET x == P[1].from
      a == P[1].at
      E == Tail(P)
  IN  /\ c.before[x].kind = "dir"
      /\ \/ c.todo = ToTree(x, a, E) /\ Absent(f, P, 1)
         \/ c.todo = ToMakeTree(x, a, E) /\ Absent(f, P, 1)
         \/ /\ MakesFolders(c, f, a, ToList(x, a, E)) /\ Absent(f, P, 2)
            /\ \A e : ~ChildOf(f, a, e)
CopiesFile(c, f, P) ==
  LET x == P[1].from
      a == P[1].at
      E == Tail(P)
  IN  /\ c.before[x].kind = "file" /\ Absent(f, P, 1)
      /\ \/ MakesFolders(c, f, Front(a), ToMakeFile(x, a, E))
         \/ c.todo = ToCopyFile(x, a, E)
GivesCopy(c, f, P) ==
  \E x : /\ Source(c, x) /\ c.todo = ToGive(MovedTo(c, x), P)
         /\ There(f, MovedTo(c, x)) /\ Absent(f, P, 1)

InMain(p, c, f) ==
  \E P : /\ Main(p, c, f, P)
         /\ \/ c.todo = P /\ Absent(f, P, 1)
            \/ P # <<>> /\ (CopiesFolder(c, f, P) \/ CopiesFile(c, f, P))
            \/ GivesCopy(c, f, P)

Apart(c) == /\ ~IsPrefix(c.from, c.at) /\ c.before[c.from].kind = "dir"
            /\ c.before[c.at].kind = "none"

InTree(p, c, f) ==
  \/ f = c.before /\ c.todo = ToTree(c.from, c.at, <<>>)
  \/ f = c.before /\ There(f, c.at) /\ c.todo = ToMakeTree(c.from, c.at, <<>>)
  \/ IsPrefix(c.from, c.at) /\ InVain(c, f)
  \/ Apart(c) /\ InMain(p, c, f)

(* The paths of copies *)

\* The copy of a path is the path of the copy and what follows in the source.
LEMMA MovedFacts ==
  ASSUME NEW c, c.at \in Place, c.from \in Place, NEW q \in Seq(Name), IsPrefix(c.from, q)
  PROVE  LET m == MovedTo(c, q)
             n == Len(q) - Len(c.from)
         IN  /\ Len(c.at) \in Nat \ {0} /\ Len(c.from) \in Nat /\ Len(q) \in Nat
             /\ n \in Nat /\ q \in Place
             /\ m \in Seq(Name) /\ m \in Place /\ Len(m) = Len(c.at) + n
             /\ \A i \in 1..Len(c.at) : m[i] = c.at[i]
             /\ \A i \in 1..n : m[Len(c.at) + i] = q[Len(c.from) + i]
             /\ IsPrefix(c.at, m)
<1> DEFINE at == c.at
           from == c.from
           n == Len(q) - Len(from)
           t == SubSeq(q, Len(from) + 1, Len(q))
           m == at \o t
<1>1. /\ at \in Seq(Name) /\ from \in Seq(Name) /\ Len(at) \in Nat \ {0}
      /\ Len(from) \in Nat \ {0} /\ Len(q) \in Nat
  BY EmptySeq, LenProperties DEF Place
<1>2. Len(from) <= Len(q)
  BY <1>1, PrefixFacts
<1>3. n \in Nat /\ q # <<>>
  BY <1>1, <1>2, EmptySeq
<1>4. \A i \in (Len(from) + 1)..Len(q) : q[i] \in Name
  BY <1>1, LenProperties
<1>5. /\ t \in Seq(Name) /\ Len(t) = n
      /\ \A i \in 1..n : t[i] = q[Len(from) + i]
  <2> DEFINE u == Len(from) + 1
             v == Len(q)
  <2>1. u \in Int /\ v \in Int /\ \A i \in u..v : q[i] \in Name
    BY <1>1, <1>4
  <2>2. /\ SubSeq(q, u, v) \in Seq(Name)
        /\ Len(SubSeq(q, u, v)) = IF u <= v THEN v - u + 1 ELSE 0
        /\ \A i \in 1..(v - u + 1) : SubSeq(q, u, v)[i] = q[u + i - 1]
    <3> HIDE DEF u, v
    <3> QED BY <2>1, SubSeqProperties
  <2>3. t = SubSeq(q, u, v)
    OBVIOUS
  <2>4. n = v - u + 1 /\ (u <= v \/ n = 0) /\ \A i \in 1..n : u + i - 1 = Len(from) + i
    BY <1>1, <1>2, <1>3
  <2>5. v - u + 1 \in Nat /\ (~(u <= v) => v - u + 1 = 0)
    BY <1>1, <1>2
  <2> HIDE DEF t, u, v, n
  <2>6. Len(t) = n
    BY <2>2, <2>3, <2>4, <2>5
  <2>7. \A i \in 1..n : t[i] = q[Len(from) + i]
    BY <2>2, <2>3, <2>4
  <2> QED BY <2>2, <2>3, <2>6, <2>7
<1> HIDE DEF t
<1>6. /\ m \in Seq(Name) /\ Len(m) = Len(at) + n
      /\ \A i \in 1..(Len(at) + n) : m[i] = IF i <= Len(at) THEN at[i] ELSE t[i - Len(at)]
  <2>1. at \in Seq(Name) /\ t \in Seq(Name) /\ Len(t) = n
    BY <1>1, <1>5
  <2> HIDE DEF at, n
  <2> QED BY <2>1, ConcatProperties
<1> HIDE DEF m, n
<1>7. \A i \in 1..Len(at) : m[i] = at[i]
  BY <1>1, <1>3, <1>6
<1>8. \A i \in 1..n : m[Len(at) + i] = q[Len(from) + i]
  <2> SUFFICES ASSUME NEW i \in 1..n PROVE m[Len(at) + i] = q[Len(from) + i]
    OBVIOUS
  <2>1. /\ Len(at) + i \in 1..(Len(at) + n) /\ ~(Len(at) + i <= Len(at))
        /\ (Len(at) + i) - Len(at) = i
    BY <1>1, <1>3
  <2>2. m[Len(at) + i] = t[i]
    BY <1>6, <2>1
  <2> QED BY <1>5, <2>2
<1>9. IsPrefix(at, m) /\ m # <<>>
  <2>1. Len(at) <= Len(m) /\ Len(m) # 0
    BY <1>1, <1>3, <1>6
  <2> QED BY <1>1, <1>6, <1>7, <2>1, PrefixFacts, EmptySeq
<1>10. MovedTo(c, q) = m
  BY DEF MovedTo, m, t
<1> QED BY <1>1, <1>3, <1>6, <1>7, <1>8, <1>9, <1>10 DEF Place, n

\* The copy of the source itself.
LEMMA MovedFrom ==
  ASSUME NEW c, c.at \in Place, c.from \in Place
  PROVE  MovedTo(c, c.from) = c.at
<1> DEFINE m == MovedTo(c, c.from)
<1>1. c.from \in Seq(Name) /\ c.at \in Seq(Name) /\ IsPrefix(c.from, c.from)
  BY PrefixOrder DEF Place
<1>2. /\ m \in Seq(Name) /\ Len(m) = Len(c.at) + (Len(c.from) - Len(c.from))
      /\ \A i \in 1..Len(c.at) : m[i] = c.at[i]
      /\ Len(c.at) \in Nat /\ Len(c.from) \in Nat
  BY <1>1, MovedFacts
<1>3. Len(m) = Len(c.at)
  BY <1>2
<1> HIDE DEF m
<1>4. m = c.at
  BY <1>1, <1>2, <1>3, PrefixFacts
<1> QED BY <1>4 DEF m

\* Copies are below each other as their sources are.
LEMMA MovedOrder ==
  ASSUME NEW c, c.at \in Place, c.from \in Place,
         NEW q \in Seq(Name), IsPrefix(c.from, q), NEW r \in Seq(Name), IsPrefix(c.from, r)
  PROVE  /\ IsPrefix(q, r) <=> IsPrefix(MovedTo(c, q), MovedTo(c, r))
         /\ q = r <=> MovedTo(c, q) = MovedTo(c, r)
<1> DEFINE m == MovedTo(c, q)
           k == MovedTo(c, r)
           la == Len(c.at)
           lf == Len(c.from)
<1>1. /\ la \in Nat /\ lf \in Nat /\ Len(q) \in Nat /\ Len(r) \in Nat
      /\ Len(q) - lf \in Nat /\ Len(r) - lf \in Nat
      /\ m \in Seq(Name) /\ Len(m) = la + (Len(q) - lf)
      /\ k \in Seq(Name) /\ Len(k) = la + (Len(r) - lf)
      /\ \A i \in 1..la : m[i] = c.at[i] /\ k[i] = c.at[i]
      /\ \A i \in 1..(Len(q) - lf) : m[la + i] = q[lf + i]
      /\ \A i \in 1..(Len(r) - lf) : k[la + i] = r[lf + i]
  BY MovedFacts
<1>2. \A i \in 1..lf : q[i] = c.from[i] /\ r[i] = c.from[i]
  <2>1. c.from \in Seq(Name)
    BY DEF Place
  <2> QED BY <2>1, PrefixFacts
<1> HIDE DEF m, k, la, lf
<1>3. ASSUME IsPrefix(q, r) PROVE IsPrefix(m, k)
  <2>1. Len(q) <= Len(r) /\ \A i \in 1..Len(q) : q[i] = r[i]
    BY <1>3, PrefixFacts
  <2>2. Len(m) <= Len(k)
    BY <1>1, <2>1
  <2>3. ASSUME NEW i \in 1..Len(m) PROVE m[i] = k[i]
    <3>1. CASE i <= la
      BY <1>1, <3>1
    <3>2. CASE i > la
      <4>1. PICK n \in Int : n = i - la
        BY <1>1
      <4>2. /\ n \in 1..(Len(q) - lf) /\ n \in 1..(Len(r) - lf) /\ i = la + n
            /\ lf + n \in 1..Len(q)
        BY <1>1, <2>1, <3>2, <4>1
      <4> QED BY <1>1, <2>1, <4>2
    <3> QED BY <1>1, <3>1, <3>2
  <2> QED BY <1>1, <2>2, <2>3, PrefixFacts
<1>4. ASSUME IsPrefix(m, k) PROVE IsPrefix(q, r)
  <2>1. Len(m) <= Len(k) /\ \A i \in 1..Len(m) : m[i] = k[i]
    BY <1>1, <1>4, PrefixFacts
  <2>2. Len(q) <= Len(r)
    BY <1>1, <2>1
  <2>3. ASSUME NEW i \in 1..Len(q) PROVE q[i] = r[i]
    <3>1. CASE i <= lf
      BY <1>1, <1>2, <3>1
    <3>2. CASE i > lf
      <4>1. PICK n \in Int : n = i - lf
        BY <1>1
      <4>2. /\ n \in 1..(Len(q) - lf) /\ n \in 1..(Len(r) - lf) /\ i = lf + n
            /\ la + n \in 1..Len(m)
        BY <1>1, <2>2, <3>2, <4>1
      <4> QED BY <1>1, <2>1, <4>2
    <3> QED BY <1>1, <3>1, <3>2
  <2> QED BY <2>2, <2>3, PrefixFacts
<1>5. ASSUME m = k PROVE q = r
  <2>1. IsPrefix(m, k) /\ IsPrefix(k, m)
    BY <1>1, <1>5, PrefixOrder
  <2>2. IsPrefix(q, r)
    BY <1>4, <2>1
  <2>3. Len(q) = Len(r) /\ \A i \in 1..Len(q) : q[i] = r[i]
    <3>1. Len(m) = Len(k)
      BY <1>5
    <3>2. Len(q) = Len(r)
      BY <1>1, <3>1
    <3> QED BY <2>2, <3>2, PrefixFacts
  <2> QED BY <2>3, PrefixFacts
<1> QED BY <1>3, <1>4, <1>5 DEF m, k

\* The copy of an entry is the entry of the copy.
LEMMA MovedChild ==
  ASSUME NEW c, c.at \in Place, c.from \in Place, NEW e \in Place, IsPrefix(c.from, Front(e))
  PROVE  /\ IsPrefix(c.from, e)
         /\ MovedTo(c, e) = Append(MovedTo(c, Front(e)), Last(e))
         /\ Front(MovedTo(c, e)) = MovedTo(c, Front(e))
<1> DEFINE x == Front(e)
           m == MovedTo(c, e)
           a == MovedTo(c, x)
           la == Len(c.at)
           lf == Len(c.from)
           b == Append(a, Last(e))
<1>1. /\ e \in Seq(Name) /\ x \in Seq(Name) /\ c.from \in Seq(Name)
      /\ Len(e) \in Nat \ {0} /\ Len(x) = Len(e) - 1
      /\ \A i \in 1..(Len(e) - 1) : x[i] = e[i]
      /\ IsPrefix(x, e)
  BY FrontFacts, FrontPrefix DEF Place
<1>2. IsPrefix(c.from, e)
  BY <1>1, PrefixOrder
<1>3. /\ la \in Nat /\ lf \in Nat /\ Len(x) - lf \in Nat
      /\ m \in Seq(Name) /\ m \in Place /\ Len(m) = la + (Len(e) - lf)
      /\ a \in Seq(Name) /\ Len(a) = la + (Len(x) - lf)
      /\ \A i \in 1..la : m[i] = c.at[i] /\ a[i] = c.at[i]
      /\ \A i \in 1..(Len(e) - lf) : m[la + i] = e[lf + i]
      /\ \A i \in 1..(Len(x) - lf) : a[la + i] = x[lf + i]
  BY <1>1, <1>2, MovedFacts
<1>4. Last(e) \in Name /\ Last(e) = e[Len(e)]
  BY <1>1, LenProperties DEF Last
<1>5. /\ b \in Seq(Name) /\ Len(b) = Len(a) + 1
      /\ \A i \in 1..Len(a) : b[i] = a[i]
      /\ b[Len(a) + 1] = Last(e)
  <2> DEFINE l == Last(e)
  <2>1. a \in Seq(Name) /\ l \in Name
    BY <1>3, <1>4
  <2> HIDE DEF a, l
  <2>2. /\ Append(a, l) \in Seq(Name) /\ Len(Append(a, l)) = Len(a) + 1
        /\ \A i \in 1..Len(a) : Append(a, l)[i] = a[i]
        /\ Append(a, l)[Len(a) + 1] = l
    BY <2>1, AppendProperties
  <2> QED BY <2>2 DEF l
<1> HIDE DEF x, m, a, la, lf, b
<1>6. Len(m) = Len(b) /\ Len(a) = Len(m) - 1 /\ Len(a) \in Nat
  BY <1>1, <1>3, <1>5
<1>7. ASSUME NEW i \in 1..Len(a) PROVE m[i] = a[i]
  <2>1. CASE i <= la
    BY <1>3, <2>1
  <2>2. CASE i > la
    <3>1. PICK n \in Int : n = i - la
      BY <1>3
    <3>2. /\ n \in 1..(Len(e) - lf) /\ n \in 1..(Len(x) - lf) /\ i = la + n
          /\ lf + n \in 1..(Len(e) - 1)
      BY <1>1, <1>3, <2>2, <3>1
    <3> QED BY <1>1, <1>3, <3>2
  <2> QED BY <1>3, <2>1, <2>2
<1>8. m[Len(m)] = Last(e)
  <2>1. Len(e) - lf \in 1..(Len(e) - lf) /\ la + (Len(e) - lf) = Len(m) /\ lf + (Len(e) - lf) = Len(e)
    BY <1>1, <1>3
  <2> QED BY <1>3, <1>4, <2>1
<1>9. m = b
  <2>1. ASSUME NEW i \in 1..Len(m) PROVE m[i] = b[i]
    <3>1. CASE i = Len(m)
      <4>1. i = Len(a) + 1
        BY <1>6, <3>1
      <4> QED BY <1>5, <1>8, <3>1, <4>1
    <3>2. CASE i # Len(m)
      <4>1. i \in 1..Len(a)
        BY <1>3, <1>6, <3>2
      <4> QED BY <1>5, <1>7, <4>1
    <3> QED BY <3>1, <3>2
  <2> QED BY <1>3, <1>5, <1>6, <2>1, PrefixFacts
<1>10. Front(m) = a
  <2>1. /\ Front(m) \in Seq(Name) /\ Len(Front(m)) = Len(m) - 1
        /\ \A i \in 1..(Len(m) - 1) : Front(m)[i] = m[i]
    BY <1>3, FrontFacts
  <2>2. Len(Front(m)) = Len(a) /\ \A i \in 1..Len(Front(m)) : Front(m)[i] = a[i]
    BY <1>6, <1>7, <2>1
  <2> QED BY <1>3, <2>1, <2>2, PrefixFacts
<1> QED BY <1>2, <1>9, <1>10 DEF x, m, a, b

\* Something appended.
LEMMA Appended ==
  ASSUME NEW e \in Place, NEW a \in Place, IsPrefix(e, a)
  PROVE  Within(e, Append(a, Last(e)))
<1> DEFINE b == Append(a, Last(e))
<1>1. e \in Seq(Name) /\ a \in Seq(Name) /\ Len(e) \in Nat \ {0} /\ Len(a) \in Nat
  BY FrontPrefix DEF Place
<1>2. Last(e) \in Name
  BY <1>1, LenProperties DEF Last
<1>3. /\ b \in Seq(Name) /\ Len(b) = Len(a) + 1
      /\ \A i \in 1..Len(a) : b[i] = a[i]
  BY <1>1, <1>2, AppendProperties
<1> HIDE DEF b
<1>4. Len(e) <= Len(a) /\ \A i \in 1..Len(e) : e[i] = a[i]
  BY <1>1, PrefixFacts
<1>5. Len(e) <= Len(b) /\ Len(e) # Len(b) /\ \A i \in 1..Len(e) : e[i] = b[i]
  BY <1>1, <1>3, <1>4
<1> QED BY <1>1, <1>3, <1>5, PrefixFacts DEF Within, b
------------------------------------------------------------------------------
(* Lists of entries *)

\* The first entry of a list.
LEMMA FirstEntry ==
  ASSUME NEW P, Entries(P), P # <<>>
  PROVE  /\ P \in Seq(JobType) /\ Len(P) \in Nat \ {0} /\ 1 \in 1..Len(P)
         /\ P[1] = Head(P) /\ P[1] \in JobType /\ P[1].from \in Place /\ P[1].at \in Place
         /\ Entries(Tail(P)) /\ Len(Tail(P)) = Len(P) - 1
         /\ \A i \in 1..Len(Tail(P)) : i + 1 \in 2..Len(P) /\ Tail(P)[i] = P[i + 1]
         /\ \A i \in 2..Len(P) : i - 1 \in 1..Len(Tail(P)) /\ Tail(P)[i - 1] = P[i]
         /\ P = Cons(P[1], Tail(P))
         /\ P[1] = JobFrom("entry", P[1].from, P[1].at)
<1>1. P \in Seq(JobType) /\ Len(P) \in Nat \ {0} /\ \A i \in 1..Len(P) : P[i].do = "entry"
  BY EmptySeq, LenProperties DEF Entries
<1>2. 1 \in 1..Len(P) /\ P[1] = Head(P)
  BY <1>1
<1>3. P[1] \in JobType
  BY <1>1, <1>2
<1>4. /\ Tail(P) \in Seq(JobType) /\ Len(Tail(P)) = Len(P) - 1
      /\ \A i \in 1..Len(Tail(P)) : Tail(P)[i] = P[i + 1]
  BY <1>1, HeadTailProperties
<1>5. \A i \in 1..Len(Tail(P)) : i + 1 \in 2..Len(P) /\ Tail(P)[i] = P[i + 1]
  BY <1>1, <1>4
<1>6. \A i \in 2..Len(P) : i - 1 \in 1..Len(Tail(P)) /\ Tail(P)[i - 1] = P[i]
  BY <1>1, <1>4
<1>7. Entries(Tail(P))
  BY <1>1, <1>4, <1>5 DEF Entries
<1>8. P = Cons(P[1], Tail(P))
  BY <1>1, <1>2 DEF Cons
<1>9. P[1] = JobFrom("entry", P[1].from, P[1].at) /\ P[1].from \in Place /\ P[1].at \in Place
  <2>1. P[1].do = "entry"
    BY <1>1, <1>2
  <2> QED BY <1>3, <2>1 DEF JobFrom, JobType
<1> QED BY <1>1, <1>2, <1>3, <1>4, <1>5, <1>6, <1>7, <1>8, <1>9

\* Entries before others.
LEMMA MoreEntries ==
  ASSUME NEW s \in Seq(JobType), \A i \in 1..Len(s) : s[i].do = "entry", NEW E, Entries(E)
  PROVE  /\ Entries(s \o E) /\ Len(s) \in Nat /\ Len(E) \in Nat
         /\ Len(s \o E) = Len(s) + Len(E)
         /\ \A i \in 1..Len(s) : i \in 1..Len(s \o E) /\ (s \o E)[i] = s[i]
         /\ \A i \in 1..Len(E) : Len(s) + i \in 1..Len(s \o E) /\ (s \o E)[Len(s) + i] = E[i]
         /\ \A i \in 1..Len(s \o E) : i > Len(s) =>
              i - Len(s) \in 1..Len(E) /\ (s \o E)[i] = E[i - Len(s)]
<1>1. E \in Seq(JobType) /\ \A i \in 1..Len(E) : E[i].do = "entry"
  BY DEF Entries
<1>2. /\ s \o E \in Seq(JobType) /\ Len(s \o E) = Len(s) + Len(E)
      /\ \A i \in 1..(Len(s) + Len(E)) : (s \o E)[i] = IF i <= Len(s) THEN s[i] ELSE E[i - Len(s)]
      /\ Len(s) \in Nat /\ Len(E) \in Nat
  BY <1>1, ConcatProperties, LenProperties
<1>3. \A i \in 1..Len(s) : i \in 1..Len(s \o E) /\ (s \o E)[i] = s[i]
  BY <1>2
<1>4. ASSUME NEW i \in 1..Len(E)
      PROVE  Len(s) + i \in 1..Len(s \o E) /\ (s \o E)[Len(s) + i] = E[i]
  <2>1. Len(s) + i \in 1..(Len(s) + Len(E)) /\ ~(Len(s) + i <= Len(s)) /\ (Len(s) + i) - Len(s) = i
    BY <1>2
  <2> QED BY <1>2, <2>1
<1>5. ASSUME NEW i \in 1..Len(s \o E), i > Len(s)
      PROVE  i - Len(s) \in 1..Len(E) /\ (s \o E)[i] = E[i - Len(s)]
  BY <1>2, <1>5
<1>6. ASSUME NEW i \in 1..Len(s \o E) PROVE (s \o E)[i].do = "entry"
  <2>1. CASE i <= Len(s)
    BY <1>2, <1>3, <2>1
  <2>2. CASE i > Len(s)
    BY <1>1, <1>5, <2>2
  <2> QED BY <1>2, <2>1, <2>2
<1> QED BY <1>2, <1>3, <1>4, <1>5, <1>6 DEF Entries

(* Copying a folder into itself *)

\* The entries of a folder that is copied below itself go below themselves, or
\* one of them does.
LEMMA Deeper ==
  ASSUME NEW f, Tree(f), NEW x \in Place, NEW a \in Place, Within(x, a), There(f, a),
         NEW s, Lists(f, x, a, s), NEW E, Entries(E)
  PROVE  Deepens(s \o E)
<1>1. x \in Seq(Name) /\ IsPrefix(x, a) /\ a # x
  BY DEF Within, Place
<1>2. PICK e : ChildOf(f, x, e) /\ IsPrefix(e, a)
  BY <1>1, WayDown
<1>3. e \in Place
  BY <1>1, <1>2, ChildFacts
<1>4. Within(e, Append(a, Last(e)))
  BY <1>2, <1>3, Appended
<1>5. PICK i \in 1..Len(s) : s[i].from = e
  BY <1>2 DEF Lists
<1>6. s[i].at = Append(a, Last(e))
  BY <1>5 DEF Lists
<1>7. s \in Seq(JobType) /\ \A k \in 1..Len(s) : s[k].do = "entry"
  BY DEF Lists
<1>8. i \in 1..Len(s \o E) /\ (s \o E)[i] = s[i]
  BY <1>7, MoreEntries
<1> QED BY <1>4, <1>5, <1>6, <1>8 DEF Deepens

\* More entries leave what there was.
LEMMA StillDeepens ==
  ASSUME NEW f, NEW x, NEW a, NEW s, Lists(f, x, a, s), NEW E, Entries(E), Deepens(E)
  PROVE  Deepens(s \o E)
<1>1. PICK i \in 1..Len(E) : Within(E[i].from, E[i].at)
  BY DEF Deepens
<1>2. s \in Seq(JobType) /\ \A k \in 1..Len(s) : s[k].do = "entry"
  BY DEF Lists
<1>3. Len(s) + i \in 1..Len(s \o E) /\ (s \o E)[Len(s) + i] = E[i]
  BY <1>2, MoreEntries
<1> QED BY <1>1, <1>3 DEF Deepens

\* The first entry goes below itself, or another does.
LEMMA FirstDeepens ==
  ASSUME NEW E, Entries(E), Deepens(E)
  PROVE  E # <<>> /\ (Within(E[1].from, E[1].at) \/ Deepens(Tail(E)))
<1>1. PICK i \in 1..Len(E) : Within(E[i].from, E[i].at)
  BY DEF Deepens
<1>2. E # <<>>
  BY <1>1
<1>3. CASE i = 1
  BY <1>1, <1>2, <1>3
<1>4. CASE i # 1
  <2>1. i \in 2..Len(E)
    BY <1>1, <1>2, <1>4, FirstEntry
  <2>2. i - 1 \in 1..Len(Tail(E)) /\ Tail(E)[i - 1] = E[i]
    BY <1>2, <2>1, FirstEntry
  <2> QED BY <1>1, <1>2, <2>2 DEF Deepens
<1> QED BY <1>3, <1>4

\* A file below its own place cannot be copied: what is above is a folder.
LEMMA FileNotAbove ==
  ASSUME NEW f, Tree(f), NEW x \in Place, NEW a \in Place, Within(x, a),
         Kind(f, x) = "file", Kind(f, Front(a)) = "dir"
  PROVE  FALSE
<1>1. /\ x \in Seq(Name) /\ a \in Seq(Name) /\ IsPrefix(x, Front(a)) /\ Front(a) \in Seq(Name)
      /\ x # <<>>
  BY FrontPrefix DEF Within, Place
<1>2. x # Front(a)
  BY <1>1
<1>3. There(f, Front(a))
  <2>1. Front(a) # <<>>
    BY <1>1, PrefixFacts, EmptySeq
  <2> QED BY <2>1 DEF There
<1>4. Kind(f, x) = "dir"
  BY <1>1, <1>2, <1>3, AncestorsAreDirs
<1> QED BY <1>4

\* So has a call that creates folders.
LEMMA FoldersGoOn ==
  ASSUME NEW c, NEW f, NEW x \in Seq(Name), NEW post \in Seq(JobType),
         ToFolder(c, f, x, post)
  PROVE  c.todo # <<>>
<1>1. PICK k \in 1..Len(x) :
        \/ c.todo = Cons(Job("folder", Upto(x, k)), ToMake(x, k, post))
        \/ c.todo = Cons(Job("mkdir", Upto(x, k)),
                         Cons(Job("chown", Upto(x, k)), ToMake(x, k, post)))
        \/ c.todo = Cons(Job("chown", Upto(x, k)), ToMake(x, k, post))
  BY DEF ToFolder
<1> DEFINE q == Upto(x, k)
           s == ToMake(x, k, post)
<1>2. k \in 0..Len(x) /\ q \in Place
  BY LenProperties, UptoFacts
<1>3. s \in Seq(JobType)
  BY <1>2, FoldersFacts
<1>4. /\ Job("folder", q) \in JobType /\ Job("mkdir", q) \in JobType
      /\ Job("chown", q) \in JobType
  BY <1>2, JobTyped DEF JobName
<1> HIDE DEF q, s
<1>5. /\ Cons(Job("folder", q), s) # <<>> /\ Cons(Job("chown", q), s) # <<>>
      /\ Cons(Job("chown", q), s) \in Seq(JobType)
  BY <1>3, <1>4, ConsFacts
<1>6. Cons(Job("mkdir", q), Cons(Job("chown", q), s)) # <<>>
  BY <1>4, <1>5, ConsFacts
<1> QED BY <1>1, <1>5, <1>6 DEF q, s

\* Or is about to have created them.
LEMMA MakesGoOn ==
  ASSUME NEW c, NEW f, NEW x \in Seq(Name), NEW post \in Seq(JobType), post # <<>>,
         MakesFolders(c, f, x, post)
  PROVE  c.todo # <<>>
BY FoldersGoOn DEF MakesFolders

\* What is added is there.
LEMMA AddedThere ==
  ASSUME NEW p, NEW c, NEW f, Tree(f), NEW d, NEW g, NEW q, NEW node, Adds(p, c, f, d, g, q, node)
  PROVE  q \in Path /\ There(g, q) /\ \A r \in Path : g[r] = IF r = q THEN node ELSE f[r]
<1>1. q \in Path /\ node.kind # "none" /\ g = [f EXCEPT ![q] = node] /\ f \in [Path -> Node]
  BY DEF Adds, Tree
<1>2. \A r \in Path : g[r] = IF r = q THEN node ELSE f[r]
  BY <1>1
<1> QED BY <1>1, <1>2, EmptyPath DEF There, Kind

\* What is being copied has jobs to do.
LEMMA CopiesGoOn ==
  ASSUME NEW c, NEW f, NEW x \in Place, NEW a \in Place, NEW E \in Seq(JobType),
         Copies(c, f, x, a, E)
  PROVE  c.todo # <<>>
<1>1. /\ ToTree(x, a, E) # <<>> /\ ToCopyFile(x, a, E) # <<>>
      /\ ToList(x, a, E) # <<>> /\ ToList(x, a, E) \in Seq(JobType)
      /\ ToMakeFile(x, a, E) # <<>> /\ ToMakeFile(x, a, E) \in Seq(JobType)
      /\ Job("absent", a) \in JobType
  BY CopyJobs
<1>2. a \in Seq(Name) /\ Front(a) \in Seq(Name) /\ 0 \in 0..Len(a)
  BY FrontPrefix
<1>3. CASE c.todo = ToMakeTree(x, a, E)
  <2>1. ToMake(a, 0, ToList(x, a, E)) \in Seq(JobType)
    BY <1>1, <1>2, FoldersFacts
  <2> QED BY <1>1, <1>3, <2>1, ConsFacts DEF ToMakeTree
<1>4. ASSUME NEW y \in Seq(Name), NEW post \in Seq(JobType), post # <<>>,
             MakesFolders(c, f, y, post)
      PROVE  c.todo # <<>>
  BY <1>4, MakesGoOn
<1> QED BY <1>1, <1>2, <1>3, <1>4 DEF Copies

\* Such a copy is never done.
LEMMA VainGoesOn ==
  ASSUME NEW c, NEW f, InVain(c, f)
  PROVE  c.todo # <<>>
<1>1. PICK E : /\ Entries(E)
               /\ \/ c.todo = E /\ Deepens(E)
                  \/ \E x, a \in Place : (Within(x, a) \/ Deepens(E)) /\ Copies(c, f, x, a, E)
                  \/ \E a \in Place : Deepens(E) /\ c.todo = ToGive(a, E) /\ There(f, a)
  BY DEF InVain
<1>2. E \in Seq(JobType)
  BY <1>1 DEF Entries
<1>3. CASE c.todo = E /\ Deepens(E)
  BY <1>1, <1>3, FirstDeepens
<1>4. CASE \E x, a \in Place : (Within(x, a) \/ Deepens(E)) /\ Copies(c, f, x, a, E)
  <2>1. PICK x \in Place, a \in Place : Copies(c, f, x, a, E)
    BY <1>4
  <2> QED BY <1>2, <2>1, CopiesGoOn
<1>5. CASE \E a \in Place : Deepens(E) /\ c.todo = ToGive(a, E) /\ There(f, a)
  BY <1>2, <1>5, CopyJobs
<1> QED BY <1>1, <1>3, <1>4, <1>5

\* The steps of a copy into itself: it throws, or goes on.
LEMMA VainStepWorks ==
  ASSUME NEW p, Stepping(p), InVain(call[p], fs)
  PROVE  \/ Fails(call[p], call'[p]) /\ fs' = fs
         \/ SameCall(call[p], call'[p]) /\ InVain(call'[p], fs')
<1> DEFINE c == call[p]
           d == call'[p]
           Vain == InVain(d, fs')
<1>1. PICK E : /\ Entries(E)
               /\ \/ c.todo = E /\ Deepens(E)
                  \/ \E x, a \in Place : (Within(x, a) \/ Deepens(E)) /\ Copies(c, fs, x, a, E)
                  \/ \E a \in Place : Deepens(E) /\ c.todo = ToGive(a, E) /\ There(fs, a)
  BY DEF InVain
<1>2. Tree(fs) /\ c.todo # <<>> /\ Entries(E)
  BY <1>1, StepOfJob
<1>3. ASSUME NEW x \in Place, NEW a \in Place, NEW F, Entries(F),
             Within(x, a) \/ Deepens(F), Copies(d, fs', x, a, F)
      PROVE  Vain
  BY <1>3 DEF InVain
<1>4. ASSUME NEW F, Entries(F), Deepens(F), d.todo = F PROVE Vain
  BY <1>4 DEF InVain
<1>5. CASE c.todo = E /\ Deepens(E)
  <2> DEFINE x == E[1].from
             a == E[1].at
             F == Tail(E)
  <2>1. /\ x \in Place /\ a \in Place /\ Entries(F)
        /\ c.todo = Cons(JobFrom("entry", x, a), F)
        /\ Within(x, a) \/ Deepens(F)
    BY <1>1, <1>5, FirstDeepens, FirstEntry
  <2> HIDE DEF x, a, F
  <2>2. \/ Fails(c, d) /\ fs' = fs
        \/ SameCall(c, d) /\ d.todo = ToTree(x, a, F)
        \/ SameCall(c, d) /\ MakesFolders(d, fs', Front(a), ToMakeFile(x, a, F))
    BY <2>1, EntryStep
  <2> QED BY <1>3, <2>1, <2>2 DEF Copies
<1>6. ASSUME NEW x \in Place, NEW a \in Place, Within(x, a) \/ Deepens(E), Copies(c, fs, x, a, E)
      PROVE  \/ Fails(c, d) /\ fs' = fs
             \/ SameCall(c, d) /\ Vain
  <2>1. CASE c.todo = ToTree(x, a, E)
    <3>1. \/ Fails(c, d) /\ fs' = fs
          \/ SameCall(c, d) /\ d.todo = ToMakeTree(x, a, E)
      BY <1>2, <2>1, TreeStep
    <3> QED BY <1>1, <1>3, <1>6, <3>1 DEF Copies
  <2>2. CASE c.todo = ToMakeTree(x, a, E)
    <3>1. \/ Fails(c, d) /\ fs' = fs
          \/ SameCall(c, d) /\ MakesFolders(d, fs', a, ToList(x, a, E))
      BY <1>1, <2>2, AbsentStep
    <3> QED BY <1>1, <1>3, <1>6, <3>1 DEF Copies
  <2>3. CASE MakesFolders(c, fs, a, ToList(x, a, E))
    <3>1. \/ Fails(c, d) /\ fs' = fs
          \/ SameCall(c, d) /\ MakesFolders(d, fs', a, ToList(x, a, E))
          \/ /\ SameCall(c, d) /\ There(fs, a)
             /\ \E s : Lists(fs, x, a, s) /\ d.todo = s \o E
      BY <1>2, <2>3, ListStep
    <3>2. CASE SameCall(c, d) /\ There(fs, a) /\ \E s : Lists(fs, x, a, s) /\ d.todo = s \o E
      <4>1. PICK s : Lists(fs, x, a, s) /\ d.todo = s \o E
        BY <3>2
      <4>2. Deepens(s \o E)
        BY <1>1, <1>2, <1>6, <3>2, <4>1, Deeper, StillDeepens
      <4>3. Entries(s \o E)
        BY <1>1, <4>1, MoreEntries DEF Lists
      <4> QED BY <1>4, <3>2, <4>1, <4>2, <4>3
    <3>3. CASE SameCall(c, d) /\ MakesFolders(d, fs', a, ToList(x, a, E))
      BY <1>1, <1>3, <1>6, <3>3 DEF Copies
    <3> QED BY <3>1, <3>2, <3>3
  <2>4. CASE MakesFolders(c, fs, Front(a), ToMakeFile(x, a, E))
    <3>1. \/ Fails(c, d) /\ fs' = fs
          \/ SameCall(c, d) /\ MakesFolders(d, fs', Front(a), ToMakeFile(x, a, E))
          \/ SameCall(c, d) /\ d.todo = ToCopyFile(x, a, E)
      BY <1>1, <2>4, FileStep
    <3> QED BY <1>1, <1>3, <1>6, <3>1 DEF Copies
  <2>5. CASE c.todo = ToCopyFile(x, a, E)
    <3>1. \/ Fails(c, d) /\ fs' = fs
          \/ /\ SameCall(c, d) /\ d.todo = ToGive(a, E)
             /\ Kind(fs, x) = "file" /\ Kind(fs, Front(a)) = "dir"
             /\ Adds(p, c, fs, d, fs', a, NewFile(Uid[p], fs[x].text))
      BY <1>1, <2>5, CopyStep
    <3>2. CASE /\ SameCall(c, d) /\ d.todo = ToGive(a, E)
               /\ Kind(fs, x) = "file" /\ Kind(fs, Front(a)) = "dir"
               /\ Adds(p, c, fs, d, fs', a, NewFile(Uid[p], fs[x].text))
      <4>1. Deepens(E)
        BY <1>2, <1>6, <3>2, FileNotAbove
      <4>2. There(fs', a)
        <5>1. Adds(p, c, fs, d, fs', a, NewFile(Uid[p], fs[x].text))
          BY <3>2
        <5> HIDE DEF c, d
        <5> QED BY <1>2, <5>1, AddedThere
      <4> QED BY <1>1, <3>2, <4>1, <4>2 DEF InVain
    <3> QED BY <3>1, <3>2
  <2> QED BY <1>6, <2>1, <2>2, <2>3, <2>4, <2>5 DEF Copies
<1>7. CASE \E a \in Place : Deepens(E) /\ c.todo = ToGive(a, E) /\ There(fs, a)
  <2>1. PICK a \in Place : Deepens(E) /\ c.todo = ToGive(a, E) /\ There(fs, a)
    BY <1>7
  <2>2. \/ Fails(c, d) /\ fs' = fs
        \/ SameCall(c, d) /\ d.todo = E
    BY <1>1, <2>1, GiveStep
  <2> QED BY <1>1, <1>4, <2>1, <2>2
<1> QED BY <1>1, <1>5, <1>6, <1>7

(* Copying a folder elsewhere *)

Copying(p, c, f, P) ==
  Asked(c) /\ c.op = "copyFolder" /\ Apart(c) /\ Tree(f) /\ Main(p, c, f, P)

\* The source and the copy are apart.
LEMMA ApartFacts ==
  ASSUME NEW c, Asked(c), Apart(c)
  PROVE  /\ c.at \in Place /\ c.from \in Place /\ c.at \in Seq(Name) /\ c.from \in Seq(Name)
         /\ c.at \in Path /\ c.from \in Path /\ Tree(c.before)
         /\ ~IsPrefix(c.from, c.at) /\ ~IsPrefix(c.at, c.from)
         /\ Source(c, c.from)
<1>1. /\ c.at \in Place /\ c.from \in Place /\ c.at \in Seq(Name) /\ c.from \in Seq(Name)
      /\ c.at \in Path /\ c.from \in Path /\ Tree(c.before) /\ c.at # <<>>
  BY AskedPaths
<1>2. c.before[c.from].kind = "dir" /\ c.before[c.at].kind = "none" /\ ~IsPrefix(c.from, c.at)
  BY DEF Apart
<1>3. ASSUME IsPrefix(c.at, c.from) PROVE FALSE
  <2>1. There(c.before, c.from) /\ ~There(c.before, c.at)
    BY <1>1, <1>2, TreeFacts
  <2>2. c.at # c.from
    BY <1>2
  <2>3. Kind(c.before, c.at) = "dir"
    BY <1>1, <1>3, <2>1, <2>2, AncestorsAreDirs
  <2> QED BY <1>1, <2>1, <2>3 DEF There
<1>4. IsPrefix(c.from, c.from)
  BY <1>1, PrefixOrder
<1> QED BY <1>1, <1>2, <1>3, <1>4 DEF Source

\* The paths of a source and its copy.
LEMMA SourcePaths ==
  ASSUME NEW c, Asked(c), Apart(c), NEW q, Source(c, q)
  PROVE  /\ q \in Path /\ q \in Place /\ q \in Seq(Name) /\ IsPrefix(c.from, q)
         /\ c.before[q].kind \in {"dir", "file"} /\ Kind(c.before, q) = c.before[q].kind
         /\ There(c.before, q)
         /\ MovedTo(c, q) \in Place /\ MovedTo(c, q) \in Seq(Name)
         /\ IsPrefix(c.at, MovedTo(c, q))
         /\ q = c.from <=> MovedTo(c, q) = c.at
<1>1. q \in Path /\ IsPrefix(c.from, q) /\ c.before[q].kind # "none"
  BY DEF Source
<1>2. q \in Place /\ q \in Seq(Name)
  BY <1>1, PathFacts
<1>3. /\ c.before[q].kind \in {"dir", "file"} /\ Kind(c.before, q) = c.before[q].kind
      /\ There(c.before, q)
  BY <1>1, ApartFacts, TreeFacts
<1>4. /\ MovedTo(c, q) \in Place /\ MovedTo(c, q) \in Seq(Name)
      /\ IsPrefix(c.at, MovedTo(c, q))
  BY <1>1, <1>2, ApartFacts, MovedFacts
<1>5. q = c.from <=> MovedTo(c, q) = c.at
  <2>1. c.from \in Seq(Name) /\ c.from \in Place /\ c.at \in Place /\ IsPrefix(c.from, c.from)
    BY ApartFacts, PrefixOrder
  <2>2. MovedTo(c, c.from) = c.at
    BY <2>1, MovedFrom
  <2>3. q = c.from <=> MovedTo(c, q) = MovedTo(c, c.from)
    BY <1>1, <1>2, <2>1, MovedOrder
  <2> QED BY <2>2, <2>3
<1> QED BY <1>1, <1>2, <1>3, <1>4, <1>5

\* The sources are as they were, and nothing is new there.
LEMMA SourceKept ==
  ASSUME NEW p, NEW c, NEW f, NEW P, Copying(p, c, f, P)
  PROVE  /\ \A q : Source(c, q) => f[q] = c.before[q] /\ Kind(f, q) = c.before[q].kind
         /\ \A q \in Path : IsPrefix(c.from, q) /\ There(f, q) => Source(c, q)
<1>1. /\ Asked(c) /\ Apart(c) /\ Tree(f) /\ Making(p, c, f, {}) /\ NewOnly(c, f)
  BY DEF Copying, Main
<1>2. \A q \in Path : c.before[q].kind # "none" => f[q] = c.before[q]
  BY <1>1 DEF Making
<1>3. ASSUME NEW q, Source(c, q) PROVE f[q] = c.before[q] /\ Kind(f, q) = c.before[q].kind
  BY <1>1, <1>2, <1>3, TreeFacts DEF Source
<1>4. ASSUME NEW q \in Path, IsPrefix(c.from, q), There(f, q) PROVE Source(c, q)
  <2> SUFFICES ASSUME c.before[q].kind = "none" PROVE FALSE
    BY <1>4 DEF Source
  <2>1. f[q].kind # "none"
    BY <1>1, <1>4, TreeFacts
  <2>2. IsPrefix(q, c.at) \/ IsPrefix(c.at, q)
    BY <1>1, <2>1 DEF NewOnly
  <2>3. q \in Seq(Name) /\ c.at \in Seq(Name) /\ c.from \in Seq(Name)
    BY <1>1, ApartFacts, PathFacts
  <2>4. IsPrefix(c.from, c.at) \/ IsPrefix(c.at, c.from)
    BY <1>4, <2>2, <2>3, PrefixOrder
  <2> QED BY <1>1, <2>4, ApartFacts
<1> QED BY <1>3, <1>4

\* An entry that is still to be copied.
LEMMA EntryFacts ==
  ASSUME NEW p, NEW c, NEW f, NEW P, Copying(p, c, f, P), NEW i \in 1..Len(P)
  PROVE  /\ Source(c, P[i].from) /\ P[i].at = MovedTo(c, P[i].from)
         /\ P[i].from \in Place /\ P[i].at \in Place
         /\ P[i].from = c.from => P[i].at = c.at
         /\ P[i].from # c.from => Kind(f, Front(P[i].at)) = "dir"
<1>1. Asked(c) /\ Apart(c) /\ Planned(c, P) /\ Leading(c, f, P)
  BY DEF Copying, Main
<1>2. Source(c, P[i].from) /\ P[i].at = MovedTo(c, P[i].from)
  BY <1>1 DEF Planned
<1>3. P[i].from \in Place /\ P[i].at \in Place
  BY <1>1, <1>2, SourcePaths
<1>4. P[i].from = c.from => P[i].at = c.at
  BY <1>1, <1>2, SourcePaths
<1>5. P[i].from # c.from => Kind(f, Front(P[i].at)) = "dir"
  BY <1>1 DEF Leading
<1> QED BY <1>2, <1>3, <1>4, <1>5

\* All that is above a path whose folder is there.
LEMMA DirsAbove ==
  ASSUME NEW f, Tree(f), NEW a \in Place, Kind(f, Front(a)) = "dir",
         NEW r \in Seq(Name), IsPrefix(r, a), r # a
  PROVE  Kind(f, r) = "dir"
<1>1. a \in Seq(Name) /\ Front(a) \in Seq(Name) /\ IsPrefix(r, Front(a))
  BY FrontPrefix
<1>2. CASE r = Front(a)
  BY <1>2
<1>3. CASE r # Front(a)
  <2>1. Front(a) # <<>>
    BY <1>1, <1>3, PrefixFacts, EmptySeq
  <2>2. There(f, Front(a))
    BY <2>1 DEF There
  <2> QED BY <1>1, <1>3, <2>2, AncestorsAreDirs
<1> QED BY <1>2, <1>3

\* What becomes of the file system: what is new is above the copy, or a copy.
Grows(c, f, g) ==
  \A r \in Path : \/ g[r].kind = f[r].kind /\ g[r].text = f[r].text
                  \/ f[r].kind = "none" /\ (Within(r, c.at) \/ \E q : IsCopy(c, g, q, r))

\* The sources of a call are settled when it begins.
LEMMA SameSources ==
  ASSUME NEW c, NEW d, SameCall(c, d), Asked(c)
  PROVE  /\ \A q : (Source(d, q) <=> Source(c, q)) /\ MovedTo(d, q) = MovedTo(c, q)
         /\ \A P : Planned(d, P) <=> Planned(c, P)
         /\ Asked(d) /\ (Apart(d) <=> Apart(c)) /\ d.op = c.op
         /\ d.from = c.from /\ d.at = c.at /\ d.before = c.before
<1>1. /\ d \in CallType /\ d.op = c.op /\ d.from = c.from /\ d.at = c.at /\ d.own = c.own
      /\ d.before = c.before
  BY DEF SameCall
<1>2. \A q : (Source(d, q) <=> Source(c, q)) /\ MovedTo(d, q) = MovedTo(c, q)
  BY <1>1 DEF Source, MovedTo
<1>3. Asked(d) /\ (Apart(d) <=> Apart(c))
  BY <1>1 DEF Asked, Apart
<1>4. \A P : Planned(d, P) <=> Planned(c, P)
  BY <1>2 DEF Planned
<1> QED BY <1>1, <1>2, <1>3, <1>4

\* A step that adds at most copies and folders above them.
LEMMA CopyingGrows ==
  ASSUME NEW p, NEW c, NEW f, NEW P, Copying(p, c, f, P), NEW d, SameCall(c, d),
         NEW g, Making(p, d, g, {}), Grows(c, f, g)
  PROVE  Apart(d) /\ Main(p, d, g, P)
<1>1. /\ Asked(c) /\ Apart(c) /\ Tree(f) /\ Planned(c, P) /\ NewOnly(c, f) /\ Copied(c, f)
      /\ AllBut(c, f, P) /\ Leading(c, f, P) /\ c.op = "copyFolder"
  BY DEF Copying, Main
<1>2. /\ \A q : (Source(d, q) <=> Source(c, q)) /\ MovedTo(d, q) = MovedTo(c, q)
      /\ Planned(d, P) /\ Asked(d) /\ Apart(d) /\ d.op = "copyFolder"
      /\ d.from = c.from /\ d.at = c.at /\ d.before = c.before
  BY <1>1, SameSources
<1>3. \A r \in Path : f[r].kind # "none" => g[r].kind = f[r].kind /\ g[r].text = f[r].text
  BY DEF Grows
<1>4. \A r : Kind(f, r) # "none" => Kind(g, r) = Kind(f, r)
  BY <1>3 DEF Kind
<1>5. NewOnly(d, g)
  <2> SUFFICES ASSUME NEW q \in Path, g[q].kind # "none", c.before[q].kind = "none"
               PROVE  IsPrefix(q, c.at) \/ IsPrefix(c.at, q)
    BY <1>2 DEF NewOnly
  <2>1. CASE f[q].kind # "none"
    BY <1>1, <2>1 DEF NewOnly
  <2>2. CASE f[q].kind = "none"
    <3>1. Within(q, c.at) \/ \E e : IsCopy(c, g, e, q)
      BY <2>2 DEF Grows
    <3>2. CASE Within(q, c.at)
      BY <3>2 DEF Within
    <3>3. CASE \E e : IsCopy(c, g, e, q)
      BY <1>1, <3>3, SourcePaths DEF IsCopy
    <3> QED BY <3>1, <3>2, <3>3
  <2> QED BY <2>1, <2>2
<1>6. Copied(d, g)
  <2> SUFFICES ASSUME NEW r \in Path, g[r].kind # "none", IsPrefix(c.at, r)
               PROVE  \E q : IsCopy(d, g, q, r)
    BY <1>2 DEF Copied
  <2>1. CASE f[r].kind # "none"
    <3>1. PICK q : IsCopy(c, f, q, r)
      BY <1>1, <2>1 DEF Copied
    <3>2. IsCopy(d, g, q, r)
      BY <1>2, <1>3, <2>1, <3>1 DEF IsCopy
    <3> QED BY <3>2
  <2>2. CASE f[r].kind = "none"
    <3>1. Within(r, c.at) \/ \E e : IsCopy(c, g, e, r)
      BY <2>2 DEF Grows
    <3>2. ~Within(r, c.at)
      BY <1>1, ApartFacts, PathFacts, PrefixOrder DEF Within
    <3>3. PICK e : IsCopy(c, g, e, r)
      BY <3>1, <3>2
    <3>4. IsCopy(d, g, e, r)
      BY <1>2, <3>3 DEF IsCopy
    <3> QED BY <3>4
  <2> QED BY <2>1, <2>2
<1>7. AllBut(d, g, P)
  BY <1>1, <1>2, <1>4 DEF AllBut, There
<1>8. Leading(d, g, P)
  BY <1>1, <1>2, <1>4 DEF Leading
<1> QED BY <1>2, <1>5, <1>6, <1>7, <1>8 DEF Copying, Main

\* Why a call that copies may throw.
LEMMA CopyPardoned ==
  ASSUME NEW p, NEW c, NEW f, NEW q, Asked(c), c.op = "copyFolder", Source(c, q),
         \/ Closed(p, f, q) \/ Closed(p, f, MovedTo(c, q))
         \/ Kind(f, q) = "dir" /\ Uid[p] # Root /\ "r" \notin f[q].mode
  PROVE  Pardoned(p, c, f)
<1>1. q \in Below(c.from) /\ c.before[q].kind # "none"
  BY DEF Source, Below
<1> QED BY <1>1 DEF Pardoned

\* A file above a copy is an excuse.
LEMMA FileInTheWay ==
  ASSUME NEW p, NEW c, NEW f, NEW P, Copying(p, c, f, P), NEW i \in 1..Len(P),
         NEW e \in Above(P[i].at), Kind(f, e) = "file"
  PROVE  Pardoned(p, c, f)
<1> DEFINE x == P[i].from
           a == P[i].at
<1>1. Asked(c) /\ Apart(c) /\ Tree(f)
  BY DEF Copying
<1>2. a \in Place /\ a \in Seq(Name) /\ (x = c.from => a = c.at)
      /\ (x # c.from => Kind(f, Front(a)) = "dir")
  BY EntryFacts DEF Place
<1>3. e \in Place /\ e \in Seq(Name) /\ IsPrefix(e, a) /\ e # a
  BY <1>2, AboveFacts DEF Place
<1>4. x = c.from
  <2> HIDE DEF x, a
  <2> QED BY <1>1, <1>2, <1>3, DirsAbove
<1>5. e \in Above(c.at)
  BY <1>2, <1>4
<1> QED BY <1>5 DEF Pardoned

\* Only what is on the way to the first entry's copy changes.
Toward(f, g, a) == \A r \in Path : IsPrefix(r, a) \/ g[r] = f[r]

\* The other entries are not there yet.
LEMMA AbsentKept ==
  ASSUME NEW p, NEW c, NEW f, NEW P, Copying(p, c, f, P), P # <<>>, Absent(f, P, 2),
         NEW g, Toward(f, g, P[1].at)
  PROVE  Absent(g, P, 2)
<1> SUFFICES ASSUME NEW i \in 1..Len(P), i >= 2, There(g, P[i].at) PROVE FALSE
  BY DEF Absent
<1> DEFINE a == P[1].at
           b == P[i].at
           x == P[1].from
           y == P[i].from
<1>1. Asked(c) /\ Apart(c) /\ Planned(c, P) /\ Entries(P)
  BY DEF Copying, Main, Planned
<1>2. 1 \in 1..Len(P)
  BY <1>1, FirstEntry
<1>3. ~There(f, b)
  BY DEF Absent
<1>4. b \in Path /\ g[b] # f[b]
  BY <1>3 DEF There, Kind
<1>5. IsPrefix(b, a)
  BY <1>4 DEF Toward
<1>6. /\ Source(c, x) /\ a = MovedTo(c, x) /\ Source(c, y) /\ b = MovedTo(c, y)
  BY <1>2, EntryFacts
<1>7. /\ x \in Seq(Name) /\ IsPrefix(c.from, x) /\ y \in Seq(Name) /\ IsPrefix(c.from, y)
      /\ c.at \in Place /\ c.from \in Place
  BY <1>1, <1>6, SourcePaths, ApartFacts
<1>8. IsPrefix(y, x)
  <2> HIDE DEF x, y, a, b
  <2> QED BY <1>5, <1>6, <1>7, MovedOrder
<1>9. i = 1
  BY <1>1, <1>2, <1>8 DEF Planned
<1> QED BY <1>9

\* While the folders down to the first entry's copy are made.
LEMMA FolderGrows ==
  ASSUME NEW p, NEW c, NEW f, NEW P, Copying(p, c, f, P), P # <<>>,
         c.before[P[1].from].kind = "dir", NEW d, SameCall(c, d),
         NEW g, FolderChange(p, c, f, d, g, P[1].at)
  PROVE  Apart(d) /\ Main(p, d, g, P) /\ Toward(f, g, P[1].at)
<1> DEFINE x == P[1].from
           a == P[1].at
<1>1. Asked(c) /\ Apart(c) /\ Tree(f) /\ Making(p, c, f, {}) /\ Entries(P)
  BY DEF Copying, Main, Planned
<1>2. 1 \in 1..Len(P)
  BY <1>1, FirstEntry
<1>3. /\ Source(c, x) /\ a = MovedTo(c, x) /\ a \in Place /\ a \in Seq(Name)
      /\ x = c.from => a = c.at
      /\ x # c.from => Kind(f, Front(a)) = "dir"
  BY <1>2, EntryFacts DEF Place
<1>4. c.before[x].kind = "dir" /\ FolderChange(p, c, f, d, g, a)
  OBVIOUS
<1> HIDE DEF x, a
<1>5. /\ Making(p, d, g, {})
      /\ \A r \in Path :
           /\ ~IsPrefix(r, a) => g[r] = f[r]
           /\ \/ g[r].kind = f[r].kind /\ g[r].text = f[r].text /\ g[r].mode = f[r].mode
              \/ /\ IsPrefix(r, a) /\ f[r].kind = "none" /\ g[r].kind = "dir"
                 /\ Kind(f, Front(r)) = "dir"
  BY <1>1, <1>3, <1>4, FolderChangeKeeps
<1>6. ASSUME NEW r \in Path, IsPrefix(r, a), f[r].kind = "none", g[r].kind = "dir"
      PROVE  Within(r, c.at) \/ IsCopy(c, g, x, r)
  <2>1. r \in Seq(Name) /\ r \in Place /\ r # <<>>
    BY PathFacts DEF Place
  <2>2. CASE r = a
    BY <1>3, <1>4, <1>6, <2>2 DEF IsCopy
  <2>3. CASE r # a
    <3>1. Kind(f, r) = "none"
      BY <1>6, <2>1 DEF Kind
    <3>2. x = c.from
      BY <1>1, <1>3, <1>6, <2>1, <2>3, <3>1, DirsAbove
    <3> QED BY <1>3, <1>6, <2>3, <3>2 DEF Within
  <2> QED BY <2>2, <2>3
<1>7. Grows(c, f, g)
  BY <1>5, <1>6 DEF Grows
<1>8. Apart(d) /\ Main(p, d, g, P)
  BY <1>5, <1>7, CopyingGrows
<1>9. Toward(f, g, a)
  BY <1>5 DEF Toward
<1> QED BY <1>8, <1>9 DEF a

\* Nothing that is there changes its kind or its text.
LEMMA AlikeGrows ==
  ASSUME NEW p, NEW c, NEW f, NEW P, Copying(p, c, f, P), NEW d, SameCall(c, d),
         NEW g, Making(p, d, g, {}),
         \A r \in Path : g[r].kind = f[r].kind /\ g[r].text = f[r].text
  PROVE  Apart(d) /\ Main(p, d, g, P)
<1>1. Grows(c, f, g)
  BY DEF Grows
<1> QED BY <1>1, CopyingGrows

\* Nothing has changed.
LEMMA QuietGrows ==
  ASSUME NEW p, NEW c, NEW f, NEW P, Copying(p, c, f, P), NEW d, SameCall(c, d),
         NEW g, Quiet3(c, f, d, g)
  PROVE  Apart(d) /\ Main(p, d, g, P) /\ g = f
<1>1. Making(p, c, f, {}) /\ g = f
  BY DEF Copying, Main, Quiet3
<1>2. Making(p, d, g, {})
  BY <1>1, QuietKeeps
<1> QED BY <1>1, <1>2, AlikeGrows

\* A file has been copied: what is left are the other entries.
LEMMA FileGrows ==
  ASSUME NEW p, NEW c, NEW f, NEW P, Copying(p, c, f, P), P # <<>>,
         c.before[P[1].from].kind = "file", ~There(f, P[1].at), NEW d, SameCall(c, d),
         NEW g, Adds(p, c, f, d, g, P[1].at, NewFile(Uid[p], f[P[1].from].text))
  PROVE  /\ Apart(d) /\ Main(p, d, g, Tail(P)) /\ There(g, P[1].at)
         /\ Toward(f, g, P[1].at)
<1> DEFINE x == P[1].from
           a == P[1].at
           node == NewFile(Uid[p], f[x].text)
<1>1. Asked(c) /\ Apart(c) /\ Tree(f) /\ Making(p, c, f, {}) /\ Entries(P) /\ Planned(c, P)
  BY DEF Copying, Main, Planned
<1>2. 1 \in 1..Len(P)
  BY <1>1, FirstEntry
<1>3. Source(c, x) /\ a = MovedTo(c, x) /\ a \in Place
  BY <1>2, EntryFacts
<1>4. f[x] = c.before[x]
  BY <1>3, SourceKept
<1>5. node.kind = "file" /\ node.text = f[x].text
  BY DEF NewFile
<1>6. Adds(p, c, f, d, g, a, node) /\ c.before[x].kind = "file" /\ ~There(f, a)
  OBVIOUS
<1> HIDE DEF x, a, node
<1>7. a \in Path /\ There(g, a) /\ \A r \in Path : g[r] = IF r = a THEN node ELSE f[r]
  <2>1. Tree(f) /\ Adds(p, c, f, d, g, a, node)
    BY <1>1, <1>6
  <2> QED BY ONLY <2>1, AddedThere
<1>8. f[a].kind = "none"
  BY <1>1, <1>6, <1>7, TreeFacts
<1>9. Making(p, d, g, {})
  BY <1>1, <1>6, <1>8, AddsKeeps
<1>10. IsCopy(c, g, x, a)
  BY <1>3, <1>4, <1>5, <1>6, <1>7 DEF IsCopy
<1>11. Grows(c, f, g)
  BY <1>7, <1>8, <1>10 DEF Grows
<1>12. Apart(d) /\ Main(p, d, g, P)
  BY <1>9, <1>11, CopyingGrows
<1>13. Main(p, d, g, Tail(P))
  <2> DEFINE E == Tail(P)
  <2>1. /\ Planned(d, P) /\ Making(p, d, g, {}) /\ NewOnly(d, g) /\ Copied(d, g)
        /\ AllBut(d, g, P) /\ Leading(d, g, P)
    BY <1>12 DEF Main
  <2>2. /\ Entries(E) /\ Len(E) = Len(P) - 1 /\ Len(P) \in Nat
        /\ \A i \in 1..Len(E) : i + 1 \in 2..Len(P) /\ E[i] = P[i + 1]
        /\ \A i \in 2..Len(P) : i - 1 \in 1..Len(E) /\ E[i - 1] = P[i]
    BY <1>1, FirstEntry
  <2> HIDE DEF E
  <2>3. \A i \in 1..Len(E) : i + 1 \in 1..Len(P) /\ E[i] = P[i + 1]
    BY <2>2
  <2>4. Planned(d, E)
    <3>1. ASSUME NEW i \in 1..Len(E), NEW k \in 1..Len(E), IsPrefix(E[i].from, E[k].from)
          PROVE  i = k
      <4>1. i + 1 = k + 1
        BY <2>1, <2>3, <3>1 DEF Planned
      <4> QED BY <2>2, <4>1
    <3> QED BY <2>1, <2>2, <2>3, <3>1 DEF Planned
  <2>5. Leading(d, g, E)
    BY <2>1, <2>3 DEF Leading
  <2>6. AllBut(d, g, E)
    <3> SUFFICES ASSUME NEW q, Source(d, q), ~There(g, MovedTo(d, q))
                 PROVE  \E i \in 1..Len(E) : IsPrefix(E[i].from, q)
      BY DEF AllBut
    <3>1. PICK i \in 1..Len(P) : IsPrefix(P[i].from, q)
      BY <2>1 DEF AllBut
    <3>2. Source(c, q) /\ MovedTo(d, q) = MovedTo(c, q)
      BY <1>1, SameSources
    <3>3. i # 1
      <4> SUFFICES ASSUME IsPrefix(x, q) PROVE FALSE
        BY <3>1 DEF x
      <4>1. q # x
        BY <1>3, <1>7, <3>2
      <4>2. /\ x \in Seq(Name) /\ There(c.before, q) /\ Tree(c.before)
            /\ Kind(c.before, x) = "file"
        BY <1>1, <1>3, <1>6, <3>2, SourcePaths, ApartFacts
      <4>3. Kind(c.before, x) = "dir"
        BY <4>1, <4>2, AncestorsAreDirs
      <4> QED BY <4>2, <4>3
    <3>4. i \in 2..Len(P)
      BY <2>2, <3>3
    <3>5. i - 1 \in 1..Len(E) /\ E[i - 1] = P[i]
      BY <2>2, <3>4
    <3> QED BY <3>1, <3>5
  <2> QED BY <2>1, <2>4, <2>5, <2>6 DEF Main, E
<1>14. Toward(f, g, a)
  <2>1. IsPrefix(a, a)
    BY <1>3, PrefixOrder DEF Place
  <2> QED BY <1>7, <2>1 DEF Toward
<1> QED BY <1>7, <1>12, <1>13, <1>14 DEF a

\* An entry of the folder x, which is copied to a.
NewEntry(c, f, x, a, j) ==
  /\ Source(c, j.from) /\ j.at = MovedTo(c, j.from) /\ j = JobFrom("entry", j.from, j.at)
  /\ Kind(f, Front(j.at)) = "dir" /\ ~There(f, j.at)
  /\ j.from \in Place /\ j.from \in Seq(Name) /\ Front(j.from) = x /\ IsPrefix(x, j.from)

\* The copy of a folder is a folder, that of a file a file.
LEMMA CopiedFolder ==
  ASSUME NEW p, NEW c, NEW f, NEW P, Copying(p, c, f, P), NEW x, Source(c, x),
         There(f, MovedTo(c, x))
  PROVE  Kind(f, MovedTo(c, x)) = c.before[x].kind
<1> DEFINE a == MovedTo(c, x)
<1>1. Asked(c) /\ Apart(c) /\ Tree(f) /\ Copied(c, f)
  BY DEF Copying, Main
<1>2. x \in Seq(Name) /\ IsPrefix(c.from, x) /\ IsPrefix(c.at, a)
  BY <1>1, SourcePaths
<1>3. a \in Path /\ f[a].kind # "none" /\ f[a].kind = Kind(f, a)
  BY <1>1, TreeFacts
<1>4. PICK q : IsCopy(c, f, q, a)
  BY <1>1, <1>2, <1>3 DEF Copied
<1>5. Source(c, q) /\ a = MovedTo(c, q) /\ f[a].kind = c.before[q].kind
  BY <1>4 DEF IsCopy
<1>6. q \in Seq(Name) /\ IsPrefix(c.from, q)
  BY <1>1, <1>5, SourcePaths
<1>7. q = x
  BY <1>1, <1>2, <1>5, <1>6, ApartFacts, MovedOrder
<1> QED BY <1>3, <1>5, <1>7

\* The entries of a folder just made are new.
LEMMA NewEntries ==
  ASSUME NEW p, NEW c, NEW f, NEW P, Copying(p, c, f, P), NEW x, Source(c, x),
         c.before[x].kind = "dir", NEW a, a = MovedTo(c, x), There(f, a),
         \A e : ~ChildOf(f, a, e), NEW s, Lists(f, x, a, s), NEW i \in 1..Len(s)
  PROVE  NewEntry(c, f, x, a, s[i])
<1> DEFINE e == s[i].from
           m == MovedTo(c, e)
<1>1. Asked(c) /\ Apart(c) /\ Tree(f)
  BY DEF Copying
<1>2. /\ x \in Place /\ x \in Seq(Name) /\ IsPrefix(c.from, x) /\ a \in Seq(Name)
  BY <1>1, SourcePaths
<1>3. /\ ChildOf(f, x, e) /\ s[i].at = Append(a, Last(e))
      /\ s[i] = JobFrom("entry", e, Append(a, Last(e)))
  BY DEF Lists
<1> HIDE DEF e, m
<1>4. /\ e \in Path /\ e \in Seq(Name) /\ e \in Place /\ Front(e) = x
      /\ IsPrefix(x, e) /\ There(f, e)
  BY <1>1, <1>2, <1>3, ChildFacts
<1>5. IsPrefix(c.from, e) /\ m = Append(a, Last(e)) /\ Front(m) = a
  BY <1>1, <1>2, <1>4, ApartFacts, MovedChild DEF m
<1>6. Source(c, e)
  BY <1>4, <1>5, SourceKept
<1>7. Kind(f, a) = "dir"
  BY CopiedFolder
<1>8. ~There(f, m)
  <2> SUFFICES ASSUME There(f, m) PROVE FALSE
    OBVIOUS
  <2>1. m \in Path /\ m \in Place
    BY <1>1, TreeFacts, PathFacts
  <2>2. Len(m) = Len(a) + 1 /\ IsPrefix(a, m)
    BY <1>2, <1>5, <2>1, FrontPrefix, LenProperties
  <2>3. ChildOf(f, a, m)
    BY <2>1, <2>2 DEF ChildOf
  <2> QED BY <2>3
<1>9. s[i].from = e /\ s[i].at = m /\ s[i] = JobFrom("entry", e, m)
  BY <1>3, <1>5 DEF e
<1> QED BY <1>4, <1>5, <1>6, <1>7, <1>8, <1>9 DEF NewEntry, m

\* The entries of a folder take its place.
LEMMA ListGrows ==
  ASSUME NEW p, NEW c, NEW f, NEW P, Copying(p, c, f, P), P # <<>>,
         c.before[P[1].from].kind = "dir", There(f, P[1].at), Absent(f, P, 2),
         \A e : ~ChildOf(f, P[1].at, e), NEW s, Lists(f, P[1].from, P[1].at, s)
  PROVE  Main(p, c, f, s \o Tail(P)) /\ Absent(f, s \o Tail(P), 1)
<1> DEFINE x == P[1].from
           a == P[1].at
           E == Tail(P)
           Q == s \o E
           n == Len(s)
<1>1. /\ Asked(c) /\ Apart(c) /\ Tree(f) /\ Planned(c, P) /\ Entries(P)
      /\ Leading(c, f, P) /\ AllBut(c, f, P) /\ Making(p, c, f, {}) /\ NewOnly(c, f)
      /\ Copied(c, f)
  BY DEF Copying, Main, Planned
<1>2. /\ 1 \in 1..Len(P) /\ Len(P) \in Nat /\ Entries(E)
      /\ \A i \in 1..Len(E) : i + 1 \in 2..Len(P) /\ E[i] = P[i + 1]
      /\ \A i \in 2..Len(P) : i - 1 \in 1..Len(E) /\ E[i - 1] = P[i]
  BY <1>1, FirstEntry
<1>3. Source(c, x) /\ a = MovedTo(c, x) /\ x \in Place /\ x \in Seq(Name)
  BY <1>2, EntryFacts DEF Place
<1>4. /\ s \in Seq(JobType) /\ \A i \in 1..n : s[i].do = "entry"
      /\ \A i, k \in 1..n : s[i].from = s[k].from => i = k
      /\ \A e : ChildOf(f, x, e) => \E i \in 1..n : s[i].from = e
  BY DEF Lists
<1>5. \A i \in 1..n : NewEntry(c, f, x, a, s[i])
  <2> HIDE DEF x, a
  <2>1. c.before[x].kind = "dir" /\ There(f, a) /\ (\A e : ~ChildOf(f, a, e)) /\ Lists(f, x, a, s)
    BY DEF x, a
  <2> QED BY <1>3, <2>1, NewEntries
<1> HIDE DEF E
<1>6. /\ Entries(Q) /\ n \in Nat
      /\ \A i \in 1..n : i \in 1..Len(Q) /\ Q[i] = s[i]
      /\ \A i \in 1..Len(E) : n + i \in 1..Len(Q) /\ Q[n + i] = E[i]
      /\ \A i \in 1..Len(Q) : i > n => i - n \in 1..Len(E) /\ Q[i] = E[i - n]
  BY <1>2, <1>4, MoreEntries
<1> HIDE DEF Q, n, x, a
<1>7. ASSUME NEW i \in 1..Len(Q)
      PROVE  \/ i \in 1..n /\ Q[i] = s[i]
             \/ \E k \in 2..Len(P) : i = n + k - 1 /\ Q[i] = P[k]
  <2>1. CASE i <= n
    BY <1>6, <2>1
  <2>2. CASE i > n
    <3>1. i - n \in 1..Len(E) /\ Q[i] = E[i - n]
      BY <1>6, <2>2
    <3>2. i - n + 1 \in 2..Len(P) /\ Q[i] = P[i - n + 1]
      BY <1>2, <3>1
    <3>3. i = n + (i - n + 1) - 1
      BY <1>6
    <3> QED BY <3>2, <3>3
  <2> QED BY <1>6, <2>1, <2>2
<1>8. ASSUME NEW k \in 2..Len(P) PROVE \E i \in 1..Len(Q) : Q[i] = P[k]
  <2>1. k - 1 \in 1..Len(E) /\ E[k - 1] = P[k]
    BY <1>2
  <2> QED BY <1>6, <2>1
<1>9. ASSUME NEW k \in 2..Len(P)
      PROVE  /\ k \in 1..Len(P) /\ k # 1 /\ P[k].from \in Seq(Name)
             /\ ~IsPrefix(x, P[k].from) /\ ~IsPrefix(P[k].from, x)
  <2>1. k \in 1..Len(P) /\ k # 1
    BY <1>2
  <2>2. P[k].from \in Seq(Name)
    BY <2>1, EntryFacts DEF Place
  <2> QED BY <1>1, <1>2, <2>1, <2>2 DEF Planned, x
<1>10. ASSUME NEW i \in 1..Len(Q)
       PROVE  /\ Source(c, Q[i].from) /\ Q[i].at = MovedTo(c, Q[i].from)
              /\ Q[i] = JobFrom("entry", Q[i].from, Q[i].at)
              /\ Q[i].from = c.from \/ Kind(f, Front(Q[i].at)) = "dir"
              /\ ~There(f, Q[i].at)
  <2>1. CASE i \in 1..n /\ Q[i] = s[i]
    BY <1>5, <2>1 DEF NewEntry
  <2>2. ASSUME NEW k \in 2..Len(P), Q[i] = P[k]
        PROVE  /\ Source(c, Q[i].from) /\ Q[i].at = MovedTo(c, Q[i].from)
               /\ Q[i] = JobFrom("entry", Q[i].from, Q[i].at)
               /\ Q[i].from = c.from \/ Kind(f, Front(Q[i].at)) = "dir"
               /\ ~There(f, Q[i].at)
    <3>1. k \in 1..Len(P) /\ k >= 2
      BY <1>2
    <3> QED BY <1>1, <2>2, <3>1 DEF Planned, Leading, Absent
  <2> QED BY <1>7, <2>1, <2>2
<1>11. ASSUME NEW i \in 1..Len(Q), NEW k \in 1..Len(Q), IsPrefix(Q[i].from, Q[k].from)
       PROVE  i = k
  <2>1. ASSUME i \in 1..n, Q[i] = s[i], k \in 1..n, Q[k] = s[k]
        PROVE  i = k
    <3> DEFINE d == s[i].from
               e == s[k].from
    <3>1. d \in Place /\ Front(d) = x /\ e \in Place /\ Front(e) = x
      BY <1>5, <2>1 DEF NewEntry
    <3>2. IsPrefix(d, e)
      BY <1>11, <2>1
    <3> HIDE DEF d, e
    <3>3. d = e
      <4>1. ~IsPrefix(d, Front(d)) /\ d \in Seq(Name)
        BY <3>1, FrontPrefix
      <4> QED BY <3>1, <3>2, <4>1, FrontPrefix
    <3> QED BY <1>4, <2>1, <3>3 DEF d, e
  <2>2. ASSUME i \in 1..n, Q[i] = s[i], NEW m \in 2..Len(P), Q[k] = P[m]
        PROVE  FALSE
    <3>1. IsPrefix(x, s[i].from) /\ s[i].from \in Seq(Name) /\ IsPrefix(s[i].from, P[m].from)
      BY <1>5, <1>11, <2>2 DEF NewEntry
    <3>2. P[m].from \in Seq(Name) /\ ~IsPrefix(x, P[m].from)
      BY <1>9
    <3> QED BY <1>3, <3>1, <3>2, PrefixOrder
  <2>3. ASSUME NEW l \in 2..Len(P), Q[i] = P[l], k \in 1..n, Q[k] = s[k]
        PROVE  FALSE
    <3> DEFINE d == P[l].from
               e == s[k].from
    <3>1. e \in Place /\ Front(e) = x /\ IsPrefix(x, e) /\ IsPrefix(d, e)
      BY <1>5, <1>11, <2>3 DEF NewEntry
    <3>2. d \in Seq(Name) /\ ~IsPrefix(x, d) /\ ~IsPrefix(d, x)
      BY <1>9
    <3> HIDE DEF d, e
    <3> QED BY <3>1, <3>2, FrontPrefix
  <2>4. ASSUME NEW l \in 2..Len(P), i = n + l - 1, Q[i] = P[l],
               NEW m \in 2..Len(P), k = n + m - 1, Q[k] = P[m]
        PROVE  i = k
    <3>1. l \in 1..Len(P) /\ m \in 1..Len(P) /\ IsPrefix(P[l].from, P[m].from)
      BY <1>9, <1>11, <2>4
    <3>2. l = m
      BY <1>1, <3>1 DEF Planned
    <3> QED BY <2>4, <3>2
  <2> QED BY <1>7, <2>1, <2>2, <2>3, <2>4
<1>12. Planned(c, Q) /\ Leading(c, f, Q) /\ Absent(f, Q, 1)
  BY <1>6, <1>10, <1>11 DEF Planned, Leading, Absent
<1>13. AllBut(c, f, Q)
  <2> SUFFICES ASSUME NEW q, Source(c, q), ~There(f, MovedTo(c, q))
               PROVE  \E i \in 1..Len(Q) : IsPrefix(Q[i].from, q)
    BY DEF AllBut
  <2>1. PICK k \in 1..Len(P) : IsPrefix(P[k].from, q)
    BY <1>1 DEF AllBut
  <2>2. CASE k # 1
    <3>1. k \in 2..Len(P)
      BY <1>2, <2>2
    <3> QED BY <1>8, <2>1, <3>1
  <2>3. CASE k = 1
    <3>1. IsPrefix(x, q)
      BY <2>1, <2>3 DEF x
    <3>2. q # x
      BY <1>3 DEF a
    <3>3. There(f, q)
      <4>1. /\ q # <<>> /\ c.before[q].kind # "none"
        BY <1>1, SourcePaths DEF Source, Place
      <4>2. Kind(f, q) = c.before[q].kind
        BY SourceKept
      <4> QED BY <4>1, <4>2 DEF There
    <3>4. PICK e : ChildOf(f, x, e) /\ IsPrefix(e, q)
      BY <1>1, <1>3, <3>1, <3>2, <3>3, WayDown
    <3>5. PICK i \in 1..n : s[i].from = e
      BY <1>4, <3>4
    <3> QED BY <1>6, <3>4, <3>5
  <2> QED BY <2>2, <2>3
<1> QED BY <1>1, <1>12, <1>13 DEF Main, Q, E

\* The call throws for a good reason, or goes on copying.
GoesOnCopying(p) ==
  \/ Throwing(p, call[p], call'[p], fs')
  \/ SameCall(call[p], call'[p]) /\ Apart(call'[p]) /\ InMain(p, call'[p], fs')

\* The first of the entries P, and those after it.
LEMMA FirstOfThem ==
  ASSUME NEW p, NEW c, NEW f, NEW P, Copying(p, c, f, P), P # <<>>
  PROVE  /\ P[1].from \in Place /\ P[1].at \in Place /\ Entries(Tail(P)) /\ 1 \in 1..Len(P)
         /\ Source(c, P[1].from) /\ P[1].at = MovedTo(c, P[1].from)
         /\ f[P[1].from] = c.before[P[1].from]
         /\ Kind(f, P[1].from) = c.before[P[1].from].kind
         /\ P[1].from # c.from => Kind(f, Front(P[1].at)) = "dir"
         /\ P = Cons(JobFrom("entry", P[1].from, P[1].at), Tail(P))
         /\ Asked(c) /\ c.op = "copyFolder" /\ Apart(c) /\ Tree(f)
<1>1. Entries(P) /\ Asked(c) /\ c.op = "copyFolder" /\ Apart(c) /\ Tree(f)
  BY DEF Copying, Main, Planned
<1>2. 1 \in 1..Len(P) /\ Entries(Tail(P)) /\ P = Cons(JobFrom("entry", P[1].from, P[1].at), Tail(P))
  BY <1>1, FirstEntry
<1>3. /\ Source(c, P[1].from) /\ P[1].at = MovedTo(c, P[1].from)
      /\ P[1].from \in Place /\ P[1].at \in Place
      /\ P[1].from # c.from => Kind(f, Front(P[1].at)) = "dir"
  BY <1>2, EntryFacts
<1>4. f[P[1].from] = c.before[P[1].from] /\ Kind(f, P[1].from) = c.before[P[1].from].kind
  BY <1>3, SourceKept
<1> QED BY <1>1, <1>2, <1>3, <1>4

\* The first entry and the others.
LEMMA AbsentFirst ==
  ASSUME NEW f, NEW P, Entries(P)
  PROVE  /\ P # <<>> /\ Absent(f, P, 1) => ~There(f, P[1].at) /\ Absent(f, P, 2)
         /\ P # <<>> /\ ~There(f, P[1].at) /\ Absent(f, P, 2) => Absent(f, P, 1)
         /\ P # <<>> /\ Absent(f, P, 2) => Absent(f, Tail(P), 1)
<1>1. ASSUME P # <<>>, Absent(f, P, 1) PROVE ~There(f, P[1].at) /\ Absent(f, P, 2)
  BY <1>1, FirstEntry DEF Absent
<1>2. ASSUME P # <<>>, ~There(f, P[1].at), Absent(f, P, 2) PROVE Absent(f, P, 1)
  BY <1>2, FirstEntry DEF Absent
<1>3. ASSUME P # <<>>, Absent(f, P, 2) PROVE Absent(f, Tail(P), 1)
  <2>1. \A i \in 1..Len(Tail(P)) : i + 1 \in 2..Len(P) /\ Tail(P)[i] = P[i + 1]
    BY <1>3, FirstEntry
  <2>2. \A i \in 2..Len(P) : i \in 1..Len(P) /\ i >= 2
    BY <1>3, FirstEntry
  <2> QED BY <1>3, <2>1, <2>2 DEF Absent
<1> QED BY <1>1, <1>2, <1>3

\* What is not there has nothing in it; a folder that is being made neither.
LEMMA NoChildren ==
  ASSUME NEW f, Tree(f), NEW a \in Place, ~There(f, a)
  PROVE  \A e : ~ChildOf(f, a, e)
<1> SUFFICES ASSUME NEW e, ChildOf(f, a, e) PROVE FALSE
  OBVIOUS
<1>1. a \in Seq(Name) /\ a # <<>>
  BY DEF Place
<1>2. Kind(f, a) = "dir"
  BY <1>1, ChildFacts
<1> QED BY <1>1, <1>2 DEF There

\* A folder on the way to which things are made is empty still.
LEMMA ChildlessKept ==
  ASSUME NEW f, NEW g, NEW a \in Place, Toward(f, g, a), \A e : ~ChildOf(f, a, e)
  PROVE  \A e : ~ChildOf(g, a, e)
<1> SUFFICES ASSUME NEW e, ChildOf(g, a, e) PROVE FALSE
  OBVIOUS
<1>1. e \in Path /\ Len(e) = Len(a) + 1 /\ IsPrefix(a, e) /\ There(g, e)
  BY DEF ChildOf
<1>2. a \in Seq(Name) /\ e \in Seq(Name) /\ Len(a) \in Nat
  BY <1>1, PathFacts, LenProperties DEF Place
<1>3. ~IsPrefix(e, a)
  BY <1>1, <1>2, PrefixFacts
<1>4. g[e] = f[e]
  BY <1>1, <1>3 DEF Toward
<1>5. There(f, e)
  BY <1>1, <1>4 DEF There, Kind
<1> QED BY <1>1, <1>5 DEF ChildOf

\* The steps of a copy elsewhere: the first entry is looked at,
LEMMA NextEntry ==
  ASSUME NEW p, Stepping(p), NEW P, Copying(p, call[p], fs, P), call[p].todo = P,
         Absent(fs, P, 1)
  PROVE  GoesOnCopying(p)
<1> DEFINE c == call[p]
           d == call'[p]
           x == P[1].from
           a == P[1].at
           E == Tail(P)
<1>1. P # <<>>
  BY StepOfJob
<1>2. /\ x \in Place /\ a \in Place /\ Entries(E) /\ Source(c, x)
      /\ Kind(fs, x) = c.before[x].kind /\ c.todo = Cons(JobFrom("entry", x, a), E)
      /\ Asked(c) /\ c.op = "copyFolder" /\ Apart(c)
  BY <1>1, FirstOfThem
<1>3. c.before[x].kind \in {"dir", "file"}
  BY <1>2, SourcePaths
<1> HIDE DEF x, a, E
<1>4. \/ Fails(c, d) /\ fs' = fs /\ Closed(p, fs, x)
      \/ /\ SameCall(c, d) /\ Quiet3(c, fs, d, fs')
         /\ \/ Kind(fs, x) = "dir" /\ d.todo = ToTree(x, a, E)
            \/ Kind(fs, x) # "dir" /\ MakesFolders(d, fs', Front(a), ToMakeFile(x, a, E))
  BY <1>2, EntryStep
<1>5. CASE Fails(c, d) /\ fs' = fs /\ Closed(p, fs, x)
  <2>1. Pardoned(p, c, fs')
    BY <1>2, <1>5, CopyPardoned
  <2> QED BY <1>5, <2>1 DEF GoesOnCopying, Throwing
<1>6. CASE SameCall(c, d) /\ Quiet3(c, fs, d, fs')
  <2>1. Apart(d) /\ Main(p, d, fs', P) /\ fs' = fs
    BY <1>6, QuietGrows
  <2>2. d.before = c.before /\ Absent(fs', P, 1)
    BY <1>6, <2>1 DEF SameCall
  <2>3. CASE Kind(fs, x) = "dir" /\ d.todo = ToTree(x, a, E)
    <3>1. CopiesFolder(d, fs', P)
      BY <1>2, <2>2, <2>3 DEF CopiesFolder, x, a, E
    <3> QED BY <1>1, <1>6, <2>1, <3>1 DEF GoesOnCopying, InMain
  <2>4. CASE Kind(fs, x) # "dir" /\ MakesFolders(d, fs', Front(a), ToMakeFile(x, a, E))
    <3>1. CopiesFile(d, fs', P)
      BY <1>2, <1>3, <2>2, <2>4 DEF CopiesFile, x, a, E
    <3> QED BY <1>1, <1>6, <2>1, <3>1 DEF GoesOnCopying, InMain
  <2> QED BY <1>4, <1>5, <2>3, <2>4
<1> QED BY <1>4, <1>5, <1>6

\* or is a folder that is being copied,
LEMMA NextInFolder ==
  ASSUME NEW p, Stepping(p), NEW P, Copying(p, call[p], fs, P), P # <<>>,
         CopiesFolder(call[p], fs, P)
  PROVE  GoesOnCopying(p)
<1> DEFINE c == call[p]
           d == call'[p]
           x == P[1].from
           a == P[1].at
           E == Tail(P)
<1>1. /\ x \in Place /\ a \in Place /\ Entries(E) /\ Source(c, x) /\ 1 \in 1..Len(P)
      /\ a = MovedTo(c, x) /\ Kind(fs, x) = c.before[x].kind
      /\ Asked(c) /\ c.op = "copyFolder" /\ Apart(c) /\ Tree(fs)
  BY FirstOfThem
<1>2. Entries(P)
  BY DEF Copying, Main, Planned
<1>3. /\ c.before[x].kind = "dir"
      /\ \/ c.todo = ToTree(x, a, E) /\ Absent(fs, P, 1)
         \/ c.todo = ToMakeTree(x, a, E) /\ Absent(fs, P, 1)
         \/ /\ MakesFolders(c, fs, a, ToList(x, a, E)) /\ Absent(fs, P, 2)
            /\ \A e : ~ChildOf(fs, a, e)
  BY DEF CopiesFolder
<1> HIDE DEF x, a, E
<1>4. ASSUME Fails(c, d), fs' = fs, Pardoned(p, c, fs) PROVE GoesOnCopying(p)
  BY <1>4 DEF GoesOnCopying, Throwing
<1>5. ASSUME SameCall(c, d), Apart(d), Main(p, d, fs', P), CopiesFolder(d, fs', P)
      PROVE  GoesOnCopying(p)
  BY <1>5 DEF GoesOnCopying, InMain
<1>6. CASE c.todo = ToTree(x, a, E) /\ Absent(fs, P, 1)
  <2>1. \/ Fails(c, d) /\ fs' = fs /\ Closed(p, fs, x)
        \/ /\ SameCall(c, d) /\ Quiet3(c, fs, d, fs') /\ d.todo = ToMakeTree(x, a, E)
    BY <1>1, <1>3, <1>6, TreeStep
  <2>2. CASE Fails(c, d) /\ fs' = fs /\ Closed(p, fs, x)
    BY <1>1, <1>4, <2>2, CopyPardoned
  <2>3. CASE SameCall(c, d) /\ Quiet3(c, fs, d, fs') /\ d.todo = ToMakeTree(x, a, E)
    <3>1. Apart(d) /\ Main(p, d, fs', P) /\ fs' = fs /\ d.before = c.before
      BY <2>3, QuietGrows DEF SameCall
    <3>2. CopiesFolder(d, fs', P)
      BY <1>3, <1>6, <2>3, <3>1 DEF CopiesFolder, x, a, E
    <3> QED BY <1>5, <2>3, <3>1, <3>2
  <2> QED BY <2>1, <2>2, <2>3
<1>7. CASE c.todo = ToMakeTree(x, a, E) /\ Absent(fs, P, 1)
  <2>1. ~There(fs, a) /\ Absent(fs, P, 2)
    BY <1>2, <1>7, AbsentFirst DEF a
  <2>2. \/ Fails(c, d) /\ fs' = fs /\ Closed(p, fs, a)
        \/ /\ SameCall(c, d) /\ Quiet3(c, fs, d, fs')
           /\ MakesFolders(d, fs', a, ToList(x, a, E))
    BY <1>1, <1>7, <2>1, AbsentStep
  <2>3. CASE Fails(c, d) /\ fs' = fs /\ Closed(p, fs, a)
    BY <1>1, <1>4, <2>3, CopyPardoned
  <2>4. CASE /\ SameCall(c, d) /\ Quiet3(c, fs, d, fs')
             /\ MakesFolders(d, fs', a, ToList(x, a, E))
    <3>1. Apart(d) /\ Main(p, d, fs', P) /\ fs' = fs /\ d.before = c.before
      BY <2>4, QuietGrows DEF SameCall
    <3>2. \A e : ~ChildOf(fs', a, e)
      BY <1>1, <2>1, <3>1, NoChildren
    <3>3. CopiesFolder(d, fs', P)
      BY <1>3, <2>1, <2>4, <3>1, <3>2 DEF CopiesFolder, x, a, E
    <3> QED BY <1>5, <2>4, <3>1, <3>3
  <2> QED BY <2>2, <2>3, <2>4
<1>8. CASE /\ MakesFolders(c, fs, a, ToList(x, a, E)) /\ Absent(fs, P, 2)
           /\ \A e : ~ChildOf(fs, a, e)
  <2>1. \/ /\ Fails(c, d) /\ fs' = fs
           /\ \/ Closed(p, fs, a) \/ \E e \in Above(a) : Kind(fs, e) = "file"
              \/ Closed(p, fs, x) \/ Kind(fs, x) # "dir"
              \/ Uid[p] # Root /\ "r" \notin fs[x].mode
        \/ /\ SameCall(c, d)
           /\ MakesFolders(d, fs', a, ToList(x, a, E))
           /\ FolderChange(p, c, fs, d, fs', a)
        \/ /\ SameCall(c, d) /\ fs' = fs /\ There(fs, a) /\ ~Chowns(c)
           /\ \E s : Lists(fs, x, a, s) /\ d.todo = s \o E
    BY <1>1, <1>8, ListStep
  <2>2. CASE /\ Fails(c, d) /\ fs' = fs
             /\ \/ Closed(p, fs, a) \/ \E e \in Above(a) : Kind(fs, e) = "file"
                \/ Closed(p, fs, x) \/ Kind(fs, x) # "dir"
                \/ Uid[p] # Root /\ "r" \notin fs[x].mode
    <3>1. CASE \E e \in Above(a) : Kind(fs, e) = "file"
      <4>1. Pardoned(p, c, fs)
        BY <1>1, <3>1, FileInTheWay DEF a
      <4> QED BY <1>4, <2>2, <4>1
    <3>2. CASE \/ Closed(p, fs, x) \/ Closed(p, fs, a)
               \/ Uid[p] # Root /\ "r" \notin fs[x].mode
      <4>1. Kind(fs, x) = "dir"
        BY <1>1, <1>3
      <4>2. Pardoned(p, c, fs)
        BY <1>1, <3>2, <4>1, CopyPardoned
      <4> QED BY <1>4, <2>2, <4>2
    <3> QED BY <1>1, <1>3, <2>2, <3>1, <3>2
  <2>3. CASE /\ SameCall(c, d) /\ MakesFolders(d, fs', a, ToList(x, a, E))
             /\ FolderChange(p, c, fs, d, fs', a)
    <3>1. Apart(d) /\ Main(p, d, fs', P) /\ Toward(fs, fs', a) /\ d.before = c.before
      BY <1>3, <2>3, FolderGrows DEF SameCall, x, a
    <3>2. Absent(fs', P, 2)
      BY <1>8, <3>1, AbsentKept DEF a
    <3>3. \A e : ~ChildOf(fs', a, e)
      BY <1>1, <1>8, <3>1, ChildlessKept
    <3>4. CopiesFolder(d, fs', P)
      BY <1>3, <2>3, <3>1, <3>2, <3>3 DEF CopiesFolder, x, a, E
    <3> QED BY <1>5, <2>3, <3>1, <3>4
  <2>4. CASE /\ SameCall(c, d) /\ fs' = fs /\ There(fs, a) /\ ~Chowns(c)
             /\ \E s : Lists(fs, x, a, s) /\ d.todo = s \o E
    <3>1. PICK s : Lists(fs, x, a, s) /\ d.todo = s \o E
      BY <2>4
    <3>2. Main(p, c, fs, s \o E) /\ Absent(fs, s \o E, 1)
      BY <1>3, <1>8, <2>4, <3>1, ListGrows DEF x, a, E
    <3>3. Copying(p, c, fs, s \o E)
      BY <1>1, <3>2 DEF Copying
    <3>4. ~Chowns(d)
      <4>1. Entries(s \o E)
        BY <3>2 DEF Main, Planned
      <4> QED BY <3>1, <4>1, EntriesQuiet
    <3>5. Apart(d) /\ Main(p, d, fs', s \o E)
      BY <2>4, <3>3, <3>4, QuietGrows DEF Quiet3
    <3> QED BY <2>4, <3>1, <3>2, <3>5 DEF GoesOnCopying, InMain
  <2> QED BY <2>1, <2>2, <2>3, <2>4
<1> QED BY <1>3, <1>6, <1>7, <1>8

\* Or is a file that is being copied,
LEMMA NextInFile ==
  ASSUME NEW p, Stepping(p), NEW P, Copying(p, call[p], fs, P), P # <<>>,
         CopiesFile(call[p], fs, P)
  PROVE  GoesOnCopying(p)
<1> DEFINE c == call[p]
           d == call'[p]
           x == P[1].from
           a == P[1].at
           E == Tail(P)
<1>1. /\ x \in Place /\ a \in Place /\ Entries(E) /\ Source(c, x) /\ 1 \in 1..Len(P)
      /\ a = MovedTo(c, x) /\ Kind(fs, x) = c.before[x].kind /\ fs[x] = c.before[x]
      /\ Asked(c) /\ c.op = "copyFolder" /\ Apart(c) /\ Tree(fs)
      /\ x # c.from => Kind(fs, Front(a)) = "dir"
  BY FirstOfThem
<1>2. Entries(P)
  BY DEF Copying, Main, Planned
<1>3. /\ c.before[x].kind = "file" /\ Absent(fs, P, 1)
      /\ \/ MakesFolders(c, fs, Front(a), ToMakeFile(x, a, E))
         \/ c.todo = ToCopyFile(x, a, E)
  BY DEF CopiesFile
<1>4. ~There(fs, a) /\ Absent(fs, P, 2)
  BY <1>2, <1>3, AbsentFirst DEF a
<1> HIDE DEF x, a, E
<1>5. Kind(fs, Front(a)) = "dir"
  <2>1. x # c.from
    BY <1>1, <1>3 DEF Apart
  <2> QED BY <1>1, <2>1
<1>6. ASSUME Fails(c, d), fs' = fs, Pardoned(p, c, fs) PROVE GoesOnCopying(p)
  BY <1>6 DEF GoesOnCopying, Throwing
<1>7. ASSUME SameCall(c, d), Apart(d), Main(p, d, fs', P), CopiesFile(d, fs', P)
      PROVE  GoesOnCopying(p)
  BY <1>7 DEF GoesOnCopying, InMain
<1>8. a \in Seq(Name) /\ Front(a) \in Seq(Name) /\ IsPrefix(Front(a), a) /\ Front(a) # a
      /\ ~IsPrefix(a, Front(a))
  BY <1>1, FrontPrefix
<1>9. CASE MakesFolders(c, fs, Front(a), ToMakeFile(x, a, E))
  <2>1. \/ /\ Fails(c, d) /\ fs' = fs
           /\ \/ Closed(p, fs, Front(a)) \/ \E e \in Above(Front(a)) : Kind(fs, e) = "file"
              \/ Closed(p, fs, a) \/ \E e : ChildOf(fs, a, e)
        \/ /\ SameCall(c, d)
           /\ MakesFolders(d, fs', Front(a), ToMakeFile(x, a, E))
           /\ FolderChange(p, c, fs, d, fs', Front(a))
        \/ /\ SameCall(c, d) /\ ~Chowns(c) /\ ~Chowns(d)
           /\ d.todo = ToCopyFile(x, a, E) /\ (There(fs, a) \/ fs' = fs)
    BY <1>1, <1>9, FileStep
  <2>2. CASE /\ Fails(c, d) /\ fs' = fs
             /\ \/ Closed(p, fs, Front(a)) \/ \E e \in Above(Front(a)) : Kind(fs, e) = "file"
                \/ Closed(p, fs, a) \/ \E e : ChildOf(fs, a, e)
    <3>1. CASE Closed(p, fs, Front(a)) \/ Closed(p, fs, a)
      <4>1. Closed(p, fs, a)
        BY <1>8, <3>1, ClosedAbove
      <4>2. Pardoned(p, c, fs)
        BY <1>1, <4>1, CopyPardoned
      <4> QED BY <1>6, <2>2, <4>2
    <3>2. CASE \E e \in Above(Front(a)) : Kind(fs, e) = "file"
      <4>1. PICK e \in Above(Front(a)) : Kind(fs, e) = "file"
        BY <3>2
      <4>2. e \in Place /\ e \in Seq(Name) /\ IsPrefix(e, Front(a))
        BY <1>8, <4>1, AboveFacts DEF Place
      <4>3. IsPrefix(e, a) /\ e # a
        BY <1>8, <4>2, PrefixOrder
      <4>4. e \in Above(a)
        BY <1>8, <4>2, <4>3, AboveFacts
      <4>5. Pardoned(p, c, fs)
        BY <1>1, <4>1, <4>4, FileInTheWay DEF a
      <4> QED BY <1>6, <2>2, <4>5
    <3> QED BY <1>1, <1>4, <2>2, <3>1, <3>2, NoChildren
  <2>3. CASE /\ SameCall(c, d) /\ MakesFolders(d, fs', Front(a), ToMakeFile(x, a, E))
             /\ FolderChange(p, c, fs, d, fs', Front(a))
    <3>1. Making(p, c, fs, {})
      BY DEF Copying, Main
    <3>2. /\ Making(p, d, fs', {})
          /\ \A r \in Path :
               \/ /\ fs'[r].kind = fs[r].kind /\ fs'[r].text = fs[r].text
                  /\ fs'[r].mode = fs[r].mode
               \/ /\ IsPrefix(r, Front(a)) /\ fs[r].kind = "none" /\ fs'[r].kind = "dir"
                  /\ Kind(fs, Front(r)) = "dir"
      BY <1>1, <1>8, <2>3, <3>1, FolderChangeKeeps
    <3>3. ASSUME NEW r \in Path, IsPrefix(r, Front(a)), fs[r].kind = "none"
          PROVE  FALSE
      <4>1. r \in Seq(Name) /\ r # <<>>
        BY PathFacts DEF Place
      <4>2. IsPrefix(r, a) /\ r # a
        BY <1>8, <3>3, <4>1, PrefixOrder
      <4>3. Kind(fs, r) = "dir"
        BY <1>1, <1>5, <4>1, <4>2, DirsAbove
      <4> QED BY <3>3, <4>1, <4>3 DEF Kind
    <3>4. \A r \in Path : fs'[r].kind = fs[r].kind /\ fs'[r].text = fs[r].text
      BY <3>2, <3>3
    <3>5. Apart(d) /\ Main(p, d, fs', P) /\ d.before = c.before
      BY <2>3, <3>2, <3>4, AlikeGrows DEF SameCall
    <3>6. Absent(fs', P, 1)
      BY <1>3, <3>4 DEF Absent, There, Kind
    <3>7. CopiesFile(d, fs', P)
      BY <1>3, <2>3, <3>5, <3>6 DEF CopiesFile, x, a, E
    <3> QED BY <1>7, <2>3, <3>5, <3>7
  <2>4. CASE /\ SameCall(c, d) /\ ~Chowns(c) /\ ~Chowns(d)
             /\ d.todo = ToCopyFile(x, a, E) /\ (There(fs, a) \/ fs' = fs)
    <3>1. Quiet3(c, fs, d, fs')
      BY <1>4, <2>4 DEF Quiet3
    <3>2. Apart(d) /\ Main(p, d, fs', P) /\ fs' = fs /\ d.before = c.before
      BY <2>4, <3>1, QuietGrows DEF SameCall
    <3>3. CopiesFile(d, fs', P)
      BY <1>3, <2>4, <3>2 DEF CopiesFile, x, a, E
    <3> QED BY <1>7, <2>4, <3>2, <3>3
  <2> QED BY <2>1, <2>2, <2>3, <2>4
<1>10. CASE c.todo = ToCopyFile(x, a, E)
  <2>1. \/ /\ Fails(c, d) /\ fs' = fs
           /\ \/ Closed(p, fs, x) \/ Closed(p, fs, a)
              \/ Kind(fs, x) # "file" \/ There(fs, a) \/ Kind(fs, Front(a)) # "dir"
        \/ /\ SameCall(c, d) /\ d.todo = ToGive(a, E)
           /\ Adds(p, c, fs, d, fs', a, NewFile(Uid[p], fs[x].text))
    BY <1>1, <1>10, CopyStep
  <2>2. CASE /\ Fails(c, d) /\ fs' = fs
             /\ \/ Closed(p, fs, x) \/ Closed(p, fs, a)
                \/ Kind(fs, x) # "file" \/ There(fs, a) \/ Kind(fs, Front(a)) # "dir"
    <3>1. Closed(p, fs, x) \/ Closed(p, fs, a)
      BY <1>1, <1>3, <1>4, <1>5, <2>2
    <3>2. Pardoned(p, c, fs)
      BY <1>1, <3>1, CopyPardoned
    <3> QED BY <1>6, <2>2, <3>2
  <2>3. CASE /\ SameCall(c, d) /\ d.todo = ToGive(a, E)
             /\ Adds(p, c, fs, d, fs', a, NewFile(Uid[p], fs[x].text))
    <3>1. Apart(d) /\ Main(p, d, fs', E) /\ There(fs', a) /\ Toward(fs, fs', a)
      BY <1>3, <1>4, <2>3, FileGrows DEF x, a, E
    <3>2. Absent(fs', E, 1)
      <4>1. Absent(fs', P, 2)
        BY <1>4, <3>1, AbsentKept DEF a
      <4> QED BY <1>2, <4>1, AbsentFirst DEF E
    <3>3. Source(d, x) /\ a = MovedTo(d, x)
      BY <1>1, <2>3, SameSources
    <3>4. GivesCopy(d, fs', E)
      BY <2>3, <3>1, <3>2, <3>3 DEF GivesCopy
    <3> QED BY <2>3, <3>1, <3>4 DEF GoesOnCopying, InMain
  <2> QED BY <2>1, <2>2, <2>3
<1> QED BY <1>3, <1>9, <1>10

\* or has been, and is given to its owner.
LEMMA NextToGive ==
  ASSUME NEW p, Stepping(p), NEW P, Copying(p, call[p], fs, P), GivesCopy(call[p], fs, P)
  PROVE  GoesOnCopying(p)
<1> DEFINE c == call[p]
           d == call'[p]
<1>1. /\ Asked(c) /\ c.op = "copyFolder" /\ Apart(c) /\ Tree(fs) /\ Entries(P)
      /\ Making(p, c, fs, {})
  BY DEF Copying, Main, Planned
<1>2. PICK x : /\ Source(c, x) /\ c.todo = ToGive(MovedTo(c, x), P)
               /\ There(fs, MovedTo(c, x)) /\ Absent(fs, P, 1)
  BY DEF GivesCopy
<1> DEFINE a == MovedTo(c, x)
<1>3. a \in Place
  BY <1>1, <1>2, SourcePaths
<1>4. \/ Fails(c, d) /\ fs' = fs /\ Closed(p, fs, a)
      \/ /\ SameCall(c, d) /\ d.todo = P /\ Gives(p, c, fs, d, fs', a)
  <2>1. c.todo = ToGive(a, P) /\ There(fs, a)
    BY <1>2
  <2> HIDE DEF a
  <2> QED BY <1>1, <1>3, <2>1, GiveStep
<1>5. CASE Fails(c, d) /\ fs' = fs /\ Closed(p, fs, a)
  <2>1. Pardoned(p, c, fs')
    BY <1>1, <1>2, <1>5, CopyPardoned
  <2> QED BY <1>5, <2>1 DEF GoesOnCopying, Throwing
<1>6. CASE SameCall(c, d) /\ d.todo = P /\ Gives(p, c, fs, d, fs', a)
  <2>1. /\ Making(p, d, fs', {})
        /\ \A r \in Path : fs'[r].kind = fs[r].kind /\ fs'[r].text = fs[r].text
    <3>1. SameCall(c, d) /\ Gives(p, c, fs, d, fs', a)
      BY <1>6
    <3> HIDE DEF a
    <3> QED BY <1>1, <3>1, GivesKeeps
  <2>2. Apart(d) /\ Main(p, d, fs', P)
    BY <1>6, <2>1, AlikeGrows
  <2>3. Absent(fs', P, 1)
    BY <1>2, <2>1 DEF Absent, There, Kind
  <2> QED BY <1>6, <2>2, <2>3 DEF GoesOnCopying, InMain
<1> QED BY <1>4, <1>5, <1>6

\* Each of its steps.
LEMMA MainStepWorks ==
  ASSUME NEW p, Stepping(p), Asked(call[p]), call[p].op = "copyFolder", Apart(call[p]),
         InMain(p, call[p], fs)
  PROVE  GoesOnCopying(p)
<1> DEFINE c == call[p]
<1>1. PICK P : /\ Main(p, c, fs, P)
               /\ \/ c.todo = P /\ Absent(fs, P, 1)
                  \/ P # <<>> /\ (CopiesFolder(c, fs, P) \/ CopiesFile(c, fs, P))
                  \/ GivesCopy(c, fs, P)
  BY DEF InMain
<1>2. Copying(p, c, fs, P)
  BY <1>1, StepOfJob DEF Copying
<1> QED BY <1>1, <1>2, NextEntry, NextInFolder, NextInFile, NextToGive

\* When no entry is left everything is copied.
LEMMA MainEnds ==
  ASSUME NEW p, NEW c, NEW f, Asked(c), c.op = "copyFolder", Apart(c), Tree(f),
         InMain(p, c, f), c.todo = <<>>
  PROVE  Fulfilled(p, c, f)
<1>1. PICK P : /\ Main(p, c, f, P)
               /\ \/ c.todo = P /\ Absent(f, P, 1)
                  \/ P # <<>> /\ (CopiesFolder(c, f, P) \/ CopiesFile(c, f, P))
                  \/ GivesCopy(c, f, P)
  BY DEF InMain
<1>2. Copying(p, c, f, P) /\ Entries(P) /\ P \in Seq(JobType)
  BY <1>1 DEF Copying, Main, Planned, Entries
<1>3. ~GivesCopy(c, f, P)
  <2> SUFFICES ASSUME NEW x, Source(c, x), c.todo = ToGive(MovedTo(c, x), P) PROVE FALSE
    BY DEF GivesCopy
  <2>1. MovedTo(c, x) \in Place
    BY SourcePaths
  <2> QED BY <1>2, <2>1, CopyJobs
<1>4. ~(P # <<>> /\ (CopiesFolder(c, f, P) \/ CopiesFile(c, f, P)))
  <2> SUFFICES ASSUME P # <<>>, CopiesFolder(c, f, P) \/ CopiesFile(c, f, P) PROVE FALSE
    OBVIOUS
  <2>1. Copies(c, f, P[1].from, P[1].at, Tail(P))
    BY DEF CopiesFolder, CopiesFile, Copies
  <2>2. P[1].from \in Place /\ P[1].at \in Place /\ Tail(P) \in Seq(JobType)
    BY <1>2, FirstOfThem DEF Entries
  <2> QED BY <2>1, <2>2, CopiesGoOn
<1>5. P = <<>>
  BY <1>1, <1>3, <1>4
<1>6. /\ Making(p, c, f, {}) /\ Copied(c, f) /\ AllBut(c, f, P)
  BY <1>1 DEF Main
<1>7. RestKept(p, c, f)
  <2>1. ~Chowns(c)
    BY DEF Chowns
  <2> QED BY <1>6, <2>1, MakingKept
<1>8. ASSUME NEW q, Source(c, q)
      PROVE  /\ f[MovedTo(c, q)].kind = c.before[q].kind
             /\ c.before[q].kind = "file" => f[MovedTo(c, q)].text = c.before[q].text
  <2> DEFINE a == MovedTo(c, q)
  <2>1. There(f, a)
    BY <1>5, <1>6, <1>8 DEF AllBut
  <2>2. a \in Path /\ f[a].kind # "none"
    BY <2>1, TreeFacts
  <2>3. IsPrefix(c.at, a) /\ q \in Seq(Name) /\ IsPrefix(c.from, q)
    BY <1>8, SourcePaths
  <2>4. PICK r : IsCopy(c, f, r, a)
    BY <1>6, <2>2, <2>3 DEF Copied
  <2>5. Source(c, r) /\ MovedTo(c, r) = MovedTo(c, q)
    BY <2>4 DEF IsCopy
  <2>6. r \in Seq(Name) /\ IsPrefix(c.from, r)
    BY <2>5, SourcePaths
  <2>7. r = q
    BY <2>3, <2>5, <2>6, ApartFacts, MovedOrder
  <2> QED BY <2>4, <2>7 DEF IsCopy
<1>9. \A q \in Below(c.from) : c.before[q].kind # "none" => Source(c, q)
  BY DEF Below, Source
<1>10. ASSUME NEW d \in Below(c.at), There(f, d)
       PROVE  \E q \in Below(c.from) : c.before[q].kind # "none" /\ d = MovedTo(c, q)
  <2>1. d \in Path /\ IsPrefix(c.at, d) /\ f[d].kind # "none"
    BY <1>10, TreeFacts DEF Below
  <2>2. PICK q : IsCopy(c, f, q, d)
    BY <1>6, <2>1 DEF Copied
  <2> QED BY <2>2 DEF IsCopy, Source, Below
<1> QED BY <1>7, <1>8, <1>9, <1>10 DEF Fulfilled

\* A copy begins.
LEMMA MainBegins ==
  ASSUME NEW p, NEW c, Asked(c), Apart(c), c.todo = ToMakeTree(c.from, c.at, <<>>),
         ~Chowns(c)
  PROVE  InMain(p, c, c.before)
<1> DEFINE j == JobFrom("entry", c.from, c.at)
           P == <<j>>
           f == c.before
<1>1. /\ c.from \in Place /\ c.at \in Place /\ Tree(f) /\ Source(c, c.from)
      /\ c.from \in Seq(Name) /\ c.at \in Seq(Name)
      /\ c.from \in Path /\ c.at \in Path
  BY ApartFacts
<1>2. j \in JobType /\ j.do = "entry" /\ j.from = c.from /\ j.at = c.at
  BY <1>1, JobTyped DEF JobName
<1>3. c.at = MovedTo(c, c.from)
  BY <1>1, MovedFrom
<1>4. j = JobFrom("entry", j.from, j.at)
  BY <1>2
<1> HIDE DEF j
<1>5. P \in Seq(JobType) /\ Len(P) = 1 /\ P[1] = j /\ P # <<>> /\ 1..Len(P) = {1} /\ Tail(P) = <<>>
  BY <1>2
<1> HIDE DEF P
<1>6. Planned(c, P)
  BY <1>1, <1>2, <1>3, <1>4, <1>5 DEF Planned, Entries
<1>7. ~There(f, c.at) /\ c.before[c.from].kind = "dir"
  BY <1>1, TreeFacts DEF Apart
<1>8. Making(p, c, f, {})
  BY NotBegun
<1>9. NewOnly(c, f)
  BY DEF NewOnly
<1>10. Copied(c, f)
  <2> SUFFICES ASSUME NEW d \in Path, f[d].kind # "none", IsPrefix(c.at, d) PROVE FALSE
    BY DEF Copied
  <2>1. There(f, d)
    BY <1>1, TreeFacts
  <2>2. d # c.at
    BY <1>7, <2>1
  <2>3. Kind(f, c.at) = "dir"
    BY <1>1, <2>1, <2>2, AncestorsAreDirs
  <2>4. c.at # <<>>
    BY <1>1 DEF Place
  <2> QED BY <1>7, <2>3, <2>4 DEF There
<1>11. AllBut(c, f, P)
  BY <1>2, <1>5 DEF AllBut, Source
<1>12. Leading(c, f, P) /\ Absent(f, P, 1)
  BY <1>2, <1>5, <1>7 DEF Leading, Absent
<1>13. CopiesFolder(c, f, P)
  BY <1>2, <1>5, <1>7, <1>12 DEF CopiesFolder
<1>14. Main(p, c, f, P)
  BY <1>6, <1>8, <1>9, <1>10, <1>11, <1>12 DEF Main
<1> QED BY <1>5, <1>13, <1>14 DEF InMain, f

\* A copy into itself begins.
LEMMA VainBegins ==
  ASSUME NEW c, NEW f, Asked(c), IsPrefix(c.from, c.at), c.from # c.at,
         c.todo = ToMakeTree(c.from, c.at, <<>>)
  PROVE  InVain(c, f)
<1> DEFINE E == <<>>
<1>1. c.from \in Place /\ c.at \in Place
  BY AskedPaths
<1>2. Entries(E)
  BY DEF Entries
<1>3. Within(c.from, c.at)
  BY DEF Within
<1>4. Copies(c, f, c.from, c.at, E)
  BY DEF Copies
<1> QED BY <1>1, <1>2, <1>3, <1>4 DEF InVain

\* When copyFolder has nothing to do everything is copied.
LEMMA TreeEnds ==
  ASSUME NEW p, NEW c, NEW f, Asked(c), c.op = "copyFolder", Tree(f), InTree(p, c, f),
         c.todo = <<>>
  PROVE  Fulfilled(p, c, f)
<1> DEFINE E == <<>>
<1>1. c.from \in Place /\ c.at \in Place /\ E \in Seq(JobType)
  BY AskedPaths
<1>2. ~Copies(c, f, c.from, c.at, E)
  BY <1>1, CopiesGoOn
<1>3. c.todo # ToTree(c.from, c.at, <<>>) /\ c.todo # ToMakeTree(c.from, c.at, <<>>)
  BY <1>2 DEF Copies
<1>4. Apart(c) /\ InMain(p, c, f)
  BY <1>3, VainGoesOn DEF InTree
<1> QED BY <1>4, MainEnds

\* The steps of copyFolder.
LEMMA TreeStepWorks ==
  ASSUME NEW p, Stepping(p), Asked(call[p]), call[p].op = "copyFolder",
         InTree(p, call[p], fs)
  PROVE  \/ Throwing(p, call[p], call'[p], fs')
         \/ SameCall(call[p], call'[p]) /\ InTree(p, call'[p], fs')
<1> DEFINE c == call[p]
           d == call'[p]
           x == c.from
           a == c.at
           E == <<>>
<1>1. /\ x \in Place /\ a \in Place /\ x \in Path /\ a \in Path /\ E \in Seq(JobType)
      /\ Entries(E) /\ Tree(fs)
  BY AskedPaths, StepOfJob DEF Entries
<1> HIDE DEF E
<1>2. ASSUME Fails(c, d), fs' = fs, Pardoned(p, c, fs)
      PROVE  Throwing(p, c, d, fs')
  BY <1>2 DEF Throwing
<1>3. CASE fs = c.before /\ c.todo = ToTree(x, a, E)
  <2>1. \/ Fails(c, d) /\ fs' = fs /\ (Closed(p, fs, x) \/ Kind(fs, x) # "dir")
        \/ /\ SameCall(c, d) /\ Quiet3(c, fs, d, fs')
           /\ Kind(fs, x) = "dir" /\ d.todo = ToMakeTree(x, a, E)
    BY <1>1, <1>3, TreeStep
  <2>2. Kind(fs, x) = c.before[x].kind /\ Kind(fs, a) = c.before[a].kind
    BY <1>1, <1>3, TreeFacts
  <2>3. CASE Fails(c, d) /\ fs' = fs /\ (Closed(p, fs, x) \/ Kind(fs, x) # "dir")
    <3>1. Pardoned(p, c, fs)
      BY <2>2, <2>3 DEF Pardoned
    <3> QED BY <1>2, <2>3, <3>1
  <2>4. CASE /\ SameCall(c, d) /\ Quiet3(c, fs, d, fs')
             /\ Kind(fs, x) = "dir" /\ d.todo = ToMakeTree(x, a, E)
    <3>1. /\ fs' = fs /\ ~Chowns(d) /\ d.from = x /\ d.at = a /\ d.before = c.before
          /\ Asked(d) /\ fs' = d.before
      BY <1>3, <2>4, SameSources DEF Quiet3, SameCall
    <3>2. d.todo = ToMakeTree(d.from, d.at, <<>>)
      BY <2>4, <3>1 DEF E
    <3>3. CASE There(fs, a)
      BY <2>4, <3>1, <3>2, <3>3 DEF InTree
    <3>4. CASE ~There(fs, a) /\ IsPrefix(x, a)
      <4>1. x # a
        BY <1>1, <2>4, <3>4 DEF There, Place
      <4>2. InVain(d, fs')
        BY <3>1, <3>2, <3>4, <4>1, VainBegins
      <4> QED BY <2>4, <3>1, <3>4, <4>2 DEF InTree
    <3>5. CASE ~There(fs, a) /\ ~IsPrefix(x, a)
      <4>1. Apart(d)
        BY <1>1, <2>2, <2>4, <3>1, <3>5, TreeFacts DEF Apart
      <4>2. InMain(p, d, d.before)
        BY <3>1, <3>2, <4>1, MainBegins
      <4> QED BY <2>4, <3>1, <4>1, <4>2 DEF InTree
    <3> QED BY <3>3, <3>4, <3>5
  <2> QED BY <2>1, <2>3, <2>4
<1>4. CASE fs = c.before /\ There(fs, a) /\ c.todo = ToMakeTree(x, a, E)
  <2>1. Fails(c, d) /\ fs' = fs
    BY <1>1, <1>4, AbsentStep
  <2>2. c.before[a].kind # "none"
    BY <1>1, <1>4, TreeFacts
  <2>3. Pardoned(p, c, fs)
    BY <2>2 DEF Pardoned
  <2> QED BY <1>2, <2>1, <2>3
<1>5. CASE IsPrefix(x, a) /\ InVain(c, fs)
  <2>1. \/ Fails(c, d) /\ fs' = fs
        \/ SameCall(c, d) /\ InVain(d, fs')
    BY <1>5, VainStepWorks
  <2>2. Pardoned(p, c, fs)
    BY <1>5 DEF Pardoned
  <2>3. CASE SameCall(c, d) /\ InVain(d, fs')
    BY <1>5, <2>3 DEF InTree, SameCall
  <2> QED BY <1>2, <2>1, <2>2, <2>3
<1>6. CASE Apart(c) /\ InMain(p, c, fs)
  <2>1. \/ Throwing(p, c, d, fs')
        \/ SameCall(c, d) /\ Apart(d) /\ InMain(p, d, fs')
    BY <1>6, MainStepWorks DEF GoesOnCopying
  <2> QED BY <2>1 DEF InTree
<1> QED BY <1>3, <1>4, <1>5, <1>6 DEF InTree, E

(* The invariant *)

\* Where a call is that has not thrown.
AtWork(p, c, f) ==
  \/ c.op = "createFoldersIfNecessary" /\ InFolders(p, c, f)
  \/ c.op = "createFileIfNecessary" /\ InFile(p, c, f)
  \/ c.op = "copyFile" /\ InCopy(p, c, f)
  \/ c.op = "copyFolder" /\ InTree(p, c, f)
  \/ c.op = "removeFile" /\ InRemove(p, c, f)
  \/ c.op \in {"writeTextFile", "appendTextFile"} /\ InWrite(p, c, f)
  \/ c.op = "~PathRAII" /\ InTidy(p, c, f)

Works(p, c, f) == (c.todo = <<>> /\ Fulfilled(p, c, f)) \/ AtWork(p, c, f)

\* A call that nobody disturbs: what it has done and has to do, or why it threw.
Sound(p, c, f) ==
  Asked(c) /\ IF c.failed THEN Pardoned(p, c, f) ELSE Works(p, c, f)
Undisturbed ==
  \A p \in Proc : alone[p] /\ call[p].op # "none" => Sound(p, call[p], fs)

\* The jobs of an agenda.
LEMMA AskedJobs ==
  ASSUME NEW c, Asked(c)
  PROVE  /\ \A do \in JobName : /\ Job(do, c.at) \in JobType /\ Job(do, c.at).do = do
                                /\ JobFrom(do, c.from, c.at) \in JobType
                                /\ JobFrom(do, c.from, c.at).do = do
         /\ ToOpen(c) \in Seq(JobType) /\ ToOpen(c) # <<>>
         /\ ToRemove(c) \in Seq(JobType) /\ ToRemove(c) # <<>>
         /\ Head(ToRemove(c)).do = "remove"
         /\ ToCopy(c) \in Seq(JobType) /\ ToCopy(c) # <<>>
         /\ ToWrite(c) \in Seq(JobType) /\ ToWrite(c) # <<>>
         /\ Head(ToWrite(c)).do \in {"write", "append"}
         /\ <<>> \in Seq(JobType)
<1>1. c.at \in Place /\ c.from \in Place
  BY AskedPaths
<1>2. \A do \in JobName : /\ Job(do, c.at) \in JobType /\ Job(do, c.at).do = do
                          /\ JobFrom(do, c.from, c.at) \in JobType
                          /\ JobFrom(do, c.from, c.at).do = do
  BY <1>1, JobTyped
<1>3. <<>> \in Seq(JobType)
  BY EmptySeq
<1> DEFINE E == <<>>
<1>4. E \in Seq(JobType) /\ E = <<>>
  BY <1>3
<1> HIDE DEF E
<1>5. /\ Job("open", c.at) \in JobType /\ Job("chown", c.at) \in JobType
      /\ Job("write", c.at) \in JobType /\ Job("append", c.at) \in JobType
      /\ Job("write", c.at).do = "write" /\ Job("append", c.at).do = "append"
      /\ JobFrom("copy", c.from, c.at) \in JobType /\ Job("remove", c.at) \in JobType
      /\ Job("remove", c.at).do = "remove"
  BY <1>2 DEF JobName
<1>6. Cons(Job("chown", c.at), E) \in Seq(JobType)
  BY <1>4, <1>5, ConsFacts
<1>7. ToOpen(c) \in Seq(JobType) /\ ToOpen(c) # <<>>
  BY <1>4, <1>5, <1>6, ConsFacts DEF ToOpen
<1>8. ToCopy(c) \in Seq(JobType) /\ ToCopy(c) # <<>>
  BY <1>4, <1>5, <1>6, ConsFacts DEF ToCopy
<1>9. ToRemove(c) \in Seq(JobType) /\ ToRemove(c) # <<>> /\ Head(ToRemove(c)).do = "remove"
  BY <1>5, <1>8, ConsFacts DEF ToRemove
<1>10. /\ ToWrite(c) \in Seq(JobType) /\ ToWrite(c) # <<>>
       /\ Head(ToWrite(c)).do \in {"write", "append"}
  <2>0. ASSUME NEW j \in JobType
        PROVE  Cons(j, E) \in Seq(JobType) /\ Cons(j, E) # <<>> /\ Head(Cons(j, E)) = j
    BY <1>4, ConsFacts
  <2>1. CASE c.op = "writeTextFile"
    <3>1. ToWrite(c) = Cons(Job("write", c.at), E)
      BY <2>1, <1>4 DEF ToWrite
    <3> QED BY <3>1, <1>5, <2>0
  <2>2. CASE c.op # "writeTextFile"
    <3>1. ToWrite(c) = Cons(Job("append", c.at), E)
      BY <2>2, <1>4 DEF ToWrite
    <3> QED BY <3>1, <1>5, <2>0
  <2> QED BY <2>1, <2>2
<1> QED BY <1>2, <1>3, <1>7, <1>8, <1>9, <1>10

\* An agenda is done when its call has done all that it promises.
LEMMA WorkEnds ==
  ASSUME NEW p, NEW c, NEW f, Asked(c), Tree(f), AtWork(p, c, f), c.todo = <<>>
  PROVE  Fulfilled(p, c, f)
<1>1. c.at \in Seq(Name) /\ Front(c.at) \in Seq(Name) /\ <<>> \in Seq(JobType)
  BY AskedPaths, EmptySeq
<1>2. \A do \in JobName : Cons(Job(do, c.at), <<>>) # <<>>
  BY <1>1, AskedJobs, ConsFacts
<1>3. CASE c.op = "createFoldersIfNecessary" /\ InFolders(p, c, f)
  BY <1>1, <1>3, FoldersGoOn DEF InFolders
<1>4. CASE c.op = "createFileIfNecessary" /\ InFile(p, c, f)
  <2>1. Cons(Job("parent", c.at), ToOpen(c)) # <<>>
    BY AskedJobs, ConsFacts DEF JobName
  <2>2. ~WayTo(p, c, f, Front(c.at), ToOpen(c))
    BY <1>1, AskedJobs, MakesGoOn DEF WayTo
  <2>3. Cons(Job("file", c.at), <<>>) # <<>> /\ Cons(Job("chown", c.at), <<>>) # <<>>
    BY <1>2 DEF JobName
  <2> QED BY <1>4, <2>1, <2>2, <2>3 DEF InFile
<1>5. CASE c.op = "copyFile" /\ InCopy(p, c, f)
  <2>1. ToCopy(c) # <<>>
    BY AskedJobs
  <2>2. ~WayTo(p, c, f, Front(c.at), ToRemove(c))
    BY <1>1, AskedJobs, MakesGoOn DEF WayTo
  <2>3. Cons(Job("chown", c.at), <<>>) # <<>>
    BY <1>2 DEF JobName
  <2> QED BY <1>5, <2>1, <2>2, <2>3 DEF InCopy
<1>6. CASE c.op = "copyFolder" /\ InTree(p, c, f)
  BY <1>6, TreeEnds
<1>7. CASE c.op = "removeFile" /\ InRemove(p, c, f)
  BY <1>2, <1>7 DEF InRemove, JobName
<1>8. CASE c.op \in {"writeTextFile", "appendTextFile"} /\ InWrite(p, c, f)
  BY <1>1, <1>8, AskedJobs, MakesGoOn DEF InWrite, WayTo
<1>9. CASE c.op = "~PathRAII" /\ InTidy(p, c, f)
  BY <1>9, TidyEnds
<1> QED BY <1>3, <1>4, <1>5, <1>6, <1>7, <1>8, <1>9 DEF AtWork

\* A call that goes to x first.
LEMMA WayBegins ==
  ASSUME NEW p, NEW c, NEW x \in Seq(Name), NEW post \in Seq(JobType),
         c.todo = CreateFolders(x) \o post, post # <<>> => Head(post).do # "chown"
  PROVE  WayTo(p, c, c.before, x, post)
<1>1. c.todo = ToMake(x, 0, post)
  <2>1. 0 \in 0..Len(x)
    BY LenProperties
  <2> QED BY <2>1, FoldersFacts
<1>2. ~Chowns(c)
  BY <1>1, StartsQuiet
<1>3. MakesFolders(c, c.before, x, post)
  BY <1>1, StartFolders
<1>4. Making(p, c, c.before, {}) /\ FoldersOnly(c, c.before, x)
  BY <1>2, NotBegun
<1> QED BY <1>3, <1>4 DEF WayTo

\* Every call begins at work.
LEMMA WorkBegins ==
  ASSUME NEW p, NEW c, Asked(c), c.todo = Agenda(c)
  PROVE  AtWork(p, c, c.before)
<1>1. c.at \in Seq(Name) /\ c.at \in Place /\ Front(c.at) \in Seq(Name) /\ c.op \in Op
  BY AskedPaths
<1>2. \A j \in JobType : <<j>> = Cons(j, <<>>)
  <2>1. \A j \in JobType : <<j>> \in Seq(JobType)
    OBVIOUS
  <2> QED BY <2>1, ConcatEmptySeq DEF Cons
<1>3. CASE c.op = "createFoldersIfNecessary"
  <2>1. c.todo = CreateFolders(c.at)
    BY <1>3 DEF Agenda
  <2>2. CreateFolders(c.at) \o <<>> = CreateFolders(c.at)
    BY <1>1, CreateFoldersFacts, ConcatEmptySeq
  <2> DEFINE E == <<>>
  <2>3. E \in Seq(JobType) /\ E = <<>>
    BY EmptySeq
  <2>4. c.todo = CreateFolders(c.at) \o E
    BY <2>1, <2>2
  <2> HIDE DEF E
  <2>5. WayTo(p, c, c.before, c.at, E)
    BY <1>1, <2>3, <2>4, WayBegins
  <2>6. c.todo # <<>>
    <3>1. PICK k \in 0..Len(c.at) : k = 0 /\ k < Len(c.at) /\ k + 1 \in 0..Len(c.at)
      BY <1>1, FrontPrefix
    <3>2. /\ ToMake(c.at, k, E) = Cons(Job("folder", Upto(c.at, k + 1)),
                                      ToMake(c.at, k + 1, E))
          /\ Upto(c.at, k + 1) \in Place
          /\ ToMake(c.at, 0, E) = CreateFolders(c.at) \o E
      BY <1>1, <2>3, <3>1, FoldersFacts
    <3>3. ToMake(c.at, k + 1, E) \in Seq(JobType)
      BY <1>1, <2>3, <3>1, FoldersFacts
    <3>4. Job("folder", Upto(c.at, k + 1)) \in JobType
      BY <3>2, JobTyped DEF JobName
    <3> QED BY <2>4, <3>1, <3>2, <3>3, <3>4, ConsFacts
  <2>7. ToFolder(c, c.before, c.at, E)
    BY <2>3, <2>5, <2>6 DEF WayTo, MakesFolders
  <2> QED BY <1>3, <2>3, <2>5, <2>7 DEF AtWork, InFolders
<1>4. CASE c.op = "createFileIfNecessary"
  <2>1. c.todo = <<Job("file", c.at)>>
    BY <1>4 DEF Agenda
  <2>2. Job("file", c.at) \in JobType
    BY AskedJobs DEF JobName
  <2> QED BY <1>2, <1>4, <2>1, <2>2 DEF AtWork, InFile
<1>5. CASE c.op = "copyFile"
  <2>1. c.todo = CopyFile(c.from, c.at)
    BY <1>5 DEF Agenda
  <2> DEFINE E == <<>>
  <2>2. E \in Seq(JobType) /\ E = <<>>
    BY EmptySeq
  <2> HIDE DEF E
  <2>3. c.from \in Place
    BY AskedPaths
  <2>4. /\ CopyFile(c.from, c.at) \in Seq(JobType)
        /\ CopyFile(c.from, c.at) \o E = ToMake(Front(c.at), 0, ToMakeFile(c.from, c.at, E))
    BY <1>1, <2>2, <2>3, CopyFileAgenda
  <2>5. CopyFile(c.from, c.at) \o E = CopyFile(c.from, c.at)
    BY <2>2, <2>4, ConcatEmptySeq
  <2>6. ToMakeFile(c.from, c.at, E) = ToRemove(c)
    BY <2>2 DEF ToMakeFile, ToCopyFile, ToGive, ToRemove, ToCopy
  <2>7. ToRemove(c) \in Seq(JobType) /\ Head(ToRemove(c)).do # "chown"
    BY AskedJobs
  <2>8. c.todo = CreateFolders(Front(c.at)) \o ToRemove(c)
    <3>1. 0 \in 0..Len(Front(c.at))
      BY <1>1, LenProperties
    <3>2. ToMake(Front(c.at), 0, ToRemove(c)) = CreateFolders(Front(c.at)) \o ToRemove(c)
      BY <1>1, <2>7, <3>1, FoldersFacts
    <3> QED BY <2>1, <2>4, <2>5, <2>6, <3>2
  <2>9. WayTo(p, c, c.before, Front(c.at), ToRemove(c))
    BY <1>1, <2>7, <2>8, WayBegins
  <2> QED BY <1>5, <2>9 DEF AtWork, InCopy
<1>6. CASE c.op = "copyFolder"
  <2>1. c.todo = <<JobFrom("tree", c.from, c.at)>>
    BY <1>6 DEF Agenda
  <2>2. JobFrom("tree", c.from, c.at) \in JobType
    BY AskedJobs DEF JobName
  <2> QED BY <1>2, <1>6, <2>1, <2>2 DEF AtWork, InTree, ToTree
<1>7. CASE c.op = "removeFile"
  <2>1. c.todo = <<Job("unlink", c.at)>>
    BY <1>7 DEF Agenda
  <2>2. Job("unlink", c.at) \in JobType
    BY AskedJobs DEF JobName
  <2> QED BY <1>2, <1>7, <2>1, <2>2 DEF AtWork, InRemove
<1>8. CASE c.op \in {"writeTextFile", "appendTextFile"}
  <2>1. /\ Job("write", c.at) \in JobType /\ Job("append", c.at) \in JobType
        /\ ToWrite(c) \in Seq(JobType) /\ Head(ToWrite(c)).do # "chown"
    BY AskedJobs DEF JobName
  <2>2. c.todo = CreateFolders(Front(c.at)) \o ToWrite(c)
    <3>1. CASE c.op = "writeTextFile"
      BY <1>2, <2>1, <3>1 DEF Agenda, ToWrite
    <3>2. CASE c.op = "appendTextFile"
      BY <1>2, <2>1, <3>2 DEF Agenda, ToWrite
    <3> QED BY <1>8, <3>1, <3>2
  <2>3. WayTo(p, c, c.before, Front(c.at), ToWrite(c))
    BY <1>1, <2>1, <2>2, WayBegins
  <2> QED BY <1>8, <2>3 DEF AtWork, InWrite
<1>9. CASE c.op = "~PathRAII"
  <2>1. c.todo = <<Job("tidy", c.at)>>
    BY <1>9 DEF Agenda
  <2>2. Job("tidy", c.at) \in JobType
    BY AskedJobs DEF JobName
  <2> QED BY <1>2, <1>9, <2>1, <2>2 DEF AtWork, InTidy
<1> QED BY <1>1, <1>3, <1>4, <1>5, <1>6, <1>7, <1>8, <1>9 DEF Op

\* A step of a call throws for a good reason, ends the call well, or leaves it
\* at work.
LEMMA WorkStep ==
  ASSUME NEW p, Stepping(p), Asked(call[p]), AtWork(p, call[p], fs)
  PROVE  \/ Throwing(p, call[p], call'[p], fs')
         \/ SameCall(call[p], call'[p]) /\ Works(p, call'[p], fs')
<1> DEFINE c == call[p]
           d == call'[p]
<1>1. Ending(p, c, d, fs') => SameCall(c, d) /\ Works(p, d, fs')
  BY DEF Ending, Works
<1>2. SameCall(c, d) => d.op = c.op
  BY DEF SameCall
<1>3. SameCall(c, d) /\ AtWork(p, d, fs') => Works(p, d, fs')
  BY DEF Works
<1>4. CASE c.op = "createFoldersIfNecessary" /\ InFolders(p, c, fs)
  BY <1>1, <1>2, <1>3, <1>4, FoldersStepWorks DEF AtWork
<1>5. CASE c.op = "createFileIfNecessary" /\ InFile(p, c, fs)
  BY <1>1, <1>2, <1>3, <1>5, FileStepWorks DEF AtWork
<1>6. CASE c.op = "copyFile" /\ InCopy(p, c, fs)
  BY <1>1, <1>2, <1>3, <1>6, CopyStepWorks DEF AtWork
<1>7. CASE c.op = "copyFolder" /\ InTree(p, c, fs)
  BY <1>1, <1>2, <1>3, <1>7, TreeStepWorks DEF AtWork
<1>8. CASE c.op = "removeFile" /\ InRemove(p, c, fs)
  BY <1>1, <1>2, <1>3, <1>8, RemoveStepWorks DEF AtWork
<1>9. CASE c.op \in {"writeTextFile", "appendTextFile"} /\ InWrite(p, c, fs)
  BY <1>1, <1>2, <1>3, <1>9, WriteStepWorks DEF AtWork
<1>10. CASE c.op = "~PathRAII" /\ InTidy(p, c, fs)
  BY <1>1, <1>2, <1>3, <1>10, TidyStepWorks DEF AtWork
<1> QED BY <1>4, <1>5, <1>6, <1>7, <1>8, <1>9, <1>10 DEF AtWork

\* A call that has thrown is what it was but for that.
LEMMA ThrownSame ==
  ASSUME NEW c \in CallType, NEW d, Fails(c, d)
  PROVE  /\ d \in CallType /\ d.failed = TRUE /\ d.op = c.op /\ d.from = c.from
         /\ d.at = c.at /\ d.own = c.own /\ d.before = c.before /\ d.todo = c.todo
BY DEF Fails, CallType

\* Its excuse is what it was.
LEMMA StillPardoned ==
  ASSUME NEW p, NEW c, Asked(c), NEW d, Fails(c, d), NEW f, Pardoned(p, c, f)
  PROVE  Asked(d) /\ Pardoned(p, d, f)
<1>1. c \in CallType
  BY DEF Asked
<1>2. /\ d \in CallType /\ d.op = c.op /\ d.from = c.from
      /\ d.at = c.at /\ d.own = c.own /\ d.before = c.before
  BY <1>1, ThrownSame
<1>3. Asked(d)
  BY <1>2 DEF Asked
<1>4. \A q : MovedTo(d, q) = MovedTo(c, q)
  BY <1>2 DEF MovedTo
<1>5. Pardoned(p, d, f)
  BY <1>2, <1>4 DEF Pardoned
<1> QED BY <1>3, <1>5

\* The steps of a call that nobody disturbs.
LEMMA SoundStep ==
  ASSUME NEW p, Stepping(p), call[p].op # "none", Sound(p, call[p], fs)
  PROVE  Sound(p, call'[p], fs')
<1>1. call[p].todo # <<>> /\ ~call[p].failed
  BY StepOfJob
<1>2. Asked(call[p]) /\ AtWork(p, call[p], fs)
  BY <1>1 DEF Sound, Works
<1>3. CASE Throwing(p, call[p], call'[p], fs')
  <2>1. Fails(call[p], call'[p]) /\ Pardoned(p, call[p], fs') /\ call[p] \in CallType
    BY <1>2, <1>3 DEF Throwing, Asked
  <2>2. Asked(call'[p]) /\ Pardoned(p, call'[p], fs') /\ call'[p].failed = TRUE
    BY <1>2, <2>1, StillPardoned, ThrownSame
  <2> QED BY <2>2 DEF Sound
<1>4. CASE SameCall(call[p], call'[p]) /\ Works(p, call'[p], fs')
  <2>1. Asked(call'[p])
    BY <1>2, <1>4, SameSources
  <2>2. call'[p].failed = call[p].failed
    BY <1>4 DEF SameCall
  <2> QED BY <1>1, <1>4, <2>1, <2>2 DEF Sound
<1> QED BY <1>2, <1>3, <1>4, WorkStep

\* A request as it is made.
Sensible(r) ==
  /\ r.op \in Op /\ r.from \in Path /\ r.at \in Path /\ r.own \in Owner \cup {NoOwner}
  /\ r.op \notin {"copyFile", "copyFolder"} => r.from = r.at
  /\ r.op \in {"removeFile", "writeTextFile", "appendTextFile", "~PathRAII"} =>
       r.own = NoOwner

\* Requests are made as they are to be.
LEMMA RequestSensible == \A p \in Proc : \A r \in Request[p] : Sensible(r)
<1> SUFFICES ASSUME NEW p \in Proc, NEW r \in Request[p] PROVE Sensible(r)
  OBVIOUS
<1>1. /\ r.op \in Op \ {"~PathRAII"} /\ {r.from, r.at} \subseteq Path
      /\ r.op \notin {"copyFile", "copyFolder"} => r.from = r.at
      /\ r.own \in IF r.op \in {"removeFile", "writeTextFile", "appendTextFile"}
                   THEN {NoOwner} ELSE Owner \cup {NoOwner}
  BY RequestAssumption
<1> QED BY <1>1 DEF Sensible

\* A call begins at work.
LEMMA SoundCall ==
  ASSUME FoldersInv, FoldersInv', NEW p \in Proc, NEW r, Sensible(r), Call(p, r)
  PROVE  Sound(p, call'[p], fs')
<1> DEFINE c == call'[p]
<1>1. /\ c.op = r.op /\ c.from = r.from /\ c.at = r.at /\ c.own = r.own
      /\ c.todo = Agenda(r) /\ c.failed = FALSE /\ c.before = fs /\ fs' = fs
  BY DEF Call, FoldersInv
<1>2. c \in CallType
  BY DEF FoldersInv
<1>3. Tree(fs)
  BY KindFacts DEF FoldersInv
<1> HIDE DEF c
<1>4. Asked(c)
  BY <1>1, <1>2, <1>3 DEF Asked, Sensible
<1>5. Agenda(c) = Agenda(r)
  BY <1>1 DEF Agenda
<1>6. AtWork(p, c, fs)
  BY <1>1, <1>4, <1>5, WorkBegins
<1>7. Sound(p, c, fs)
  BY <1>1, <1>4, <1>6 DEF Sound, Works
<1> QED BY <1>1, <1>7 DEF c

\* What a call by p changes for the others: nothing.
LEMMA CallOfOther ==
  ASSUME FoldersInv, NEW p \in Proc, NEW r, Call(p, r), NEW o \in Proc \ {p}
  PROVE  call'[o] = call[o] /\ alone'[o] = alone[o] /\ fs' = fs
BY DEF Call, FoldersInv

\* The invariant of the next state.
LEMMA UndisturbedIsPrimed ==
  ASSUME \A o \in Proc : alone'[o] /\ call'[o].op # "none" => Sound(o, call'[o], fs')
  PROVE  Undisturbed'
BY DEF Undisturbed, Sound, Asked, Works, AtWork, Pardoned, Fulfilled

\* A call is made.
LEMMA UndisturbedCall ==
  ASSUME FoldersInv, FoldersInv', Undisturbed, NEW p \in Proc, NEW r, Sensible(r), Call(p, r)
  PROVE  Undisturbed'
<1> SUFFICES ASSUME NEW o \in Proc, alone'[o], call'[o].op # "none"
             PROVE  Sound(o, call'[o], fs')
  BY UndisturbedIsPrimed
<1>1. CASE o = p
  BY <1>1, SoundCall
<1>2. CASE o # p
  BY <1>2, CallOfOther DEF Undisturbed
<1> QED BY <1>1, <1>2

\* A process that goes on, and the others, which it disturbs if it changes
\* anything.
LEMMA UndisturbedByStep ==
  ASSUME FoldersInv, Undisturbed, NEW p \in Proc, Step(p)
  PROVE  Undisturbed'
<1> SUFFICES ASSUME NEW o \in Proc, alone'[o], call'[o].op # "none"
             PROVE  Sound(o, call'[o], fs')
  BY UndisturbedIsPrimed
<1>1. Stepping(p) /\ Noted(p)
  BY DEF Stepping, Step, FolderStep, DestructorStep
<1>2. alone[o] /\ (o = p \/ fs' = fs)
  BY <1>1 DEF Noted
<1>3. CASE o = p
  <2>1. call[p].op # "none" /\ alone[p]
    BY <1>2, <1>3, OnlyOwnCall
  <2>2. Sound(p, call[p], fs)
    BY <2>1 DEF Undisturbed
  <2>3. Sound(p, call'[p], fs')
    BY <1>1, <2>1, <2>2, SoundStep
  <2> QED BY <1>3, <2>3
<1>4. CASE o # p
  <2>1. call'[o] = call[o] /\ fs' = fs
    BY <1>2, <1>4, OnlyOwnCall
  <2>2. Sound(o, call[o], fs)
    BY <1>2, <2>1 DEF Undisturbed
  <2> QED BY <2>1, <2>2
<1> QED BY <1>3, <1>4

\* The invariant is inductive.
LEMMA UndisturbedStep ==
  FoldersInv /\ Managing /\ Undisturbed /\ [Next]_allVars => Undisturbed'
<1> SUFFICES ASSUME FoldersInv, Managing, Undisturbed, [Next]_allVars
             PROVE  Undisturbed'
  OBVIOUS
<1>1. FoldersInv'
  BY FoldersStep
<1>2. ASSUME NEW p \in Proc, Step(p) PROVE Undisturbed'
  BY <1>2, UndisturbedByStep
<1>3. ASSUME NEW p \in Proc, NEW r \in Request[p], Call(p, r) PROVE Undisturbed'
  BY <1>1, <1>3, RequestSensible, UndisturbedCall
<1>4. CASE UNCHANGED vars
  BY <1>4, UndisturbedIsPrimed DEF Undisturbed, vars
<1>5. ASSUME NEW h \in Handle, Destroy(h) PROVE Undisturbed'
  <2>1. CASE Manages(h)
    <3> DEFINE r == [op |-> "~PathRAII", from |-> managed[h], at |-> managed[h],
                     own |-> NoOwner]
    <3>1. managed[h] \in Path
      BY <2>1, HandleAssumption DEF Managing, ManagedType, Manages, Alive
    <3>2. Call(HandleOf[h], r) /\ HandleOf[h] \in Proc
      BY <1>5, <2>1, HandleAssumption DEF Destroy
    <3>3. Sensible(r)
      BY <3>1 DEF Sensible, Op
    <3> HIDE DEF r
    <3> QED BY <1>1, <3>2, <3>3, UndisturbedCall
  <2>2. CASE ~Manages(h)
    BY <1>4, <1>5, <2>2 DEF Destroy
  <2> QED BY <2>1, <2>2
<1>6. ASSUME NEW h \in Handle,
             \/ \E q \in Managed : Construct(h, q)
             \/ \E g \in Handle : MoveConstruct(h, g) \/ MoveAssign(h, g)
             \/ Release(h)
      PROVE  Undisturbed'
  BY <1>4, <1>6 DEF Construct, MoveConstruct, MoveAssign, Release
<1> QED BY <1>2, <1>3, <1>4, <1>5, <1>6, NextCases DEF allVars

\* A call that has ended is as good as its word.
LEMMA UndisturbedWork ==
  FoldersInv /\ Undisturbed => UndisturbedCallsWork
<1> SUFFICES ASSUME FoldersInv, Undisturbed,
                    NEW p \in Proc, alone[p], ~Active(p), call[p].op # "none"
             PROVE  IF Failed(p) THEN Excused(p) ELSE Promised(p)
  BY DEF UndisturbedCallsWork
<1>1. Sound(p, call[p], fs) /\ Asked(call[p])
  BY DEF Undisturbed, Sound
<1>2. CASE call[p].failed
  <2>1. Pardoned(p, call[p], fs)
    BY <1>1, <1>2 DEF Sound
  <2> QED BY <1>1, <1>2, <2>1, PardonedIsExcused DEF Failed
<1>3. CASE ~call[p].failed
  <2>1. call[p].todo = <<>> /\ Works(p, call[p], fs)
    BY <1>1, <1>3 DEF Sound, Active, Idle, Failed
  <2>2. Tree(fs)
    BY KindFacts DEF FoldersInv
  <2>3. Fulfilled(p, call[p], fs)
    BY <1>1, <2>1, <2>2, WorkEnds DEF Works
  <2> QED BY <1>1, <1>3, <2>3, FulfilledIsPromised DEF Failed
<1> QED BY <1>2, <1>3

\* A call during which no other process changes the file system does all that
\* its name promises, or throws for one of the reasons that Excused lists, for
\* every tree, every request and whatever the process may do.
THEOREM CallsWorkUndisturbed == Spec => []UndisturbedCallsWork
<1>1. PathInit => Undisturbed
  BY DEF PathInit, Init, Undisturbed
<1>2. FoldersInv /\ Managing /\ Undisturbed /\ [Next]_allVars => Undisturbed'
  BY UndisturbedStep
<1>3. FoldersInv /\ Undisturbed => UndisturbedCallsWork
  BY UndisturbedWork
<1> QED BY <1>1, <1>2, <1>3, FoldersInvariant, PTL DEF Spec
==============================================================================
