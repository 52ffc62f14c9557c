-------------------------- MODULE BindMountProofs --------------------------
(***************************************************************************)
(* Theorems about Identity and BindMount, for all users, groups, devices   *)
(* and depths, whichever system calls may fail.  The last part is about    *)
(* what the history variable of MCBindMount tells: why requests fail.      *)
(***************************************************************************)
EXTENDS MCBindMount, WellFoundedInduction, TLAPS

(* What the functions of module Identity do to the credentials.            *)

SameReal ==
  UNCHANGED <<cred.ruid, cred.suid, cred.rgid, cred.sgid, cred.noNewPrivs>>

LEMMA SwitchFacts ==
  ASSUME cred \in Cred, NEW identity \in UserIdentity, SwitchIdentity(identity)
  PROVE  /\ cred' \in Cred /\ SameReal
         /\ cred.euid' = identity.uid /\ cred.fsuid' = identity.uid
         /\ cred.egid' = identity.gid
         /\ cred.groups' = IF cred.euid = Root THEN identity.supplementaryGids
                                               ELSE cred.groups
         /\ cred.euid # Root => /\ identity.uid \in {cred.ruid, cred.euid, cred.suid}
                                /\ identity.gid \in {cred.rgid, cred.egid, cred.sgid}
BY DEF SwitchIdentity, SameReal, Cred, UserIdentity, WithEuid, GidSwitched,
       GroupsSwitched, Privileged, MaySetEuid, MaySetEgid

LEMMA SwitchThrowsFacts ==
  ASSUME cred \in Cred, NEW identity \in UserIdentity, SwitchIdentityThrows(identity)
  PROVE  /\ cred' \in Cred /\ SameReal
         /\ cred.euid' = cred.euid /\ cred.fsuid' = cred.fsuid
         /\ cred.euid # Root => /\ cred.groups' = cred.groups
                                /\ cred.egid' \in {cred.rgid, cred.egid, cred.sgid}
BY DEF SwitchIdentityThrows, SameReal, Cred, UserIdentity, GidSwitched,
       GroupsSwitched, Privileged, MaySetEuid, MaySetEgid

LEMMA FilesystemUidFacts ==
  ASSUME cred \in Cred, NEW identity \in UserIdentity, SetFilesystemUid(identity)
  PROVE  /\ cred' \in Cred /\ SameReal
         /\ UNCHANGED <<cred.euid, cred.egid, cred.groups>>
         /\ cred.fsuid' = identity.uid
         /\ cred.euid # Root =>
              identity.uid \in {cred.ruid, cred.euid, cred.suid, cred.fsuid}
BY DEF SetFilesystemUid, SameReal, Cred, UserIdentity, Privileged, MaySetFsuid

LEMMA DropFacts ==
  ASSUME cred \in Cred, NEW u \in Id, SwitchToUnprivilegedProcess(u, u)
  PROVE  /\ cred' \in Cred
         /\ {cred.ruid', cred.euid', cred.suid', cred.fsuid',
             cred.rgid', cred.egid', cred.sgid'} = {u}
         /\ cred.groups' = {}
BY DEF SwitchToUnprivilegedProcess, Cred, WithAllUids, WithAllGids, GidDropped,
       GroupsDropped, CapabilitiesDropped

LEMMA DropThrowsFacts ==
  ASSUME cred \in Cred, NEW u \in Id, SwitchToUnprivilegedProcessThrows(u, u)
  PROVE  /\ cred' \in Cred
         /\ UNCHANGED <<cred.ruid, cred.suid, cred.euid, cred.fsuid, cred.noNewPrivs>>
         /\ cred' = cred \/ cred.euid = Root
         /\ cred.rgid = cred.sgid => cred.rgid' = cred.sgid'
BY DEF SwitchToUnprivilegedProcessThrows, Cred, WithAllGids, GidDropped,
       GroupsDropped, CapabilitiesDropped, Privileged
-----------------------------------------------------------------------------
(* The credentials.  Nothing but a drop of root changes the real and saved *)
(* ids, so that the identity taken at the call can always be told from the *)
(* credentials: it is the real one.                                        *)

Mounting == {"bind", "remount", "propagation"}
AsRoot   == {"create", "filesystem user", "filesystem root"} \cup Mounting

CredInv ==
  /\ cred \in Cred /\ rootIdentity \in UserIdentity /\ user \in Id
  /\ cred.suid = cred.ruid /\ cred.sgid = cred.rgid
  /\ pc # "idle" => /\ user # Root
                    /\ rootIdentity.uid = cred.ruid
                    /\ rootIdentity.gid = cred.rgid
  /\ pc \in AsRoot => cred.euid = cred.ruid /\ cred.egid = cred.rgid
  /\ pc \in Mounting => cred.fsuid = user
  /\ cred.ruid = Root /\ cred.euid # Root => cred.groups = gids[cred.euid]
  /\ IdentityRestored
  /\ ValidatesAsUser
  /\ DroppedForGood

LEMMA CredInit == Init => CredInv
BY IdAssumption, GidsAssumption
   DEF Init, CredInv, RootCred, Cred, UserIdentity, IdentityOf, IdentityRestored,
       ValidatesAsUser, DroppedForGood, AsRoot, Mounting

LEMMA IdentityTypes ==
  /\ \A u \in Id : IdentityOf(u) \in UserIdentity
  /\ \A u \in Id : IdentityOf(u).uid = u /\ IdentityOf(u).gid = u
                   /\ IdentityOf(u).supplementaryGids = gids[u]
BY GidsAssumption DEF IdentityOf, UserIdentity

\* What a step may do to the credentials, and nobody else's business.
LEMMA CredKept ==
  ASSUME TypeOK, CredInv, UNCHANGED <<cred, rootIdentity, user>>,
         pc # "idle", pc' \in Step, pc' # "idle" \/ outcome' = "exception",
         pc' \in AsRoot => pc \in AsRoot,
         pc' \in Mounting => pc \in Mounting,
         pc' \in {"validate source", "validate destination"} =>
           pc \in {"validate source", "validate destination"}
  PROVE  CredInv'
BY DEF CredInv, IdentityRestored, ValidatesAsUser, DroppedForGood

LEMMA CredStep == TypeOK /\ CredInv /\ [Next]_vars => CredInv'
<1> SUFFICES ASSUME TypeOK, CredInv, [Next]_vars PROVE CredInv'
  OBVIOUS
<1> USE IdAssumption, IdentityTypes
<1> DEFINE Frame == UNCHANGED <<rootIdentity, user>>
<1>1. ASSUME NEW u \in Id \ {Root}, NEW s, NEW ro, NEW destination,
             ValidatedBindMount(u, s, ro, destination)
      PROVE  CredInv'
  <2>1. /\ pc' = "become user" /\ cred' = cred /\ user' = u
        /\ rootIdentity' = CurrentIdentity(cred)
    BY <1>1 DEF ValidatedBindMount, GoTo
  <2>2. /\ rootIdentity' \in UserIdentity
        /\ rootIdentity'.uid = cred.ruid /\ rootIdentity'.gid = cred.rgid
    BY <2>1 DEF CredInv, CurrentIdentity, UserIdentity, Cred
  <2> QED BY <2>1, <2>2 DEF CredInv, IdentityRestored, ValidatesAsUser,
                            DroppedForGood, AsRoot, Mounting
<1>2. ASSUME TakeResult PROVE CredInv'
  <2>1. /\ pc' = "idle" /\ cred' = cred /\ user' = Root /\ outcome' = "none"
        /\ rootIdentity' = IdentityOf(Root)
    BY <1>2 DEF TakeResult, Leave
  <2> QED BY <2>1 DEF CredInv, IdentityRestored, ValidatesAsUser, DroppedForGood,
                      AsRoot, Mounting
\* A switch, by whatever step, to an identity the process may take.
<1>3. ASSUME NEW identity \in UserIdentity, SwitchIdentity(identity), Frame,
             cred.ruid = Root /\ identity.uid # Root =>
               identity.supplementaryGids = gids[identity.uid]
      PROVE  /\ cred' \in Cred /\ SameReal /\ DroppedForGood'
             /\ cred.ruid' = Root /\ cred.euid' # Root =>
                  cred.groups' = gids[cred.euid']
             /\ cred.euid' = identity.uid /\ cred.fsuid' = identity.uid
             /\ cred.egid' = identity.gid
  BY <1>3, SwitchFacts DEF CredInv, SameReal, DroppedForGood
<1>4. ASSUME NEW identity \in UserIdentity, SwitchIdentityThrows(identity), Frame
      PROVE  /\ cred' \in Cred /\ SameReal /\ DroppedForGood'
             /\ cred.ruid' = Root /\ cred.euid' # Root =>
                  cred.groups' = gids[cred.euid']
  BY <1>4, SwitchThrowsFacts DEF CredInv, SameReal, DroppedForGood
<1>5. ASSUME NEW u \in Switcher, CallSwitchIdentity(u) PROVE CredInv'
  <2>1. /\ pc = "idle" /\ pc' = "idle" /\ outcome' = "none" /\ Frame
        /\ SwitchIdentity(IdentityOf(u)) \/ SwitchIdentityThrows(IdentityOf(u))
    BY <1>5 DEF CallSwitchIdentity, request
  <2>2. /\ cred' \in Cred /\ SameReal /\ DroppedForGood'
        /\ cred.ruid' = Root /\ cred.euid' # Root =>
             cred.groups' = gids[cred.euid']
    BY <1>3, <1>4, <2>1, SwitcherAssumption
  <2> QED BY <2>1, <2>2 DEF CredInv, SameReal, IdentityRestored, ValidatesAsUser,
                            AsRoot, Mounting
<1>6. ASSUME NEW u \in Id \ {Root}, CallSwitchToUnprivilegedProcess(u)
      PROVE  CredInv'
  <2>1. /\ pc = "idle" /\ pc' = "idle" /\ outcome' = "none" /\ Frame
        /\ \/ SwitchToUnprivilegedProcess(u, u)
           \/ SwitchToUnprivilegedProcessThrows(u, u)
    BY <1>6 DEF CallSwitchToUnprivilegedProcess, request
  <2>2. CASE SwitchToUnprivilegedProcess(u, u)
    BY <2>1, <2>2, DropFacts DEF CredInv, IdentityRestored, ValidatesAsUser,
                                 DroppedForGood, AsRoot, Mounting
  <2>3. CASE SwitchToUnprivilegedProcessThrows(u, u)
    BY <2>1, <2>3, DropThrowsFacts DEF CredInv, IdentityRestored, ValidatesAsUser,
                                       DroppedForGood, AsRoot, Mounting
  <2> QED BY <2>1, <2>2, <2>3
<1>7. ASSUME BecomeUser PROVE CredInv'
  <2>1. pc = "become user" /\ Frame
    BY <1>7 DEF BecomeUser, request
  <2>2. CASE SwitchIdentity(IdentityOf(user)) /\ pc' = "validate source"
    <3>1. user \in Id /\ IdentityOf(user) \in UserIdentity
      BY DEF CredInv
    <3>2. /\ cred' \in Cred /\ SameReal /\ DroppedForGood'
          /\ cred.ruid' = Root /\ cred.euid' # Root =>
               cred.groups' = gids[cred.euid']
          /\ cred.euid' = user /\ cred.fsuid' = user /\ cred.egid' = user
      BY <1>3, <2>1, <2>2, <3>1
    <3>3. /\ cred.suid' = cred.ruid' /\ cred.sgid' = cred.rgid'
          /\ user' \in Id /\ rootIdentity' \in UserIdentity /\ user' # Root
          /\ rootIdentity.uid' = cred.ruid' /\ rootIdentity.gid' = cred.rgid'
      BY <2>1, <3>2 DEF CredInv, SameReal
    <3>4. pc' \notin AsRoot \cup Mounting
      BY <2>2 DEF AsRoot, Mounting
    <3>5. IdentityRestored'
      BY <2>2 DEF IdentityRestored
    <3>6. ValidatesAsUser'
      <4>1. user' = user /\ {cred.euid', cred.fsuid', cred.egid'} = {user}
        BY <2>1, <3>2
      <4>2. cred.ruid' = Root => cred.groups' = gids[user]
        BY <2>1, <3>2, <3>3
      <4> QED BY <4>1, <4>2 DEF ValidatesAsUser
    <3> QED BY <2>1, <3>2, <3>3, <3>4, <3>5, <3>6 DEF CredInv
  <2>3. CASE SwitchIdentityThrows(IdentityOf(user)) /\ pc' = "handler"
    <3>1. IdentityOf(user) \in UserIdentity
      BY DEF CredInv
    <3>2. /\ cred' \in Cred /\ SameReal /\ DroppedForGood'
          /\ cred.ruid' = Root /\ cred.euid' # Root =>
               cred.groups' = gids[cred.euid']
      BY <1>4, <2>1, <2>3, <3>1
    <3> QED BY <2>1, <2>3, <3>2 DEF CredInv, SameReal, IdentityRestored,
                                    ValidatesAsUser, AsRoot, Mounting
  <2> QED BY <1>7, <2>2, <2>3 DEF BecomeUser, GoTo, ThrowError
<1>8. ASSUME SwitchIdentity(rootIdentity), Frame, pc # "idle"
      PROVE  /\ cred' \in Cred /\ SameReal /\ DroppedForGood'
             /\ cred.ruid' = Root /\ cred.euid' # Root =>
                  cred.groups' = gids[cred.euid']
             /\ cred.euid' = cred.ruid /\ cred.fsuid' = cred.ruid
             /\ cred.egid' = cred.rgid
  BY <1>3, <1>8 DEF CredInv
<1>9. ASSUME SwitchIdentityThrows(rootIdentity), Frame
      PROVE  /\ cred' \in Cred /\ SameReal /\ DroppedForGood'
             /\ cred.ruid' = Root /\ cred.euid' # Root =>
                  cred.groups' = gids[cred.euid']
  BY <1>4, <1>9 DEF CredInv
<1>10. ASSUME BecomeRoot PROVE CredInv'
  <2>1. pc = "become root" /\ Frame
    BY <1>10 DEF BecomeRoot, request
  <2>2. CASE SwitchIdentity(rootIdentity) /\ pc' = "create"
    BY <1>8, <2>1, <2>2 DEF CredInv, SameReal, IdentityRestored, ValidatesAsUser,
                            AsRoot, Mounting
  <2>3. CASE SwitchIdentityThrows(rootIdentity) /\ pc' = "handler"
    BY <1>9, <2>1, <2>3 DEF CredInv, SameReal, IdentityRestored, ValidatesAsUser,
                            AsRoot, Mounting
  <2> QED BY <1>10, <2>2, <2>3 DEF BecomeRoot, GoTo, ThrowError
<1>11. ASSUME RestoreAndRethrow PROVE CredInv'
  <2>1. pc = "handler" /\ Frame
    BY <1>11 DEF RestoreAndRethrow, request
  <2>2. CASE SwitchIdentity(rootIdentity) /\ pc' = "idle" /\ outcome' = "Error"
    BY <1>8, <2>1, <2>2 DEF CredInv, SameReal, IdentityRestored, ValidatesAsUser,
                            AsRoot, Mounting
  <2>3. CASE SwitchIdentityThrows(rootIdentity) /\ pc' = "idle"
             /\ outcome' = "not restored"
    BY <1>9, <2>1, <2>3 DEF CredInv, SameReal, IdentityRestored, ValidatesAsUser,
                            AsRoot, Mounting
  <2> QED BY <1>11, <2>2, <2>3 DEF RestoreAndRethrow, Leave
\* The filesystem uid becomes the user's, and the real one again.
<1>12. ASSUME NEW identity \in UserIdentity, SetFilesystemUid(identity), Frame
       PROVE  /\ cred' \in Cred /\ SameReal /\ DroppedForGood'
              /\ UNCHANGED <<cred.euid, cred.egid, cred.groups>>
              /\ cred.fsuid' = identity.uid
  BY <1>12, FilesystemUidFacts DEF CredInv, SameReal, DroppedForGood
<1>13. ASSUME BecomeFilesystemUser PROVE CredInv'
  <2>1. pc = "filesystem user" /\ Frame
    BY <1>13 DEF BecomeFilesystemUser, request
  <2>2. CASE SetFilesystemUid(IdentityOf(user)) /\ pc' = "bind"
    <3>1. user \in Id /\ IdentityOf(user) \in UserIdentity
      BY DEF CredInv
    <3> QED BY <1>12, <2>1, <2>2, <3>1
            DEF CredInv, SameReal, IdentityRestored, ValidatesAsUser, AsRoot, Mounting
  <2>3. CASE cred' = cred /\ pc' = "handler"
    BY <2>1, <2>3, CredKept DEF AsRoot, Mounting, Step
  <2> QED BY <1>13, <2>2, <2>3
          DEF BecomeFilesystemUser, GoTo, ThrowError, SetFilesystemUidThrows
<1>14. ASSUME BecomeFilesystemRoot PROVE CredInv'
  <2>1. pc = "filesystem root" /\ Frame
    BY <1>14 DEF BecomeFilesystemRoot, request
  <2>2. CASE SetFilesystemUid(rootIdentity) /\ pc' = "idle" /\ outcome' = "returned"
    BY <1>12, <2>1, <2>2 DEF CredInv, SameReal, IdentityRestored, ValidatesAsUser,
                             AsRoot, Mounting
  <2>3. CASE cred' = cred /\ pc' = "handler"
    BY <2>1, <2>3, CredKept DEF AsRoot, Mounting, Step
  <2> QED BY <1>14, <2>2, <2>3
          DEF BecomeFilesystemRoot, Leave, GoTo, ThrowError, SetFilesystemUidThrows
\* The steps that leave the credentials alone.
<1>15. ASSUME GetValidatedMountSource \/ GetValidatedMountDestination
       PROVE  CredInv'
  BY <1>15, CredKept DEF GetValidatedMountSource, GetValidatedMountDestination,
       GoTo, ThrowError, ThrowException, Leave, request, AsRoot, Mounting, Step
<1>16. ASSUME CreateMountPoint PROVE CredInv'
  BY <1>16, CredKept DEF CreateMountPoint, GoTo, ThrowError, ThrowException, Leave,
       request, AsRoot, Mounting, Step
<1>17. ASSUME Bind \/ Remount \/ MakePrivate PROVE CredInv'
  BY <1>17, CredKept DEF Bind, Remount, MakePrivate, MountCall, GoTo, ThrowError,
       request, AsRoot, Mounting, Step
<1>18. CASE UNCHANGED vars
  BY <1>18 DEF vars, request, CredInv, IdentityRestored, ValidatesAsUser,
               DroppedForGood
<1> QED BY <1>1, <1>2, <1>5, <1>6, <1>7, <1>10, <1>11, <1>13, <1>14, <1>15, <1>16,
           <1>17, <1>18 DEF Next, Call

(* The destination.  It is what was validated until the mount point is     *)
(* created, and the mount point is on the device that was validated.       *)

IsDestination == [kind |-> kind, device |-> device] \in Destination

\* The component whose device decides.
Target == IF kind[Depth] = "file" THEN Depth - 1 ELSE DeepestExisting

ToCreate   == {"become root", "create"}
Untouched  == {"become user", "validate source", "validate destination"} \cup ToCreate
Validated  == ToCreate \cup {"filesystem user", "filesystem root"} \cup Mounting

ReadOnly == IF readOnly THEN {"rdonly"} ELSE {}

PathInv ==
  /\ pc # "idle" => IsDestination /\ outcome = "none"
  /\ pc = "idle" /\ outcome = "none" => owner = NoneCreated /\ mount = {}
  /\ pc \in Untouched => owner = NoneCreated /\ mount = {}
  /\ pc \in Validated \cup {"validate destination"} => source # "none"
  /\ pc \in Validated => IsOnAllowedDevice(Target)
  /\ pc \in {"filesystem user", "bind"} => mount = {}
  /\ pc = "remount" => mount = {"bound"}
  /\ pc = "propagation" => mount = {"bound", "nosuid"} \cup ReadOnly
  /\ pc = "filesystem root" => mount = {"bound", "nosuid", "private"} \cup ReadOnly
  /\ ReturnedIsMounted
  /\ OnlyValidatedChanges

LEMMA DestinationDef ==
  IsDestination <=>
    /\ kind \in [Component -> Kind]
    /\ device \in [Component -> Device \cup {NoDevice}]
    /\ kind[1] = "dir"
    /\ \A i \in Component \ {1} : kind[i] # "none" => kind[i - 1] = "dir"
    /\ \A i \in Component : kind[i] = "none" <=> device[i] = NoDevice
BY DEF IsDestination, Destination

LEMMA ComponentFacts ==
  /\ Component \subseteq Nat /\ 1 \in Component /\ Depth \in Component
  /\ \A i \in Component : i <= Depth /\ (i # 1 => i - 1 \in Component)
BY DepthAssumption DEF Component

LEMMA LeastNatural ==
  ASSUME NEW T, T \subseteq Nat, T # {}
  PROVE  \E n \in T : \A k \in T : n <= k
<1> DEFINE R == {ss \in Nat \X Nat : ss[1] < ss[2]}
<1>1. IsWellFoundedOn(R, Nat)
  BY NatLessThanWellFounded DEF OpToRel
<1>2. PICK n \in T : \A k \in T : ~(<<k, n>> \in R)
  <2> HIDE DEF R
  <2> QED BY <1>1, WFMin
<1>3. \A k \in T : ~(k < n)
  BY <1>2
<1> QED BY <1>3

\* Only directories are above a component that exists.
LEMMA Prefix ==
  IsDestination =>
    \A i, j \in Component : i < j /\ kind[j] # "none" => kind[i] = "dir"
<1> SUFFICES ASSUME IsDestination,
                    NEW i \in Component, NEW j \in Component,
                    i < j, kind[j] # "none", kind[i] # "dir"
             PROVE  FALSE
  OBVIOUS
<1> DEFINE T == {k \in Component : i < k /\ kind[k] # "none"}
<1>1. PICK k \in T : \A n \in T : k <= n
  <2>1. T \subseteq Nat /\ T # {}
    BY ComponentFacts
  <2> QED BY <2>1, LeastNatural
<1>2. k \in Component /\ i < k /\ k # 1 /\ kind[k] # "none"
  BY ComponentFacts
<1>3. kind[k - 1] = "dir" /\ k - 1 \in Component
  BY <1>2, DestinationDef, ComponentFacts
<1>4. i < k - 1
  BY <1>2, <1>3, ComponentFacts
<1>5. k - 1 \in T
  BY <1>3, <1>4
<1> QED BY <1>1, <1>2, <1>5, ComponentFacts

IsDeepest(i) ==
  /\ i \in Component /\ kind[i] # "none"
  /\ \A j \in Component : i < j => kind[j] = "none"

LEMMA Deepest == IsDestination => IsDeepest(DeepestExisting)
<1> SUFFICES ASSUME IsDestination PROVE IsDeepest(DeepestExisting)
  OBVIOUS
<1> DEFINE T == {n \in Nat : Depth - n \in Component /\ kind[Depth - n] # "none"}
<1>1. Depth - 1 \in T
  <2>1. Depth - (Depth - 1) = 1 /\ Depth - 1 \in Nat
    BY DepthAssumption
  <2> QED BY <2>1, DestinationDef, ComponentFacts
<1>2. PICK n \in T : \A k \in T : n <= k
  <2>1. T \subseteq Nat /\ T # {}
    BY <1>1
  <2> QED BY <2>1, LeastNatural
<1>3. \A j \in Component : Depth - n < j => kind[j] = "none"
  <2> SUFFICES ASSUME NEW j \in Component, Depth - n < j, kind[j] # "none"
               PROVE  FALSE
    OBVIOUS
  <2>1. Depth - j \in Nat /\ Depth - (Depth - j) = j
    BY DepthAssumption, ComponentFacts
  <2>2. Depth - j \in T
    BY <2>1
  <2> QED BY <1>2, <2>2, DepthAssumption, ComponentFacts
<1>4. IsDeepest(Depth - n)
  BY <1>3 DEF IsDeepest
<1> HIDE DEF T
<1> QED BY <1>4, ComponentFacts DEF IsDeepest, DeepestExisting

LEMMA DeepestIsUnique ==
  \A i, j : IsDeepest(i) /\ IsDeepest(j) => i = j
BY ComponentFacts DEF IsDeepest

\* What the creation of the components down to i keeps.
LEMMA CreateFacts ==
  ASSUME IsDestination, cred \in Cred, user \in Id,
         owner \in [Component -> Owner], source \in {"dir", "file"},
         NEW i \in Component, DeepestExisting <= i,
         kind[DeepestExisting] = "dir" \/ i = DeepestExisting,
         CreateUpTo(i, source)
  PROVE  /\ IsDestination' /\ owner' \in [Component -> Owner]
         /\ IsOnAllowedDevice(Target) => IsOnAllowedDevice(Target)'
<1> DEFINE d   == DeepestExisting
           new == {j \in Component : kind[j] = "none" /\ j <= i}
<1>1. IsDeepest(d)
  BY Deepest
<1>2. d \in Component /\ kind[d] # "none" /\ \A j \in Component : d < j => kind[j] = "none"
  BY <1>1 DEF IsDeepest
<1> HIDE DEF d
<1>3. /\ kind' = [j \in Component |-> IF j \notin new THEN kind[j]
                                      ELSE IF j = Depth THEN source ELSE "dir"]
      /\ device' = [j \in Component |-> IF j \in new THEN device[d] ELSE device[j]]
      /\ \E failed \in SUBSET new :
           owner' = [j \in Component |-> IF j \in failed THEN cred.fsuid
                                        ELSE IF j \in new THEN user ELSE owner[j]]
  BY DEF CreateUpTo, d
<1>4. d <= i /\ (kind[d] = "dir" \/ i = d)
  BY DEF d
<1>5. \A j \in new : d < j /\ j <= i /\ kind[d] = "dir"
  <2> SUFFICES ASSUME NEW j \in new PROVE d < j /\ kind[d] = "dir"
    OBVIOUS
  <2>1. j \in Component /\ kind[j] = "none" /\ j # d /\ j <= i
    BY <1>2
  <2>2. ~(j < d)
    BY <2>1, <1>2, Prefix
  <2> QED BY <2>1, <2>2, <1>2, <1>4, ComponentFacts
\* The component above a new one is new or the deepest.
<1>6. \A j \in new : j # 1 /\ j - 1 \in Component /\ (j - 1 \in new \/ j - 1 = d)
  <2> SUFFICES ASSUME NEW j \in new
               PROVE  j # 1 /\ j - 1 \in Component /\ (j - 1 \in new \/ j - 1 = d)
    OBVIOUS
  <2>1. j \in Component /\ kind[j] = "none" /\ j <= i /\ d < j
    BY <1>5
  <2>2. j # 1 /\ j - 1 \in Component
    BY <2>1, DestinationDef, ComponentFacts
  <2>3. CASE kind[j - 1] = "none"
    BY <2>1, <2>2, <2>3, ComponentFacts
  <2>4. CASE kind[j - 1] # "none"
    BY <2>1, <2>2, <2>4, <1>2, ComponentFacts
  <2> QED BY <2>2, <2>3, <2>4
<1>7. \A j \in Component \ new : kind'[j] = kind[j] /\ device'[j] = device[j]
  BY <1>3
<1>8. /\ \A j \in new : kind'[j] \in {"dir", "file"} /\ device'[j] = device[d]
      /\ \A j \in new : j # Depth => kind'[j] = "dir"
  BY <1>3
<1> HIDE DEF new
<1>9. new \subseteq Component /\ d \in Component \ new /\ 1 \in Component \ new
  BY <1>2, DestinationDef, ComponentFacts DEF new
<1>10. device[d] \in Device
  BY <1>2, DestinationDef
<1>11. IsDestination'
  <2>1. kind' \in [Component -> Kind] /\ device' \in [Component -> Device \cup {NoDevice}]
    BY <1>3, <1>10, DestinationDef DEF Kind
  <2>2. kind'[1] = "dir"
    BY <1>7, <1>9, DestinationDef
  <2>3. ASSUME NEW j \in Component \ {1}, kind'[j] # "none" PROVE kind'[j - 1] = "dir"
    <3>1. CASE j \in new
      <4>1. kind[d] = "dir" /\ j - 1 # Depth
        BY <3>1, <1>5, <1>6, ComponentFacts
      <4> QED BY <3>1, <4>1, <1>6, <1>7, <1>8, <1>9
    <3>2. CASE j \notin new
      <4>1. kind[j - 1] = "dir" /\ j - 1 \in Component
        BY <2>3, <3>2, <1>7, DestinationDef, ComponentFacts
      <4>2. j - 1 \notin new
        BY <4>1 DEF new
      <4> QED BY <4>1, <4>2, <1>7
    <3> QED BY <3>1, <3>2
  <2>4. \A j \in Component : kind'[j] = "none" <=> device'[j] = NoDevice
    BY <1>7, <1>8, <1>10, DestinationDef, DeviceAssumption
  <2> QED BY <2>1, <2>2, <2>3, <2>4 DEF IsDestination, Destination
<1>12. owner' \in [Component -> Owner]
  BY <1>3 DEF Owner, Cred
<1>13. DeepestExisting' = i
  <2>1. IsDeepest(DeepestExisting)'
    <3>1. (IsDestination => IsDeepest(DeepestExisting))'
      BY Deepest, PTL
    <3> QED BY <3>1, <1>11
  <2>2. i \in Component /\ kind'[i] # "none"
    BY <1>2, <1>4, <1>7, <1>8, ComponentFacts DEF new
  <2>3. \A j \in Component : i < j => kind'[j] = "none"
    <3> SUFFICES ASSUME NEW j \in Component, i < j PROVE kind'[j] = "none"
      OBVIOUS
    <3>1. d < j /\ ~(j <= i)
      BY <1>2, <1>4, ComponentFacts
    <3>2. j \notin new
      BY <3>1 DEF new
    <3> QED BY <3>1, <3>2, <1>2, <1>7
  <2> QED BY <2>1, <2>2, <2>3, ComponentFacts DEF IsDeepest
<1>14. device'[i] = device[d]
  <2>1. CASE i \in new
    BY <2>1, <1>8
  <2>2. CASE i \notin new
    <3>1. i = d
      BY <2>2, <1>2, <1>4, ComponentFacts DEF new
    <3> QED BY <2>2, <3>1, <1>7
  <2> QED BY <2>1, <2>2
<1>15. device'[1] = device[1]
  BY <1>7, <1>9
<1>16. device'[Target'] = device[Target]
  <2>1. CASE kind[Depth] = "file"
    <3>1. Depth \notin new /\ Depth \in Component /\ Depth # 1
      BY <2>1, DestinationDef, ComponentFacts DEF new
    <3>2. Depth - 1 \in Component /\ kind[Depth - 1] = "dir"
      BY <2>1, <3>1, DestinationDef, ComponentFacts
    <3>3. Depth - 1 \notin new /\ kind'[Depth] = "file"
      BY <2>1, <3>1, <3>2, <1>7 DEF new
    <3> QED BY <2>1, <3>2, <3>3, <1>7 DEF Target
  <2>2. CASE kind[Depth] # "file" /\ kind'[Depth] = "file"
    <3>1. Depth \in new
      BY <2>2, <1>7, ComponentFacts
    <3>2. device'[Depth - 1] = device[d]
      BY <3>1, <1>6, <1>7, <1>8, <1>9
    <3> QED BY <2>2, <3>2 DEF Target, d
  <2>3. CASE kind[Depth] # "file" /\ kind'[Depth] # "file"
    BY <2>3, <1>13, <1>14 DEF Target, d
  <2> QED BY <2>1, <2>2, <2>3
<1> QED BY <1>11, <1>12, <1>15, <1>16 DEF IsOnAllowedDevice

LEMMA PathInit == Init => PathInv
BY DEF Init, PathInv, NoneCreated, ReturnedIsMounted, OnlyValidatedChanges, Untouched,
       ToCreate, Validated, Mounting

\* The component that is checked is the one that decides.
LEMMA CheckedIsTarget == IsDestination => Checked = Target
BY DestinationDef, ComponentFacts DEF Checked, Target

LEMMA PathTypes ==
  TypeOK => /\ source \in Kind /\ owner \in [Component -> Owner]
            /\ pc \in Step /\ outcome \in Outcome
BY DEF TypeOK

\* A step of validatedBindMount that leaves the path and the mount alone.
LEMMA PathKept ==
  ASSUME TypeOK, PathInv, UNCHANGED <<request, path, mount>>,
         pc # "idle", pc' # "idle" => outcome' = outcome,
         pc' = "idle" => outcome' \in Outcome \ {"none", "returned"},
         pc' \in Untouched => pc \in Untouched,
         pc' \in Validated => pc \in Validated,
         pc' = "validate destination" => source # "none",
         pc' \in {"filesystem user", "bind"} => pc \in {"filesystem user", "bind"},
         pc' \notin {"remount", "propagation", "filesystem root"}
  PROVE  PathInv'
<1>1. UNCHANGED <<source, readOnly, kind, device, owner, mount>>
  BY DEF request, path
<1>2. DeepestExisting' = DeepestExisting
  BY <1>1 DEF DeepestExisting
<1>3. /\ (source \in Kind)' /\ Target' = Target /\ ReadOnly' = ReadOnly
      /\ IsDestination' = IsDestination
  <2>1. Target' = Target
    BY <1>1, <1>2 DEF Target
  <2>2. IsDestination' = IsDestination
    BY <1>1 DEF IsDestination
  <2> QED BY <1>1, <2>1, <2>2, PathTypes DEF ReadOnly
<1>4. IsOnAllowedDevice(Target)' = IsOnAllowedDevice(Target)
  BY <1>1, <1>3 DEF IsOnAllowedDevice
<1>5. OnlyValidatedChanges'
  BY <1>1 DEF PathInv, OnlyValidatedChanges, DeepestExisting, IsOnAllowedDevice
<1>6. ReturnedIsMounted'
  BY <1>1 DEF PathInv, ReturnedIsMounted
<1> QED BY <1>1, <1>3, <1>4, <1>5, <1>6 DEF PathInv

\* What was validated stays true of the path while it is unchanged.
LEMMA StillValidated ==
  ASSUME PathInv, pc \in Validated, UNCHANGED <<request, path>>
  PROVE  /\ IsDestination' /\ source' # "none" /\ ReadOnly' = ReadOnly
         /\ IsOnAllowedDevice(Target)' /\ OnlyValidatedChanges'
<1>1. /\ IsDestination /\ source # "none" /\ IsOnAllowedDevice(Target)
  BY DEF PathInv, Validated, ToCreate, Mounting
<1>2. UNCHANGED <<source, readOnly, kind, device>>
  BY DEF request, path
<1>3. DeepestExisting' = DeepestExisting
  BY <1>2 DEF DeepestExisting
<1>4. Target' = Target
  BY <1>2, <1>3 DEF Target
<1>5. IsOnAllowedDevice(Target)'
  BY <1>1, <1>2, <1>4 DEF IsOnAllowedDevice
<1>6. OnlyValidatedChanges'
  BY <1>1, <1>2, <1>5 DEF OnlyValidatedChanges, Target
<1> QED BY <1>1, <1>2, <1>5, <1>6 DEF IsDestination, ReadOnly

\* Whatever CreateMountPoint makes, it stays what was validated.
LEMMA MountPointFacts ==
  ASSUME TypeOK, CredInv, PathInv, CreateMountPoint
  PROVE  IsDestination' /\ owner' \in [Component -> Owner] /\ IsOnAllowedDevice(Target)'
<1> DEFINE Kept == IsDestination' /\ owner' \in [Component -> Owner] /\ IsOnAllowedDevice(Target)'
<1>1. /\ pc = "create" /\ mount' = mount /\ UNCHANGED request
  BY DEF CreateMountPoint
<1>2. /\ IsDestination /\ mount = {} /\ owner = NoneCreated
      /\ source \in {"dir", "file"} /\ IsOnAllowedDevice(Target)
  BY <1>1, PathTypes DEF PathInv, Untouched, ToCreate, Validated, Kind
<1>3. IsDeepest(DeepestExisting)
  BY <1>2, Deepest
<1>4. ASSUME NEW i \in Component, DeepestExisting <= i,
             kind[DeepestExisting] = "dir" \/ i = DeepestExisting,
             CreateUpTo(i, source)
      PROVE  Kept
  BY <1>2, <1>4, CreateFacts, PathTypes DEF CredInv
<1>5. ASSUME UNCHANGED path
      PROVE  Kept
  BY <1>1, <1>5, StillValidated, PathTypes DEF Validated, ToCreate, path
<1>6. Kept
  <2>1. CASE /\ kind[Depth] # "none" \/ kind[DeepestExisting] = "dir"
             /\ CreateUpTo(Depth, source)
    <3>1. kind[Depth] # "none" => Depth = DeepestExisting
      BY <1>3, ComponentFacts DEF IsDeepest
    <3> QED BY <1>3, <1>4, <2>1, <3>1, ComponentFacts DEF IsDeepest
  <2>2. CASE \E i \in DeepestExisting..Depth :
               /\ kind[DeepestExisting] # "dir" => i = DeepestExisting
               /\ CreateUpTo(i, source)
    <3>1. PICK i \in DeepestExisting..Depth :
               /\ kind[DeepestExisting] # "dir" => i = DeepestExisting
               /\ CreateUpTo(i, source)
      BY <2>2
    <3>2. i \in Component /\ DeepestExisting <= i
      BY <1>3, <3>1 DEF IsDeepest, Component
    <3> QED BY <1>4, <3>1, <3>2
  <2>3. CASE UNCHANGED path
    BY <1>5, <2>3
  <2>4. kind[DeepestExisting] \in {"dir", "file"}
    BY <1>2, <1>3, DestinationDef DEF IsDeepest, Kind
  <2>5. \A i \in DeepestExisting..Depth - 1 : i \in DeepestExisting..Depth
    BY <1>3, DepthAssumption DEF IsDeepest, Component
  <2> HIDE DEF Kept
  <2> QED BY <2>1, <2>2, <2>3, <2>4, <2>5 DEF CreateMountPoint
<1> QED BY <1>6

LEMMA PathStep == TypeOK /\ CredInv /\ PathInv /\ [Next]_vars => PathInv'
<1> SUFFICES ASSUME TypeOK, CredInv, PathInv, [Next]_vars PROVE PathInv'
  OBVIOUS
<1> DEFINE Frame == UNCHANGED <<request, path, mount>>
<1>1. ASSUME NEW u, NEW s \in Kind, NEW ro, NEW destination \in Destination,
             ValidatedBindMount(u, s, ro, destination)
      PROVE  PathInv'
  <2>1. [kind |-> destination.kind, device |-> destination.device] \in Destination
    BY DEF Destination
  <2>2. /\ pc' = "become user" /\ outcome' = "none" /\ owner' = NoneCreated
        /\ mount' = {} /\ kind' = destination.kind /\ device' = destination.device
    BY <1>1 DEF ValidatedBindMount, GoTo
  <2>3. IsDestination'
    BY <2>1, <2>2 DEF IsDestination
  <2> QED BY <2>2, <2>3 DEF PathInv, NoneCreated, ReturnedIsMounted,
             OnlyValidatedChanges, Untouched, ToCreate, Validated, Mounting
<1>2. ASSUME TakeResult PROVE PathInv'
  <2>1. /\ pc' = "idle" /\ outcome' = "none" /\ owner' = NoneCreated /\ mount' = {}
    BY <1>2 DEF TakeResult, Leave
  <2> QED BY <2>1 DEF PathInv, NoneCreated, ReturnedIsMounted, OnlyValidatedChanges,
             Untouched, ToCreate, Validated, Mounting
<1>3. ASSUME NEW u, CallSwitchIdentity(u) \/ CallSwitchToUnprivilegedProcess(u)
      PROVE  PathInv'
  <2>1. pc' = "idle" /\ outcome' = "none" /\ owner' = NoneCreated /\ mount' = {}
    BY <1>3 DEF CallSwitchIdentity, CallSwitchToUnprivilegedProcess, path, PathInv
  <2> QED BY <2>1 DEF PathInv, NoneCreated, ReturnedIsMounted, OnlyValidatedChanges,
             Untouched, ToCreate, Validated, Mounting
<1>4. ASSUME BecomeUser PROVE PathInv'
  <2>1. /\ pc = "become user" /\ pc' \in {"validate source", "handler"}
        /\ Frame /\ outcome' = outcome
    BY <1>4 DEF BecomeUser, GoTo, ThrowError
  <2> QED BY <2>1, PathKept DEF Untouched, ToCreate, Validated, Mounting, Step,
     Outcome
<1>5. ASSUME GetValidatedMountSource PROVE PathInv'
  <2>1. /\ pc = "validate source" /\ Frame
        /\ \/ pc' = "validate destination" /\ source # "none" /\ outcome' = outcome
           \/ pc' = "handler" /\ outcome' = outcome
           \/ pc' = "idle" /\ outcome' = "exception"
    BY <1>5 DEF GetValidatedMountSource, GoTo, ThrowError, ThrowException, Leave
  <2> QED BY <2>1, PathKept DEF Untouched, ToCreate, Validated, Mounting, Step,
     Outcome
<1>6. ASSUME GetValidatedMountDestination PROVE PathInv'
  <2>1. pc = "validate destination" /\ Frame
    BY <1>6 DEF GetValidatedMountDestination
  <2>2. CASE IsOnAllowedDevice(Checked) /\ pc' = "become root" /\ outcome' = outcome
    <3>1. /\ IsDestination /\ owner = NoneCreated /\ mount = {} /\ source # "none"
      BY <2>1 DEF PathInv, Untouched
    <3>2. IsOnAllowedDevice(Target)
      BY <2>2, <3>1, CheckedIsTarget
    <3>3. DeepestExisting' = DeepestExisting
      BY <2>1 DEF DeepestExisting, path
    <3>4. /\ IsDestination' /\ owner' = NoneCreated /\ mount' = {} /\ source' # "none"
      BY <2>1, <3>1 DEF IsDestination, path, request, NoneCreated
    <3>5. Target' = Target
      BY <2>1, <3>3 DEF Target, path
    <3>6. IsOnAllowedDevice(Target)'
      BY <2>1, <3>2, <3>5 DEF IsOnAllowedDevice, path
    <3>7. OnlyValidatedChanges' /\ ReturnedIsMounted'
      BY <2>1, <2>2, <3>4, <3>6 DEF OnlyValidatedChanges, Target, ReturnedIsMounted,
         PathInv, NoneCreated, request
    <3>8. outcome' = "none"
      BY <2>1, <2>2 DEF PathInv
    <3> QED BY <2>2, <3>4, <3>6, <3>7, <3>8 DEF PathInv, Mounting, NoneCreated
  <2>3. CASE \/ pc' = "handler" /\ outcome' = outcome
             \/ pc' = "idle" /\ outcome' = "exception"
    BY <2>1, <2>3, PathKept DEF Untouched, ToCreate, Validated, Mounting, Step,
     Outcome
  <2> QED BY <1>6, <2>2, <2>3 DEF GetValidatedMountDestination, GoTo, ThrowError,
                                  ThrowException, Leave
<1>7. ASSUME BecomeRoot PROVE PathInv'
  <2>1. /\ pc = "become root" /\ pc' \in {"create", "handler"}
        /\ Frame /\ outcome' = outcome
    BY <1>7 DEF BecomeRoot, GoTo, ThrowError
  <2> QED BY <2>1, PathKept DEF Untouched, ToCreate, Validated, Mounting, Step,
     Outcome
<1>8. ASSUME CreateMountPoint PROVE PathInv'
  <2>1. /\ pc = "create" /\ mount' = mount /\ UNCHANGED request
    BY <1>8 DEF CreateMountPoint
  <2>2. mount = {} /\ source # "none"
    BY <2>1 DEF PathInv, Untouched, ToCreate, Validated
  <2>6. IsDestination' /\ IsOnAllowedDevice(Target)'
    BY <1>8, MountPointFacts
  <2>7. source' = source /\ source # "none" /\ mount' = {}
    BY <2>1, <2>2 DEF request
  <2>8. OnlyValidatedChanges'
    BY <2>6, <2>7 DEF OnlyValidatedChanges, Target
  <2>9. \/ pc' \in {"filesystem user", "handler"} /\ outcome' = outcome
        \/ pc' = "idle" /\ outcome' = "exception"
    BY <1>8 DEF CreateMountPoint, GoTo, ThrowError, ThrowException, Leave
  <2>10. ReturnedIsMounted'
    BY <2>1, <2>9 DEF ReturnedIsMounted, PathInv, request
  <2>11. outcome = "none"
    BY <2>1 DEF PathInv
  <2> QED BY <2>6, <2>7, <2>8, <2>9, <2>10, <2>11
          DEF PathInv, Untouched, ToCreate, Validated, Mounting
<1>9. ASSUME BecomeFilesystemUser PROVE PathInv'
  <2>1. /\ pc = "filesystem user" /\ pc' \in {"bind", "handler"}
        /\ Frame /\ outcome' = outcome
    BY <1>9 DEF BecomeFilesystemUser, GoTo, ThrowError
  <2> QED BY <2>1, PathKept DEF Untouched, ToCreate, Validated, Mounting, Step,
     Outcome
\* The three mount(2) of bindMount and the return.
<1>10. ASSUME Bind \/ Remount \/ MakePrivate PROVE PathInv'
  <2>1. pc \in Mounting /\ UNCHANGED <<request, path>> /\ outcome' = outcome
    BY <1>10 DEF Bind, Remount, MakePrivate, MountCall, GoTo, ThrowError, Mounting
  <2>2. /\ IsDestination' /\ source' # "none" /\ ReadOnly' = ReadOnly
        /\ IsOnAllowedDevice(Target)' /\ OnlyValidatedChanges'
    BY <2>1, StillValidated DEF Validated
  <2>3. \/ pc' = "handler"
        \/ pc' = "remount" /\ mount' = {"bound"}
        \/ pc' = "propagation" /\ mount' = {"bound", "nosuid"} \cup ReadOnly'
        \/ pc' = "filesystem root" /\ mount' = {"bound", "nosuid", "private"} \cup ReadOnly'
    <3>1. CASE Bind
      BY <3>1 DEF Bind, MountCall, GoTo, ThrowError, PathInv
    <3>2. CASE Remount
      BY <3>2, <2>2 DEF Remount, MountCall, GoTo, ThrowError, PathInv, ReadOnly
    <3>3. CASE MakePrivate
      BY <3>3, <2>2 DEF MakePrivate, MountCall, GoTo, ThrowError, PathInv
    <3> QED BY <1>10, <3>1, <3>2, <3>3
  <2>4. ReturnedIsMounted'
    <3>1. outcome # "returned"
      BY <2>1 DEF PathInv, Mounting
    <3> QED BY <2>1, <3>1 DEF ReturnedIsMounted
  <2>5. outcome' = "none"
    BY <2>1 DEF PathInv, Mounting
  <2> QED BY <2>2, <2>3, <2>4, <2>5 DEF PathInv, Untouched, ToCreate, Validated, Mounting
<1>11. ASSUME BecomeFilesystemRoot PROVE PathInv'
  <2>1. pc = "filesystem root" /\ Frame
    BY <1>11 DEF BecomeFilesystemRoot
  <2>2. CASE pc' = "idle" /\ outcome' = "returned"
    <3>1. /\ IsDestination' /\ OnlyValidatedChanges'
      BY <2>1, StillValidated DEF Validated
    <3>2. ReturnedIsMounted'
      BY <2>1, <2>2 DEF PathInv, ReturnedIsMounted, ReadOnly, Attribute, request
    <3> QED BY <2>2, <3>1, <3>2 DEF PathInv, Untouched, ToCreate, Validated, Mounting
  <2>3. CASE pc' = "handler" /\ outcome' = outcome
    BY <2>1, <2>3, PathKept DEF Untouched, ToCreate, Validated, Mounting, Step,
     Outcome
  <2> QED BY <1>11, <2>2, <2>3 DEF BecomeFilesystemRoot, Leave, GoTo, ThrowError
<1>12. ASSUME RestoreAndRethrow PROVE PathInv'
  <2>1. /\ pc = "handler" /\ Frame /\ pc' = "idle"
        /\ outcome' \in {"Error", "not restored"}
    BY <1>12 DEF RestoreAndRethrow, Leave
  <2> QED BY <2>1, PathKept DEF Untouched, ToCreate, Validated, Mounting, Step,
     Outcome
<1>13. CASE UNCHANGED vars
  BY <1>13 DEF vars, request, path, PathInv, IsDestination, IsOnAllowedDevice, Target,
     ReadOnly, ReturnedIsMounted, OnlyValidatedChanges, DeepestExisting
<1> QED BY <1>1, <1>2, <1>3, <1>4, <1>5, <1>6, <1>7, <1>8, <1>9, <1>10, <1>11, <1>12,
           <1>13 DEF Next, Call

LEMMA TypeStep == TypeOK /\ CredInv /\ PathInv /\ [Next]_vars => TypeOK'
<1> SUFFICES ASSUME TypeOK, CredInv, PathInv, [Next]_vars PROVE TypeOK'
  OBVIOUS
<1> DEFINE P == [kind |-> kind, device |-> device]
           PathOK == P \in Destination \cup {NoDestination} /\ owner \in [Component -> Owner]
<1>1. CredInv'
  BY CredStep
<1>2. cred' \in Cred /\ user' \in Id /\ rootIdentity' \in UserIdentity
  BY <1>1 DEF CredInv
<1>3. /\ NoDestination = [kind |-> NoDestination.kind, device |-> NoDestination.device]
      /\ NoneCreated \in [Component -> Owner]
  BY DEF NoDestination, NoneCreated, Owner
<1>4. ASSUME NEW u \in Id \ {Root}, NEW s \in Kind, NEW ro \in BOOLEAN,
             NEW destination \in Destination, ValidatedBindMount(u, s, ro, destination)
      PROVE  TypeOK'
  <2>1. destination = [kind |-> destination.kind, device |-> destination.device]
    BY DEF Destination
  <2>2. PathOK'
    BY <1>3, <1>4, <2>1 DEF ValidatedBindMount
  <2> QED BY <1>2, <1>4, <2>2 DEF ValidatedBindMount, GoTo, TypeOK, Step
<1>5. ASSUME TakeResult PROVE TypeOK'
  <2>1. PathOK'
    BY <1>3, <1>5 DEF TakeResult
  <2> QED BY <1>2, <1>5, <2>1 DEF TakeResult, Leave, TypeOK, Step, Outcome, Kind
<1>6. ASSUME CreateMountPoint PROVE TypeOK'
  <2>1. PathOK'
    BY <1>6, MountPointFacts DEF IsDestination
  <2> QED BY <1>2, <1>6, <2>1 DEF CreateMountPoint, GoTo, ThrowError, ThrowException,
        Leave, TypeOK, Step, Outcome, request
\* The others leave the path as it is.
<1>7. ASSUME UNCHANGED <<source, readOnly, path>>, pc' \in Step, outcome' \in Outcome,
             mount' \in SUBSET Attribute
      PROVE  TypeOK'
  <2>1. PathOK'
    BY <1>7 DEF TypeOK, path
  <2> QED BY <1>2, <1>7, <2>1 DEF TypeOK
<1>8. ASSUME NEW u, CallSwitchIdentity(u) \/ CallSwitchToUnprivilegedProcess(u)
      PROVE  TypeOK'
  BY <1>7, <1>8 DEF CallSwitchIdentity, CallSwitchToUnprivilegedProcess, TypeOK, request
<1>9. ASSUME BecomeUser \/ BecomeRoot \/ BecomeFilesystemUser \/ BecomeFilesystemRoot
      PROVE  TypeOK'
  BY <1>7, <1>9 DEF BecomeUser, BecomeRoot, BecomeFilesystemUser, BecomeFilesystemRoot,
     GoTo, ThrowError, Leave, TypeOK, request, Step, Outcome
<1>10. ASSUME \/ GetValidatedMountSource \/ GetValidatedMountDestination
              \/ RestoreAndRethrow
       PROVE  TypeOK'
  BY <1>7, <1>10 DEF GetValidatedMountSource, GetValidatedMountDestination,
     RestoreAndRethrow, GoTo, ThrowError, ThrowException, Leave, TypeOK, request, Step,
     Outcome
<1>11. ASSUME Bind \/ Remount \/ MakePrivate PROVE TypeOK'
  BY <1>7, <1>11 DEF Bind, Remount, MakePrivate, MountCall, GoTo, ThrowError, TypeOK,
     request, Step, Attribute
<1>12. CASE UNCHANGED vars
  BY <1>7, <1>12 DEF vars, request, TypeOK
<1> QED BY <1>4, <1>5, <1>6, <1>8, <1>9, <1>10, <1>11, <1>12 DEF Next, Call
-----------------------------------------------------------------------------
IInv == TypeOK /\ CredInv /\ PathInv

LEMMA TypeInit == Init => TypeOK
<1> SUFFICES ASSUME Init PROVE TypeOK
  OBVIOUS
<1>1. cred \in Cred /\ user \in Id /\ rootIdentity \in UserIdentity
  BY CredInit DEF CredInv
<1>2. [kind |-> kind, device |-> device] = NoDestination
  BY DEF Init, NoDestination
<1>3. owner \in [Component -> Owner]
  BY DEF Init, NoneCreated, Owner
<1> QED BY <1>1, <1>2, <1>3 DEF Init, TypeOK, Step, Outcome, Kind

LEMMA Inductive == Spec => []IInv
<1>1. Init => IInv
  BY TypeInit, CredInit, PathInit DEF IInv
<1>2. IInv /\ [Next]_vars => IInv'
  BY TypeStep, CredStep, PathStep DEF IInv
<1> QED BY <1>1, <1>2, PTL DEF Spec

\* The types of the variables, the destination of a request included: whatever
\* createFoldersIfNecessary creates, and wherever it stops, the existing part
\* of the path stays directories down to its last component.
THEOREM TypeCorrect == Spec => []TypeOK
BY Inductive, PTL DEF IInv

\* After validatedBindMount has returned or rethrown an Error the process has
\* its own identity again, for all users and whatever fails on the way.
THEOREM IdentityIsRestored == Spec => []IdentityRestored
BY Inductive, PTL DEF IInv, CredInv

\* The source and the destination are looked at with the rights of the
\* container user and no others, its supplementary groups included.
THEOREM UserValidates == Spec => []ValidatesAsUser
BY Inductive, PTL DEF IInv, CredInv

\* No sequence of requests and identity switches gives root or a group back
\* to a process that switchToUnprivilegedProcess has made unprivileged.
THEOREM DropIsForGood == Spec => []DroppedForGood
BY Inductive, PTL DEF IInv, CredInv

\* What is created or mounted on is what was validated: the source exists and
\* the mount point is on an allowed device, for paths of any depth.
THEOREM OnlyValidated == Spec => []OnlyValidatedChanges
BY Inductive, PTL DEF IInv, PathInv

\* validatedBindMount returns only when all three mount(2) were made.
THEOREM ReturnedMounts == Spec => []ReturnedIsMounted
BY Inductive, PTL DEF IInv, PathInv

LEMMA MountStep ==
  IInv /\ [Next]_vars => (mount' # mount /\ mount' # {} => cred.euid = Root /\ cred.fsuid = user)
<1> SUFFICES ASSUME IInv, [Next]_vars, mount' # mount, mount' # {}
             PROVE  cred.euid = Root /\ cred.fsuid = user
  OBVIOUS
<1>1. Bind \/ Remount \/ MakePrivate
  BY DEF Next, Call, ValidatedBindMount, TakeResult, CallSwitchIdentity,
     CallSwitchToUnprivilegedProcess, BecomeUser, GetValidatedMountSource,
     GetValidatedMountDestination, BecomeRoot, CreateMountPoint, BecomeFilesystemUser,
     BecomeFilesystemRoot, RestoreAndRethrow, vars
<1>2. pc \in Mounting /\ Privileged(cred)
  BY <1>1 DEF Bind, Remount, MakePrivate, MountCall, Mounting
<1> QED BY <1>2 DEF IInv, CredInv, Privileged

\* Every successful mount(2) is made by root with the user's filesystem uid.
THEOREM MountsAreMadeAsRootAndUser == Spec => MountsAsRootAndUser
<1>1. IInv /\ [Next]_vars =>
        [mount' # mount /\ mount' # {} => cred.euid = Root /\ cred.fsuid = user]_vars
  BY MountStep
<1> QED BY <1>1, Inductive, PTL DEF Spec, MountsAsRootAndUser
------------------------------------------------------------------------------
(* Why requests fail *)

\* Identity switches between requests keep all ids of the process equal, so
\* that no switch of an orderly request is denied but the one to a container
\* user by a process that has dropped root; what fails has failed for good.
OrderlyInv ==
  orderly =>
    /\ cred.rgid = cred.ruid
    /\ pc \in {"idle", "become user"} => cred.euid = cred.ruid /\ cred.egid = cred.rgid
    /\ outcome \in {"none", "returned", "Error"}
    /\ outcome = "Error" \/ pc = "handler" => ~Legitimate
    /\ pc \in {"filesystem user", "filesystem root"} \cup Mounting => kind[Depth] # "none"

\* A step of an orderly system is a step.
LEMMA StepOfBindMount == [MCNext]_<<vars, orderly>> => [Next]_vars
<1> SUFFICES ASSUME MCNext PROVE Next
  BY DEF vars
<1> QED BY DEF MCNext, Next, Call

\* A request that cannot succeed cannot succeed later.
LEMMA StaysBad ==
  ASSUME ~Legitimate, cred'.ruid = cred.ruid, UNCHANGED <<source, kind, device>>
  PROVE  ~Legitimate'
<1>1. DeepestExisting' = DeepestExisting
  BY DEF DeepestExisting
<1>2. IsOnAllowedDevice(IF kind[Depth] = "file" THEN Depth - 1 ELSE DeepestExisting)'
        = IsOnAllowedDevice(IF kind[Depth] = "file" THEN Depth - 1 ELSE DeepestExisting)
  BY <1>1 DEF IsOnAllowedDevice
<1> QED BY <1>1, <1>2 DEF Legitimate

\* Where no system call fails by itself, a process is denied only what its ids
\* do not permit.
LEMMA OrderlySwitch ==
  ASSUME cred \in Cred, NEW identity \in UserIdentity
  PROVE  /\ Orderly!SwitchIdentity(identity) => SwitchIdentity(identity)
         /\ Orderly!SwitchIdentityThrows(identity) =>
              /\ cred.euid # Root /\ UNCHANGED <<cred.ruid, cred.rgid>>
              /\ \/ identity.gid \notin {cred.rgid, cred.egid, cred.sgid} /\ cred' = cred
                 \/ /\ identity.gid \in {cred.rgid, cred.egid, cred.sgid}
                    /\ identity.uid \notin {cred.ruid, cred.euid, cred.suid}
<1>1. Orderly!SwitchIdentity(identity) => SwitchIdentity(identity)
  BY DEF Orderly!SwitchIdentity, Orderly!MaySetEgid, Orderly!MaySetEuid,
         Orderly!GidSwitched, Orderly!GroupsSwitched, Orderly!WithEuid,
         Orderly!Privileged, SwitchIdentity, MaySetEgid, MaySetEuid, GidSwitched,
         GroupsSwitched, WithEuid, Privileged
<1>2. ASSUME Orderly!SwitchIdentityThrows(identity)
      PROVE  /\ cred.euid # Root /\ UNCHANGED <<cred.ruid, cred.rgid>>
             /\ \/ identity.gid \notin {cred.rgid, cred.egid, cred.sgid} /\ cred' = cred
                \/ /\ identity.gid \in {cred.rgid, cred.egid, cred.sgid}
                   /\ identity.uid \notin {cred.ruid, cred.euid, cred.suid}
  BY <1>2 DEF Orderly!SwitchIdentityThrows, Orderly!MaySetEgid, Orderly!MaySetEuid,
              Orderly!GidSwitched, Orderly!GroupsSwitched, Orderly!Privileged,
              Cred, UserIdentity
<1> QED BY <1>1, <1>2

LEMMA OrderlyFilesystemUid ==
  ASSUME NEW identity
  PROVE  /\ Orderly!SetFilesystemUid(identity) => SetFilesystemUid(identity)
         /\ Orderly!SetFilesystemUidThrows(identity) =>
              /\ cred.euid # Root /\ cred' = cred
              /\ identity.uid \notin {cred.ruid, cred.euid, cred.suid}
BY DEF Orderly!SetFilesystemUid, Orderly!SetFilesystemUidThrows, Orderly!MaySetFsuid,
       Orderly!Privileged, SetFilesystemUid, MaySetFsuid, Privileged

LEMMA OrderlyDrop ==
  ASSUME NEW u
  PROVE  /\ Orderly!SwitchToUnprivilegedProcess(u, u) => SwitchToUnprivilegedProcess(u, u)
         /\ Orderly!SwitchToUnprivilegedProcessThrows(u, u) => cred' = cred
BY DEF Orderly!SwitchToUnprivilegedProcess, Orderly!SwitchToUnprivilegedProcessThrows,
       Orderly!WithAllUids, Orderly!WithAllGids, Orderly!GidDropped, Orderly!GroupsDropped,
       Orderly!CapabilitiesDropped, Orderly!Privileged, SwitchToUnprivilegedProcess,
       WithAllUids, WithAllGids, GidDropped, GroupsDropped, CapabilitiesDropped, Privileged

LEMMA OrderlyIdentity == \A u : Orderly!IdentityOf(u) = IdentityOf(u)
BY DEF Orderly!IdentityOf, IdentityOf

\* The steps of a request that leave its source and its path alone.
LEMMA GoesOnOrFails ==
  ASSUME IInv, IInv', OrderlyInv, orderly, pc # "idle",
         UNCHANGED <<request, path, cred.ruid, cred.rgid>>,
         \/ pc' # "idle" /\ outcome' = outcome
         \/ pc' = "idle" /\ outcome' = "returned",
         pc' # "become user", pc' = "handler" => ~Legitimate',
         pc' \in {"filesystem user", "filesystem root"} \cup Mounting =>
           pc \in {"filesystem user", "filesystem root"} \cup Mounting
  PROVE  OrderlyInv'
<1>1. outcome = "none" /\ kind' = kind
  BY DEF IInv, PathInv, path
<1>2. /\ cred'.rgid = cred'.ruid
      /\ outcome' \in {"none", "returned", "Error"} /\ outcome' # "Error"
      /\ pc' \in {"filesystem user", "filesystem root"} \cup Mounting => kind'[Depth] # "none"
  BY <1>1 DEF OrderlyInv
<1>3. pc' \in {"idle", "become user"} => cred'.euid = cred'.ruid /\ cred'.egid = cred'.rgid
  BY <1>1, <1>2 DEF IInv, CredInv, IdentityRestored
<1> QED BY <1>2, <1>3 DEF OrderlyInv

\* A process that is not privileged as root has dropped root.
LEMMA DroppedIsBad == cred.ruid # Root => ~Legitimate
BY DEF Legitimate

LEMMA OrderlyStep ==
  IInv /\ IInv' /\ OrderlyInv /\ [MCNext]_<<vars, orderly>> => OrderlyInv'
<1> SUFFICES ASSUME IInv, IInv', OrderlyInv, [MCNext]_<<vars, orderly>>, orderly'
             PROVE  OrderlyInv'
  BY DEF OrderlyInv
<1>1. /\ cred \in Cred /\ rootIdentity \in UserIdentity /\ user \in Id
      /\ cred.suid = cred.ruid /\ cred.sgid = cred.rgid
      /\ pc # "idle" => /\ rootIdentity.uid = cred.ruid /\ rootIdentity.gid = cred.rgid
                        /\ outcome = "none" /\ IsDestination
      /\ pc \in AsRoot => cred.euid = cred.ruid
  BY DEF IInv, CredInv, PathInv
<1>2. ASSUME NEW u \in Id \ {Root}, NEW s, NEW ro, NEW destination,
             ValidatedBindMount(u, s, ro, destination), orderly
      PROVE  OrderlyInv'
  BY <1>2 DEF ValidatedBindMount, GoTo, OrderlyInv, Mounting
<1>3. ASSUME TakeResult, orderly PROVE OrderlyInv'
  BY <1>3 DEF TakeResult, Leave, OrderlyInv, IInv, PathInv, Mounting
<1>4. ASSUME NEW u \in Id \ {Root}, Orderly!CallSwitchToUnprivilegedProcess(u), orderly
      PROVE  OrderlyInv'
  <2>1. /\ pc = "idle" /\ outcome = "none"
        /\ UNCHANGED <<pc, outcome>>
        /\ \/ Orderly!SwitchToUnprivilegedProcess(u, u)
           \/ Orderly!SwitchToUnprivilegedProcessThrows(u, u)
    BY <1>4 DEF Orderly!CallSwitchToUnprivilegedProcess
  <2>2. cred'.rgid = cred'.ruid /\ cred'.euid = cred'.ruid /\ cred'.egid = cred'.rgid
    BY <1>1, <1>4, <2>1, OrderlyDrop, DropFacts DEF OrderlyInv
  <2> QED BY <2>1, <2>2 DEF OrderlyInv, Mounting
<1>5. ASSUME Orderly!CallSwitchIdentity(Root), orderly PROVE OrderlyInv'
  <2>1. /\ pc = "idle" /\ outcome = "none"
        /\ UNCHANGED <<pc, outcome>>
        /\ \/ Orderly!SwitchIdentity(IdentityOf(Root))
           \/ Orderly!SwitchIdentityThrows(IdentityOf(Root))
    BY <1>5, OrderlyIdentity DEF Orderly!CallSwitchIdentity
  <2>2. IdentityOf(Root) \in UserIdentity /\ IdentityOf(Root).uid = Root
        /\ IdentityOf(Root).gid = Root
    BY IdAssumption, IdentityTypes
  <2>3. cred.rgid = cred.ruid /\ cred.euid = cred.ruid /\ cred.egid = cred.rgid
    BY <1>5, <2>1 DEF OrderlyInv
  <2>4. CASE Orderly!SwitchIdentity(IdentityOf(Root))
    <3>1. SwitchIdentity(IdentityOf(Root))
      BY <1>1, <2>2, <2>4, OrderlySwitch
    <3>2. /\ cred'.ruid = cred.ruid /\ cred'.rgid = cred.rgid
          /\ cred'.euid = Root /\ cred'.egid = Root
          /\ cred.euid # Root => Root \in {cred.ruid, cred.euid, cred.suid}
      BY <1>1, <2>2, <3>1, SwitchFacts DEF SameReal
    <3> QED BY <1>1, <2>1, <2>3, <3>2 DEF OrderlyInv, Mounting
  <2>5. CASE Orderly!SwitchIdentityThrows(IdentityOf(Root))
    <3>1. cred' = cred
      BY <1>1, <2>2, <2>3, <2>5, OrderlySwitch
    <3> QED BY <2>1, <2>3, <3>1 DEF OrderlyInv, Mounting
  <2> QED BY <2>1, <2>4, <2>5
<1>6. ASSUME Orderly!BecomeUser, orderly PROVE OrderlyInv'
  <2>1. /\ pc = "become user" /\ UNCHANGED <<request, path>> /\ outcome' = outcome
        /\ \/ Orderly!SwitchIdentity(IdentityOf(user)) /\ pc' = "validate source"
           \/ Orderly!SwitchIdentityThrows(IdentityOf(user)) /\ pc' = "handler"
    BY <1>6, OrderlyIdentity
       DEF Orderly!BecomeUser, Orderly!GoTo, Orderly!ThrowError, Orderly!request,
           Orderly!path, request, path
  <2>2. IdentityOf(user) \in UserIdentity
    BY <1>1, IdentityTypes
  <2>3. CASE Orderly!SwitchIdentity(IdentityOf(user)) /\ pc' = "validate source"
    <3>1. cred'.ruid = cred.ruid /\ cred'.rgid = cred.rgid
      BY <1>1, <2>2, <2>3, OrderlySwitch, SwitchFacts DEF SameReal
    <3> QED BY <1>6, <2>1, <2>3, <3>1, GoesOnOrFails DEF Mounting
  <2>4. CASE Orderly!SwitchIdentityThrows(IdentityOf(user)) /\ pc' = "handler"
    <3>1. cred'.ruid = cred.ruid /\ cred'.rgid = cred.rgid /\ cred.euid # Root
      BY <1>1, <2>2, <2>4, OrderlySwitch
    <3>2. cred.ruid # Root
      BY <1>6, <2>1, <3>1 DEF OrderlyInv
    <3>3. ~Legitimate'
      BY <3>1, <3>2 DEF Legitimate
    <3> QED BY <1>6, <2>1, <2>4, <3>1, <3>3, GoesOnOrFails DEF Mounting
  <2> QED BY <2>1, <2>3, <2>4
<1>7. ASSUME Orderly!GetValidatedMountSource, orderly PROVE OrderlyInv'
  <2>1. /\ pc = "validate source" /\ UNCHANGED <<cred, request, path>> /\ outcome' = outcome
        /\ pc' = "validate destination" \/ (pc' = "handler" /\ source = "none")
    BY <1>7 DEF Orderly!GetValidatedMountSource, Orderly!GoTo, Orderly!ThrowError,
                Orderly!request, Orderly!path, request, path
  <2>2. source = "none" => ~Legitimate'
    BY <2>1 DEF Legitimate, request
  <2> QED BY <1>7, <2>1, <2>2, GoesOnOrFails DEF Mounting
<1>8. ASSUME Orderly!GetValidatedMountDestination, orderly PROVE OrderlyInv'
  <2>1. /\ pc = "validate destination" /\ UNCHANGED <<cred, request, path>>
        /\ outcome' = outcome
        /\ pc' = "become root" \/ (pc' = "handler" /\ ~IsOnAllowedDevice(Checked))
    BY <1>8 DEF Orderly!GetValidatedMountDestination, Orderly!GoTo, Orderly!ThrowError,
                Orderly!request, Orderly!path, Orderly!IsOnAllowedDevice,
                Orderly!Checked, Orderly!DeepestExisting, Orderly!Component,
                request, path, IsOnAllowedDevice, Checked, DeepestExisting, Component
  <2>2. ~IsOnAllowedDevice(Checked) => ~Legitimate
    BY <1>1, <2>1, CheckedIsTarget DEF Target, Legitimate
  <2>3. ~IsOnAllowedDevice(Checked) => ~Legitimate'
    BY <2>1, <2>2, StaysBad DEF request, path
  <2> QED BY <1>8, <2>1, <2>3, GoesOnOrFails DEF Mounting
<1>9. ASSUME Orderly!BecomeRoot, orderly PROVE OrderlyInv'
  <2>1. /\ pc = "become root" /\ UNCHANGED <<request, path>> /\ outcome' = outcome
        /\ \/ Orderly!SwitchIdentity(rootIdentity) /\ pc' = "create"
           \/ Orderly!SwitchIdentityThrows(rootIdentity)
    BY <1>9 DEF Orderly!BecomeRoot, Orderly!GoTo, Orderly!ThrowError, Orderly!request,
                Orderly!path, request, path
  <2>2. ~Orderly!SwitchIdentityThrows(rootIdentity)
    BY <1>1, <2>1, OrderlySwitch
  <2>3. cred'.ruid = cred.ruid /\ cred'.rgid = cred.rgid
    BY <1>1, <2>1, <2>2, OrderlySwitch, SwitchFacts DEF SameReal
  <2> QED BY <1>9, <2>1, <2>2, <2>3, GoesOnOrFails DEF Mounting
<1>10. ASSUME Orderly!BecomeFilesystemUser, orderly PROVE OrderlyInv'
  <2>1. /\ pc = "filesystem user" /\ UNCHANGED <<request, path>> /\ outcome' = outcome
        /\ \/ Orderly!SetFilesystemUid(IdentityOf(user)) /\ pc' = "bind"
           \/ Orderly!SetFilesystemUidThrows(IdentityOf(user)) /\ pc' = "handler"
    BY <1>10, OrderlyIdentity
       DEF Orderly!BecomeFilesystemUser, Orderly!GoTo, Orderly!ThrowError, Orderly!request,
           Orderly!path, request, path
  <2>2. IdentityOf(user) \in UserIdentity /\ cred.euid = cred.ruid
    BY <1>1, <2>1, IdentityTypes DEF AsRoot
  <2>3. CASE Orderly!SetFilesystemUid(IdentityOf(user)) /\ pc' = "bind"
    <3>1. cred'.ruid = cred.ruid /\ cred'.rgid = cred.rgid
      BY <1>1, <2>2, <2>3, OrderlyFilesystemUid, FilesystemUidFacts DEF SameReal
    <3> QED BY <1>10, <2>1, <2>3, <3>1, GoesOnOrFails DEF Mounting
  <2>4. CASE Orderly!SetFilesystemUidThrows(IdentityOf(user)) /\ pc' = "handler"
    <3>1. cred' = cred /\ cred.ruid # Root
      BY <2>2, <2>4, OrderlyFilesystemUid
    <3>2. ~Legitimate'
      BY <3>1 DEF Legitimate
    <3> QED BY <1>10, <2>1, <2>4, <3>1, <3>2, GoesOnOrFails DEF Mounting
  <2> QED BY <2>1, <2>3, <2>4
<1>11. ASSUME Orderly!BecomeFilesystemRoot, orderly PROVE OrderlyInv'
  <2>1. /\ pc = "filesystem root" /\ UNCHANGED <<request, path>>
        /\ \/ Orderly!SetFilesystemUid(rootIdentity) /\ pc' = "idle" /\ outcome' = "returned"
           \/ Orderly!SetFilesystemUidThrows(rootIdentity)
    BY <1>11 DEF Orderly!BecomeFilesystemRoot, Orderly!Leave, Orderly!ThrowError,
                 Orderly!GoTo, Orderly!request, Orderly!path, request, path
  <2>2. ~Orderly!SetFilesystemUidThrows(rootIdentity)
    BY <1>1, <2>1, OrderlyFilesystemUid
  <2>3. cred'.ruid = cred.ruid /\ cred'.rgid = cred.rgid
    BY <1>1, <2>1, <2>2, OrderlyFilesystemUid, FilesystemUidFacts DEF SameReal
  <2> QED BY <1>11, <2>1, <2>2, <2>3, GoesOnOrFails DEF Mounting
<1>12. ASSUME Orderly!RestoreAndRethrow, orderly PROVE OrderlyInv'
  <2>1. /\ pc = "handler" /\ UNCHANGED <<request, path>> /\ pc' = "idle"
        /\ \/ Orderly!SwitchIdentity(rootIdentity) /\ outcome' = "Error"
           \/ Orderly!SwitchIdentityThrows(rootIdentity)
    BY <1>12 DEF Orderly!RestoreAndRethrow, Orderly!Leave, Orderly!request,
                 Orderly!path, request, path
  <2>2. ~Orderly!SwitchIdentityThrows(rootIdentity)
    BY <1>1, <2>1, OrderlySwitch
  <2>3. cred'.ruid = cred.ruid /\ cred'.rgid = cred.rgid
    BY <1>1, <2>1, <2>2, OrderlySwitch, SwitchFacts DEF SameReal
  <2>4. ~Legitimate'
    BY <1>12, <2>1, <2>3, StaysBad DEF OrderlyInv, request, path
  <2>5. cred'.euid = cred'.ruid /\ cred'.egid = cred'.rgid /\ cred'.rgid = cred'.ruid
    BY <1>12, <2>1, <2>2, <2>3 DEF IInv, CredInv, IdentityRestored, OrderlyInv
  <2> QED BY <2>1, <2>2, <2>4, <2>5 DEF OrderlyInv, Mounting
<1>13. ASSUME Orderly!Bind \/ Orderly!Remount \/ Orderly!MakePrivate, orderly
       PROVE  OrderlyInv'
  <2>1. /\ pc \in Mounting /\ UNCHANGED <<cred, request, path>> /\ outcome' = outcome
        /\ \/ pc' \in Mounting \cup {"filesystem root"}
           \/ /\ pc' = "handler"
              /\ cred.euid # Root \/ (source = "dir") # (kind[Depth] = "dir")
    BY <1>13 DEF Orderly!Bind, Orderly!Remount, Orderly!MakePrivate, Orderly!MountCall,
                 Orderly!GoTo, Orderly!ThrowError, Orderly!Privileged, Orderly!request,
                 Orderly!path, request, path, Mounting
  <2>2. cred.euid = cred.ruid /\ kind[Depth] # "none"
    BY <1>1, <1>13, <2>1 DEF AsRoot, OrderlyInv
  <2>3. DeepestExisting = Depth
    <3>1. IsDeepest(DeepestExisting)
      BY <1>1, <2>1, Deepest DEF Mounting
    <3>2. \A j \in Component : ~(Depth < j)
      BY DepthAssumption DEF Component
    <3>3. IsDeepest(Depth)
      BY <2>2, <3>2, ComponentFacts DEF IsDeepest
    <3> QED BY <3>1, <3>3, DeepestIsUnique
  <2>4. (source = "dir") # (kind[Depth] = "dir") => ~Legitimate
    BY <2>3 DEF Legitimate
  <2>5. pc' = "handler" => ~Legitimate
    BY <2>1, <2>2, <2>4, DroppedIsBad DEF Mounting
  <2>6. pc' = "handler" => ~Legitimate'
    BY <2>1, <2>5, StaysBad DEF request, path
  <2> QED BY <1>13, <2>1, <2>6, GoesOnOrFails DEF Mounting
<1>14. ASSUME Orderly!CreateMountPoint, orderly PROVE OrderlyInv'
  <2>1. /\ pc = "create" /\ UNCHANGED <<cred, request>> /\ outcome' = outcome
        /\ \/ pc' = "filesystem user" /\ Orderly!CreateUpTo(Depth, source)
           \/ /\ pc' = "handler" /\ kind[Depth] = "none"
              /\ kind[DeepestExisting] = "file"
              /\ Orderly!CreateUpTo(DeepestExisting, source)
    BY <1>14 DEF Orderly!CreateMountPoint, Orderly!GoTo, Orderly!ThrowError,
                 Orderly!request, Orderly!DeepestExisting, Orderly!Component,
                 request, DeepestExisting, Component
  <2>2. source # "none" /\ IsDestination /\ IsDeepest(DeepestExisting)
    BY <1>1, <2>1, Deepest DEF IInv, PathInv, Validated, ToCreate
  <2>3. CASE pc' = "filesystem user" /\ Orderly!CreateUpTo(Depth, source)
    <3>1. kind'[Depth] # "none"
      BY <2>2, <2>3, ComponentFacts
         DEF Orderly!CreateUpTo, Orderly!Component, Component
    <3> QED BY <1>1, <1>14, <2>1, <2>3, <3>1 DEF OrderlyInv, Mounting
  <2>4. CASE /\ pc' = "handler" /\ kind[Depth] = "none"
             /\ kind[DeepestExisting] = "file"
             /\ Orderly!CreateUpTo(DeepestExisting, source)
    <3>1. kind' = kind /\ device' = device
      <4> DEFINE new == {j \in Component : kind[j] = "none" /\ j <= DeepestExisting}
      <4>1. new = {}
        <5> SUFFICES ASSUME NEW j \in new PROVE FALSE
          OBVIOUS
        <5>1. j # DeepestExisting /\ j \in Component /\ j <= DeepestExisting
          BY <2>2 DEF IsDeepest
        <5>2. j < DeepestExisting
          BY <2>2, <5>1, ComponentFacts DEF IsDeepest
        <5> QED BY <2>2, <5>1, <5>2, Prefix DEF IsDeepest
      <4>2. /\ kind' = [j \in Component |-> IF j \notin new THEN kind[j]
                                            ELSE IF j = Depth THEN source ELSE "dir"]
            /\ device' = [j \in Component |-> IF j \in new THEN device[DeepestExisting]
                                              ELSE device[j]]
        <5>1. Orderly!DeepestExisting = DeepestExisting
          BY DEF Orderly!DeepestExisting, Orderly!Component, DeepestExisting, Component
        <5> QED BY <2>4, <5>1 DEF Orderly!CreateUpTo, Orderly!Component, Component
      <4> HIDE DEF new
      <4>3. kind' = [j \in Component |-> kind[j]] /\ device' = [j \in Component |-> device[j]]
        BY <4>1, <4>2
      <4> QED BY <2>2, <4>3, DestinationDef
    <3>2. ~Legitimate
      <4>1. DeepestExisting # Depth
        BY <2>4
      <4> QED BY <2>4, <4>1 DEF Legitimate
    <3>3. ~Legitimate'
      BY <2>1, <3>1, <3>2, StaysBad DEF request
    <3> QED BY <1>1, <1>14, <2>1, <2>4, <3>3 DEF OrderlyInv, Mounting
  <2> QED BY <2>1, <2>3, <2>4
<1>15. CASE UNCHANGED <<vars, orderly>>
  <2>1. UNCHANGED <<cred, pc, outcome, source, kind, device, orderly>>
    BY <1>15 DEF vars, request, path
  <2> QED BY <2>1, StaysBad DEF OrderlyInv
<1>16. CASE MCNext
  <2> USE DEF Noting
  <2>1. orderly
    BY <1>16 DEF MCNext
  <2> QED BY <2>1, <1>2, <1>3, <1>4, <1>5, <1>6, <1>7, <1>8, <1>9, <1>10, <1>11, <1>12,
             <1>13, <1>14, <1>16 DEF MCNext
<1> QED BY <1>15, <1>16

LEMMA OrderlyInductive == MCSpec => [](IInv /\ OrderlyInv)
<1>1. MCInit => IInv
  BY TypeInit, CredInit, PathInit DEF MCInit, IInv
<1>2. MCInit => OrderlyInv
  BY DEF MCInit, Init, RootCred, OrderlyInv, Mounting
<1>3. IInv /\ [MCNext]_<<vars, orderly>> => IInv'
  BY StepOfBindMount, TypeStep, CredStep, PathStep DEF IInv
<1>4. IInv /\ OrderlyInv /\ [MCNext]_<<vars, orderly>> => OrderlyInv'
  BY <1>3, OrderlyStep
<1> QED BY <1>1, <1>2, <1>3, <1>4, PTL DEF MCSpec

\* In a system in which no call fails by itself and the process only ever takes
\* on root's identity between requests, a request that fails was a bad one, and
\* the identity of the process is always restored.
THEOREM OnlyBadOnesFail == MCSpec => []OnlyBadRequestsFail
<1>1. OrderlyInv => OnlyBadRequestsFail
  BY DEF OrderlyInv, OnlyBadRequestsFail
<1> QED BY <1>1, OrderlyInductive, PTL
=============================================================================
