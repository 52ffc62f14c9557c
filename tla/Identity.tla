------------------------------ MODULE Identity ------------------------------
(***************************************************************************)
(* The credentials of a process and the functions that change them:        *)
(* process::switchIdentity and process::setFilesystemUid                   *)
(* (src/utility/process.cpp), hook::switchToUnprivilegedProcess            *)
(* (src/utility/hook.cpp) and the UserIdentity of the running process      *)
(* (src/UserIdentity.cpp).                                                 *)
(*                                                                         *)
(* Each function is a pair of actions, one for its normal return and one   *)
(* for its exceptions; nothing else happens in the process meanwhile.  The *)
(* kernel refuses what the credentials do not permit, and may refuse the   *)
(* calls in Fallible for reasons of its own.                               *)
(***************************************************************************)
CONSTANTS
  Root,      \* uid 0 and gid 0
  Id,        \* the users: user u has the uid u and the gid u
  Gid,       \* the supplementary groups
  gids,      \* gids[u] is the set of supplementary groups of user u
  Fallible   \* the system calls that the environment may make fail

ASSUME IdAssumption   == Root \in Id
ASSUME GidsAssumption == gids \in [Id -> SUBSET Gid]

VARIABLE cred

Cred == [ruid : Id, euid : Id, suid : Id, fsuid : Id,
         rgid : Id, egid : Id, sgid : Id, groups : SUBSET Gid,
         bounded : BOOLEAN,    \* the capability bounding set is empty
         noNewPrivs : BOOLEAN]

\* A process started by root.
RootCred ==
  [ruid |-> Root, euid |-> Root, suid |-> Root, fsuid |-> Root,
   rgid |-> Root, egid |-> Root, sgid |-> Root, groups |-> gids[Root],
   bounded |-> FALSE, noNewPrivs |-> FALSE]

UserIdentity == [uid : Id, gid : Id, supplementaryGids : SUBSET Gid]

\* UserIdentity(uid, gid, gids) for user u.
IdentityOf(u) == [uid |-> u, gid |-> u, supplementaryGids |-> gids[u]]

\* UserIdentity(): the real ids, and whatever groups the process has.
CurrentIdentity(c) ==
  [uid |-> c.ruid, gid |-> c.rgid, supplementaryGids |-> c.groups]

-----------------------------------------------------------------------------
(* The kernel: what the credentials permit (credentials(7), setresuid(2)) *)

\* An effective uid of 0 comes with the capabilities, any other without.
Privileged(c) == c.euid = Root

MaySetEgid(c, g) == Privileged(c) \/ g \in {c.rgid, c.egid, c.sgid}
MaySetEuid(c, u) == Privileged(c) \/ u \in {c.ruid, c.euid, c.suid}
MaySetFsuid(c, u) == Privileged(c) \/ u \in {c.ruid, c.euid, c.suid, c.fsuid}

\* The filesystem uid follows the effective uid.
WithEuid(c, u) == [c EXCEPT !.euid = u, !.fsuid = u]

-----------------------------------------------------------------------------
(* switchIdentity *)

\* After its setgroups, which only a privileged process calls ...
GroupsSwitched(c, identity) ==
  IF Privileged(c) THEN [c EXCEPT !.groups = identity.supplementaryGids] ELSE c

\* ... and after its setegid.
GidSwitched(c, identity) ==
  [GroupsSwitched(c, identity) EXCEPT !.egid = identity.gid]

\* Mutant of SwitchIdentity: the groups are not switched.
SwitchIdentityWithoutGroups(identity) ==
  /\ MaySetEgid(cred, identity.gid)
  /\ MaySetEuid(cred, identity.uid)
  /\ cred' = [WithEuid(cred, identity.uid) EXCEPT !.egid = identity.gid]

SwitchIdentity(identity) ==
  /\ MaySetEgid(GroupsSwitched(cred, identity), identity.gid)
  /\ MaySetEuid(GidSwitched(cred, identity), identity.uid)
  /\ cred' = WithEuid(GidSwitched(cred, identity), identity.uid)

\* "Failed to setgroups", "Failed to setegid", "Failed to seteuid" with the old
\* egid restored or not.  The groups are never restored.
SwitchIdentityThrows(identity) ==
  LET grouped  == GroupsSwitched(cred, identity)
      switched == GidSwitched(cred, identity)
  IN  \/ /\ Privileged(cred) /\ "setgroups" \in Fallible
         /\ UNCHANGED cred
      \/ /\ ~MaySetEgid(grouped, identity.gid) \/ "setegid" \in Fallible
         /\ cred' = grouped
      \/ /\ MaySetEgid(grouped, identity.gid)
         /\ ~MaySetEuid(switched, identity.uid) \/ "seteuid" \in Fallible
         /\ \/ /\ MaySetEgid(switched, cred.egid)
               /\ cred' = grouped
            \/ /\ ~MaySetEgid(switched, cred.egid) \/ "setegid" \in Fallible
               /\ cred' = switched

-----------------------------------------------------------------------------
(* setFilesystemUid: setfsuid(2) does not report errors, so that the code    *)
(* calls it twice and compares.                                              *)

SetFilesystemUid(identity) ==
  /\ MaySetFsuid(cred, identity.uid)
  /\ cred' = [cred EXCEPT !.fsuid = identity.uid]

SetFilesystemUidThrows(identity) ==
  /\ cred.fsuid # identity.uid
  /\ ~MaySetFsuid(cred, identity.uid) \/ "setfsuid" \in Fallible
  /\ UNCHANGED cred

-----------------------------------------------------------------------------
(* switchToUnprivilegedProcess *)

WithAllUids(c, u) == [c EXCEPT !.ruid = u, !.euid = u, !.suid = u, !.fsuid = u]
WithAllGids(c, g) == [c EXCEPT !.rgid = g, !.egid = g, !.sgid = g]

\* What has been done before each of the calls that may fail.
CapabilitiesDropped(c) == [c EXCEPT !.bounded = TRUE]
GroupsDropped(c) == [CapabilitiesDropped(c) EXCEPT !.groups = {}]
GidDropped(c, g) == WithAllGids(GroupsDropped(c), g)

\* Mutant of SwitchToUnprivilegedProcess: seteuid instead of setresuid.
SwitchToUnprivilegedProcessEffectively(targetUid, targetGid) ==
  /\ Privileged(cred)
  /\ cred' = [WithEuid(GidDropped(cred, targetGid), targetUid)
                EXCEPT !.noNewPrivs = TRUE]

SwitchToUnprivilegedProcess(targetUid, targetGid) ==
  /\ Privileged(cred)
  /\ cred' = [WithAllUids(GidDropped(cred, targetGid), targetUid)
                EXCEPT !.noNewPrivs = TRUE]

\* An unprivileged process fails to drop its first capability.
SwitchToUnprivilegedProcessThrows(targetUid, targetGid) ==
  \/ ~Privileged(cred) /\ UNCHANGED cred
  \/ Privileged(cred) /\ "setgroups" \in Fallible /\ cred' = CapabilitiesDropped(cred)
  \/ Privileged(cred) /\ "setresgid" \in Fallible /\ cred' = GroupsDropped(cred)
  \/ Privileged(cred) /\ "setresuid" \in Fallible /\ cred' = GidDropped(cred, targetGid)
=============================================================================
