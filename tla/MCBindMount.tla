---------------------------- MODULE MCBindMount ----------------------------
(***************************************************************************)
(* Instances of BindMount: one device of the host is allowed and one is     *)
(* not, unless the rootfs is on it.  The history variable tells whether     *)
(* every step so far is one of a system in which no call fails by itself    *)
(* and the process takes on no identity but root's between requests.        *)
(***************************************************************************)
EXTENDS BindMount

CONSTANTS root, u1, u2, staff, video, wheel

VARIABLE orderly

MCgids == [u \in Id |-> CASE u = root -> {wheel}
                          [] u = u1 -> {staff}
                          [] OTHER -> {staff, video}]

AllCalls == {"setgroups", "setegid", "seteuid", "setfsuid", "setresgid",
             "setresuid", "realpath", "stat", "mkdir", "chown", "mount"}

Orderly == INSTANCE BindMount WITH Fallible <- {}, Switcher <- {Root}

MCInit == Init /\ orderly = TRUE
Noting(step) == orderly' = (orderly /\ step)
MCNext ==
  \/ \E u \in Id \ {Root}, s \in Kind, ro \in BOOLEAN, destination \in Destination :
       ValidatedBindMount(u, s, ro, destination) /\ UNCHANGED orderly
  \/ \E u \in Id \ {Root} : CallSwitchToUnprivilegedProcess(u)
                           /\ Noting(Orderly!CallSwitchToUnprivilegedProcess(u))
  \/ TakeResult /\ UNCHANGED orderly
  \/ \E u \in Switcher : CallSwitchIdentity(u)
                        /\ Noting(u = Root /\ Orderly!CallSwitchIdentity(u))
  \/ BecomeUser /\ Noting(Orderly!BecomeUser)
  \/ GetValidatedMountSource /\ Noting(Orderly!GetValidatedMountSource)
  \/ GetValidatedMountDestination /\ Noting(Orderly!GetValidatedMountDestination)
  \/ BecomeRoot /\ Noting(Orderly!BecomeRoot)
  \/ CreateMountPoint /\ Noting(Orderly!CreateMountPoint)
  \/ BecomeFilesystemUser /\ Noting(Orderly!BecomeFilesystemUser)
  \/ Bind /\ Noting(Orderly!Bind)
  \/ Remount /\ Noting(Orderly!Remount)
  \/ MakePrivate /\ Noting(Orderly!MakePrivate)
  \/ BecomeFilesystemRoot /\ Noting(Orderly!BecomeFilesystemRoot)
  \/ RestoreAndRethrow /\ Noting(Orderly!RestoreAndRethrow)
MCSpec == MCInit /\ [][MCNext]_<<vars, orderly>>

\* What a request needs.
Legitimate ==
  /\ cred.ruid = Root
  /\ source # "none"
  /\ IsOnAllowedDevice(IF kind[Depth] = "file" THEN Depth - 1 ELSE DeepestExisting)
  /\ kind[DeepestExisting] = IF DeepestExisting = Depth THEN source ELSE "dir"

\* Without failing system calls, a request fails only when its source is
\* missing, its mount point is not on an allowed device, a file is where a
\* directory should be or the other way round, or the process has dropped root:
\* the order of the identity switches never denies anything by itself.  (For a
\* process that does not take on the identity of one user itself and then asks
\* for a mount as another.)
OnlyBadRequestsFail ==
  orderly => /\ outcome # "not restored"
             /\ outcome = "Error" => ~Legitimate
=============================================================================
