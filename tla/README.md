# A TLA+ model of libsarus

libsarus is the C++ library under the Sarus container engine and its OCI hooks:
locks on shared files, the credentials of a setuid program, bind mounts into a
root file system, child processes, and the parsers that go with them. It has no
threads and no messages of its own. What is hard in it is the world around a
call: other processes on a shared file system, a kernel that refuses a call
half-way through a sequence of calls, exceptions that leave a function between
two changes of the state of the process, objects that own something outside the
process and are moved, and processes that die.

This directory models those parts in TLA+, checks them with TLC on small
instances, and proves the most important properties with TLAPS for all values of
the constants. Paths below are relative to the repository.

## 1. Inventory

| component | state | operations | what is hard | what makes it correct |
|---|---|---|---|---|
| Lockfile (`src/Lockfile.cpp`) | a lock file on a shared file system; the path in the object | constructors with timeout, moves, destructor | races between processes, a wrapping clock, moves, deaths, failing `close(2)` | exclusion; the lock file of a holder stays; only faults leave files; waits end |
| Flock (`src/Flock.cpp`) | `flock(2)` locks of open file descriptions; path, type, descriptor in the object | constructors, `convertToType`, moves, destructor | conversions are two steps, timeouts in the middle, descriptors copied by moves or leaked | what was promised holds until given up; readers exclude writers; no mutual waiting |
| Process identity (`process::switchIdentity`, `setFilesystemUid`, `hook::switchToUnprivilegedProcess`, `UserIdentity`) | the credentials of the process | switch to a user and back, drop root for good | four or more system calls that may each fail, and whose permission depends on the ones before | the identity comes back; dropped is dropped |
| Validated bind mounts (`utility/mount.cpp`, `Mount.cpp`) | credentials, mount point, mount | `validatedBindMount` and everything it calls | identity changes between validation and use; an exception at any point | validated as the user, mounted where it was validated, the identity restored |
| Process runner (`process::forkExecWait`, `executeCommand`) | child, pipe, descriptors | run, read the output, wait | parent and child concurrently, full pipes, background processes, failures between fork and wait | all output and the true status, no deadlock, descriptors and children given back |
| Filesystem utilities (`utility/filesystem.cpp`) | files and directories shared with other processes | create folders and files, copy, write, remove, set owner | check-then-act on shared paths, partial failure, sources that are their own destination | alone each call is one operation; several creators agree; what existed is not damaged |
| Path resolution in a rootfs (`utility/filesystem.cpp`) | none | `realpathWithinRootfs`, `appendPathsWithinRootfs` | links, absolute links, `..`, loops | equals the path a process chrooted there sees |
| PathRAII (`PathRAII.cpp`) | a path owned by an object | construct, move, release, destroy | double removal, forgotten removal | each owned path removed once |
| Mount requests (`MountParser.cpp`, `utility/string.cpp`) | none | parse `type=bind,source=…` | duplicates, several names of a key, forbidden paths | the order of the pairs does not matter; a map that is printed is read back |
| Device requests (`DeviceParser.cpp`, `DeviceAccess.cpp`, `DeviceMount.cpp`) | device nodes | parse `/dev/a:/dev/b:rw`, mount | optional fields | a device that is printed is read back |
| Hook utilities (`utility/hook.cpp`) | cgroup files, namespaces | find the devices cgroup, whitelist a device, read the container state | text of `/proc` files | the cgroup is one of the process, which may exit or be moved meanwhile |
| Shared libraries (`utility/sharedLibs.cpp`) | none | ABI strings, linker names, library lists | version strings of any length | the numbers in the requested name prevail |
| CLIArguments (`CLIArguments.cpp`) | a null-terminated `argv` of owned strings | copy, move, append | self-assignment | a deep copy, always terminated |
| PasswdDB (`PasswdDB.cpp`) | entries of a passwd file | read, write, search | optional fields, numbers wider than an id | what is written is read back |
| environment, JSON, Logger, Error, umbrella headers, test helpers | small or none | parsing, formatting, wrapping | little | not modelled, see section 7 |

How they interact: `validatedBindMount` calls the identity functions and the
filesystem utilities, and is called by `Mount::performMount`, by the loader of
mount requests and by `DeviceMount`; the hooks call `switchToUnprivilegedProcess`
and the cgroup functions; everything that changes something outside reports
failures by exceptions of type `libsarus::Error`, and much of the code below it
also throws those of Boost. The locks are used by clients of the library only.
`PROJECT.json` lists the hazards of each part at its line.

## 2. Plan

In the order of importance, all done:

1. `Mutex`, `Lockfile`, `LockfileProofs`: exclusion between processes.
2. `RWLock`, `Flock`, `FlockProofs`: shared and exclusive locks.
3. `Identity`, `BindMount`, `BindMountProofs`: credentials, and the largest
   sequence of steps that depends on them.
4. `ForkExec`: child processes.
5. `Folders`, `PathRAII`: several processes that create, copy, write and remove
   in one tree, and objects that remove a path in the end.
6. `Rootfs`, `SharedLibs`: path resolution against the path walk of the kernel,
   and what is concluded from the names on the way.
7. `Strings`, `MountRequest`, `DeviceRequest`, `PasswdDB`: texts that are parsed
   and printed.
8. `Cgroup`: a hook looks for the cgroup of a process that others move.
9. `CLIArguments`: memory owned by objects that are copied and appended.

10. `ForkExecProofs`: what a call reports, and what it leaves open.
11. `PathRAIIProofs`: what the processes in `Folders` and `PathRAII` do to each other.
12. The last part of `BindMountProofs`: why requests fail.
13. `InputsProofs`: the owners of arguments, and the cgroup of the device.
14. `CallProofs`, `UndisturbedProofs`: a call that has the file system for itself
    does what it promises.

What is left without a theorem is out of the prover's reach, see the end of
section 6. What could still be modelled is in section 7.

## 3. Modules

`Mutex` is the abstract exclusive lock, per process and file: free, held, or
abandoned. `RWLock` is the abstract readers-writer lock, per object.

`Lockfile` is `src/Lockfile.cpp`. `exists` is the set of lock files on disk;
`phase`, `lockfile`, `timeout` and `elapsed` are an object and the locals of its
constructor. `Construct` starts the constructor; each round of its loop is one of
`CreateSucceeds`, `CreateConflicts` and `CreateErrs` (`open(2)` with `O_EXCL`),
the last two followed by the test of the timeout and the addition to the unsigned
clock; `CloseSucceeds` and `CloseFails` end it. `MoveConstruct`, `MoveAssign` and
`Destroy` are the members of those names. `Crash` is the death of a process.

`Flock` is `src/Flock.cpp`. `ofile` and `olock` are the kernel's open file
descriptions, by process and descriptor, and their locks; `lockfile`, `lockType`,
`fileFd` and `timeoutTime` are the members of the same names. `granted` is a
history variable: the lock that the last call to return promised to the client.
`Open`, `OpenFails`, `Lock`, `LockConflicts` and `LockFails` are the outcomes of
the two calls of `acquireLockAtomically`; the kernel's conversion drops the old
lock before it looks for conflicts (`WouldBlock`). `Convert` and `ConvertToSame`
are the two ways through `convertToType`. `Mover` and `Retrier` are the processes
that move objects and that repeat conversions that timed out.

`Identity` has the credentials (real, effective, saved and filesystem uids, gids,
groups), the kernel's permission rules, and each function as an action for its
normal return and one for its exceptions, with everything that has been changed
by the time of the exception.

`BindMount` extends `Identity` with `validatedBindMount`. `pc` is the next step,
one per call that can fail: `BecomeUser`, `GetValidatedMountSource`,
`GetValidatedMountDestination`, `BecomeRoot`, `CreateMountPoint`,
`BecomeFilesystemUser`, `Bind`, `Remount`, `MakePrivate`, `BecomeFilesystemRoot`
and the handler `RestoreAndRethrow`. The destination is a path of `Depth`
components, each with a kind, a device, and an owner when the request created it.
The process may call `switchIdentity` (users in `Switcher`) and
`switchToUnprivilegedProcess` between requests.

`ForkExec` is `forkExecWait` and `executeCommand`. For each call there are the
ends of its pipe that the caller has open, the chunks in the pipe, the child and
its status, and whether the child or a process it left in the background has the
pipe as its stdout. The caller's steps are its system calls, `Read`, `EndOfFile`
and `ReadFails` those of `readCStream`.

`Folders` is the part of `utility/filesystem.cpp` that changes something. `fs` is the
file system: a kind, an owner, a content and a mode for each path. `call` is the
call each process is in, with an agenda (`todo`) of jobs; a job is what the code
does between two accesses that other processes may come between, and a job that
calls a function puts that function's jobs before the rest. `Folder`,
`MakeDirectory`, `CheckMade` and `SetOwner` are `createFoldersIfNecessary`;
`CheckFile`, `CheckParent` and `OpenFile` `createFileIfNecessary` (and the last
`writeTextFile`); `RemovePath` and `Copy` `copyFile`; `CheckSource`, `CheckAbsent`,
`ListFolder` and `CopyEntry` the recursive `copyFolder`; `RemoveIfExists`
`removeFile`; `Refuse` is an exception of Boost. Two history variables say which
paths were removed or closed, and whether a call had the file system for itself.

`PathRAII` extends it with the objects of `PathRAII.cpp`. `managed` is the path of each
object; the destructor is one more call, with the jobs `CheckPath`, `Widen`
(`setFilesAsRemovableByOwner`) and `Clear` (`remove_all`).

`Rootfs` has the nodes of a root file system, which somebody else makes one by one
(`MakeNode`), and the two functions that resolve paths in it. `Walk` is the reference:
the kernel's walk, for a process confined there. `SharedLibs` extends it with the
names of libraries; a name is the sequence of its parts between dots.

`Strings` is `utility/string.cpp`, texts being sequences of tokens; a function that may
throw returns the set of its result, empty when it throws. `MountRequest`,
`DeviceRequest` and `PasswdDB` are the parsers and printers of those names.

`Cgroup` has the kernel's cgroups (`cgroups`, `member`, the mount table) with the
process moving between them and exiting, and a hook that reads `/proc` in the
steps `FindSubsystemMountPaths`, `FindCgroupPathInHierarchy`, `FindCgroupPath` and
`WhitelistDeviceInCgroup`. A mount or a line is chosen by `FindsAsked`, the substring
test of the code. `CLIArguments` has the allocated blocks (`memory`) and each
object's vector of pointers into them (`args`); two variables are for the properties:
`meant`, what a client expects an object to have, and `emptied`, the objects that have
lost some of it by an assignment to themselves, or were made from one that has.
`PushAll` is a loop of `push_back`: each string is copied into a free block, and
`Allocations` are the lowest free ones because blocks are alike.

`MCLockfile`, `MCFlock` and `MCBindMount` give the constants values for TLC; `ForkExec`
needs no definitions for that. `MCBindMount` also has the history variable `orderly`: no
call has failed by itself so far and the process has taken on no identity between
requests, which it knows by comparing each step with an instance of `BindMount`
without failures. `MCFolders` has the calls, trees and objects of the run. `MCInputs` puts
the small parts side by side: each of its behaviours is about one `subject`, a
rootfs, a set of libraries, a text that grows by pieces, a hook or argument lists.

The proofs are in `LockfileProofs`, `FlockProofs`, `BindMountProofs` (which extends
`MCBindMount`, for the history variable `orderly`), `ForkExecProofs`, `InputsProofs`
(`CLIArguments` and `Cgroup`), and three modules about `Folders` and `PathRAII`, each
extending the one before: `PathRAIIProofs` (what agendas find and leave alone, and the
theorems about processes among others), `CallProofs` (what each call but `copyFolder`
has done and has still to do while it is undisturbed) and `UndisturbedProofs`
(`copyFolder`, and the theorem about all calls).

Operators called "Mutant of …" are plausible wrong versions of the definition
that follows them. They are used by no specification: putting one in the place of
the original makes TLC report the property it is paired with in `PROJECT.json`,
which shows that the property says something about that code.

## 4. Runs

| run | question | instance |
|---|---|---|
| `lockfile` | exclusion, files of holders stay, bounded waits, orphans only by faults, refinement of `Mutex`, finite timeouts end | 2 processes, 3 objects, 2 files, a clock of 8 values that wraps |
| `flock` | promises kept, leaks harmless, only constructors leak, refinement of `RWLock`; a process that moves objects and repeats conversions harms only itself | a careful process with 2 objects, a careless one with 1, 2 descriptors each, timeouts none, 0 and 1 |
| `flock_live` | finite timeouts end, also on closed descriptors; conversions in all directions never wait for each other | a process that moves its 2 objects, another with 1 object |
| `flock_moved`, `flock_reconverted` | findings, see below | 2 objects |
| `bindmount` | identity, validation, mount flags, with any call failing; while none has failed, the order of the switches never denies a legitimate request | root and 2 users, 3 groups, 2 devices, 3 path components |
| `bindmount_groups`, `bindmount_exception`, `bindmount_owner` | findings | the same, with the failing call that is needed |
| `forkexec` | true results, the descriptors that each way out leaves open, no deadlock, no child left by a call that does not fail; any call may fail | 2 calls, output larger than the pipe, descriptors for one pipe |
| `folders` | alone each call does what it promises or has an excuse; creators tolerate each other and keep what existed; a path has one manager and is not forgotten; every call ends | a root process with 1 call of 6 kinds, a user's with 2 calls and 2 objects, 3 trees, paths of 2 names |
| `inputs` | paths resolve as for the kernel; requested ABIs prevail; mount options commute; what is printed is read back; the device is whitelisted in a cgroup of the process; arguments are owned once | rootfs of 5 nodes, library folders of 3 files or links, texts of 4 pieces, 3 hierarchies with 2 moves or removals, 2 objects with up to 3 arguments, 4 in all |

Why the bounds are enough. Locks: a conflict takes two holders and a third who profits;
two objects in one process are needed for moves (`lockfile`, `flock_live`), a third in
another process to see the effect; the clock must pass each timeout and wrap around once.
A second file matters to `Lockfile` only (a move assignment drops one lock and takes
another). Mounts: two users and root distinguish the identity of this request, of the one
before and of the process; three components give an existing prefix, a created parent and
a created mount point; of two devices one is allowed and one only when the root file
system is on it. Processes: the second call sees what the first has leaked, and three
chunks of output do not fit in a pipe of two. Folders: one name above another gives a
parent to be created, removed or a file in the way; the user's process repeats a call, and
meets its own leftovers; a copy of a folder into itself reaches the limit of the path
length. Rootfs: links to links, to `..`, absolute and in circles take two or three nodes.
Cgroups: one move and one removal between the two files read and the write. Texts: a
request in full has four pairs or three tokens, and one too many is still tried.
Arguments: with three an object that is appended to itself moves its vector too soon, and
with one it does not. The proofs of section 6 do not depend on the bounds.

`CHECK_DEADLOCK FALSE` is used for `ForkExec` and `folders`, where all calls of the
bound `MaxCalls` may be over, and for `inputs`, where a text or a rootfs is complete.

### Findings

Runs that TLC ends with a counterexample; each contradicts a comment or a test.

* `flock_moved`: a move copies the descriptor, so that the death of the source
  releases the lock of the target.
* `flock_reconverted`: after a conversion that timed out, the same conversion
  returns at once without a lock.
* `bindmount_groups`: after a rejected request the process keeps the
  supplementary groups of the user.
* `bindmount_exception`: an exception of Boost passes the handler that restores
  the identity.
* `bindmount_owner`: a failing `chown(2)` is ignored.

Behaviour that the model shows and no text of the repository denies:
`forkExecWait` never closes the `FILE` of its pipe, nor the write end when `fork` fails or
a callback throws, and `executeCommand` not its pipe when a read fails (`EndsLeftOpen`
has the exact list); the child is left behind when a callback, a read or `waitpid` fails; `execvp` that fails throws in the
child, which goes on as a second copy of the caller; a timed out `Flock`
constructor loses a descriptor; the lock file of a dead process stays;
`createFileIfNecessary` empties a file that another process has made since it looked;
`copyFile` onto the source removes it; `copyFolder` into a folder below the source ends
when the paths are too long; the move assignment of `PathRAII` forgets the path the
object had (the exception named in `StaysManaged`), although the class "manages the
lifetime of a specified path" (`PathRAII.hpp:19`); the cgroup functions read past the end
of a line when the process has gone, take the first hierarchy in whose name the
subsystem occurs, and write into a folder of their own making when the cgroup
has been removed; an object of `CLIArguments` that is assigned to itself is emptied, and
one of more than two arguments that is appended to itself may read its vector after it
has been freed (the exceptions named in `OwnsItsArguments`); `isSharedLib` asks the host about a path in a rootfs.
The properties exclude these by name, so that everything else is checked.

## 5. Fairness

No safety property rests on fairness. `FairSpec` of `Lockfile` is weak fairness of the
attempts of each object and of its `close(2)`: a thread that sleeps and polls is
scheduled again. `FairSpec` of `Flock` has the same for both calls of
`acquireLockAtomically`, and strong fairness of a `flock(2)` that reports the truth:
on an open descriptor it does not fail for other reasons for ever. It is strong
because the deaths of other processes interrupt the waiting again and again.
`ForkExec` has weak fairness of the caller's successful steps and of the
steps of each program. That programs and background processes end is an assumption
about them, without which `forkExecWait` waits for ever, as it should. `PathRAII` has
weak fairness of the steps of each process that is in a call. Failures, signals,
deaths and new calls are never assumed to happen. `inputs` has no liveness.

## 6. Proofs

All proofs use the named assumptions of the modules and nothing else: `proc` is any
function from objects to processes, `Backoff` is positive, timeouts fit their type.
Finite sets are assumed only where the system has them: the names in a file system
(`Folders`, whose calls can also be counted and whose initial trees are file systems,
where what exists is in a directory) and the hierarchies of `Cgroup`, where a
controller is in one hierarchy, as cgroups(7) says. In `CLIArguments` the null
pointer is no block. `RequestAssumption` says what the parameters of a function in
`Folders` can be: only the copies have two paths, only some have an owner.

`LockfileProofs`: type correctness, `MutualExclusion`, `HeldFileExists`,
`WaitBounded`, `OnlyFaultsOrphan`, and the refinement of `Mutex`. The type
invariant is strengthened by the fact that an object in its constructor has a
file and a timeout in `Timeout`. Exclusion alone is not inductive: a constructor
could create a file that is held but missing. Together with `HeldFileExists` it
is, because creation requires the file to be absent, and moves and removals act
on the file of one object. The refinement maps a file to the process of its owner,
which exclusion makes unique; moves are stuttering steps.

`FlockProofs`: type correctness, `PromiseKept`, `LeakedHoldsNothing`, and the
refinement of `RWLock`, all about the objects of processes that neither move nor
repeat timed out conversions, in the presence of others that do. The inductive
invariant has three parts: the kernel's (compatible locks on a file, closed
descriptors have none), the objects' (two objects of a careful process never have
the same descriptor; the descriptor of an object is open on its file; a lock
granted is a lock held; an object that waits or timed out holds nothing or its
old type), and that descriptors without objects hold nothing. The refinement
follows from the kernel's part, because what is granted is held.

`BindMountProofs`: every property of the run `bindmount`, for any users, groups,
devices and depth of the path, and any set of failing calls. `IdentityRestored` and
`ValidatesAsUser` are not inductive. `CredInv` adds what makes them so: saved and
real ids are equal and change only when root is dropped, so that the identity taken
at the call stays the real one; at the steps made as root the effective ids are
the real ones; an effective user other than a real root has its own groups, which
is why an unprivileged process need not and cannot set them. `PathInv` describes
the request at each step: nothing is created before the mount point is, the mount
has exactly the attributes made so far, and after the validation the component
whose device decides (`Target`) is on an allowed device. The core of the latter is
`CreateFacts`: creating components below the deepest existing one moves the
decision to another component, on the same device. That a deepest component exists
follows from the well-foundedness of the natural numbers (`LeastNatural`).

`OnlyConstructorsLeak`, an action property of `Flock`, needs type correctness only: in
each step of a careful process the descriptor that an object gives up is closed,
goes to another object, or is that of a constructor that throws.

`BindMountProofs`, last part: `OnlyBadRequestsFail`. It is not about one state: whether a
step of a legitimate request is permitted depends on the ids all steps before have left.
`OrderlyInv` says that in an orderly run all ids of the process are equal when a request
begins, so that the switches to the user and back are permitted, and that a request which
has failed, or is in the handler, is not legitimate.

`ForkExecProofs`: `TypeOK`, `ResultIsTheChilds` and the action property `EndsLeftOpen`. What makes the result
inductive is conservation, for each call: what was received and what is in the pipe is
together what was written. At the end of the file the pipe is empty and has no writer, so
that all of the output has been received. `InProgress` says at which steps this is so, and
exactly which ends of the pipe the caller has open at each step (`OpenAt`), since every
exception leaves at another one: `EndsLeftOpen` compares the two at the steps that end a
call, and at all others that a call which is over keeps what it has.

`PathRAIIProofs`: `TypeOK`, `CreatorsTolerateEachOther`, `ManagedOnce` and the action
properties `CreatorsKeepWhatExisted` and `StaysManaged`. The first, the second and
`CreatorsKeepWhatExisted` cannot be shown from the current job: what it finds was made by
a job before it, and may have been removed since by others. `FoldersInv` is therefore
about the whole agenda of each call. It is `Led` by what has been seen: the folder in
which a job makes something exists, was removed, or is made by an earlier job of the same
agenda. It is `Careful` of what the call has to keep (`Kept`, what existed when the call
began and was not removed since, without the one file that is to be replaced): no job to
come touches it, whatever others do in between. And a creation that failed has its reason.
The agendas that calls start with are so, and each job keeps them so, with what it puts
before the rest; other processes can only add to what has been seen and take from what is
to be kept. `ManagedOnce` is inductive together with the type of `managed`.

`CallProofs` and `UndisturbedProofs`: `UndisturbedCallsWork`. The property compares the
end of a call with its beginning; the invariant `Undisturbed` says of every call that
is `alone` how far it is. The call is as it was requested (`Asked`), and has thrown for a
reason that holds (`Pardoned`), or is over and has done everything (`Fulfilled`), or is at
one of the places of `AtWork`: `InFolders`, `InFile`, `InCopy`, `InTree`, `InRemove`,
`InWrite`, `InTidy`. Each place gives the rest of the agenda exactly, and what has
changed since the call. They are operators of a call and a file system, so that a step
is two calls and two file systems, and the disturbance by others is trivial: `alone`
means that they changed nothing.

Three of the places need more than a case for each job.

* Creations (`Making`, `WayTo`): what is new is a folder on the way to `at`, and it has its
  owner unless giving it away is the next job; all else is as it was. Where the way
  begins, the deepest folder that exists, follows from the well-foundedness of the
  natural numbers.
* The destructor (`Tidies`): modes are widened from above to below, so that what is
  below a widened folder can be listed, and then removed from below to above
  (`WidensDown`, `RemovesUp`). The excuses are a path that belongs to somebody else, a
  folder that cannot be listed, and a refused lookup of the path itself.
* `copyFolder`, whose agenda grows with what it finds. A copy into a folder below the
  source never ends without throwing (`InVain`): there is always an entry still to be
  copied whose destination is below it (`Deepens`), until a path is too long. Any other
  copy divides the sources at each step (`Main`): every source is copied, or is at or
  below one of the entries that the agenda still has (`AllBut`, `Planned`), none of which
  is below another; whatever is in the new folder is the copy of a source, with its text
  (`Copied`). When the agenda is empty, all are copied.

`InputsProofs`, `CLIArguments`: `OwnsItsArguments`. `CLIInv` says that an object is a
sequence of blocks followed by null, that no block occurs twice in the pointers of all
objects, and that every allocated block occurs. `With` is the same for a memory in which
one object has been given other pointers: clearing an object and each loop of `push_back`
lead from one such memory to another, and every operation is made of these, those of an
object with itself included. That the strings of an object are the ones meant
(`HasMeant`) is part of it only for objects that are not `emptied`.

`InputsProofs`, `Cgroup`: `CgroupIsTheProcesses`. The hook finds the hierarchy in two files,
by a substring, and goes on with a relative path. `CgroupInv` says that the
hierarchy of the line it took is that of the mount it took, if the name is part of no
other controller's (`OneHierarchy`), and that the path it has stands for a cgroup the
process has been in, if that is below the root of the mount. The second rests on
`RelativeLeads`: the relative path between two paths that does not leave the mount point
leads back. That there is a first line, and a longest common prefix, follows
from the well-foundedness of the natural numbers and the finiteness of what is compared.
That the process may be moved between the steps is harmless because the cgroups it
has been in only grow; that it exits is why a line may be missing.

Only model-checked:

* the liveness properties `FiniteTimeoutReturns` (of both locks), `NeverWaitForEachOther`,
  `CallReturns`, `NoChildLeft` and `EveryCallEnds`: liveness under fairness is beyond the
  prover;
* `ResolvesLikeKernel`, `RequestedAbiPrevails`, `MountPairsCommute` and
  `PrintedIsReadBack`: they compare what recursive operators and folds compute for every
  input, which is induction over data, and the prover can expand no recursive operator.

## 7. Not modelled

`PROJECT.json` names every part with its status. Left out for good: logging and
the wording of errors; JSON (RapidJSON does the work); the environment, the output
of `readelf`, `ldconfig` and `ldd`, and other text parsers without state; searches and
predicates that read one thing; squashfs and overlay mounts, namespaces,
CPU affinity and host names, which are one call each; filesystem capabilities and
user namespaces, on which the code does not depend. In the models that exist: a
file is identified with its path (no renames while a lock is polled); descriptors
inherited through `fork` do not keep `flock` locks; output is text (`fgets` and
NUL bytes are not distinguished); the paths of a mount request do not change
during the request.

In `Folders` there are no links; the `stat` and `chown` of `setOwner` are one step, and so
are the calls that copy or write one file; the entries of a folder are those at its
opening; mode bits apply to every user but root, whoever owns the folder; gids follow
uids. Nobody dies: to the others, the death of a process looks like one that is not
scheduled, and no safety property needs it to be. A folder removed and made again by
others counts as removed. In `Rootfs` nobody removes nodes during a resolution: a link
removed between `lstat` and `readlink` would make `getSymlinkTarget` write before its
buffer. Path lookups stop after 8 links, where the kernel allows 40. In `SharedLibs` no
folder of the rootfs is named like a library. In `Cgroup` lines of `/proc` that do not
have the form of cgroup v1 are skipped as in the code and left out, and
`boost::filesystem::relative` is lexical. In `PasswdDB` numbers have base 3 and ids the
bound `UidRange` in the place of 2^32, with signs and leading blanks left out.
