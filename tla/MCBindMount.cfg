\* Two users with different groups, any system call may fail, paths of three
\* components on allowed and other devices.
CONSTANTS
  root = root
  u1 = u1
  u2 = u2
  staff = staff
  video = video
  wheel = wheel
  Root = root
  Id = {root, u1, u2}
  Gid = {staff, video, wheel}
  gids <- MCgids
  Fallible <- AllCalls
  Depth = 3
  Device = {tmp, other}
  NoDevice = NoDevice
  HostDevices = {tmp}
  Switcher = {root, u1, u2}
SPECIFICATION MCSpec
INVARIANT TypeOK
INVARIANT IdentityRestored
INVARIANT ValidatesAsUser
INVARIANT OnlyValidatedChanges
INVARIANT ReturnedIsMounted
INVARIANT DroppedForGood
INVARIANT OnlyBadRequestsFail
PROPERTY MountsAsRootAndUser
