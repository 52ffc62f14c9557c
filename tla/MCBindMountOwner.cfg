\* chown(2) fails on the new mount point.
CONSTANTS
  root = root
  u1 = u1
  u2 = u2
  staff = staff
  video = video
  wheel = wheel
  Root = root
  Id = {root, u1, u2}
  Gid = {staff, video, wheel}
  gids <- MCgids
  Fallible = {"chown"}
  Depth = 3
  Device = {tmp, other}
  NoDevice = NoDevice
  HostDevices = {tmp}
  Switcher = {}
SPECIFICATION MCSpec
INVARIANT MountPointOwned
