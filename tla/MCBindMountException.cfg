\* exists() throws while the process has the identity of the user.
CONSTANTS
  root = root
  u1 = u1
  u2 = u2
  staff = staff
  video = video
  wheel = wheel
  Root = root
  Id = {root, u1, u2}
  Gid = {staff, video, wheel}
  gids <- MCgids
  Fallible = {"stat"}
  Depth = 3
  Device = {tmp, other}
  NoDevice = NoDevice
  HostDevices = {tmp}
  Switcher = {}
SPECIFICATION MCSpec
INVARIANT RestoredAfterException
