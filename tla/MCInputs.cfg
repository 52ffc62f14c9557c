CONSTANTS
  Dot = Dot
  DotDot = DotDot
  MaxNodes = 5
  MaxElements = 3
  HostFolders <- MCHostFolders
  DestinationDisallowedWithPrefix <- MCDisallowedPrefix
  DestinationDisallowedExact <- MCDisallowed
  DeviceFile <- MCDeviceFile
  UidRange = 10
  MaxPieces = 4
  Subsystems <- MCSubsystems
  Hierarchies <- MCHierarchies
  CgroupPath <- MCCgroupPath
  MountTables <- MCMountTables
  MaxMoves = 2
  Object = {o1, o2}
  Argument = {s, t}
  MaxArgs = 3
  MaxBlocks = 4
  Null = Null
SPECIFICATION Spec
INVARIANT ResolvesLikeKernel
INVARIANT RequestedAbiPrevails
INVARIANT MountPairsCommute
INVARIANT PrintedIsReadBack
INVARIANT CgroupIsTheProcesses
INVARIANT OwnsItsArguments
CHECK_DEADLOCK FALSE
