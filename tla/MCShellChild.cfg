CONSTANTS
  None = None
  MaxLines = 2
  MaxFd = 16
  Lines <- SpawningLines
  Contents <- TwoFiles
  Scripts <- OwnCaptures
SPECIFICATION Spec
INVARIANT ChildrenCompose
