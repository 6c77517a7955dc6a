CONSTANTS
  None = None
  MaxLines = 2
  MaxFd = 16
  Lines <- EndingStages
  Contents <- TwoFiles
  Scripts <- PlainScripts
SPECIFICATION Spec
INVARIANT OuterShellSurvives
