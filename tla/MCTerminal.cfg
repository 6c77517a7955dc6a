SPECIFICATION TerminalSpec
CONSTANTS
    None = None
    MaxLines = 2
    MaxFd = 16
    Lines <- PlainLines
    Contents <- TwoFiles
    Scripts <- PlainScripts
    Chars = {"a"}
    MaxLen = 2
    MAX_HISTORY = 2
    TrimFactor = 1
    MaxDepth = 2
    MaxLogged = 4
INVARIANTS
    TerminalTypeOK
    PromptRestored
    CaptureOwned
    LinesKept
    FileBounded
    LastRunIsRecalled
    ModesDriven
PROPERTY AnswersAsIfForked
