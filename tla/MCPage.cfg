CONSTANTS
    s1 = s1
    s2 = s2
    None = None
    Garbled = Garbled
    NaN = NaN
    Sensors = {s1, s2}
    Bodies <- MCBodies
    Answers <- MCAnswers
    Inputs <- MCInputs
    Default = 2
    MaxPairs = 2
    Foreground = {0}
    MaxClicks = 3
    MaxWorkers = 3
    MaxMail = 1
SPECIFICATION FairSpec
CHECK_DEADLOCK FALSE
INVARIANTS
    PageTypeOK
    SentUsable
    OneTimer
PROPERTIES
    LockingEnds
    CanvasCleared
