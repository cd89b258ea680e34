SPECIFICATION Spec
CONSTANTS
    MaxLen = 2
    MaxFrames = 3
    MaxFiles = 2
    MaxRestarts = 2
INVARIANT AckedSurvive
INVARIANT ReplayIsPrefix
INVARIANT ManifestKeepsData
CHECK_DEADLOCK FALSE
