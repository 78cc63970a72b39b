SPECIFICATION FairSpec
CONSTANTS
    MaxStarts = 1
    MaxPending = 1
PROPERTY StopDisconnects
