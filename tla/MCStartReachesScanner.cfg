SPECIFICATION ClientSpec
CONSTANTS
    s1 = s1
    s2 = s2
    NoScanner = NoScanner
    Scanners = {s1, s2}
    MaxStarts = 1
    MaxPending = 1
PROPERTY StartReachesScanner
