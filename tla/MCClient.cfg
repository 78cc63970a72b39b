SPECIFICATION FairClientSpec
CONSTANTS
    s1 = s1
    s2 = s2
    NoScanner = NoScanner
    Scanners = {s1, s2}
    MaxStarts = 3
    MaxPending = 2
INVARIANTS ClientTypeOK AudioReleasedFirst NothingLeft AudioHasStatus OneScannerUnlessEdited
PROPERTIES OneThread ImplementsFeed StopGetsThrough
