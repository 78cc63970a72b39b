SPECIFICATION FairSpec
CONSTANTS
    ElementSets <- AllElementSets
    HoldSets <- AllHoldSets
    MaxMessages = 3
    MaxQueue = 2
INVARIANTS TypeOK OneMessageShown HoldIsCurrent QuietShowsNoSignal FrameOutlivesUpdates
PROPERTIES ImplementsFeed ShownInOrder EveryUpdateShown
