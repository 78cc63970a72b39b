SPECIFICATION FairSpec
CONSTANT MaxSessions = 3
INVARIANTS TypeOK StoppedIsQuiet NobodyWaitsInVain
PROPERTIES ReplaceSafely TeardownIsLast CallsAdvance CallsReturn AudioEnds KeptAlive ImplementsService ImplementsDialogue
