SPECIFICATION Spec
CONSTANT MaxSessions = 1
INVARIANT SignalEndsSleep
