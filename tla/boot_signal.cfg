SPECIFICATION Spec
INVARIANT SignalIsSeen
