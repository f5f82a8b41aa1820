SPECIFICATION Spec
CONSTANT TicksPerRun = 1
INVARIANT FollowsLfsr
PROPERTY KeepsHopping
