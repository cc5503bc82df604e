\* At most three goroutines of one peer at a time.
SPECIFICATION FairSpec
CONSTANT Loop = {g1, g2, g3}
INVARIANT LoopAlive
PROPERTIES SilentFollowerRuns KillStops
