\* Two groups and a shardmaster of two replicas each, one failed call and one
\* change of leader, while groups join, leave and shards move.
SPECIFICATION FairSpec
CONSTANTS
  NShards = 2
  Gids = {1, 2}
  Replicas = 2
  Keys = {97}
  MaxConfigs = 3
  MaxFaults = 1
  MaxElections = 1
  MaxOps = 1
INVARIANTS TypeOK OncePerFailure
PROPERTY ClerkReturns
CHECK_DEADLOCK FALSE
