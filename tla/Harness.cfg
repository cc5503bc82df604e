\* The network under any tester, and three tests of the harnesses; see MCHarness.
SPECIFICATION FairSpec
CONSTANTS
  c1 = c1
  k1 = k1
  e1 = e1
  s1 = s1
  o1 = o1
  o2 = o2
  None = None
INVARIANTS TypeOK AckedIsSaved OldInstanceIsolated LinksFollowGroups LeaderInMinority
PROPERTIES AtMostOnce CallReturns HandlerEnds
CHECK_DEADLOCK FALSE
