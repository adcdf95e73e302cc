SPECIFICATION Spec
CONSTANTS
  c1 = c1
  c2 = c2
  c3 = c3
  s1 = s1
  s2 = s2
  Gap = Gap
  Sockets <- MCSockets
  Watched <- MCWatched
  Topics <- MCTopics
  Earlier = {0, 3}
INVARIANTS
  TypeOK
PROPERTIES
  BroadcastReachesAll
  LiveStaysConnected
  TicksAreWhole
  EverySymbolServed
CHECK_DEADLOCK FALSE
