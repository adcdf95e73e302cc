SPECIFICATION Spec
CONSTANTS
  c1 = c1
  c2 = c2
  a1 = a1
  a2 = a2
  Sockets <- MCSockets
  Accounts <- MCAccounts
  Shown <- MCShown
  o1 = o1
  Orders = {o1}
  AccountOf <- MCAccountOf
  t1 = t1
  t2 = t2
  Ticks <- MCTicks
  Interval = 1
  Start = 1
  MaxTime = 2
  NoAccount = NoAccount
INVARIANTS
  MapsAgree
  GoneLeavesNothing
  TicksThrottled
  OrderReachesSubscribers
SYMMETRY AlikeTicks
CHECK_DEADLOCK FALSE
