\* Clients that come, go, come back at the address they had, and a service peer.
SPECIFICATION FairSpec
CONSTANTS
  a1 = a1  a2 = a2  s1 = s1  q1 = q1  q2 = q2
  NoFilter = NoFilter  NoPeer = NoPeer  All = All
  Addrs = {a1, s1}
  Loopback = {s1}
  Filters = {q1, q2}
  MaxConns = 3
  MaxSent = 2
  MaxTo = 2
INVARIANTS TypeOK ListedIsAlive RunningIsListed DeliveredInOrder FilterIsItsOwn
PROPERTY VanishedIsRemoved
CHECK_DEADLOCK FALSE
