\* Two instances, a channel of two: handlers, senders and a server that falls behind.
SPECIFICATION FairSpec
CONSTANTS
  g1 = g1  g2 = g2  t1 = t1  t2 = t2  p1 = p1  p2 = p2  k1 = k1
  None = None  NoTopic = NoTopic  Response = Response  Ack = Ack
  Guests = {g1, g2}
  Topics = {t1}
  Payloads = {p1}
  MetaKeys = {}
  Slots = {1, 2}
  Cap = 2
  MaxSent = 3
INVARIANTS TypeOK HandedOnceInOrder SkippedOnlyWhenOverwritten
PROPERTY DeliveredOrOverwritten
