\* The documentation of increment: it is atomic.
SPECIFICATION Spec
CONSTANTS
  g1 = g1  g2 = g2  b1 = b1  b2 = b2  k1 = k1  k2 = k2
  Missing = Missing
  Guests = {g1, g2}
  Buckets = {b1}
  Keys = {k1}
  Slots = {1}
  Half <- MCHalf
  Top <- MCTop
  Written <- MCWritten
  Deltas <- MCDeltas
  MaxBatch = 0
  Ops = {"increment", "set"}
  Faulty = FALSE
PROPERTY AtomicIncrement
