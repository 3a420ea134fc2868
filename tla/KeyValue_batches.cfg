\* Batches and increments of two guests on one bucket, over a backend that
\* may fail.
SPECIFICATION HSpec
CONSTANTS
  g1 = g1  g2 = g2  b1 = b1  b2 = b2  k1 = k1  k2 = k2
  Missing = Missing
  Guests = {g1, g2}
  Buckets = {b1}
  Keys = {k1, k2}
  Slots = {1}
  Half <- MCHalf
  Top <- MCTop
  Written <- OneWritten
  Deltas <- MCDeltas
  MaxBatch = 2
  Ops = {"get_many", "set_many", "increment"}
  Faulty = TRUE
  Nobody = Nobody
  Unknown = Unknown
SYMMETRY MCSymmetry
PROPERTIES KeepsContractElsewhere ReadYourWrites
