\* Bucket and cas handles on two buckets, with batches, listings and increments
\* through them, over a backend that may fail.
SPECIFICATION Spec
CONSTANTS
  g1 = g1  g2 = g2  b1 = b1  b2 = b2  k1 = k1  k2 = k2
  Missing = Missing
  Guests = {g1, g2}
  Buckets = {b1, b2}
  Keys = {k1}
  Slots = {1, 2}
  Half <- MCHalf
  Top <- MCTop
  Written <- OneWritten
  Deltas <- OneDelta
  MaxBatch = 2
  Ops = {"cas_new", "list_keys", "set_many", "increment"}
  Faulty = TRUE
SYMMETRY MCSymmetry
INVARIANT TypeOK
PROPERTY KeepsContractElsewhere
