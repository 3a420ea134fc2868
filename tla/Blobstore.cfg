\* Two instances, one name created up to twice, two objects of at most one chunk.
SPECIFICATION Spec
CONSTANTS
  g1 = g1  g2 = g2  n1 = n1  o1 = o1  o2 = o2  c1 = c1
  Missing = Missing
  Guests = {g1, g2}
  Names = {n1}
  Objects = {o1, o2}
  Chunks = {c1}
  Limit = 1
  MaxSlots = 2
  MaxBodies = 2
  MaxBatch = 2
INVARIANT TypeOK
PROPERTIES DeletedUnlessRewritten OldHandlesMissTheNew BytesAreAsWritten
SYMMETRY MCSymmetry
