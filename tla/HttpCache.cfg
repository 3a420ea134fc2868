\* Two guests, two etags: every path through handle, with a bucket that may fail.
SPECIFICATION HSpec
CONSTANTS
  g1 = g1  g2 = g2  e1 = e1  e2 = e2  r1 = r1
  Missing = Missing
  Never = Never
  NoHeader = NoHeader
  Half = 4
  FirstDate = 0
  LastDate = 1
  Guests = {g1, g2}
  Keys = {e1, e2}
  Payloads <- MCPayloads
  Ttls <- MCTtls
  Sec = 1
  MaxTime = 1
  Faulty = TRUE
  Headers <- MCHeaders
  Shapes = {e1, e2}
  Bodies = {r1}
  Values = {"bytes"}
INVARIANTS HTypeOK BucketHoldsOnlyStorable HitIsEarlierResponse
SYMMETRY MCSymmetry
