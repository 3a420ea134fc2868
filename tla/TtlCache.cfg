\* Two guests on one key.
SPECIFICATION Spec
CONSTANTS
  g1 = g1  g2 = g2  k1 = k1  v1 = v1
  Missing = Missing
  Never = Never
  Half = 4
  FirstDate <- BeforeEpoch
  LastDate = 7
  Guests = {g1, g2}
  Keys = {k1}
  Payloads = {v1}
  Ttls = {1, 3, 7}
  Sec = 2
  MaxTime = 4
  Faulty = TRUE
SYMMETRY MCSymmetry
INVARIANT TypeOK
PROPERTIES TtlHonoured CleanupTakesOnlyTheDue
