\* The vault and the SQL host, each with two instances.
SPECIFICATION Spec
CONSTANTS
  g1 = g1  g2 = g2  l1 = l1  l2 = l2  k1 = k1  v1 = v1  v2 = v2  t1 = t1
  None = None  Missing = Missing  NoTable = NoTable
  Guests = {g1, g2}
  Slots = {1, 2, 3}
  Entries = {1, 2}
  Lockers = {l1, l2}
  Secrets = {k1}
  Values = {v1, v2}
  Faulty = TRUE
  Half = 4
  Params <- MCParams
  MaxRows = 2
INVARIANT SqlRowsAsInserted
PROPERTY VaultImplementsContract
SYMMETRY Symmetry
