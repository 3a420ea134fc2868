\* Three calls race to refresh one token.
SPECIFICATION Spec
CONSTANTS
  c1 = c1  c2 = c2  c3 = c3  s1 = s1  s2 = s2
  Calls = {c1, c2, c3}
  Scopes = {s1}
  Lives = {0, 2}
  MaxTime = 3
  MaxTokens = 3
SYMMETRY MCSymmetry
INVARIANTS TypeOK NeverEmpty GoodWhenAsked
PROPERTIES ExpiryNeverRecedes
