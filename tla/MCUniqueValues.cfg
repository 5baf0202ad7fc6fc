CONSTANTS
  Entries = {e1, e2}
  Values = {v1, v2}
  NoValue = NoValue
  Writers = {w1, w2}
  Patchers = {p1}
  Nobody = Nobody
CONSTRAINT Bounded
SYMMETRY Symmetry
SPECIFICATION Spec
INVARIANTS
  LedgerSound
