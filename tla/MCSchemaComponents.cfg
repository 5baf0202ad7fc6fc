SPECIFICATION ComponentSpec
CONSTANTS
  Components = {c1, c2}
  Names = {hero, card}
  SubKeys = {k1, k2}
  Admins = {a1, a2}
  Writers = {w1}
  Shapes <- OneField
  NoField = "none"
  NoItem = "none"
  NoComponent = NoComponent
CHECK_DEADLOCK FALSE
SYMMETRY Symmetry
INVARIANTS ComponentsSound
PROPERTY NoValueLost
CONSTRAINT Calm
