CONSTANTS
  Items = {a, b, c, e, f, g}
  Pris = {0, 1, 2}
  NoItem = NoItem
SYMMETRY ItemSymmetry
SPECIFICATION Spec
INVARIANTS
  PositionsExact
PROPERTIES
  ImplementsMinQueue
