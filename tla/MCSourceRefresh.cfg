SPECIFICATION Spec
CONSTANTS
  s1 = s1
  s2 = s2
  Sessions = {s1, s2}
  Sources <- MCSources
  Family <- MCFamily
  Mode <- MCMode
  Products <- MCProducts
  Shown <- MCShown
  MaxTime = 1
  MaxBegun = 3
SYMMETRY SessionSymmetry
INVARIANTS
  LayersBacked
  LeftoversHarmless
PROPERTIES
  EarlierLayersStay
