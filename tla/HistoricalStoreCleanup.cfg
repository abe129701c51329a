SPECIFICATION Spec
CONSTANTS
  Handles = {h1, h2}
  d1 = d1
  d1x = d1x
  f1 = f1
  f2 = f2
  s1 = s1
  p = p
  Items <- MCItems
  Kind <- MCKind
  Subject <- MCSubject
  Needs <- MCNeeds
  PriorVersion <- MCPriorVersion
  Digest <- MCDigest
  Contracts = {k1, k2}
  MaxBackups = 1
  None = None
SYMMETRY Symmetry
INVARIANT
  CommittedPayloadsPresent
