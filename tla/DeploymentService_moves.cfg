SPECIFICATION Spec
CONSTANTS
  Tenants = {t1}
  Units = {u1, u2, u3}
  NoUnit = NoUnit
  MaxVersion = 2
  c1 = c1
  c2 = c2
  c3 = c3
  i1 = i1
  i2 = i2
  Clients = {c1, c2, c3}
  NoClient = NoClient
  Instances = {i1, i2}
  Home <- TwoInstances
  MaxCalls = 5
SYMMETRY UnitSymmetry
INVARIANTS TypeOK PlacementValid MoveFromCurrentUnit CutoversReportedOnce
PROPERTIES ChangesAlongMoves
