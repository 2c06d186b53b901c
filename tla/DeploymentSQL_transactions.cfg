SPECIFICATION SQLSpec
CONSTANTS
  Tenants = {t1}
  Units = {u1, u2}
  NoUnit = NoUnit
  MaxVersion = 2
  Sessions = {s1, s2}
  NoSession = NoSession
SYMMETRY Symmetry
PROPERTIES ImplementsStore
