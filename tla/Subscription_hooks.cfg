SPECIFICATION Spec
CONSTANTS
  Clients = {c1, c2}
  NoClient = NoClient
  Tenants = {t1, t2}
  NoTenant = NoTenant
  Plans = {p1}
  NoPlan = NoPlan
  PeriodEnds = {1, 2}
  GracePeriod = 1
  MaxTime = 3
  MaxDepth = 2
  MaxCalls = 4
SYMMETRY Symmetry
INVARIANTS TypeOK StagedByItsHook StagedFromCommitted ExpiresOnlyDue WaitsEnd
PROPERTIES BilledTransitions
