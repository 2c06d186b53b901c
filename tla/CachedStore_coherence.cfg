SPECIFICATION FairSpec
CONSTANTS
  Clients = {c1, c2}
  Tenants = {t1}
  Values = {v1, v2}
  NoTenant = NoTenant
  MaxCalls = 3
INVARIANTS TypeOK Coherent SwapReplacesExpected
PROPERTIES CallsReturn
