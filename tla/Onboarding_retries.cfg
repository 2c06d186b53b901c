SPECIFICATION Spec
CONSTANTS
  a1 = a1
  a2 = a2
  b1 = b1
  proc1 = proc1
  proc2 = proc2
  Callers = {a1, a2, b1}
  Processes = {proc1, proc2}
  Process <- MCProcess
  Nobody = Nobody
  Admins = {admin}
  Managed = {a1, a2, b1, admin}
  Plans = {"basic", "pro"}
  NoTenant = NoTenant
  MaxSwaps = 2
  Units = {"eu", "us"}
  NoUnit = NoUnit
  Inputs <- MCInputs
  Usages <- MCUsages
  Budgets <- MCBudgets
  Consumers = {x, y}
  Limit <- MCLimit
  NoRow = NoRow
  MaxInt = 2
  MaxQuotaAttempts = 2
INVARIANTS OnboardingTypeOK RetriesResume Metered
PROPERTIES UsageKept SuccessMeansReady
SYMMETRY MCSymmetry
