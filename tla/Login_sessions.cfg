SPECIFICATION Spec
CONSTANTS
  Handlers = {g, h}
  Clients = {g, h}
  States <- MCStates
  NoLogin = NoLogin
  Never = Never
  MaxPending = 2
  CleanupInterval = 2
  MaxConsumeAttempts = 2
  MaxTime = 2
  Requests <- MCRequests
  Accounts <- MCAccounts
  NoCode = NoCode
  None = None
  TTL = 2
  Tenants = {"t", "u"}
  Subjects = {"ada", "bob"}
  Users = {"idp_ada", "idp_bob"}
  DefaultUser <- MCDefaultUser
  NoUser = NoUser
  NotFound = NotFound
  Scenarios <- MCScenarios
INVARIANTS LoginTypeOK SessionBound
PROPERTIES LoginsKept LinksStay
SYMMETRY MCSymmetry
