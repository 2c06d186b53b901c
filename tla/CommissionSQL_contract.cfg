SPECIFICATION Spec
CONSTANTS
  Sources = {1, 2}
  Earnings = {1, 2}
  SourceOf <- MCSourceOf
  Slots = {"seller"}
  b1 = b1
  b2 = b2
  Settlements = {b1, b2}
  Payees = {"ada", "bob"}
  NoPayee = NoPayee
  Facts = {"big", "small"}
  NoFacts = NoFacts
  References = {"r1"}
  NoReference = NoReference
  Clients = {c1, c2}
  Requests <- MCRequests
  Starts <- MCStarts
  Rules <- MCRules
  MaxAttempts = 2
  MaxCalls = 2
INVARIANT SQLTypeOK
PROPERTIES ImplementsStore IdsAreNew
SYMMETRY MCSymmetry
