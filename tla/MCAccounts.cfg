SPECIFICATION Spec
CONSTANTS
  ada = ada
  bob = bob
  c1 = c1
  c2 = c2
  t1 = t1
  t2 = t2
  t3 = t3
  k1 = k1
  Nobody = Nobody
  Nothing = Nothing
  Names <- MCNames
  Clients <- MCClients
  Tokens <- MCTokens
  Codes <- MCCodes
  MaxRequests = 3
  MaxAccounts = 3
  MaxUses = 1
  MaxChanges = 1
SYMMETRY MCSymmetry
CHECK_DEADLOCK FALSE
INVARIANTS
  AdministratorRemains
  RotationSignsOut
  AdmissionIsEarned
