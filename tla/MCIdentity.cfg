SPECIFICATION IdentitySpec
CONSTANTS
  ada = ada
  bob = bob
  c1 = c1
  c2 = c2
  s1 = s1
  s2 = s2
  Nobody = Nobody
  Nothing = Nothing
  Names <- MCNames
  Clients <- MCClients
  Subjects <- MCSubjects
  MaxTokens = 2
  MaxSecrets = 2
  MaxCodes = 2
  MaxFlows = 2
  MaxRequests = 3
  MaxAccounts = 3
  MaxStep = 2
SYMMETRY MCSymmetry
CHECK_DEADLOCK FALSE
INVARIANT AccountsKeepTheirOwner
PROPERTY FactorHolds
