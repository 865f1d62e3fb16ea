SPECIFICATION Spec
CONSTANTS
  a = a
  b = b
  a1 = a1
  a2 = a2
  b1 = b1
  i1 = i1
  i2 = i2
  i3 = i3
  Accounts = {a, b}
  Clients <- MCClients
  AccountOf <- MCAccountOf
  Nobody = Nobody
  Ids <- MCIds
  Targets = {other}
  Listed = {}
  IdleDays = 2
  TombstoneDays = 1
  Ttl = 1
  Window = 1
  MaxPerWindow = 1
  Copies = 1
  MaxNow = 3
  MaxDrops = 2
  Budgets <- MCBudgets
SYMMETRY MCSymmetry
CHECK_DEADLOCK FALSE
INVARIANT RacesCostOneRowEach
PROPERTY LinksKeepTheirWord
