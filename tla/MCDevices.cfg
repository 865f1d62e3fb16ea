SPECIFICATION DevicesSpec
CONSTANTS
  a = a
  v = v
  a1 = a1
  a2 = a2
  v1 = v1
  h1 = h1
  Accounts = {a, v}
  Devices <- MCDevices
  OwnerOf <- MCOwnerOf
  Listeners <- MCListeners
  InBand = {a2}
  Nets = {home}
  Tracks = {t1, t2}
  Hashes = {h1}
  RecordingOf <- MCRecordingOf
  Petnames = {n1}
  Blank = Blank
  CopyTtl = 0
  RowTtl = 1
  MaxNow = 1
  MaxTokens = 5
  Budgets <- MCBudgets
CHECK_DEADLOCK FALSE
INVARIANTS GrantsServeTheListener 
PROPERTY DevicesCatchUp
