SPECIFICATION Spec
CONSTANTS
  a = a
  b = b
  c = c
  Owner = a
  Friends <- MCFriends
  Readers = {a}
  MaxCalls = 3
  MaxEvents = 1
CHECK_DEADLOCK FALSE
INVARIANTS NobodyIsReadTooSoon 
PROPERTY HoldsItsMembers
