SPECIFICATION Spec
CONSTANTS
  a = a  b = b  a1 = a1  b1 = b1  b2 = b2
  Nobody = Nobody
  Users = {a, b}
  Sessions = {a1, b1, b2}
  Account <- MCAccount
  Codes = {1, 2}
  MaxRequests = 4
CHECK_DEADLOCK FALSE
INVARIANT FriendGraphIsSound
PROPERTIES BlockStands FramesToFriends
