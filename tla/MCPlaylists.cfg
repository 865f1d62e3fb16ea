SPECIFICATION PlaylistsSpec
CONSTANTS
  o = o
  g = g
  o1 = o1
  g1 = g1
  Creator = o
  Guests <- MCGuests
  Clients <- MCClients
  AccountOf <- MCAccountOf
  Nobody = Nobody
  MaxTracks = 2
  MaxEdits = 2
  MaxCalls = 4
  MaxTies = 1
CHECK_DEADLOCK FALSE
INVARIANTS PlaylistIsOneList FollowersKnowWhenBehind
PROPERTY EditsAreSound
