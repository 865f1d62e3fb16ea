SPECIFICATION FairSpec
CONSTANTS
  host = host
  guest = guest
  h1 = h1
  g1 = g1
  Users = {host, guest}
  Clients = {h1, g1}
  AccountOf <- OneClientEach
  Nobody = Nobody
  MaxJams = 2
  MaxTracks = 2
  MaxCalls = 4
CHECK_DEADLOCK FALSE
INVARIANT RoomsKeepTheirRules
PROPERTIES EndingIsRemembered QueueMoves
