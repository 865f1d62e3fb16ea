SPECIFICATION MCSpec
CONSTANTS
  host = host
  guest = guest
  hostPhone = hostPhone
  guestPhone = guestPhone
  Users = {host, guest}
  Devices = {hostPhone, guestPhone}
  Owner <- OneDeviceEach
  Friends <- HostAndGuest
  Blocked = {}
  NoDevice = NoDevice
  Ids = {s1}
  Chunks = 3
  MaxPosts = 2
  CHANNEL_BUFFER_CHUNKS = 1
  FANOUT_BUFFER_CHUNKS = 1
  A = A
  ann = ann
  ben = ben
  cy = cy
  m1 = m1
  m2 = m2
  m3 = m3
  den = den
  car = car
  f = f
  g = g
  Listeners = {ann, ben, cy}
  Machines = {m1, m2, m3}
  OwnerOf <- MCOwnerOf
  Petnames = {den, car}
  Unnamed = Unnamed
  Tracks = {f, g}
  BandOf <- MCBandOf
  Secs <- MCSecs
  Zones <- MCZones
  Hour = 2
  Day = 4
  Year = 8
  Milestones = {2, 3}
  OnRepeatPlays = 2
  MinCohort = 2
  MaxCircle = 2
  MaxEntries = 2
  MaxTime = 17
  Starts <- MCStarts
CHECK_DEADLOCK FALSE
INVARIANTS SettledSessionsAreGone
  PlaysAreCounted NobodyIsReadUnasked NumbersAddUp
PROPERTIES KeepsItsPromise BothEndsFinish
