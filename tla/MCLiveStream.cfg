SPECIFICATION FairSpec
CONSTANTS
  alice = alice
  bob = bob
  phone = phone
  laptop = laptop
  Users = {alice, bob}
  Devices = {phone, laptop}
  Online = {phone}
  Owner <- BothOfAlice
  Everyone = Everyone
  AnyDevice = AnyDevice
  Publishers = {p1, p2}
  REPLAY_CAPACITY = 1
  USER_REPLAY_CAPACITY = 2
  GLOBAL_CHANNEL_CAPACITY = 1
  USER_CHANNEL_CAPACITY = 1
  OutCapacity = 1
  MaxMessages = 2
  MaxBoot = 2
INVARIANTS HubIsSound ResumeLeavesNoGap
PROPERTY EventuallyCaughtUp
