SPECIFICATION FairSpec
CONSTANTS
  user = user
  phone = phone
  single = single
  remix = remix
  place = place
  None = None
  Uploaders = {user}
  Devices = {phone}
  Owner <- OneDevice
  Hashes = {single, remix}
  Size <- Sizes
  Position <- SamePlace
  Wants <- EveryFile
  Quota = 2
  SpoolMax = 2
  MaxUploads = 3
  MaxHandlers = 2
  MaxFaults = 1
CHECK_DEADLOCK FALSE
 
PROPERTIES UploadsSettle OverBudgetIsTrimmed
