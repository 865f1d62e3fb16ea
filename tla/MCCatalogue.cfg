CONSTANTS
  Nobody = Nobody
  t1 = t1
  t2 = t2
  t3 = t3
  t4 = t4
  s1 = s1
  s2 = s2
  s3 = s3
  s4 = s4
  A = A
  B = B
  x = x
  y = y
  z = z
  Clients = {c1, c2}
  Takes = {t1, t2, t3, t4}
  Sound <- MCSound
  Length <- MCLength
  Model <- MCModel
  DurationTolerance = 1
  Ids = {1, 2, 3}
  Spellings = {s1, s2, s3, s4}
  Norm <- MCNorm
  Published <- MCPublished
  Asked <- MCAsked
  PageSize = 1
  MaxBatch = 2
  MaxPublishes = 2
  Window = 1
  Songs = {x, y, z}
  Played <- MCPlayed
  Retention = 2
  Floor = 2
  Marks = {0, 1}
  MaxObservations = 2
  MaxNeighbours = 1
  MaxNow = 2
  MaxDay = 4
  Budgets <- MCBudgets
  c1 = c1
  c2 = c2
  d1 = d1
  d2 = d2
  u = u
  v = v
  Phones = {d1, d2}
  NoKey = NoKey
  Phrases = {u, v}
  Keep = 1
  MaxCalls = 7
SPECIFICATION MCSpec
SYMMETRY Symmetry
CHECK_DEADLOCK FALSE
INVARIANTS RecordingsHoldTogether NothingIsSkippedOver ChartsAreHonest
  KeyIsFoundAgain BackupsAreKept
PROPERTY FirstWordStands
