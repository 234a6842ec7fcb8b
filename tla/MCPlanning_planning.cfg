CONSTANTS
  a1 = a1
  a2 = a2
  z1 = z1
  z2 = z2
  Assets = {a1, a2}
  Sessions = {s1, s2}
  None = None
  Calendar <- MCCalendar
  CalendarPlans <- MCCalendarPlans
  Drafts <- MCDrafts
  MaxOrders = 2
  MaxSaves = 1
  Orders = {o1, o2, o3}
  Planners = {p1}
  NoWork = NoWork
  Reached = {"draft", "planned", "assigned", "cancelled"}
  ZoneCodes = {z1, z2}
  Places = {1, 2}
  Nowhere = Nowhere
  Parcels = {r1, r2}
  PlaceOf <- MCPlaceOf
  Fillers = {bk1}
  Files <- MCFiles
  Codes = {m1, m2}
  Labels = {l1, l2}
  Editors = {e1}
  PageSize = 1
  MaxRevision = 3
  MaxVersion = 4
  LastDay = 3
  Limits = {1, 2}
  Measured = 2
  Strictness = {TRUE}
  Admins = {ad1}
  NoPeriod = NoPeriod
  MaxCalls = 3
  AssetTypes = {t1, t2}
  Classes = {k1, k2}
  Undecided = Undecided
  Mappers = {mp1}
  MaxDrafts = 2
  MaxSyncs = 1
  Versions = {n1, n2}
  Shapes = {sh1, sh2}
  Carriers = {c1}
  Publishers = {pb1, pb2}
  NoVersion = NoVersion
  Holders = {h1, h2}
  Reporters = {rp1}
  Required = {TRUE}
  Workdays = {1, 2, 3}
  LastSeen = 4
  NobodyYet = NobodyYet
  Fields = {fl1, fl2}
  Values = {v1}
  NoAnswer = NoAnswer
  Photos = {ph1}
  MinBefore = 1
  MinAfter = 0
  Desks = {dk1, dk2}
  MaxDictations = 2
  Jobs = {"j1"}
  Squads = {"S1", "S2"}
  Technicians = {"h1"}
  Tablets = {"h1", "h2"}
  NoHolder = NoHolder
  MaxJobVersion = 3
  MaxRefused = 1
  MaxMishaps = 3
SPECIFICATION Spec
INVARIANTS OnceAPeriod WorksSettleLast ImportAccounts CalendarFires DeviceMirrors NoDotAfterNo AnswersFromPeople BoardIsTrue
PROPERTIES PastStands PublishedStands ShapeStands
SYMMETRY RunsAlike
CHECK_DEADLOCK FALSE
