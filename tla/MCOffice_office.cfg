CONSTANTS
  Requests = {q1, q2}
  Orders = {o1}
  People = {ana, luis}
  Numbers = {n1}
  None = None
  Sessions = {s1, s2}
  MaxEvents = 4
  asset = asset
  d1 = d1
  Defects = {d1}
  c1 = c1
  f1 = f1
  f2 = f2
  Assets = {asset}
  Captured = {c1}
  Seen = {f1, f2}
  AboutOf <- MCAboutOf
  Deciders = {b1, b2}
  Phones = {p1}
  Passes = {g1}
  MaxProposals = 2
  MaxWork = 2
  Units = {u1, u2}
  Facts = {x, y}
  Writers = {w1, w2}
  MaxChain = 3
  Importers = {i1, i2}
  Boards = {u1, u2}
  Refs = {r1, r2}
  r1 = r1
  r2 = r2
  Pages <- MCPages
  Nothing = Nothing
  MaxImports = 2
  Editors = {e2, e3}
  Hours = {1, 4}
  DefaultStart = 2
  DefaultEnd = 3
  DayLength = 4
  WeekLength = 3
  WorkingDays = {1, 3}
  ReportEvery = 2
  NoOpinion = NoOpinion
  Unsent = Unsent
  MaxRows = 2
  Works = {wk, fr}
  wk = wk
  fr = fr
  ParentOf <- MCParentOf
  Alone = Alone
  Contents = {c1}
  SizeOf <- MCSizeOf
  MAX_ATTACHMENT_BYTES = 2
  MAX_OFFLINE_BYTES_PER_ORDER = 2
  Rules = {r1, r2}
  Clerks = {k2}
  Publishers = {g2, g3}
  MaxBuilds = 2
  Quantities = {0, 5, 16, 100, 1031, 221700}
  Spoken <- MCSpoken
  MaxPhrases = 2
  asset_types <- MCTypes
  enums <- MCEnums
  asset_terms <- MCAssetTerms
  attribute_terms <- MCAttributeTerms
  enum_synonyms <- MCSynonyms
  housekeeping_terms = {"OBJECTID"}
  Alphabet <- MCAlphabet
  Tokens <- MCTokens
  Length <- MCLength
  Schemas <- MCSchemas
  MaxExports = 2
  MaxChoices = 1
  NoDomain = NoDomain
  NoDraft = NoDraft
  Files = {f1, f2, c1}
  BytesOf <- MCBytesOf
  KindOf <- MCKindOf
  LimitOf <- MCLimitOf
  PART_SIZE = 2
  MaxUploads = 3
  CrewCodes <- MCCrewCodes
  ContractorOf <- MCContractorOf
  Rows <- MCRows
  Tasks = {"t1", "t2", "t3"}
  TaskOf <- MCTaskOf
  CrewPhones = {"g1"}
  ServedBy <- MCServedBy
  ReportedFrom = {30}
  ZonesAt <- MCZonesAt
  Demands <- MCDemands
  AreaOfForm <- MCAreaOfForm
  Planners <- MCPlanners
  Upper <- MCUpper
  NoOne = NoOne
  NoPlace = NoPlace
  NoZone = NoZone
  TOP_N = 1
  MaxEdits = 2
  Administrators = {"a1", "a2"}
  StartsAt = {3}
  MIN_STOPS = 2
  MAX_STOPS = 3
  Moments = {"inicio", "fin"}
  Handhelds = {"h1", "h2"}
  Ahead <- MCAhead
  Supervisors = {"a1"}
  FUTURE_SLACK = 1
  Slots = {0, 3}
  MaxHour = 2
  MaxOps = 2
SPECIFICATION Spec
INVARIANTS PermitUnderGrant TrailAccounts FindingKept TrailHolds LedgerExplains SleepsThroughNothing PackageServes SpokenAsMeant WrittenInItsCodes FileIsWhole RouteIsShortest PhoneTimesStand
PROPERTIES SuggestsTheFit
CHECK_DEADLOCK FALSE
