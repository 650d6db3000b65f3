SPECIFICATION ConsoleSpec
CONSTANTS
  m1 = m1
  m2 = m2
  a1 = a1
  a2 = a2
  b1 = b1
  b2 = b2
  p1 = p1
  p2 = p2
  p3 = p3
  u1 = u1
  u2 = u2
  i1 = i1
  i2 = i2
  t1 = t1
  t2 = t2
  g1 = g1
  pw = pw
  s1 = s1
  s2 = s2
  x1 = x1
  y1 = y1
  f1 = f1
  f2 = f2
  z1 = z1
  z2 = z2
  r1 = r1
  r2 = r2
  Messages = {m1, m2}
  QueueFields = {"accountId", "batchId"}
  RowValue <- MCRowValue
  AnyValue = AnyValue
  Unread = Unread
  NoRow = NoRow
  RowsPerPage = 1
  People = {p1, p2, p3}
  Addresses = {u1, u2}
  Instances = {i1, i2}
  SeedOf <- MCSeedOf
  NoUser = NoUser
  Unnamed = Unnamed
  MaxTokens = 2
  MaxChanges = 2
  OpenTabs = {t1, t2}
  Nowhere = Nowhere
  MaxLogins = 2
  MaxTrips = 1
  MaxOutages = 1
  Ids = {a1}
  Draft = Draft
  Missing = Missing
  Conns = {g1, pw}
  Rests = {s1, s2}
  Blank = Blank
  Keep = Keep
  OAuthConns = {g1}
  Accepted <- MCAccepted
  MaxCalls = 2
  Signs = {x1}
  Boxes = {y1}
  Layouts = {"photo-card", "minimal"}
  FillIn = {"email", "photoUrl"}
  NoSign = NoSign
  MaxVisits = 2
  MaxKeys = 2
  MaxRequests = 2
  Sheets = {f1, f2}
  RowsOf <- MCRowsOf
  Zones = {z1, z2}
  NoSheet = NoSheet
  MaxPosts = 3
  MaxChoices = 3
  Parts = {"queue"}
  Clicks = {"bulkCancel", "filter", "status"}
  MaxClicks = 4
  MaxMoves = 1
  Bare = Bare
  Unknown = Unknown
  ZoneNames <- MCZoneNames
  CampaignRows <- MCCampaignRows
  SignOffs <- MCSignOffs
  MailboxZone <- SteadyZone
  Hours = {0, 60}
  MaxChecks = 2
  MaxLetters = 1
PROPERTIES BulkStaysInTheBatch
