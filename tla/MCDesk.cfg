SPECIFICATION Spec
CONSTANTS
  r1 = r1
  r2 = r2
  Requests = {r1, r2}
  None = None
  a = a
  b = b
  People = {a, b}
  MaxLines = 2
  MaxPeriodVersion = 4
  MaxDeliveries = 2
  Contracted = 2
  Percents = {50, 75, 100}
  EntrySizes = {1}
  MaxEntries = 2
  MaxEntryMinutes = 2
  MaxCarried = 1
  k1 = k1
  k2 = k2
  ClosedTickets = {k1, k2}
  Quarter = quarter
  MaxDay = 2
  Reviewers = {a, b}
  MaxEdits = 1
  MaxInstant = 2
  MaxSchedulePatches = 1
  MaxPeriodRuns = 2
  ScopeTickets = {s1, s2}
  MaxScopeEvents = 2
  Leads = {1, 2}
  RenewalDates = {2, 4}
  NoticePeriods = {1, 3}
  MaxToday = 4
  MaxEngagementPatches = 2
  MaxAnnounced = 3
  MailRows = {s1, s2}
  MaxSends = 2
  MaxTokens = 3
  MaxMessages = 3
  MaxTickets = 3
  Policies = {"xms", "external", "newest"}
  MaxInboxAttempts = 2
  MaxFieldInstant = 3
  MaxTroubles = 1
  Maps = {s1, s2}
  MaxMapEdits = 1
  MaxActivations = 2
  Batches = {1, 2}
  Cases = {k1}
  MaxChanges = 1
  MaxStarts = 2
  MaxMishaps = 1
  Proposals = {a, b}
  MaxSwitches = 1
  MaxTicketVersion = 3
  AdminRoles = {s1, s2}
  MaxAdminChanges = 2
  s1 = s1
  s2 = s2
  Changes = {s1, s2}
  Windows = {a, b}
  MaxHour = 2
  MaxReplanned = 1
  MaxTexts = 2
  MaxArticleVersion = 4
  LinkedTickets = {s1, s2, k1}
  LinkTypes = {"parent", "related"}
  MaxLinks = 3
  GroupMembers = {a, b}
  MaxParts = 2
  DayMinutes = 5
  MaxFrom = 7
  MaxWork = 4
  Processes = {a, b}
  Slots = {s1, s2}
  MaxCalendarPatches = 2
  Allocated = {k1, k2}
  MonthDays = {1, 2, 3}
  HolidaysOfMonth = {3}
  MaxPuts = 2
  MaxViews = 1
  Recipients = {k1, k2}
  MaxEvents = 3
  Skills = {s1, s2}
  Certifications = {k1, k2}
  ExpiryWindow = 1
  SweepBatch = 1
  MaxRosterDay = 2
  MaxAssessments = 2
  MaxVersions = 3
  MaxOverrides = 2
  MaxCommits = 2
  Options = {"x", "y"}
  MaxFormVersions = 2
  MaxRequestsMade = 1
  MaxFormEdits = 3
  LastDay = 2
  OffDays = {2}
  LedgerSizes = {1, 2}
  Allotted = 2
  CarryCap = 1
  MaxLedger = 2
  Listed = {1, 2, 3}
  PageSize = 1
  MaxShown = 2
  MaxMinutes = 1
  MaxMoves = 4
  MaxCreated = 1
  MaxSaves = 2
  Reported = {k1}
  PeriodDays = 2
  LastReportDay = 4
  MaxMade = 2
  MaxUnsettled = 1
  Events = {s1, s2}
  VerifiedDays = 1
  LastStreamDay = 3
  MaxStreamFaults = 1
  MaxFrames = 2
  ClientKeys = {k1}
  Endpoints = {s1, s2}
  PauseAfter = 1
  MaxCalls = 4
  MaxAccountVersion = 4
  MaxGrantChanges = 2
  Subjects = {s1, s2}
  SeenLimit = 0
  MaxSignIns = 2
  MaxAccessChanges = 2
  Callers = {a, b}
  PerWindow = 2
  WindowTicks = 2
  LastTick = 4
  MaxHits = 6
  Orders <- const_Orders
  RemindAfter <- const_RemindAfter
  ExpireAfter <- const_ExpireAfter
  Occasions <- const_Occasions
  Drafts <- const_Drafts
  Submissions <- const_Submissions
  AllDefinitions <- const_AllDefinitions
  AllAnswers <- const_AllAnswers
INVARIANTS TypeOK MoneyHolds ReportsHold CommercialHolds LibraryHolds MailHolds ImportsHold OfficeHolds TeamworkHolds
SYMMETRY const_Symmetry
CHECK_DEADLOCK FALSE
