SPECIFICATION ServicesSpec
CONSTANTS
  Followed = {"REMEDIAL_SLOT"}
  MakeUps = {1}
  FirstClasses <- ClassesHeld
  MaxClasses = 3
  MaxCodes = 2
  MaxMarks = 1
  MaxFailures = 1
  WatchPercent = 60
  HighPercent = 50
  CriticalPercent = 34
  WatchAbsences = 2
  HighAbsences = 3
  CriticalAbsences = 4
  MinDelivered = 2
  MaxThreadCases = 2
  Admins = {1, 2, 3}
  LastInstance = 2
  HitThreads = {1, 2}
  Limit = 1
  MaxHits = 2
  MaxChanges = 2
  HubProcesses = {1, 2}
  Readers = {2}
  HubBackends <- BothBackends
  Raising = {"redis", "mongo"}
  CacheSize = 1
  StreamSize = 1
  MaxEvents = 1
  MaxRestarts = 1
  MaxRedispatches = 1
  MaxLapses = 1
  SaarthiRequests = {1, 2}
  Preferred = "gemini"
  Keyed = {"gemini", "openrouter"}
  LlmRequired = TRUE
  ChatRows = 2
  MaxTalk = 2
  MaxSundayMarks = 1
  Courses = {1, 2}
  Rooms = {"r"}
  FacultyOf <- TaughtBy
  WeekDays = 2
  Starts = {1}
  LastEnd = 2
  FirstRows <- RowsAtFirst
  FirstEnrolled = {1}
  FirstRooms <- RoomsAtFirst
  Sections = {"A", "B"}
  LastDate = 3
  MaxEdits = 2
  MaxAttendances = 1
  Emails = {"e1", "e2"}
  SignupThreads = {1, 2}
  MaxId = 3
  MaxSignups = 3
  MaxLostSignups = 1
  FirstStudents = {}
  MinFrames = 2
  CaptureFrames = 3
  MaxFrames = 4
  EnrolFrames = 2
  MinSimilarity = 80
  PassThreshold = 85
  ValidPercent = 75
  Similarities = {60, 90}
  Poses = {0, 1}
  Textures = {0, 1}
  FlawsSeen = {"sharp", "feature"}
  Uploaders = {1, 2}
  MaxPhotos = 3
  FirstSemester = 1
  LastSemester = 3
  MaxTerms = 1
  MaxHasty = 2
  Screeners = {1, 2}
  Persons = {1, 2}
  FirstDevice = {2}
  Likeness <- FaceLikeness
  Applicants <- OneApplicant
  ParentStudents = 1
  FirstAccounts = {"active"}
  MaxFaces = 2
  MaxVideos = 1
  MaxSessions = 1
  Tabs = {1, 2}
  Shops = {"a", "b"}
  MenuItems = {1, 2}
  ShopOf <- ShopOfItem
  Catalogue = {"a", "b"}
  Hours = {10}
  MinShops = 2
  MinItems = 2
  Orders = {1, 2}
  OrderedAt <- OrderedFrom
  DemoModes = {FALSE}
  NoShop = "none"
  MaxQuantity = 1
  MaxStudentEdits = 3
  MaxStoreEdits = 1
  CodeRequests = {1}
  Notices = {1}
  MailSetups <- MailConfigurations
  Askers = {1, 2}
  MaxQuestions = 2
  MaxFaults = 1
INVARIANTS ServicesWellFormed AttendedSlotStaysDone SettledIsOwned ThreeAdmins DeliveredOnce CreditHolds ShownMayBeMarked
  PagesAgree LinkIsOwn RecognisedByBoth PhotoIsWhole
  PromotedOncePerTerm FacesAreScreened
  AnswerIsKept
PROPERTIES CriticalIsWatched ListenerRecovers
CHECK_DEADLOCK FALSE
