SPECIFICATION Spec
CONSTANTS
  None = None
  NoFile = NoFile
  Admin = Admin
  Chars = {"a", "b", "c", "t", "x", "y", "h", ".", ":", " "}
  SafeChars = {"a", "b", "c", "."}
  Zones = {"Brussels", "UTC"}
  DefaultZone = "Brussels"
  Horizon = 40
  DayMinutes = 10
  FallbackMinutes = 6
  MaxReminders = 2
  MaxReminderMinutes = 8
  Clicks = {c1, c2}
  Posts = {p1}
  Ids <- TheIds
  Files = {1, 2}
  FileOf <- TheFileOf
  Calendars <- TheCalendars
  Bodies <- TheBodies
  Handmade <- TheHandmade
  Legacy <- OnlyA
  MaxClicks = 2
  MaxMishaps = 1
  MaxStarts = 2
SYMMETRY Symmetry
INVARIANTS
  TypeOK ServedIsDisk OrphansOnlyFromRaces NeverHalfWritten IssuedWithProfile
  RemovedStaysOut AcceptedStaysMappable 
   WorkerSurvives
PROPERTY FilesKept
CHECK_DEADLOCK FALSE
