SPECIFICATION Spec
CONSTANTS
  Names = {"backup", "report"}
  Delays = {"5", "10"}
  DefaultDelay = "5"
  OthersLines <- MCOthersLines
  Schedules = {"@annually", "1h"}
  Gone = Gone
  MaxLen = 3
  MaxEdits = 1
INVARIANTS
  NamesStayUnique
  StampsHaveJobs
  ReadsBackAsAsked
