SPECIFICATION ISpec
CONSTANTS
  RowOps = {delete, toggle}
  FormOps = {add, edit}
  Interval = TRUE
  CanPanic = TRUE
  Numbers = {"2", "7"}
  SecondsPerMinute = 2
  MinutesPerHour = 4
  HoursPerDay = 2
  DaysPerMonth = 2
  LongSpan = 500
  MaxEntries = 2
  Width = 1024
  Sources = {"cron", "systemd", "anacron", "launchd"}
  Texts <- MCTexts
  Retyped <- MCRetyped
  NewTargets <- MCNewTargets
  TheirJobs <- MCTheirJobs
INVARIANTS
  ReplyBelongsToBusy
  PopupsMatchMode
  LockedWhilePlanning
  MeaningIsKept
  UnchangedEditIsAccepted
  IdsLeadBack
PROPERTIES
  WritesAreConfirmed
  RowsStayUnderPopup
  BusyClears
  RowsCatchUp
