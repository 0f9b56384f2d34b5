SPECIFICATION Spec
CONSTANTS
  Scopes = {"user", "system", "script"}
  Jobs = {backup, report}
  Kinds = {"env", "managed"}
  Marks = {"tight"}
  BannerLen = 2
  Gone = Gone
  MaxLen = 3
  MaxEdits = 1
PROPERTIES
  OneLineWritten
  ReportedIdNamesTheJob
  SwitchIsTrue

\* A crontab at the bound with no job in it leaves nothing to ask for.
CHECK_DEADLOCK FALSE
