SPECIFICATION USpec
CONSTANTS
  timer = timer
  service = service
  theirs = theirs
  mine = mine
  new = new
  Paths = {timer, service}
  Texts = {theirs, mine, new}
  Absent = Absent
  m644 = m644
  Modes = {m644}
  DefaultMode = m644
  Plans <- SystemdPlans
  Faults = {"refused", "lost"}
  MaxEdits = 0
  UserScope = TRUE
INVARIANTS
  SuccessIsInEffect
  TheirServiceSurvives
