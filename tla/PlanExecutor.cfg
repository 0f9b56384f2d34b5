SPECIFICATION Spec
CONSTANTS
  p1 = p1
  p2 = p2
  old = old
  new = new
  m644 = m644
  Paths = {p1, p2}
  Texts = {old, new}
  Absent = Absent
  Modes = {m644}
  DefaultMode = m644
  FileOrder <- TwoFiles
  Plans <- MCPlans
  Faults = {"refused", "lost"}
  MaxEdits = 1
  MaxLen = 3
INVARIANTS
  TypeOK
  AllOrNothing
  PrefixOnDisk
  OutputsAnswerCommands
PROPERTIES
  Terminates
  ImplementsPlanStack
