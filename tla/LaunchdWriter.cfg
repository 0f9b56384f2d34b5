SPECIFICATION LSpec
CONSTANTS
  agent = agent
  daemon = daemon
  Paths = {agent, daemon}
  Dirs <- TwoDirs
  Texts <- Plists
  Absent = Absent
  m644 = m644
  Modes = {m644}
  DefaultMode = m644
  Plans <- NoPlan
  Faults = {"refused", "lost"}
  MaxEdits = 0
  MaxAsks = 2
INVARIANTS
  SuccessIsInEffect
  LoadedIsOnDisk
  StaysAsAsked
PROPERTIES
  TheirsStayTheirs
