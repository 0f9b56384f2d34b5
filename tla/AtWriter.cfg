SPECIFICATION Spec
CONSTANTS
  s1 = s1
  s2 = s2
  Sessions = {s1, s2}
  Faults = {"refused", "lost"}
  MaxNow = 2
  MaxAsks = 3
SYMMETRY Symmetry
INVARIANTS
  TypeOK
  NoJobIsLost
  DuplicatesAreReported
  SuccessIsTrue
