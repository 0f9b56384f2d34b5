--------------------------- MODULE MCSystemdWriter ---------------------------
(* Instances of SystemdWriter: every plan it can make of the two files.    *)
EXTENDS SystemdWriter

CONSTANTS m644

SystemdPlans ==
  {Changes(Steps(o, t, state, check)) :
     o \in Ops, t \in [Paths -> {theirs, mine, Absent}], state \in {"enabled", "static"},
     check \in BOOLEAN}
=============================================================================
