--------------------------- MODULE MCLaunchdWriter ---------------------------
(* Instances of LaunchdWriter.  The executor starts with an empty plan.    *)
EXTENDS LaunchdWriter

CONSTANTS m644

Plists == [mine: BOOLEAN, off: BOOLEAN, version: {1, 2}]
NoPlan == {<<>>}
TwoDirs == <<agent, daemon>>
=============================================================================
