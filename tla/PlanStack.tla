------------------------------ MODULE PlanStack ------------------------------
(***************************************************************************)
(* What the executor promises, without its mechanics: the file changes of  *)
(* a plan form a stack.  They come into force in plan order; a success     *)
(* leaves all of them in force; after a failure they leave in the reverse  *)
(* order until none is in force.  A change somebody else interferes with,  *)
(* or that the executor loses hold of, is set aside for good.              *)
(***************************************************************************)
EXTENDS Naturals

VARIABLES
  steps,    (* the file changes of the plan, numbered in plan order        *)
  force,    (* those in force                                              *)
  aside,    (* those nobody can answer for any more                        *)
  status    (* "applying", "undoing", or how it ended                      *)

svars == <<steps, force, aside, status>>

Lowest(i, S) == i \in S /\ \A j \in S : i <= j
Highest(i, S) == i \in S /\ \A j \in S : j <= i

SInit == force = {} /\ aside = {} /\ status = "applying"

Waiting == steps \ (force \cup aside)

Push ==
  /\ status = "applying"
  /\ \E i \in steps : Lowest(i, Waiting) /\ force' = force \cup {i}
  /\ UNCHANGED <<steps, aside, status>>

(* The change that failed may have come into force unnoticed.              *)
Fail ==
  /\ status = "applying"
  /\ \/ UNCHANGED aside
     \/ \E i \in steps : Lowest(i, Waiting) /\ aside' = aside \cup {i}
  /\ status' = "undoing"
  /\ UNCHANGED <<steps, force>>

Pop ==
  /\ status = "undoing"
  /\ \E i \in force :
       /\ Highest(i, force)
       /\ force' = force \ {i}
       /\ aside' \in {aside, aside \cup {i}}
  /\ UNCHANGED <<steps, status>>

Lose ==
  /\ \E i \in steps \ aside : aside' = aside \cup {i} /\ force' = force \ {i}
  /\ UNCHANGED <<steps, status>>

End ==
  /\ \/ status = "applying" /\ Waiting = {} /\ status' = "ok"
     \/ status = "applying" /\ force = {} /\ status' = "shown"
     \/ status = "undoing" /\ force = {} /\ status' = "error"
     \/ status \in {"applying", "undoing"} /\ status' = "killed"
  /\ UNCHANGED <<steps, force, aside>>

SNext == Push \/ Fail \/ Pop \/ Lose \/ End

SSpec == SInit /\ [][SNext]_svars
=============================================================================
