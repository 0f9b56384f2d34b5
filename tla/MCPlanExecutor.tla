--------------------------- MODULE MCPlanExecutor ---------------------------
(* Instances of PlanExecutor.  A plan is a sequence of up to MaxLen steps  *)
(* of the shapes the writers produce; its k-th file step names the k-th    *)
(* file of FileOrder, which loses nothing but the names of the files.      *)
EXTENDS PlanExecutor

CONSTANTS MaxLen, FileOrder, p1, p2, old, new, m644

Shapes == [before: {Absent}, after: {new}]      (* create                  *)
     \cup [before: {old}, after: {new}]         (* overwrite               *)
     \cup [before: {old}, after: {Absent}]      (* remove                  *)
     \cup [before: {Absent}, after: {Absent}]   (* remove, contents unread *)
     \cup [onFail: Policies]                    (* command                 *)

IsFile(shape) == "after" \in DOMAIN shape

Step(shapes, i) ==
  IF IsFile(shapes[i])
  THEN [kind |-> "file", path |-> FileOrder[Cardinality({j \in 1 .. i : IsFile(shapes[j])})],
        before |-> shapes[i].before, after |-> shapes[i].after, mode |-> m644]
  ELSE [kind |-> "command", onFail |-> shapes[i].onFail]

FileCount(shapes) == Cardinality({i \in DOMAIN shapes : IsFile(shapes[i])})

MCPlans ==
  LET shapings == UNION {[1 .. n -> Shapes] : n \in 1 .. MaxLen}
      usable == {shapes \in shapings : FileCount(shapes) <= Len(FileOrder)}
  IN {[i \in DOMAIN shapes |-> Step(shapes, i)] : shapes \in usable}

TwoFiles == <<p1, p2>>
=============================================================================
