---------------------------- MODULE PlanExecutor ----------------------------
(***************************************************************************)
(* The plan executor of shuvjobs-core (manage.rs): `execute` carries out a *)
(* list of changes in order, `fail` and `roll_back` put the files it has   *)
(* already touched back, newest first, when one of them fails.             *)
(*                                                                         *)
(* The host is the rest of the world: a call on it may be refused, may     *)
(* take effect and still report a failure (an SSH link that drops after    *)
(* the remote `mv`), and other programs may write the same files at any    *)
(* time.  The process itself may be killed between any two host calls.     *)
(***************************************************************************)
EXTENDS Naturals, FiniteSets, Sequences

CONSTANTS
  Paths,        (* files of the host                                       *)
  Texts,        (* contents a file may have                                *)
  Absent,       (* stands for `None`: there is no such file                *)
  Modes,        (* permission bits                                         *)
  DefaultMode,  (* 0o644                                                   *)
  Plans,        (* the plans a writer may hand to the executor             *)
  Faults,       (* what a failing call does: "refused" or "lost"           *)
  MaxEdits      (* bound on the writes of other programs                   *)

Contents == Texts \cup {Absent}
Policies == {"error", "ignore", "allow"}

(* A file step writes `after`, or removes the file when `after` is Absent. *)
FileChange == [kind: {"file"}, path: Paths, before: Contents, after: Contents,
               mode: Modes]
CommandChange == [kind: {"command"}, onFail: Policies]
Change == FileChange \cup CommandChange

FileSteps(pl) == {i \in DOMAIN pl : pl[i] \in FileChange}

(* What the writers guarantee of a plan: no two steps name the same file.  *)
DistinctPaths(pl) ==
  \A i, j \in FileSteps(pl) : pl[i].path = pl[j].path => i = j

ASSUME PlansAssumption ==
  /\ Plans \subseteq Seq(Change)
  /\ \A pl \in Plans : DistinctPaths(pl)

ASSUME HostAssumption ==
  /\ Absent \notin Texts
  /\ DefaultMode \in Modes
  /\ Faults \subseteq {"refused", "lost"}
  /\ MaxEdits \in Nat

VARIABLES
  plan,     (* `changes`                                                   *)
  dry,      (* `mode == ApplyMode::DryRun`                                 *)
  text,     (* contents of every file                                      *)
  perm,     (* mode bits of every file                                     *)
  phase,    (* where execute, or the rollback in fail, has got to          *)
  next,     (* the change the loop is at                                   *)
  applied,  (* indices of the file steps pushed on `applied`               *)
  notes,    (* steps roll_back could not undo                              *)
  outputs,  (* `outcome.outputs`, as exit classes                          *)
  text0,    (* history: text and perm as the executor found them           *)
  perm0,
  unsure,   (* history: steps that failed although they took effect        *)
  touched,  (* history: files other programs wrote meanwhile               *)
  edits     (* history: how many such writes                               *)

host == <<text, perm>>
history == <<text0, perm0, unsure, touched, edits>>
vars == <<plan, dry, host, phase, next, applied, notes, outputs, history>>

Phases == {"running", "rollback", "ok", "error", "killed"}
Exits == {"zero", "listed", "other"}

TypeOK ==
  /\ plan \in Seq(Change) /\ DistinctPaths(plan)
  /\ dry \in BOOLEAN
  /\ text \in [Paths -> Contents]
  /\ perm \in [Paths -> Modes]
  /\ phase \in Phases
  /\ next \in 1 .. Len(plan) + 1
  /\ applied \subseteq FileSteps(plan)
  /\ notes \subseteq FileSteps(plan)
  /\ outputs \in Seq(Exits)
  /\ text0 \in [Paths -> Contents]
  /\ perm0 \in [Paths -> Modes]
  /\ unsure \subseteq FileSteps(plan)
  /\ touched \subseteq Paths
  /\ edits \in 0 .. MaxEdits

-----------------------------------------------------------------------------
(* A removal may be planned without reading the file first (the anacron    *)
(* writer drops a stale spool stamp that way): `before` is then None and   *)
(* roll_back has nothing to restore.                                       *)
Unrecorded(i) == plan[i].before = Absent /\ plan[i].after = Absent

(* The plan was made from the files as they are.                           *)
Fits(pl, t) ==
  \A i \in FileSteps(pl) :
    \/ pl[i].before = t[pl[i].path]
    \/ pl[i].before = Absent /\ pl[i].after = Absent

Init ==
  /\ plan \in Plans
  /\ dry \in BOOLEAN
  /\ text \in [Paths -> Contents]
  /\ perm \in [Paths -> Modes]
  /\ Fits(plan, text)
  /\ phase = "running"
  /\ next = 1
  /\ applied = {} /\ notes = {} /\ outputs = <<>>
  /\ text0 = text /\ perm0 = perm
  /\ unsure = {} /\ touched = {} /\ edits = 0

(* host.write_file and host.remove_file: the whole file, or nothing.       *)
Put(p, t, m) ==
  /\ text' = [text EXCEPT ![p] = t]
  /\ perm' = [perm EXCEPT ![p] = IF t = Absent THEN @ ELSE m]

(* tolerates *)
Tolerates(policy, exit) ==
  \/ exit = "zero"
  \/ policy = "ignore"
  \/ policy = "allow" /\ exit = "listed"

-----------------------------------------------------------------------------
(* A dry run returns the plan without a single host call.                  *)
DryRun ==
  /\ phase = "running" /\ dry
  /\ phase' = "ok"
  /\ UNCHANGED <<plan, dry, host, next, applied, notes, outputs, history>>

AtChange(kinds) ==
  /\ phase = "running" /\ ~dry
  /\ next <= Len(plan)
  /\ plan[next] \in kinds

FileStep ==
  /\ AtChange(FileChange)
  /\ Put(plan[next].path, plan[next].after, plan[next].mode)
  /\ applied' = applied \cup {next}
  /\ next' = next + 1
  /\ UNCHANGED <<plan, dry, phase, notes, outputs, history>>

(* Mutant of FileStepFails: a refused step is skipped, not the end.        *)
FileStepSkipped ==
  /\ AtChange(FileChange) /\ "refused" \in Faults
  /\ next' = next + 1
  /\ UNCHANGED <<plan, dry, host, phase, applied, notes, outputs, history>>

(* The failing change is not on `applied`: roll_back will not look at it.  *)
FileStepFails ==
  /\ AtChange(FileChange)
  /\ \/ /\ "refused" \in Faults
        /\ UNCHANGED <<host, unsure>>
     \/ /\ "lost" \in Faults
        /\ Put(plan[next].path, plan[next].after, plan[next].mode)
        /\ unsure' = unsure \cup {next}
  /\ phase' = "rollback"
  /\ UNCHANGED <<plan, dry, next, applied, notes, outputs, text0, perm0, touched, edits>>

(* Mutant of RunCommand: no look at the exit.                              *)
RunCommandBlindly ==
  /\ AtChange(CommandChange)
  /\ \E exit \in Exits : outputs' = Append(outputs, exit)
  /\ next' = next + 1
  /\ UNCHANGED <<plan, dry, host, phase, applied, notes, history>>

(* Mutant of RunCommand: a command is pushed on `applied` like a file.     *)
RunCommandTracked ==
  /\ AtChange(CommandChange)
  /\ outputs' = Append(outputs, "zero")
  /\ next' = next + 1
  /\ applied' = applied \cup {next}
  /\ UNCHANGED <<plan, dry, host, phase, notes, history>>

(* An exit the policy tolerates goes on, any other one ends the plan; both *)
(* are recorded first.                                                     *)
RunCommand ==
  /\ AtChange(CommandChange)
  /\ \E exit \in Exits :
       /\ outputs' = Append(outputs, exit)
       /\ IF Tolerates(plan[next].onFail, exit)
          THEN next' = next + 1 /\ UNCHANGED phase
          ELSE phase' = "rollback" /\ UNCHANGED next
  /\ UNCHANGED <<plan, dry, host, applied, notes, history>>

(* host.run returned Err: the command was not spawned, or the link broke.  *)
RunCommandFails ==
  /\ AtChange(CommandChange) /\ Faults # {}
  /\ phase' = "rollback"
  /\ UNCHANGED <<plan, dry, host, next, applied, notes, outputs, history>>

Finish ==
  /\ phase = "running" /\ ~dry
  /\ next = Len(plan) + 1
  /\ phase' = "ok"
  /\ UNCHANGED <<plan, dry, host, next, applied, notes, outputs, history>>

-----------------------------------------------------------------------------
(* Mutant of Newest: `applied` is walked from its front.                   *)
Oldest(i) == i \in applied /\ \A j \in applied : i <= j

Newest(i) == i \in applied /\ \A j \in applied : j <= i

(* A removed file comes back with 0o644, a written one with the mode of    *)
(* the plan: the mode the file had is not recorded.                        *)
RestoredMode(change) == IF change.after = Absent THEN DefaultMode ELSE change.mode

(* Mutant of Undo: a removed file is not written back.                     *)
UndoWritesOnly(i) ==
  /\ phase = "rollback" /\ Newest(i)
  /\ IF plan[i].after = Absent
     THEN UNCHANGED host
     ELSE Put(plan[i].path, plan[i].before, RestoredMode(plan[i]))
  /\ applied' = applied \ {i}
  /\ UNCHANGED <<plan, dry, phase, next, notes, outputs, history>>

Undo(i) ==
  /\ phase = "rollback" /\ Newest(i)
  /\ IF Unrecorded(i)
     THEN UNCHANGED host
     ELSE Put(plan[i].path, plan[i].before, RestoredMode(plan[i]))
  /\ applied' = applied \ {i}
  /\ UNCHANGED <<plan, dry, phase, next, notes, outputs, history>>

(* A failed undo becomes a note and the rollback goes on.                  *)
UndoFails(i) ==
  /\ phase = "rollback" /\ Newest(i) /\ ~Unrecorded(i)
  /\ \/ /\ "refused" \in Faults
        /\ UNCHANGED host
     \/ /\ "lost" \in Faults
        /\ Put(plan[i].path, plan[i].before, RestoredMode(plan[i]))
  /\ applied' = applied \ {i}
  /\ notes' = notes \cup {i}
  /\ UNCHANGED <<plan, dry, phase, next, outputs, history>>

(* Mutant of RolledBack: the plan is started all over.                     *)
RolledBackRetried ==
  /\ phase = "rollback" /\ applied = {}
  /\ phase' = "running" /\ next' = 1 /\ outputs' = <<>>
  /\ UNCHANGED <<plan, dry, host, applied, notes, history>>

RolledBack ==
  /\ phase = "rollback" /\ applied = {}
  /\ phase' = "error"
  /\ UNCHANGED <<plan, dry, host, next, applied, notes, outputs, history>>

(* SIGINT, a dropped terminal, or the end of the process under a worker.   *)
Kill ==
  /\ phase \in {"running", "rollback"}
  /\ phase' = "killed"
  /\ UNCHANGED <<plan, dry, host, next, applied, notes, outputs, history>>

(* Another program writes, creates or removes a file.                      *)
External(p) ==
  /\ edits < MaxEdits
  /\ \E t \in Contents, m \in Modes : Put(p, t, m)
  /\ touched' = touched \cup {p}
  /\ edits' = edits + 1
  /\ UNCHANGED <<plan, dry, phase, next, applied, notes, outputs, text0, perm0, unsure>>

Execute == \/ DryRun \/ FileStep \/ FileStepFails \/ RunCommand \/ RunCommandFails
           \/ Finish \/ RolledBack
           \/ \E i \in applied : Undo(i) \/ UndoFails(i)

Ended == phase \in {"ok", "error", "killed"} /\ UNCHANGED vars

Next == Execute \/ Kill \/ (\E p \in Paths : External(p)) \/ Ended

(* The executor is a plain loop over blocking calls: it always goes on.    *)
Spec == Init /\ [][Next]_vars /\ WF_vars(Execute)

-----------------------------------------------------------------------------
(* Files whose state the executor cannot answer for: another program wrote *)
(* them, a call on them took effect and reported failure, a note says they *)
(* were left, or the plan never recorded what they held.                   *)
Excused(i) ==
  \/ plan[i].path \in touched
  \/ i \in unsure \cup notes
  \/ Unrecorded(i)

Planned == {plan[i].path : i \in FileSteps(plan)}

(* All or nothing: an apply that reports success has put every planned     *)
(* file in place, one that reports an error has put every file back that   *)
(* nothing excuses, and neither it nor a dry run touches any other file.   *)
AllOrNothing ==
  /\ \A i \in FileSteps(plan) : ~Excused(i) =>
       /\ phase = "ok" /\ ~dry => text[plan[i].path] = plan[i].after
       /\ phase = "error" \/ dry => text[plan[i].path] = text0[plan[i].path]
  /\ \A p \in Paths \ (Planned \cup touched) : text[p] = text0[p]

(* Whatever stops the executor, and wherever (a kill in the middle of the  *)
(* plan or of the rollback), the files show a prefix of the plan: a later  *)
(* file of the plan is never in its new state while an earlier one is in   *)
(* its old state.  Rolling back newest first is what keeps this.           *)
InForce(i) == text[plan[i].path] = plan[i].after
PrefixOnDisk ==
  \A i, j \in FileSteps(plan) :
    i < j /\ ~Excused(i) /\ ~Excused(j) /\ plan[j].before # plan[j].after /\ InForce(j)
      => InForce(i)

(* Success is never reported over a failed command: there is one output    *)
(* per planned command and the policy of that command tolerates it.        *)
CommandsBefore(i) == {j \in DOMAIN plan : j < i /\ plan[j] \in CommandChange}
OutputsAnswerCommands ==
  phase = "ok" /\ ~dry =>
    /\ Len(outputs) = Cardinality(CommandsBefore(Len(plan) + 1))
    /\ \A i \in CommandsBefore(Len(plan) + 1) :
         Tolerates(plan[i].onFail, outputs[Cardinality(CommandsBefore(i)) + 1])

(* The executor ends: neither the plan nor the rollback can get stuck on   *)
(* a step that keeps failing.                                              *)
Terminates == <>(phase \in {"ok", "error", "killed"})

(* The executor implements PlanStack.  Which changes are in force is read  *)
(* off the disk, not off the executor's own records.                       *)
Moving == {i \in FileSteps(plan) : plan[i].before # plan[i].after}
Astray == {i \in Moving : plan[i].path \in touched \/ i \in unsure \cup notes}
Forced == {i \in Moving \ Astray : InForce(i)}
Status == IF phase = "running" THEN "applying"
          ELSE IF phase = "rollback" THEN "undoing"
          ELSE IF phase = "ok" /\ dry THEN "shown" ELSE phase
Stack == INSTANCE PlanStack WITH
  steps <- Moving, force <- Forced, aside <- Astray, status <- Status
ImplementsPlanStack == Stack!SSpec
=============================================================================
