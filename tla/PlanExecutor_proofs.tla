------------------------ MODULE PlanExecutor_proofs ------------------------
(***************************************************************************)
(* Proofs about the plan executor, for every set of files, contents, plans *)
(* and faults and for any number of writes by other programs.              *)
(***************************************************************************)
EXTENDS PlanExecutor, FiniteSetTheorems, TLAPS

(* What the executor knows of the disk at every point: which of the file   *)
(* steps on `applied` are in force, that they are a prefix of the plan,    *)
(* and what each way of ending has left on `applied`.                      *)
OnDisk ==
  /\ \A i \in FileSteps(plan) : Unrecorded(i) \/ plan[i].before = text0[plan[i].path]
  /\ \A i \in FileSteps(plan) : ~Excused(i) =>
       text[plan[i].path] = IF i \in applied THEN plan[i].after ELSE plan[i].before
  /\ \A p \in Paths \ (Planned \cup touched) : text[p] = text0[p]

AppliedIsPrefix ==
  /\ \A i \in applied : i < next /\ \A j \in FileSteps(plan) : j < i => j \in applied
  /\ phase = "running" => \A i \in FileSteps(plan) : i < next => i \in applied

Endings ==
  /\ phase = "error" => applied = {}
  /\ phase = "ok" /\ ~dry => applied = FileSteps(plan)
  /\ dry => applied = {} /\ phase \in {"running", "ok", "killed"}

IInv == TypeOK /\ OnDisk /\ AppliedIsPrefix /\ Endings

-----------------------------------------------------------------------------
LEMMA FileStepFacts ==
  ASSUME plan \in Seq(Change), NEW i \in FileSteps(plan)
  PROVE  /\ i \in 1 .. Len(plan)
         /\ plan[i].path \in Paths
         /\ plan[i].before \in Contents /\ plan[i].after \in Contents
         /\ plan[i].mode \in Modes
  BY DEF FileSteps, FileChange

LEMMA CommandIsNoFileStep ==
  ASSUME plan \in Seq(Change), NEW i \in DOMAIN plan, plan[i] \in CommandChange
  PROVE  i \notin FileSteps(plan)
  BY DEF FileSteps, FileChange, CommandChange

LEMMA PutType ==
  ASSUME text \in [Paths -> Contents], perm \in [Paths -> Modes],
         NEW p \in Paths, NEW t \in Contents, NEW m \in Modes, Put(p, t, m)
  PROVE  text' \in [Paths -> Contents] /\ perm' \in [Paths -> Modes]
  BY DEF Put

LEMMA InitTypeOK == Init => TypeOK
  BY PlansAssumption, HostAssumption DEF Init, TypeOK, Phases

LEMMA TypeOKStep == TypeOK /\ [Next]_vars => TypeOK'
<1> SUFFICES ASSUME TypeOK, [Next]_vars PROVE TypeOK'
  OBVIOUS
<1> USE DEF TypeOK, Phases, history, host
<1>1. CASE DryRun
  BY <1>1 DEF DryRun
<1>2. CASE FileStep
  <2>1. next \in FileSteps(plan)
    BY <1>2 DEF FileStep, AtChange, FileSteps
  <2>2. text' \in [Paths -> Contents] /\ perm' \in [Paths -> Modes]
    BY <1>2, <2>1, FileStepFacts, PutType DEF FileStep
  <2> QED
    BY <1>2, <2>1, <2>2 DEF FileStep, AtChange
<1>3. CASE FileStepFails
  <2>1. next \in FileSteps(plan)
    BY <1>3 DEF FileStepFails, AtChange, FileSteps
  <2>2. /\ text' \in [Paths -> Contents] /\ perm' \in [Paths -> Modes]
        /\ unsure' \subseteq FileSteps(plan)
    BY <1>3, <2>1, FileStepFacts, PutType DEF FileStepFails
  <2> QED
    BY <1>3, <2>1, <2>2 DEF FileStepFails
<1>4. CASE RunCommand
  BY <1>4 DEF RunCommand, AtChange
<1>5. CASE RunCommandFails
  BY <1>5 DEF RunCommandFails
<1>6. CASE Finish
  BY <1>6 DEF Finish
<1>7. CASE RolledBack
  BY <1>7 DEF RolledBack
<1>8. ASSUME NEW i \in applied, Undo(i)
      PROVE  TypeOK'
  <2>1. text' \in [Paths -> Contents] /\ perm' \in [Paths -> Modes]
    BY <1>8, FileStepFacts, PutType, HostAssumption DEF Undo, RestoredMode
  <2> QED
    BY <1>8, <2>1 DEF Undo
<1>9. ASSUME NEW i \in applied, UndoFails(i)
      PROVE  TypeOK'
  <2>1. text' \in [Paths -> Contents] /\ perm' \in [Paths -> Modes]
    BY <1>9, FileStepFacts, PutType, HostAssumption DEF UndoFails, RestoredMode
  <2> QED
    BY <1>9, <2>1 DEF UndoFails
<1>10. CASE Kill
  BY <1>10 DEF Kill
<1>11. ASSUME NEW p \in Paths, External(p)
       PROVE  TypeOK'
  <2>1. text' \in [Paths -> Contents] /\ perm' \in [Paths -> Modes]
    BY <1>11, PutType DEF External
  <2> QED
    BY <1>11, <2>1, HostAssumption DEF External
<1>12. CASE UNCHANGED vars
  BY <1>12 DEF vars
<1> QED
  BY <1>1, <1>2, <1>3, <1>4, <1>5, <1>6, <1>7, <1>8, <1>9, <1>10, <1>11, <1>12
  DEF Next, Execute, Ended

(* The variables keep their types: what the executor reads of a plan, and  *)
(* what it records of the host, are always in their sets.                  *)
THEOREM TypeCorrect == Spec => []TypeOK
  BY InitTypeOK, TypeOKStep, PTL DEF Spec
-----------------------------------------------------------------------------
LEMMA InitIInv == Init => IInv
<1> SUFFICES ASSUME Init PROVE IInv
  OBVIOUS
<1>1. TypeOK
  BY InitTypeOK
<1>2. OnDisk
  BY DEF Init, OnDisk, Fits, Unrecorded, Excused
<1>3. AppliedIsPrefix
  BY <1>1, FileStepFacts DEF Init, AppliedIsPrefix, TypeOK
<1>4. Endings
  BY DEF Init, Endings
<1> QED
  BY <1>1, <1>2, <1>3, <1>4 DEF IInv

(* Steps that leave the disk, the plan and `applied` as they are.          *)
LEMMA DiskUntouched ==
  ASSUME OnDisk, UNCHANGED <<plan, text, text0, applied, unsure, notes, touched>>
  PROVE  OnDisk'
  BY DEF OnDisk, Excused, Unrecorded, FileSteps, Planned

(* A call that changes one file leaves what is known of every other step   *)
(* alone, for no two steps of a plan name the same file.                   *)
LEMMA OtherFiles ==
  ASSUME TypeOK, NEW i \in FileSteps(plan), NEW j \in FileSteps(plan), i # j,
         NEW t, NEW m, Put(plan[i].path, t, m)
  PROVE  text'[plan[j].path] = text[plan[j].path]
  BY FileStepFacts DEF Put, TypeOK, DistinctPaths

LEMMA ThisFile ==
  ASSUME TypeOK, NEW p \in Paths, NEW t, NEW m, Put(p, t, m)
  PROVE  /\ text'[p] = t
         /\ \A q \in Paths \ {p} : text'[q] = text[q]
  BY DEF Put, TypeOK

LEMMA IInvStep == IInv /\ [Next]_vars => IInv'
<1> SUFFICES ASSUME IInv, [Next]_vars PROVE IInv'
  OBVIOUS
<1>0. TypeOK /\ OnDisk /\ AppliedIsPrefix /\ Endings /\ TypeOK'
  BY TypeOKStep DEF IInv
<1>a. /\ \A i \in FileSteps(plan) : i \in 1 .. Len(plan)
      /\ next \in Nat /\ next <= Len(plan) + 1
      /\ applied \subseteq FileSteps(plan)
  BY <1>0, FileStepFacts DEF TypeOK
<1> USE <1>0, <1>a DEF history, host
<1>1. CASE DryRun
  <2>1. OnDisk'
    BY <1>1, DiskUntouched DEF DryRun
  <2>2. AppliedIsPrefix' /\ Endings'
    BY <1>1 DEF DryRun, AppliedIsPrefix, Endings
  <2> QED
    BY <2>1, <2>2 DEF IInv
<1>2. CASE FileStep
  <2>1. next \in FileSteps(plan) /\ plan' = plan /\ applied' = applied \cup {next}
    BY <1>2 DEF FileStep, AtChange, FileSteps, TypeOK
  <2>2. plan[next].path \in Paths
    BY <2>1, FileStepFacts DEF TypeOK
  <2>3. Put(plan[next].path, plan[next].after, plan[next].mode)
    BY <1>2 DEF FileStep
  <2>4. OnDisk'
    <3>1. ASSUME NEW i \in FileSteps(plan), ~Excused(i)
          PROVE  text'[plan[i].path] = IF i \in applied' THEN plan[i].after ELSE plan[i].before
      <4>1. CASE i = next
        BY <2>1, <2>2, <2>3, <4>1, ThisFile
      <4>2. CASE i # next
        BY <2>1, <2>3, <3>1, <4>2, OtherFiles DEF OnDisk
      <4> QED
        BY <4>1, <4>2
    <3>2. \A p \in Paths \ (Planned \cup touched) : text'[p] = text0[p]
      BY <2>1, <2>2, <2>3, ThisFile DEF OnDisk, Planned
    <3> QED
      BY <1>2, <3>1, <3>2 DEF FileStep, OnDisk, Excused, Unrecorded, Planned
  <2>5. AppliedIsPrefix'
    BY <1>2, <2>1 DEF FileStep, AtChange, AppliedIsPrefix
  <2>6. Endings'
    BY <1>2 DEF FileStep, AtChange, Endings
  <2> QED
    BY <2>4, <2>5, <2>6 DEF IInv
<1>3. CASE FileStepFails
  <2>1. next \in FileSteps(plan) /\ plan' = plan
    BY <1>3 DEF FileStepFails, AtChange, FileSteps, TypeOK
  <2>2. plan[next].path \in Paths
    BY <2>1, FileStepFacts DEF TypeOK
  <2>3. OnDisk'
    <3>1. CASE UNCHANGED <<host, unsure>>
      BY <1>3, <3>1, DiskUntouched DEF FileStepFails
    <3>2. CASE /\ Put(plan[next].path, plan[next].after, plan[next].mode)
               /\ unsure' = unsure \cup {next}
      <4>1. ASSUME NEW i \in FileSteps(plan), ~Excused(i), i # next
            PROVE  text'[plan[i].path] = IF i \in applied THEN plan[i].after ELSE plan[i].before
        BY <2>1, <3>2, <4>1, OtherFiles DEF OnDisk
      <4>2. \A p \in Paths \ (Planned \cup touched) : text'[p] = text0[p]
        BY <2>1, <2>2, <3>2, ThisFile DEF OnDisk, Planned
      <4> QED
        BY <1>3, <3>2, <4>1, <4>2 DEF FileStepFails, OnDisk, Excused, Unrecorded, Planned
    <3> QED
      BY <1>3, <3>1, <3>2 DEF FileStepFails
  <2>4. AppliedIsPrefix' /\ Endings'
    BY <1>3 DEF FileStepFails, AtChange, AppliedIsPrefix, Endings
  <2> QED
    BY <2>3, <2>4 DEF IInv
<1>4. CASE RunCommand
  <2>1. OnDisk'
    BY <1>4, DiskUntouched DEF RunCommand
  <2>2. next \notin FileSteps(plan)
    BY <1>4, CommandIsNoFileStep DEF RunCommand, AtChange, TypeOK
  <2>3. AppliedIsPrefix' /\ Endings'
    BY <1>4, <2>2 DEF RunCommand, AtChange, AppliedIsPrefix, Endings
  <2> QED
    BY <2>1, <2>3 DEF IInv
<1>5. CASE RunCommandFails
  <2>1. OnDisk'
    BY <1>5, DiskUntouched DEF RunCommandFails
  <2>2. AppliedIsPrefix' /\ Endings'
    BY <1>5 DEF RunCommandFails, AtChange, AppliedIsPrefix, Endings
  <2> QED
    BY <2>1, <2>2 DEF IInv
<1>6. CASE Finish
  <2>1. OnDisk'
    BY <1>6, DiskUntouched DEF Finish
  <2>2. applied = FileSteps(plan)
    <3>1. \A i \in FileSteps(plan) : i < next
      BY <1>6, <1>a DEF Finish, TypeOK
    <3> QED
      BY <1>6, <3>1 DEF Finish, AppliedIsPrefix
  <2>3. AppliedIsPrefix' /\ Endings'
    BY <1>6, <2>2 DEF Finish, AppliedIsPrefix, Endings
  <2> QED
    BY <2>1, <2>3 DEF IInv
<1>7. CASE RolledBack
  <2>1. OnDisk'
    BY <1>7, DiskUntouched DEF RolledBack
  <2>2. AppliedIsPrefix' /\ Endings'
    BY <1>7 DEF RolledBack, AppliedIsPrefix, Endings
  <2> QED
    BY <2>1, <2>2 DEF IInv
<1>8. ASSUME NEW k \in applied, Undo(k) \/ UndoFails(k)
      PROVE  IInv'
  <2>1. /\ k \in FileSteps(plan) /\ plan' = plan /\ applied' = applied \ {k}
        /\ phase = "rollback" /\ phase' = phase /\ next' = next /\ dry' = dry
        /\ UNCHANGED history /\ notes \subseteq notes'
        /\ \A j \in applied : j <= k
    BY <1>8 DEF TypeOK, Undo, UndoFails, Newest
  <2>2. plan[k].path \in Paths
    BY <2>1, FileStepFacts DEF TypeOK
  <2>3. PICK m : UNCHANGED text \/ Put(plan[k].path, plan[k].before, m)
    BY <1>8 DEF Undo, UndoFails
  <2>4. ASSUME NEW i \in FileSteps(plan), ~Excused(i)'
        PROVE  text'[plan[i].path] = IF i \in applied' THEN plan[i].after ELSE plan[i].before
    <3>1. ~Excused(i)
      BY <2>1, <2>4 DEF Excused, Unrecorded
    <3>2. CASE i # k
      BY <2>1, <2>3, <3>1, <3>2, OtherFiles DEF OnDisk
    <3>3. CASE i = k
      <4>1. Put(plan[k].path, plan[k].before, RestoredMode(plan[k]))
        BY <1>8, <2>1, <2>4, <3>1, <3>3 DEF Undo, UndoFails, Excused
      <4> QED
        BY <2>1, <2>2, <3>3, <4>1, ThisFile
    <3> QED
      BY <3>2, <3>3
  <2>5. \A p \in Paths \ (Planned \cup touched) : text'[p] = text0[p]
    BY <2>1, <2>2, <2>3, ThisFile DEF OnDisk, Planned
  <2>6. OnDisk'
    BY <2>1, <2>4, <2>5 DEF OnDisk, Unrecorded, Planned
  <2>7. AppliedIsPrefix'
    BY <2>1 DEF AppliedIsPrefix
  <2>8. Endings'
    BY <2>1 DEF Endings
  <2> QED
    BY <2>6, <2>7, <2>8 DEF IInv
<1>9. CASE Kill
  <2>1. OnDisk'
    BY <1>9, DiskUntouched DEF Kill
  <2>2. AppliedIsPrefix' /\ Endings'
    BY <1>9 DEF Kill, AppliedIsPrefix, Endings
  <2> QED
    BY <2>1, <2>2 DEF IInv
<1>10. ASSUME NEW p \in Paths, External(p)
       PROVE  IInv'
  <2>1. PICK t, m : Put(p, t, m)
    BY <1>10 DEF External
  <2>2. /\ UNCHANGED <<plan, dry, phase, next, applied, notes, text0, unsure>>
        /\ touched' = touched \cup {p}
    BY <1>10 DEF External
  <2>3. \A i \in FileSteps(plan) : plan[i].path # p => text'[plan[i].path] = text[plan[i].path]
    BY <2>1, ThisFile, FileStepFacts DEF TypeOK
  <2>4. OnDisk'
    BY <2>1, <2>2, <2>3, ThisFile DEF OnDisk, Excused, Unrecorded, Planned
  <2>5. AppliedIsPrefix' /\ Endings'
    BY <2>2 DEF AppliedIsPrefix, Endings
  <2> QED
    BY <2>4, <2>5 DEF IInv
<1>11. CASE UNCHANGED vars
  <2>1. OnDisk'
    BY <1>11, DiskUntouched DEF vars
  <2>2. AppliedIsPrefix' /\ Endings'
    BY <1>11 DEF vars, AppliedIsPrefix, Endings
  <2> QED
    BY <2>1, <2>2 DEF IInv
<1> QED
  BY <1>1, <1>2, <1>3, <1>4, <1>5, <1>6, <1>7, <1>8, <1>9, <1>10, <1>11
  DEF Next, Execute, Ended

LEMMA Invariance == Spec => []IInv
  BY InitIInv, IInvStep, PTL DEF Spec

-----------------------------------------------------------------------------
(* Success means every planned file is in place, an error that every file  *)
(* nothing excuses is back, and no other file is ever touched.             *)
THEOREM AllOrNothingHolds == Spec => []AllOrNothing
<1>1. IInv => AllOrNothing
  BY DEF IInv, OnDisk, Endings, AllOrNothing, Excused
<1> QED
  BY <1>1, Invariance, PTL

(* Wherever the executor stops, a crash in the rollback included, the      *)
(* files show a prefix of the plan.                                        *)
THEOREM PrefixOnDiskHolds == Spec => []PrefixOnDisk
<1>1. IInv => PrefixOnDisk
  BY DEF IInv, OnDisk, AppliedIsPrefix, PrefixOnDisk, InForce
<1> QED
  BY <1>1, Invariance, PTL

-----------------------------------------------------------------------------
(* The executor implements PlanStack.  What is in force can be read off    *)
(* the disk or off the executor's records: they agree, for the steps that  *)
(* are not set aside.  So every step is judged by what it does to          *)
(* `applied`, to Astray and to the phase.                                  *)
LEMMA ForceIsApplied ==
  ASSUME IInv
  PROVE  Forced = applied \cap (Moving \ Astray)
<1>1. ASSUME NEW i \in Moving \ Astray
      PROVE  InForce(i) <=> i \in applied
  <2>1. i \in FileSteps(plan) /\ plan[i].before # plan[i].after BY DEF Moving
  <2>2. ~Excused(i) BY <2>1 DEF Astray, Excused, Unrecorded
  <2> QED BY <2>1, <2>2 DEF IInv, OnDisk, InForce
<1> QED BY <1>1 DEF Forced

(* The same after a step.                                                  *)
LEMMA ForceStaysApplied == IInv' => (Forced = applied \cap (Moving \ Astray))'
<1>1. IInv => Forced = applied \cap (Moving \ Astray) BY ForceIsApplied
<1> QED BY <1>1, PTL

(* Until something fails, what waits is what the loop has not come to.     *)
LEMMA WaitingIsAhead ==
  ASSUME IInv, phase = "running"
  PROVE  Moving \ (Forced \cup Astray) = {i \in Moving \ Astray : i >= next}
<1>1. \A i \in Moving : i \in Nat /\ i \in FileSteps(plan)
  BY FileStepFacts DEF Moving, IInv, TypeOK
<1>2. next \in Nat BY DEF IInv, TypeOK
<1>3. \A i \in Moving : i \in applied <=> i < next
  BY <1>1 DEF IInv, AppliedIsPrefix
<1> QED BY <1>1, <1>2, <1>3, ForceIsApplied

LEMMA InitStack == Init => Stack!SInit
<1> SUFFICES ASSUME Init PROVE Stack!SInit OBVIOUS
<1>1. IInv BY InitIInv
<1>2. Forced = {} BY <1>1, ForceIsApplied DEF Init
<1>3. Astray = {} BY DEF Init, Astray
<1> QED BY <1>2, <1>3 DEF Init, Status, Stack!SInit

LEMMA StackStep ==
  ASSUME IInv, IInv', [Next]_vars
  PROVE  [Stack!SNext]_(Stack!svars)
<1>0. /\ Forced = applied \cap (Moving \ Astray)
      /\ Forced' = applied' \cap (Moving' \ Astray')
      /\ \A i \in FileSteps(plan) : i \in 1 .. Len(plan)
      /\ Len(plan) \in Nat /\ next \in Nat /\ Moving \subseteq FileSteps(plan)
      /\ Astray \subseteq Moving
  BY ForceIsApplied, ForceStaysApplied, FileStepFacts DEF IInv, TypeOK, Moving, Astray
<1> USE <1>0
(* Steps that leave the stack as it is.                                    *)
<1>1. Moving' = Moving /\ Forced' = Forced /\ Astray' = Astray /\ Status' = Status
        => [Stack!SNext]_(Stack!svars)
  BY DEF Stack!svars
(* Steps that only go on to another phase.                                 *)
<1>2. plan' = plan => Moving' = Moving BY DEF Moving, FileSteps
<1>3. UNCHANGED <<plan, unsure, notes, touched>> => Astray' = Astray
  BY <1>2 DEF Astray
<1>4. UNCHANGED <<plan, applied, unsure, notes, touched>>
        => Moving' = Moving /\ Forced' = Forced /\ Astray' = Astray
  BY <1>2, <1>3
<1>5. CASE DryRun
  <2>1. Moving' = Moving /\ Forced' = Forced /\ Astray' = Astray /\ applied = {}
    BY <1>4, <1>5 DEF DryRun, history, IInv, Endings
  <2>2. Status = "applying" /\ Status' = "shown" BY <1>5 DEF DryRun, Status
  <2> QED BY <2>1, <2>2 DEF Stack!SNext, Stack!End
<1>6. CASE FileStep
  <2>1. /\ next \in FileSteps(plan) /\ plan' = plan /\ applied' = applied \cup {next}
        /\ Moving' = Moving /\ Astray' = Astray /\ phase = "running"
        /\ Status = "applying" /\ Status' = "applying"
    BY <1>2, <1>3, <1>6 DEF FileStep, AtChange, FileSteps, IInv, TypeOK, history, Status
  <2>2. CASE next \in Moving \ Astray
    <3>1. Stack!Lowest(next, Stack!Waiting)
      BY <2>1, <2>2, WaitingIsAhead DEF Stack!Lowest, Stack!Waiting
    <3>2. Forced' = Forced \cup {next} BY <2>1, <2>2
    <3> QED BY <2>1, <2>2, <3>1, <3>2 DEF Stack!SNext, Stack!Push
  <2>3. CASE next \notin Moving \ Astray
    BY <1>1, <2>1, <2>3
  <2> QED BY <2>2, <2>3
<1>7. CASE FileStepFails
  <2>1. /\ next \in FileSteps(plan) /\ plan' = plan /\ applied' = applied
        /\ Moving' = Moving /\ phase = "running" /\ next \notin applied
        /\ Status = "applying" /\ Status' = "undoing"
    BY <1>2, <1>7
    DEF FileStepFails, AtChange, FileSteps, IInv, TypeOK, AppliedIsPrefix, Status
  <2>2. Astray' = Astray \/ (next \in Moving \ Astray /\ Astray' = Astray \cup {next})
    BY <1>7, <2>1 DEF FileStepFails, Astray
  <2>3. Forced' = Forced BY <2>1, <2>2
  <2>4. next \in Moving \ Astray => Stack!Lowest(next, Stack!Waiting)
    BY <2>1, WaitingIsAhead DEF Stack!Lowest, Stack!Waiting
  <2> QED BY <2>1, <2>2, <2>3, <2>4 DEF Stack!SNext, Stack!Fail
<1>8. CASE RunCommand \/ RunCommandFails
  <2>1. Moving' = Moving /\ Forced' = Forced /\ Astray' = Astray
    BY <1>4, <1>8 DEF RunCommand, RunCommandFails, history
  <2>2. Status = "applying" /\ Status' \in {"applying", "undoing"}
    BY <1>8 DEF RunCommand, RunCommandFails, AtChange, Status
  <2> QED BY <1>1, <2>1, <2>2 DEF Stack!SNext, Stack!Fail
<1>9. CASE Finish
  <2>1. Moving' = Moving /\ Forced' = Forced /\ Astray' = Astray
    BY <1>4, <1>9 DEF Finish, history
  <2>2. Status = "applying" /\ Status' = "ok" BY <1>9 DEF Finish, Status
  <2>3. Stack!Waiting = {} BY <1>9, WaitingIsAhead DEF Finish, Stack!Waiting
  <2> QED BY <2>1, <2>2, <2>3 DEF Stack!SNext, Stack!End
<1>10. CASE RolledBack
  <2>1. Moving' = Moving /\ Forced' = Forced /\ Astray' = Astray /\ Forced = {}
    BY <1>4, <1>10 DEF RolledBack, history
  <2>2. Status = "undoing" /\ Status' = "error" BY <1>10 DEF RolledBack, Status
  <2> QED BY <2>1, <2>2 DEF Stack!SNext, Stack!End
<1>11. ASSUME NEW k \in applied, Undo(k) \/ UndoFails(k)
       PROVE  [Stack!SNext]_(Stack!svars)
  <2>1. /\ k \in FileSteps(plan) /\ plan' = plan /\ applied' = applied \ {k}
        /\ Status = "undoing" /\ Status' = "undoing" /\ Moving' = Moving
        /\ \A j \in applied : j <= k
    BY <1>2, <1>11 DEF IInv, TypeOK, Undo, UndoFails, Newest, Status
  <2>2. Astray' = Astray \/ (k \in Moving /\ Astray' = Astray \cup {k})
    BY <1>11, <2>1 DEF Undo, UndoFails, history, Astray
  <2>3. CASE k \in Moving \ Astray
    <3>1. Forced' = Forced \ {k} /\ k \in Forced BY <2>1, <2>2, <2>3
    <3>2. Stack!Highest(k, Forced) BY <2>1, <3>1 DEF Stack!Highest
    <3> QED BY <2>1, <2>2, <3>1, <3>2 DEF Stack!SNext, Stack!Pop
  <2>4. CASE k \notin Moving \ Astray
    BY <1>1, <2>1, <2>2, <2>4
  <2> QED BY <2>3, <2>4
<1>12. CASE Kill
  <2>1. Moving' = Moving /\ Forced' = Forced /\ Astray' = Astray
    BY <1>4, <1>12 DEF Kill, history
  <2>2. Status \in {"applying", "undoing"} /\ Status' = "killed" BY <1>12 DEF Kill, Status
  <2> QED BY <2>1, <2>2 DEF Stack!SNext, Stack!End
<1>13. ASSUME NEW p \in Paths, External(p)
       PROVE  [Stack!SNext]_(Stack!svars)
  <2>1. /\ plan' = plan /\ Moving' = Moving /\ applied' = applied /\ Status' = Status
        /\ touched' = touched \cup {p} /\ notes' = notes /\ unsure' = unsure
    BY <1>2, <1>13 DEF External, Status
  <2>2. Astray' = Astray \cup {i \in Moving : plan[i].path = p} BY <2>1 DEF Astray
  <2>3. \A i, j \in Moving : plan[i].path = p /\ plan[j].path = p => i = j
    BY DEF IInv, TypeOK, DistinctPaths
  <2>4. ASSUME NEW k \in Moving \ Astray, plan[k].path = p
        PROVE  [Stack!SNext]_(Stack!svars)
    <3>1. Astray' = Astray \cup {k} BY <2>2, <2>3, <2>4
    <3>2. Forced' = Forced \ {k} BY <2>1, <3>1
    <3> QED BY <2>1, <2>4, <3>1, <3>2 DEF Stack!SNext, Stack!Lose
  <2>5. CASE \A i \in Moving \ Astray : plan[i].path # p
    <3>1. Astray' = Astray BY <2>2, <2>5
    <3> QED BY <1>1, <2>1, <3>1
  <2> QED BY <2>4, <2>5
<1>14. CASE UNCHANGED vars
  <2>1. Moving' = Moving /\ Forced' = Forced /\ Astray' = Astray /\ Status' = Status
    BY <1>4, <1>14 DEF vars, history, Status
  <2> QED BY <1>1, <2>1
<1> QED
  BY <1>5, <1>6, <1>7, <1>8, <1>9, <1>10, <1>11, <1>12, <1>13, <1>14
  DEF Next, Execute, Ended

(* execute and roll_back keep the promise of PlanStack: the files come     *)
(* into force in plan order and leave in reverse order, but for those that *)
(* somebody else wrote or the executor lost hold of.                       *)
THEOREM PlanStackImplemented == Spec => ImplementsPlanStack
<1>1. IInv /\ IInv' /\ [Next]_vars => [Stack!SNext]_(Stack!svars) BY StackStep
<1> QED BY InitStack, <1>1, Invariance, PTL DEF Spec, ImplementsPlanStack, Stack!SSpec

-----------------------------------------------------------------------------
(* The outputs, one for each command that was gone past.                   *)
Answering ==
  /\ phase = "running" \/ (phase = "ok" /\ ~dry) =>
       /\ Len(outputs) = Cardinality(CommandsBefore(next))
       /\ \A i \in CommandsBefore(next) :
            Tolerates(plan[i].onFail, outputs[Cardinality(CommandsBefore(i)) + 1])
  /\ phase = "ok" /\ ~dry => next = Len(plan) + 1

LEMMA CommandsCount ==
  ASSUME TypeOK, NEW n \in Nat
  PROVE  /\ IsFiniteSet(CommandsBefore(n)) /\ Cardinality(CommandsBefore(n)) \in Nat
         /\ \A i \in CommandsBefore(n) : i \in Nat /\ i < n
<1>1. CommandsBefore(n) \subseteq 1 .. Len(plan) /\ Len(plan) \in Nat
  BY DEF CommandsBefore, TypeOK
<1>2. IsFiniteSet(CommandsBefore(n))
  <2>1. 1 \in Int /\ Len(plan) \in Int BY <1>1
  <2>2. IsFiniteSet(1 .. Len(plan)) BY <2>1, FS_Interval
  <2> QED BY <1>1, <2>2, FS_Subset
<1> QED BY <1>1, <1>2, FS_CardinalityType DEF CommandsBefore

(* Going past a command, and past a file.                                  *)
LEMMA CommandsGrow ==
  ASSUME TypeOK, NEW n \in DOMAIN plan
  PROVE  /\ plan[n] \in CommandChange =>
              /\ CommandsBefore(n + 1) = CommandsBefore(n) \cup {n}
              /\ Cardinality(CommandsBefore(n + 1)) = Cardinality(CommandsBefore(n)) + 1
         /\ plan[n] \in FileChange => CommandsBefore(n + 1) = CommandsBefore(n)
<1>1. n \in Nat /\ \A i \in DOMAIN plan : i \in Nat BY DEF TypeOK
<1>2. plan[n] \in FileChange => plan[n] \notin CommandChange BY DEF FileChange, CommandChange
<1>3. CommandsBefore(n + 1) = IF plan[n] \in CommandChange THEN CommandsBefore(n) \cup {n}
                              ELSE CommandsBefore(n)
  BY <1>1 DEF CommandsBefore
<1>4. n \notin CommandsBefore(n) BY <1>1 DEF CommandsBefore
<1>5. IsFiniteSet(CommandsBefore(n)) BY <1>1, CommandsCount
<1>6. Cardinality(CommandsBefore(n) \cup {n}) = Cardinality(CommandsBefore(n)) + 1
  BY <1>4, <1>5, FS_AddElement
<1> QED BY <1>2, <1>3, <1>6

(* An earlier command has an earlier output.                               *)
LEMMA CommandsRank ==
  ASSUME TypeOK, NEW n \in Nat, NEW i \in CommandsBefore(n)
  PROVE  Cardinality(CommandsBefore(i)) + 1 \in 1 .. Cardinality(CommandsBefore(n))
<1>1. i \in Nat /\ i < n BY CommandsCount
<1>2. CommandsBefore(i) \subseteq CommandsBefore(n)
  <2>1. \A j \in DOMAIN plan : j \in Nat BY DEF TypeOK
  <2> QED BY <1>1, <2>1 DEF CommandsBefore
<1>3. i \notin CommandsBefore(i) BY <1>1, CommandsCount
<1>4. Cardinality(CommandsBefore(i)) <= Cardinality(CommandsBefore(n))
      /\ Cardinality(CommandsBefore(i)) # Cardinality(CommandsBefore(n))
  BY <1>1, <1>2, <1>3, CommandsCount, FS_Subset
<1> QED BY <1>1, <1>4, CommandsCount

LEMMA AnsweringStep ==
  ASSUME TypeOK, Answering, [Next]_vars
  PROVE  Answering'
<1>0. /\ plan \in Seq(Change) /\ outputs \in Seq(Exits) /\ next \in Nat
      /\ next \in 1 .. Len(plan) + 1 /\ Len(plan) \in Nat
  BY DEF TypeOK
(* Steps that neither go on in the plan nor add an output.                 *)
<1>1. ASSUME UNCHANGED <<plan, dry, next, outputs>>,
             phase' = phase \/ phase' \in {"rollback", "error", "killed"}
                            \/ (phase = "running" /\ phase' = "ok" /\ (dry \/ next = Len(plan) + 1))
      PROVE  Answering'
  BY <1>1 DEF Answering, CommandsBefore
<1>2. CASE DryRun
  BY <1>1, <1>2 DEF DryRun
<1>3. CASE FileStep
  <2>1. /\ next \in DOMAIN plan /\ plan[next] \in FileChange /\ next' = next + 1
        /\ UNCHANGED <<plan, dry, phase, outputs>> /\ phase = "running"
    BY <1>0, <1>3 DEF FileStep, AtChange
  <2>2. CommandsBefore(next)' = CommandsBefore(next)
    BY <2>1, CommandsGrow DEF CommandsBefore
  <2>3. \A i : CommandsBefore(i)' = CommandsBefore(i)
    BY <2>1 DEF CommandsBefore
  <2> QED BY <2>1, <2>2, <2>3 DEF Answering, CommandsBefore
<1>4. CASE RunCommand
  <2>1. /\ next \in DOMAIN plan /\ plan[next] \in CommandChange
        /\ UNCHANGED <<plan, dry>> /\ phase = "running"
    BY <1>0, <1>4 DEF RunCommand, AtChange
  <2>2. PICK exit \in Exits :
          /\ outputs' = Append(outputs, exit)
          /\ IF Tolerates(plan[next].onFail, exit)
             THEN next' = next + 1 /\ UNCHANGED phase
             ELSE phase' = "rollback" /\ UNCHANGED next
    BY <1>4 DEF RunCommand
  <2>3. CASE phase' = "rollback"
    BY <2>3 DEF Answering
  <2>4. CASE phase' # "rollback"
    <3>1. /\ Tolerates(plan[next].onFail, exit) /\ next' = next + 1 /\ phase' = phase
          /\ Len(outputs') = Len(outputs) + 1 /\ outputs'[Len(outputs) + 1] = exit
          /\ \A k \in 1 .. Len(outputs) : outputs'[k] = outputs[k]
      BY <1>0, <2>2, <2>4
    <3>2. Len(outputs) = Cardinality(CommandsBefore(next)) BY <2>1 DEF Answering
    <3>3. /\ CommandsBefore(next + 1) = CommandsBefore(next) \cup {next}
          /\ Cardinality(CommandsBefore(next + 1)) = Cardinality(CommandsBefore(next)) + 1
      BY <2>1, CommandsGrow
    <3>4. \A i \in CommandsBefore(next) :
            Tolerates(plan[i].onFail, outputs'[Cardinality(CommandsBefore(i)) + 1])
      <4> SUFFICES ASSUME NEW i \in CommandsBefore(next)
                   PROVE  Tolerates(plan[i].onFail, outputs'[Cardinality(CommandsBefore(i)) + 1])
        OBVIOUS
      <4>1. Cardinality(CommandsBefore(i)) + 1 \in 1 .. Len(outputs)
        BY <1>0, <3>2, CommandsRank
      <4>2. outputs'[Cardinality(CommandsBefore(i)) + 1] = outputs[Cardinality(CommandsBefore(i)) + 1]
        BY <3>1, <4>1
      <4> QED BY <2>1, <4>2 DEF Answering
    <3>5. \A i \in CommandsBefore(next + 1) :
            Tolerates(plan[i].onFail, outputs'[Cardinality(CommandsBefore(i)) + 1])
      BY <3>1, <3>2, <3>3, <3>4
    <3>6. \A i : CommandsBefore(i)' = CommandsBefore(i) BY <2>1 DEF CommandsBefore
    <3>7. CommandsBefore(next)' = CommandsBefore(next + 1)
      BY <2>1, <3>1 DEF CommandsBefore
    <3> QED BY <2>1, <3>1, <3>2, <3>3, <3>5, <3>6, <3>7 DEF Answering
  <2> QED BY <2>3, <2>4
<1>5. CASE FileStepFails \/ RunCommandFails \/ RolledBack \/ Kill
  BY <1>1, <1>5 DEF FileStepFails, RunCommandFails, RolledBack, Kill
<1>6. CASE Finish
  BY <1>1, <1>6 DEF Finish
<1>7. ASSUME NEW i \in applied, Undo(i) \/ UndoFails(i) PROVE Answering'
  BY <1>1, <1>7 DEF Undo, UndoFails
<1>8. ASSUME NEW p \in Paths, External(p) PROVE Answering'
  BY <1>1, <1>8 DEF External
<1>9. CASE UNCHANGED vars
  BY <1>1, <1>9 DEF vars
<1> QED BY <1>2, <1>3, <1>4, <1>5, <1>6, <1>7, <1>8, <1>9 DEF Next, Execute, Ended

(* execute looks at every exit: success means one output for each command  *)
(* of the plan, in order, that the policy of that command tolerates.       *)
THEOREM OutputsAnswerCommandsHolds == Spec => []OutputsAnswerCommands
<1>1. Init => Answering
  <2> SUFFICES ASSUME Init PROVE Answering OBVIOUS
  <2>1. TypeOK BY InitTypeOK
  <2>2. CommandsBefore(1) = {}
    BY <2>1 DEF CommandsBefore, TypeOK
  <2> QED BY <2>2, FS_EmptySet DEF Init, Answering
<1>2. TypeOK /\ Answering => OutputsAnswerCommands
  BY DEF Answering, OutputsAnswerCommands
<1>3. TypeOK /\ Answering /\ [Next]_vars => Answering' BY AnsweringStep
<1> QED BY <1>1, <1>2, <1>3, TypeCorrect, PTL DEF Spec
=============================================================================
