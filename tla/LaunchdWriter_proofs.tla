------------------------- MODULE LaunchdWriter_proofs -------------------------
(***************************************************************************)
(* What the launchd writer promises of the job that launchd runs and of    *)
(* the plists, for any number of paths, requests, faults and logins.  What *)
(* is proved of the executor in PlanExecutor_proofs holds of every request *)
(* once more: a request starts the executor on the files as they are.      *)
(***************************************************************************)
EXTENDS LaunchdWriter, PlanExecutor_proofs, SequenceTheorems

Commands == {"mkdir", "bootout", "bootstrap", "enable", "disable", "file"}
Step == [cmd: Commands, change: Change]

(* A plist of somebody else's stays theirs with its `Disabled`, in both    *)
(* directions, so that the rollback cannot make it ours either.            *)
Theirs(content) == content # Absent /\ ~content.mine
KeepsTheirs(o, before, after) ==
  /\ Theirs(before) => IF after = Absent THEN o.verb = "delete"
                       ELSE Theirs(after) /\ after.off = before.off
  /\ Theirs(after) => Theirs(before) /\ after.off = before.off

(* What the plans have in common: at most one file step, on the path of    *)
(* the request, behind any bootout and before any bootstrap, which is the  *)
(* last command like disable, and what is on comes with a bootstrap, what  *)
(* is off, except a creation, with a bootout.                              *)
Has(cs, cmd) == \E i \in DOMAIN cs : cs[i] = cmd
Shaped(o, cs, pl) ==
  /\ DOMAIN cs = DOMAIN pl
  /\ \A i \in DOMAIN pl :
       /\ cs[i] \in Commands
       /\ cs[i] = "file" <=> i \in FileSteps(pl)
       /\ cs[i] = "bootout" => pl[i].onFail = "allow"
       /\ cs[i] \in {"bootstrap", "disable"} => pl[i].onFail = "error" /\ i = Len(pl)
       /\ cs[i] \in {"bootstrap", "enable"} => o.on
       /\ cs[i] = "disable" => ~o.on
  /\ \A i \in FileSteps(pl) :
       /\ pl[i].path = o.path /\ KeepsTheirs(o, pl[i].before, pl[i].after)
       /\ \A j \in FileSteps(pl) : i = j
       /\ \A j \in DOMAIN pl : cs[j] = "bootout" => j < i
       /\ \A j \in DOMAIN pl : cs[j] = "bootstrap" => i < j
       /\ o.verb # "create" => Has(cs, "bootout")
       /\ o.verb = "delete" => pl[i].after = Absent
  /\ o.on => Len(pl) > 0 /\ cs[Len(pl)] = "bootstrap"
  /\ ~o.on /\ o.verb = "switch" => Len(pl) > 0 /\ cs[Len(pl)] = "disable"
  /\ ~o.on /\ o.verb # "create" => Has(cs, "bootout")
  /\ o.verb = "delete" => FileSteps(pl) # {}

-----------------------------------------------------------------------------
(* The invariant                                                           *)

Terminal == {"ok", "error", "killed"}

Types ==
  /\ op \in Ops /\ Shaped(op, cmds, plan)
  /\ loaded \in [Domains -> Jobs \cup {Absent}]
  /\ \A d \in Domains : loaded[d] # Absent => Domain(loaded[d].path) = d
  /\ override \in [Domains -> {"none", "enabled", "disabled"}]
  /\ want \in [Domains -> {"none", "up", "down"}]
  /\ strayed \in BOOLEAN /\ booted \in BOOLEAN /\ asked \in Nat
  /\ ~dry /\ touched = {}
  /\ booted => phase \in Terminal
  /\ asked = 0 => ~op.on /\ op.verb = "create"

(* While a plist may still be changed, or changed back, its job is not     *)
(* loaded.                                                                 *)
Guarded ==
  \/ strayed \/ loaded[D] = Absent
  \/ FileSteps(plan) = {} \/ phase \in Terminal
  \/ phase = "rollback" /\ applied = {}
  \/ phase = "running" /\ next > Len(plan)
  \/ phase = "running" /\ \E j \in DOMAIN cmds : j >= next /\ cmds[j] = "bootout"

(* The file of a request is as it was found or as the plan wants it.       *)
OnPath ==
  phase \in {"running", "rollback"} =>
    \A i \in FileSteps(plan) : text[op.path] \in {plan[i].before, plan[i].after}

(* What the commands of a plan that goes well have brought about so far.   *)
Passed(cmd) == \E j \in DOMAIN cmds : j < next /\ cmds[j] = cmd
Achieved ==
  phase \in {"running", "ok"} /\ ~booted =>
    /\ Passed("bootout") /\ ~Passed("bootstrap") => loaded[D] = Absent
    /\ Passed("bootstrap") => loaded[D] = Job(op.path)
    /\ \A i \in FileSteps(plan) : i < next => text[op.path] = plan[i].after
    /\ phase = "ok" => next = Len(plan) + 1

(* What holds a job down or up until the operator asks again: the          *)
(* database, or a plist that may be loaded.                                *)
Held ==
  \A d \in Domains :
    /\ want[d] = "down" => loaded[d] = Absent /\ override[d] = "disabled"
    /\ want[d] = "down" /\ d = D => ~op.on
    /\ want[d] = "up" => \E p \in Rows : Domain(p) = d /\ ~Barred(d, text[p])
    /\ want[d] = "up" /\ d = D => phase \in Terminal \/ (phase = "running" /\ next > Len(plan))
    /\ want[d] = "up" /\ booted => loaded[d] # Absent

LInv == IInv /\ Types /\ Guarded /\ LoadedIsOnDisk /\ OnPath /\ Achieved /\ Held
-----------------------------------------------------------------------------
(* The plans                                                               *)

CmdsOf(steps) == [i \in DOMAIN steps |-> steps[i].cmd]
ChangesOf(steps) == [i \in DOMAIN steps |-> steps[i].change]

RunOf(c, f) == [cmd |-> c, change |-> [kind |-> "command", onFail |-> f]]
FileOf(p, after) == [cmd |-> "file", change |-> [kind |-> "file", path |-> p, before |-> text[p],
                                                 after |-> after, mode |-> DefaultMode]]

LEMMA RunOfType ==
  ASSUME NEW c \in Commands \ {"file"}, NEW f \in Policies
  PROVE  /\ RunOf(c, f) \in Step /\ RunOf(c, f).cmd = c /\ RunOf(c, f).change.onFail = f
         /\ RunOf(c, f).change \notin FileChange
BY DEF RunOf, Step, Change, CommandChange, FileChange

LEMMA FileOfType ==
  ASSUME text \in [Paths -> Contents], NEW p \in Paths, NEW after \in Contents
  PROVE  /\ FileOf(p, after) \in Step /\ FileOf(p, after).cmd = "file"
         /\ FileOf(p, after).change \in FileChange
         /\ FileOf(p, after).change.path = p
         /\ FileOf(p, after).change.before = text[p]
         /\ FileOf(p, after).change.after = after
BY HostAssumption DEF FileOf, Step, Commands, Change, FileChange

LEMMA StepsType ==
  ASSUME NEW steps \in Seq(Step)
  PROVE  /\ Len(steps) \in Nat /\ DOMAIN steps = 1 .. Len(steps)
         /\ \A i \in 1 .. Len(steps) : steps[i] \in Step
         /\ ChangesOf(steps) \in Seq(Change) /\ Len(ChangesOf(steps)) = Len(steps)
         /\ DOMAIN ChangesOf(steps) = 1 .. Len(steps) /\ DOMAIN CmdsOf(steps) = 1 .. Len(steps)
         /\ \A i \in 1 .. Len(steps) : ChangesOf(steps)[i] = steps[i].change
                                       /\ CmdsOf(steps)[i] = steps[i].cmd
         /\ FileSteps(ChangesOf(steps)) = {i \in 1 .. Len(steps) : steps[i].change \in FileChange}
<1>1. /\ Len(steps) \in Nat /\ DOMAIN steps = 1 .. Len(steps)
      /\ \A i \in 1 .. Len(steps) : steps[i] \in Step
  OBVIOUS
<1>2. ChangesOf(steps) \in [1 .. Len(steps) -> Change] BY <1>1 DEF ChangesOf, Step
<1>3. ChangesOf(steps) \in Seq(Change) BY <1>1, <1>2, IsASeq
<1>4. Len(ChangesOf(steps)) = Len(steps) BY <1>1, <1>2, <1>3, LenProperties
<1> QED BY <1>1, <1>2, <1>3, <1>4 DEF ChangesOf, CmdsOf, FileSteps

LEMMA OneStep ==
  ASSUME NEW s \in Step
  PROVE  <<s>> \in Seq(Step) /\ Len(<<s>>) = 1 /\ <<s>>[1] = s /\ <<>> \in Seq(Step) /\ Len(<<>>) = 0
OBVIOUS

LEMMA Joined ==
  ASSUME NEW a \in Seq(Step), NEW b \in Seq(Step)
  PROVE  /\ a \o b \in Seq(Step) /\ Len(a) \in Nat /\ Len(b) \in Nat
         /\ Len(a \o b) = Len(a) + Len(b)
         /\ \A i \in 1 .. Len(a) : (a \o b)[i] = a[i]
         /\ \A i \in 1 .. Len(b) : (a \o b)[Len(a) + i] = b[i]
<1>1. /\ a \o b \in Seq(Step) /\ Len(a \o b) = Len(a) + Len(b)
      /\ \A i \in 1 .. Len(a) + Len(b) : (a \o b)[i] = IF i <= Len(a) THEN a[i] ELSE b[i - Len(a)]
  BY ConcatProperties
<1>2. Len(a) \in Nat /\ Len(b) \in Nat OBVIOUS
<1>3. ASSUME NEW i \in 1 .. Len(b) PROVE (a \o b)[Len(a) + i] = b[i]
  <2>1. Len(a) + i \in 1 .. Len(a) + Len(b) /\ ~(Len(a) + i <= Len(a)) /\ Len(a) + i - Len(a) = i
    BY <1>2
  <2> QED BY <1>1, <2>1
<1> QED BY <1>1, <1>2, <1>3

(* enable, then bootstrap, or nothing.                                     *)
LEMMA LoadSteps ==
  ASSUME NEW on \in BOOLEAN
  PROVE  /\ Load(on) \in Seq(Step) /\ Len(Load(on)) = IF on THEN 2 ELSE 0
         /\ on => Load(on)[1] = RunOf("enable", "ignore") /\ Load(on)[2] = RunOf("bootstrap", "error")
<1>1. RunOf("enable", "ignore") \in Step /\ RunOf("bootstrap", "error") \in Step
  BY RunOfType DEF Commands, Policies
<1>2. CASE on
  <2> DEFINE a == <<RunOf("enable", "ignore")>>
             b == <<RunOf("bootstrap", "error")>>
  <2>1. /\ a \in Seq(Step) /\ Len(a) = 1 /\ a[1] = RunOf("enable", "ignore")
        /\ b \in Seq(Step) /\ Len(b) = 1 /\ b[1] = RunOf("bootstrap", "error")
    BY <1>1, OneStep
  <2>2. Load(on) = a \o b BY <1>2 DEF Load, Enable, Bootstrap, Run, RunOf
  <2> HIDE DEF a, b
  <2>3. /\ a \o b \in Seq(Step) /\ Len(a \o b) = 2
        /\ (a \o b)[1] = a[1] /\ (a \o b)[2] = b[1]
    BY <2>1, Joined
  <2> QED BY <1>2, <2>1, <2>2, <2>3
<1>3. CASE ~on BY <1>3, <1>1, OneStep DEF Load
<1> QED BY <1>2, <1>3
(* What starts a plan: a bootout, or a mkdir, or neither, or both.         *)
BootoutStep == RunOf("bootout", "allow")
MkdirStep == RunOf("mkdir", "error")
Opens(pre) ==
  pre \in Seq(Step) /\ \A i \in 1 .. Len(pre) : pre[i] \in {BootoutStep, MkdirStep}

(* A plan with a file step in its middle has the shape of plans.           *)
IsFilePlan(o, after, pre, steps) ==
  /\ o.verb # "switch" /\ after \in Contents /\ KeepsTheirs(o, text[o.path], after)
  /\ o.verb = "delete" => after = Absent /\ ~o.on
  /\ Opens(pre) /\ (o.verb # "create" => \E i \in 1 .. Len(pre) : pre[i] = BootoutStep)
  /\ steps = pre \o File(o.path, after) \o Load(o.on)

LEMMA FilePlanIsShaped ==
  ASSUME text \in [Paths -> Contents], NEW o \in Ops,
         NEW after, NEW pre, NEW steps, IsFilePlan(o, after, pre, steps)
  PROVE  /\ steps \in Seq(Step)
         /\ Shaped(o, CmdsOf(steps), ChangesOf(steps))
         /\ \A i \in FileSteps(ChangesOf(steps)) : ChangesOf(steps)[i].before = text[o.path]
         /\ (\E i \in 1 .. Len(pre) : pre[i] = BootoutStep) => Has(CmdsOf(steps), "bootout")
<1>h. /\ o.verb # "switch" /\ after \in Contents /\ KeepsTheirs(o, text[o.path], after)
      /\ o.verb = "delete" => after = Absent /\ ~o.on
      /\ Opens(pre) /\ (o.verb # "create" => \E i \in 1 .. Len(pre) : pre[i] = BootoutStep)
      /\ steps = pre \o File(o.path, after) \o Load(o.on)
  BY DEF IsFilePlan
<1> USE <1>h
<1>n. PICK n : n = Len(pre) OBVIOUS
<1>c. PICK cs : cs = CmdsOf(steps) OBVIOUS
<1>p. PICK pl : pl = ChangesOf(steps) OBVIOUS
<1>m. PICK m : m = IF o.on THEN n + 3 ELSE n + 1 OBVIOUS
<1> DEFINE f == FileOf(o.path, after)
           one == <<f>>
<1>0. o.path \in Paths /\ o.on \in BOOLEAN /\ o.verb \in {"create", "update", "delete", "switch"}
  BY DEF Ops
<1>1. /\ f \in Step /\ f.cmd = "file" /\ f.change \in FileChange /\ f.change.path = o.path
      /\ f.change.before = text[o.path] /\ f.change.after = after
  BY <1>0, FileOfType
<1>2. /\ BootoutStep.cmd = "bootout" /\ BootoutStep.change.onFail = "allow"
      /\ MkdirStep.cmd = "mkdir"
      /\ BootoutStep.change \notin FileChange /\ MkdirStep.change \notin FileChange
  BY RunOfType DEF BootoutStep, MkdirStep, Commands, Policies
<1>3. /\ RunOf("enable", "ignore").cmd = "enable" /\ RunOf("enable", "ignore").change \notin FileChange
      /\ RunOf("bootstrap", "error").cmd = "bootstrap"
      /\ RunOf("bootstrap", "error").change.onFail = "error"
      /\ RunOf("bootstrap", "error").change \notin FileChange
  BY RunOfType DEF Commands, Policies
<1>4. /\ one \in Seq(Step) /\ Len(one) = 1 /\ one[1] = f /\ File(o.path, after) = one
  <2>1. File(o.path, after) = one BY DEF File, FileOf
  <2> HIDE DEF f
  <2>2. one \in Seq(Step) /\ Len(one) = 1 /\ one[1] = f BY <1>1, OneStep
  <2> QED BY <2>1, <2>2
<1> HIDE DEF f, one
<1>5. /\ pre \o one \in Seq(Step) /\ n \in Nat /\ Len(pre \o one) = n + 1
      /\ \A i \in 1 .. n : (pre \o one)[i] = pre[i]
      /\ (pre \o one)[n + 1] = f
  <2>1. pre \in Seq(Step) BY DEF Opens
  <2>2. /\ pre \o one \in Seq(Step) /\ Len(pre) \in Nat
        /\ Len(pre \o one) = Len(pre) + Len(one)
        /\ \A i \in 1 .. Len(pre) : (pre \o one)[i] = pre[i]
        /\ \A i \in 1 .. Len(one) : (pre \o one)[Len(pre) + i] = one[i]
    BY <1>4, <2>1, Joined
  <2>3. (pre \o one)[Len(pre) + 1] = one[1] BY <1>4, <2>2
  <2> QED BY <1>n, <1>4, <2>2, <2>3
<1>6. /\ steps \in Seq(Step) /\ Len(steps) = m
      /\ \A i \in 1 .. n : steps[i] = pre[i]
      /\ steps[n + 1] = f
      /\ o.on => /\ steps[n + 2] = RunOf("enable", "ignore")
                 /\ steps[n + 3] = RunOf("bootstrap", "error")
  <2> DEFINE h == pre \o one
             l == Load(o.on)
  <2>1. /\ l \in Seq(Step) /\ Len(l) = IF o.on THEN 2 ELSE 0
        /\ o.on => l[1] = RunOf("enable", "ignore") /\ l[2] = RunOf("bootstrap", "error")
    BY <1>0, LoadSteps
  <2>2. steps = h \o l BY <1>4
  <2>3. h \in Seq(Step) /\ Len(h) = n + 1 BY <1>5
  <2> HIDE DEF h, l
  <2>4. /\ steps \in Seq(Step) /\ Len(steps) = n + 1 + Len(l)
        /\ \A i \in 1 .. n + 1 : steps[i] = h[i]
        /\ \A i \in 1 .. Len(l) : steps[n + 1 + i] = l[i]
    <3>1. /\ h \o l \in Seq(Step) /\ Len(h \o l) = Len(h) + Len(l)
          /\ \A i \in 1 .. Len(h) : (h \o l)[i] = h[i]
          /\ \A i \in 1 .. Len(l) : (h \o l)[Len(h) + i] = l[i]
      BY <2>1, <2>3, Joined
    <3> QED BY <2>2, <2>3, <3>1
  <2>5. \A i \in 1 .. n : steps[i] = pre[i]
    <3>1. \A i \in 1 .. n : i \in 1 .. n + 1 BY <1>5
    <3> QED BY <1>5, <2>4, <3>1 DEF h
  <2>6. steps[n + 1] = f
    <3>1. n + 1 \in 1 .. n + 1 BY <1>5
    <3> QED BY <1>5, <2>4, <3>1 DEF h
  <2>7. o.on => steps[n + 2] = l[1] /\ steps[n + 3] = l[2]
    <3>1. o.on => 1 \in 1 .. Len(l) /\ 2 \in 1 .. Len(l) BY <2>1
    <3>2. n + 1 + 1 = n + 2 /\ n + 1 + 2 = n + 3 BY <1>5
    <3> QED BY <2>4, <3>1, <3>2
  <2>8. Len(steps) = m BY <1>m, <1>0, <1>5, <2>1, <2>4
  <2> QED BY <2>1, <2>4, <2>5, <2>6, <2>7, <2>8
<1>7. /\ m \in Nat /\ DOMAIN cs = 1 .. m /\ DOMAIN pl = 1 .. m /\ Len(pl) = m
      /\ \A i \in 1 .. m : pl[i] = steps[i].change /\ cs[i] = steps[i].cmd /\ steps[i] \in Step
      /\ FileSteps(pl) = {i \in 1 .. m : steps[i].change \in FileChange}
  BY <1>c, <1>p, <1>6, StepsType
<1>8. /\ n + 1 \in 1 .. m /\ (o.on <=> n + 2 \in 1 .. m) /\ (o.on => m = n + 3) /\ (~o.on => m = n + 1)
      /\ \A i \in 1 .. m : i \in 1 .. n \/ i = n + 1 \/ (o.on /\ (i = n + 2 \/ i = n + 3))
  <2>1. n \in Nat BY <1>5
  <2>2. CASE o.on BY <1>m, <2>1, <2>2
  <2>3. CASE ~o.on BY <1>m, <2>1, <2>3
  <2> QED BY <2>2, <2>3
<1>9. \A i \in 1 .. n : i \in 1 .. m /\ i < n + 1 /\ cs[i] \in {"bootout", "mkdir"} /\ pl[i] \notin FileChange
                      /\ (cs[i] = "bootout" => pl[i].onFail = "allow")
                      /\ (pre[i] = BootoutStep => cs[i] = "bootout")
  <2>1. \A i \in 1 .. n : i \in 1 .. m /\ i < n + 1 BY <1>5, <1>8
  <2>2. \A i \in 1 .. n : pre[i] \in {BootoutStep, MkdirStep} BY <1>n DEF Opens
  <2> SUFFICES ASSUME NEW i \in 1 .. n
               PROVE  /\ cs[i] \in {"bootout", "mkdir"} /\ pl[i] \notin FileChange
                      /\ cs[i] = "bootout" => pl[i].onFail = "allow"
                      /\ pre[i] = BootoutStep => cs[i] = "bootout"
    BY <2>1
  <2>3. steps[i] = pre[i] BY <1>6
  <2>4. pl[i] = pre[i].change /\ cs[i] = pre[i].cmd BY <1>7, <2>1, <2>3
  <2>5. pre[i] = BootoutStep \/ pre[i] = MkdirStep BY <2>2
  <2> QED BY <1>2, <2>4, <2>5
<1>10. /\ cs[n + 1] = "file" /\ pl[n + 1] = f.change
       /\ o.on => /\ cs[n + 2] = "enable" /\ cs[n + 3] = "bootstrap"
                  /\ pl[n + 2] \notin FileChange /\ pl[n + 3] \notin FileChange
                  /\ pl[n + 3].onFail = "error"
  <2>1. o.on => n + 2 \in 1 .. m /\ n + 3 \in 1 .. m BY <1>5, <1>8
  <2>2. cs[n + 1] = "file" /\ pl[n + 1] = f.change BY <1>1, <1>6, <1>7, <1>8
  <2>3. o.on => /\ cs[n + 2] = "enable" /\ cs[n + 3] = "bootstrap"
                /\ pl[n + 2] = RunOf("enable", "ignore").change
                /\ pl[n + 3] = RunOf("bootstrap", "error").change
    <3>1. SUFFICES ASSUME o.on
                   PROVE  /\ cs[n + 2] = "enable" /\ cs[n + 3] = "bootstrap"
                          /\ pl[n + 2] = RunOf("enable", "ignore").change
                          /\ pl[n + 3] = RunOf("bootstrap", "error").change
      BY Zenon
    <3>2. steps[n + 2] = RunOf("enable", "ignore") /\ steps[n + 3] = RunOf("bootstrap", "error")
      BY <1>6, <3>1
    <3>3. cs[n + 2] = steps[n + 2].cmd /\ pl[n + 2] = steps[n + 2].change
      BY <1>7, <2>1, <3>1
    <3>4. cs[n + 3] = steps[n + 3].cmd /\ pl[n + 3] = steps[n + 3].change
      BY <1>7, <2>1, <3>1
    <3> QED BY <1>3, <3>2, <3>3, <3>4
  <2> QED BY <1>3, <2>2, <2>3
<1>11. FileSteps(pl) = {n + 1}
  <2>1. \A i \in 1 .. m : pl[i] \in FileChange <=> i = n + 1
    BY <1>1, <1>5, <1>8, <1>9, <1>10
  <2> QED BY <1>7, <1>8, <2>1
<1>12. ASSUME \E i \in 1 .. Len(pre) : pre[i] = BootoutStep PROVE Has(cs, "bootout")
  BY <1>n, <1>7, <1>9, <1>12 DEF Has
<1>13. ASSUME NEW i \in DOMAIN pl
       PROVE  /\ cs[i] \in Commands
              /\ cs[i] = "file" <=> i \in FileSteps(pl)
              /\ cs[i] = "bootout" => pl[i].onFail = "allow"
              /\ cs[i] \in {"bootstrap", "disable"} => pl[i].onFail = "error" /\ i = Len(pl)
              /\ cs[i] \in {"bootstrap", "enable"} => o.on
              /\ cs[i] = "disable" => ~o.on
  <2>1. CASE i \in 1 .. n
    <3>1. i # n + 1 BY <1>9, <2>1
    <3> QED BY <1>9, <1>11, <2>1, <3>1 DEF Commands
  <2>2. CASE i = n + 1 BY <1>10, <1>11, <2>2 DEF Commands
  <2>3. CASE o.on /\ i = n + 2
    <3>1. i # n + 1 BY <1>5, <2>3
    <3> QED BY <1>10, <1>11, <2>3, <3>1 DEF Commands
  <2>4. CASE o.on /\ i = n + 3
    <3>1. i # n + 1 BY <1>5, <2>4
    <3> QED BY <1>7, <1>8, <1>10, <1>11, <2>4, <3>1 DEF Commands
  <2> QED BY <1>7, <1>8, <2>1, <2>2, <2>3, <2>4
<1>14. /\ \A j \in DOMAIN pl : cs[j] = "bootout" => j < n + 1
       /\ \A j \in DOMAIN pl : cs[j] = "bootstrap" => n + 1 < j
  <2>1. ASSUME NEW j \in 1 .. m
        PROVE  (cs[j] = "bootout" => j < n + 1) /\ (cs[j] = "bootstrap" => n + 1 < j)
    <3>1. CASE j \in 1 .. n BY <1>9, <3>1
    <3>2. CASE j = n + 1 BY <1>10, <3>2
    <3>3. CASE o.on /\ (j = n + 2 \/ j = n + 3) BY <1>5, <1>10, <3>3
    <3> QED BY <1>8, <3>1, <3>2, <3>3
  <2> QED BY <1>7, <2>1
<1>15. pl[n + 1].path = o.path /\ pl[n + 1].before = text[o.path] /\ pl[n + 1].after = after
  BY <1>1, <1>10
<1>16. o.on => Len(pl) > 0 /\ cs[Len(pl)] = "bootstrap" BY <1>5, <1>7, <1>8, <1>10
<1>17. Shaped(o, cs, pl)
  <2>1. o.verb # "create" => Has(cs, "bootout") BY <1>12
  <2>2. \A i \in FileSteps(pl) :
          /\ pl[i].path = o.path /\ KeepsTheirs(o, pl[i].before, pl[i].after)
          /\ \A j \in FileSteps(pl) : i = j
          /\ \A j \in DOMAIN pl : cs[j] = "bootout" => j < i
          /\ \A j \in DOMAIN pl : cs[j] = "bootstrap" => i < j
          /\ o.verb # "create" => Has(cs, "bootout")
          /\ o.verb = "delete" => pl[i].after = Absent
    BY <1>11, <1>14, <1>15, <2>1
  <2>3. DOMAIN cs = DOMAIN pl BY <1>7
  <2> QED BY <1>11, <1>13, <1>16, <2>1, <2>2, <2>3 DEF Shaped
<1> QED BY <1>c, <1>p, <1>6, <1>11, <1>12, <1>15, <1>17

(* So has a plan without one.                                              *)
LEMMA SwitchPlanIsShaped ==
  ASSUME NEW o \in Ops, o.verb = "switch", NEW steps, steps = SwitchSteps(o.on)
  PROVE  /\ steps \in Seq(Step)
         /\ Shaped(o, CmdsOf(steps), ChangesOf(steps))
         /\ FileSteps(ChangesOf(steps)) = {}
<1>c. PICK cs : cs = CmdsOf(steps) OBVIOUS
<1>p. PICK pl : pl = ChangesOf(steps) OBVIOUS
<1>0. o.on \in BOOLEAN BY DEF Ops
<1>1. PICK a \in Step, b \in Step :
        /\ steps = <<a>> \o <<b>>
        /\ a.change \notin FileChange /\ b.change \notin FileChange
        /\ o.on => a.cmd = "enable" /\ b.cmd = "bootstrap" /\ b.change.onFail = "error"
        /\ ~o.on => /\ a.cmd = "bootout" /\ a.change.onFail = "allow"
                    /\ b.cmd = "disable" /\ b.change.onFail = "error"
  <2>1. CASE o.on
    <3>1. /\ RunOf("enable", "ignore") \in Step /\ RunOf("bootstrap", "error") \in Step
          /\ RunOf("enable", "ignore").cmd = "enable"
          /\ RunOf("bootstrap", "error").cmd = "bootstrap"
          /\ RunOf("bootstrap", "error").change.onFail = "error"
          /\ RunOf("enable", "ignore").change \notin FileChange
          /\ RunOf("bootstrap", "error").change \notin FileChange
      BY RunOfType DEF Commands, Policies
    <3>2. steps = <<RunOf("enable", "ignore")>> \o <<RunOf("bootstrap", "error")>>
      BY <2>1 DEF SwitchSteps, Load, Enable, Bootstrap, Run, RunOf
    <3> QED BY <2>1, <3>1, <3>2
  <2>2. CASE ~o.on
    <3>1. /\ RunOf("bootout", "allow") \in Step /\ RunOf("disable", "error") \in Step
          /\ RunOf("bootout", "allow").cmd = "bootout"
          /\ RunOf("bootout", "allow").change.onFail = "allow"
          /\ RunOf("disable", "error").cmd = "disable"
          /\ RunOf("disable", "error").change.onFail = "error"
          /\ RunOf("bootout", "allow").change \notin FileChange
          /\ RunOf("disable", "error").change \notin FileChange
      BY RunOfType DEF Commands, Policies
    <3>2. steps = <<RunOf("bootout", "allow")>> \o <<RunOf("disable", "error")>>
      BY <2>2 DEF SwitchSteps, Bootout, Disable, Run, RunOf
    <3> QED BY <2>2, <3>1, <3>2
  <2> QED BY <2>1, <2>2
<1>2. steps \in Seq(Step) /\ Len(steps) = 2 /\ steps[1] = a /\ steps[2] = b
  <2>1. /\ <<a>> \in Seq(Step) /\ Len(<<a>>) = 1 /\ <<a>>[1] = a
        /\ <<b>> \in Seq(Step) /\ Len(<<b>>) = 1 /\ <<b>>[1] = b
    BY OneStep
  <2> DEFINE x == <<a>>
             y == <<b>>
  <2>2. steps = x \o y BY <1>1
  <2>3. /\ x \in Seq(Step) /\ Len(x) = 1 /\ x[1] = a
        /\ y \in Seq(Step) /\ Len(y) = 1 /\ y[1] = b
    BY <2>1
  <2> HIDE DEF x, y
  <2>4. x \o y \in Seq(Step) /\ Len(x \o y) = 2 /\ (x \o y)[1] = x[1] /\ (x \o y)[2] = y[1]
    BY <2>3, Joined
  <2> QED BY <2>2, <2>3, <2>4
<1>3. /\ DOMAIN cs = {1, 2} /\ DOMAIN pl = {1, 2} /\ Len(pl) = 2
      /\ pl[1] = a.change /\ cs[1] = a.cmd /\ pl[2] = b.change /\ cs[2] = b.cmd
      /\ FileSteps(pl) = {}
  <2>1. /\ DOMAIN cs = 1 .. 2 /\ DOMAIN pl = 1 .. 2 /\ Len(pl) = 2
        /\ \A i \in 1 .. 2 : pl[i] = steps[i].change /\ cs[i] = steps[i].cmd
        /\ FileSteps(pl) = {i \in 1 .. 2 : steps[i].change \in FileChange}
    BY <1>c, <1>p, <1>2, StepsType
  <2>2. 1 .. 2 = {1, 2} OBVIOUS
  <2> QED BY <1>1, <1>2, <2>1, <2>2
<1>4. a.cmd \in Commands /\ b.cmd \in Commands BY DEF Step
<1>5. Shaped(o, cs, pl)
  <2>1. CASE o.on BY <1>1, <1>3, <1>4, <2>1 DEF Shaped, Has
  <2>2. CASE ~o.on BY <1>1, <1>3, <1>4, <2>2 DEF Shaped, Has
  <2> QED BY <2>1, <2>2
<1> QED BY <1>c, <1>p, <1>2, <1>3, <1>5

(* What a request hands to the executor.                                   *)
Sound(o, steps) ==
  /\ steps \in Seq(Step)
  /\ Shaped(o, CmdsOf(steps), ChangesOf(steps))
  /\ \A i \in FileSteps(ChangesOf(steps)) : ChangesOf(steps)[i].before = text[o.path]

LEMMA ContentFacts ==
  ASSUME text \in [Paths -> Contents], NEW p \in Paths
  PROVE  /\ Rendered(text[p]) \in Contents /\ ~Theirs(Rendered(text[p]))
         /\ text[p] # Absent =>
              /\ Edited(text[p]) \in Contents /\ Edited(text[p]) # Absent
              /\ Edited(text[p]).mine = text[p].mine
              /\ ~text[p].mine => Edited(text[p]).off = text[p].off
         /\ Absent \in Contents /\ text[p] \in Contents
<1>1. text[p] \in Contents /\ Absent \notin Texts BY HostAssumption
<1>2. Rendered(text[p]) \in Texts /\ Rendered(text[p]).mine
  <2>1. text[p] # Absent => text[p].version \in {1, 2}
    BY <1>1, LaunchdAssumption DEF Contents
  <2>2. text[p] # Absent => 3 - text[p].version \in {1, 2} BY <2>1
  <2> QED BY <2>2, LaunchdAssumption DEF Rendered, OtherVersion
<1>3. ASSUME text[p] # Absent
      PROVE  /\ Edited(text[p]) \in Texts /\ Edited(text[p]).mine = text[p].mine
             /\ ~text[p].mine => Edited(text[p]).off = text[p].off
  <2>1. text[p] \in [mine: BOOLEAN, off: BOOLEAN, version: {1, 2}]
    BY <1>1, <1>3, LaunchdAssumption DEF Contents
  <2>2. 3 - text[p].version \in {1, 2} BY <2>1
  <2>3. CASE text[p].mine BY <1>2, <2>1, <2>3 DEF Edited, Rendered
  <2>4. CASE ~text[p].mine BY <2>1, <2>2, <2>4, LaunchdAssumption DEF Edited, OtherVersion
  <2> QED BY <2>3, <2>4
<1> QED BY <1>1, <1>2, <1>3 DEF Contents, Theirs

LEMMA CreateIsSound ==
  ASSUME text \in [Paths -> Contents],
         NEW o \in Ops, o.verb = "create", text[o.path] # Absent => text[o.path].mine,
         NEW listed \in BOOLEAN
  PROVE  /\ Sound(o, CreateSteps(o.path, o.on, listed))
         /\ listed => Has(CmdsOf(CreateSteps(o.path, o.on, listed)), "bootout")
<1> DEFINE a == IF listed THEN Bootout ELSE <<>>
           b == IF o.path = agent THEN Run("mkdir", "error") ELSE <<>>
           pre == a \o b
           after == Rendered(text[o.path])
           steps == CreateSteps(o.path, o.on, listed)
<1>0. o.path \in Paths BY DEF Ops
<1>1. /\ a \in Seq(Step) /\ (\A i \in 1 .. Len(a) : a[i] = BootoutStep)
      /\ listed => Len(a) = 1
  <2>1. BootoutStep \in Step BY RunOfType DEF BootoutStep, Commands, Policies
  <2>2. /\ <<BootoutStep>> \in Seq(Step) /\ Len(<<BootoutStep>>) = 1
        /\ <<BootoutStep>>[1] = BootoutStep /\ <<>> \in Seq(Step) /\ Len(<<>>) = 0
    BY <2>1, OneStep
  <2>3. Bootout = <<BootoutStep>> BY DEF Bootout, Run, BootoutStep, RunOf
  <2>4. CASE listed BY <2>2, <2>3, <2>4
  <2>5. CASE ~listed BY <2>2, <2>5
  <2> QED BY <2>4, <2>5
<1>2. b \in Seq(Step) /\ (\A i \in 1 .. Len(b) : b[i] = MkdirStep)
  <2>1. MkdirStep \in Step BY RunOfType DEF MkdirStep, Commands, Policies
  <2>2. /\ <<MkdirStep>> \in Seq(Step) /\ Len(<<MkdirStep>>) = 1
        /\ <<MkdirStep>>[1] = MkdirStep /\ <<>> \in Seq(Step) /\ Len(<<>>) = 0
    BY <2>1, OneStep
  <2>3. Run("mkdir", "error") = <<MkdirStep>> BY DEF Run, MkdirStep, RunOf
  <2>4. CASE o.path = agent
    <3>1. b = <<MkdirStep>> BY <2>3, <2>4
    <3> HIDE DEF b
    <3> QED BY <2>2, <3>1
  <2>5. CASE o.path # agent BY <2>2, <2>5
  <2> QED BY <2>4, <2>5
<1>3. steps = pre \o File(o.path, after) \o Load(o.on) BY DEF CreateSteps
<1>4. after \in Contents /\ KeepsTheirs(o, text[o.path], after)
  <2>1. ~Theirs(after) /\ ~Theirs(text[o.path])
    BY <1>0, ContentFacts DEF Theirs
  <2> QED BY <1>0, <2>1, ContentFacts DEF KeepsTheirs
<1> HIDE DEF a, b, after, steps
<1>5. Opens(pre) /\ (listed => \E i \in 1 .. Len(pre) : pre[i] = BootoutStep)
  <2>1. /\ a \o b \in Seq(Step) /\ Len(a) \in Nat /\ Len(b) \in Nat
        /\ Len(a \o b) = Len(a) + Len(b)
        /\ \A i \in 1 .. Len(a) + Len(b) : (a \o b)[i] = IF i <= Len(a) THEN a[i] ELSE b[i - Len(a)]
    BY <1>1, <1>2, ConcatProperties
  <2>2. \A i \in 1 .. Len(a) + Len(b) : i \in 1 .. Len(a) \/ (~(i <= Len(a)) /\ i - Len(a) \in 1 .. Len(b))
    BY <2>1
  <2>3. \A i \in 1 .. Len(a) + Len(b) : (a \o b)[i] \in {BootoutStep, MkdirStep}
    BY <1>1, <1>2, <2>1, <2>2
  <2>4. ASSUME listed PROVE (a \o b)[1] = BootoutStep /\ 1 \in 1 .. Len(a) + Len(b)
    <3>1. Len(a) = 1 BY <1>1, <2>4
    <3>2. 1 \in 1 .. Len(a) + Len(b) /\ 1 <= Len(a) /\ 1 \in 1 .. Len(a) BY <2>1, <3>1
    <3> QED BY <1>1, <2>1, <3>2
  <2> QED BY <2>1, <2>3, <2>4 DEF Opens
<1> HIDE DEF pre
<1>6. /\ steps \in Seq(Step)
      /\ Shaped(o, CmdsOf(steps), ChangesOf(steps))
      /\ \A i \in FileSteps(ChangesOf(steps)) : ChangesOf(steps)[i].before = text[o.path]
      /\ (\E i \in 1 .. Len(pre) : pre[i] = BootoutStep) => Has(CmdsOf(steps), "bootout")
  <2>1. IsFilePlan(o, after, pre, steps) BY <1>3, <1>4, <1>5 DEF IsFilePlan
  <2> QED BY <2>1, FilePlanIsShaped
<1> QED BY <1>5, <1>6 DEF Sound, steps

LEMMA BootoutOpens ==
  Opens(Bootout) /\ \E i \in 1 .. Len(Bootout) : Bootout[i] = BootoutStep
<1>1. BootoutStep \in Step BY RunOfType DEF BootoutStep, Commands, Policies
<1>2. /\ <<BootoutStep>> \in Seq(Step) /\ Len(<<BootoutStep>>) = 1
      /\ <<BootoutStep>>[1] = BootoutStep
  BY <1>1, OneStep
<1>3. Bootout = <<BootoutStep>> BY DEF Bootout, Run, BootoutStep, RunOf
<1> HIDE DEF BootoutStep
<1> QED BY <1>2, <1>3 DEF Opens

LEMMA UpdateIsSound ==
  ASSUME text \in [Paths -> Contents],
         NEW o \in Ops, o.verb = "update", text[o.path] # Absent
  PROVE  /\ Sound(o, UpdateSteps(o.path, o.on))
         /\ Has(CmdsOf(UpdateSteps(o.path, o.on)), "bootout")
<1> DEFINE after == Edited(text[o.path])
           steps == UpdateSteps(o.path, o.on)
           pre == Bootout
<1>0. o.path \in Paths BY DEF Ops
<1>1. steps = pre \o File(o.path, after) \o Load(o.on) BY DEF UpdateSteps
<1>2. after \in Contents /\ KeepsTheirs(o, text[o.path], after)
  BY <1>0, ContentFacts DEF KeepsTheirs, Theirs
<1>3. Opens(pre) /\ \E i \in 1 .. Len(pre) : pre[i] = BootoutStep BY BootoutOpens
<1> HIDE DEF pre, after, steps
<1>4. /\ steps \in Seq(Step)
      /\ Shaped(o, CmdsOf(steps), ChangesOf(steps))
      /\ \A i \in FileSteps(ChangesOf(steps)) : ChangesOf(steps)[i].before = text[o.path]
      /\ (\E i \in 1 .. Len(pre) : pre[i] = BootoutStep) => Has(CmdsOf(steps), "bootout")
  <2>1. IsFilePlan(o, after, pre, steps) BY <1>1, <1>2, <1>3 DEF IsFilePlan
  <2> QED BY <2>1, FilePlanIsShaped
<1> QED BY <1>3, <1>4 DEF Sound, steps

LEMMA DeleteIsSound ==
  ASSUME text \in [Paths -> Contents],
         NEW o \in Ops, o.verb = "delete", ~o.on, text[o.path] # Absent
  PROVE  /\ Sound(o, DeleteSteps(o.path))
         /\ Has(CmdsOf(DeleteSteps(o.path)), "bootout")
<1> DEFINE steps == DeleteSteps(o.path)
           pre == Bootout
<1>0. o.path \in Paths BY DEF Ops
<1>1. Opens(pre) /\ \E i \in 1 .. Len(pre) : pre[i] = BootoutStep BY BootoutOpens
<1>2. steps = pre \o File(o.path, Absent) \o Load(o.on)
  <2>1. FileOf(o.path, Absent) \in Step BY <1>0, ContentFacts, FileOfType
  <2>2. File(o.path, Absent) \in Seq(Step)
    <3>1. <<FileOf(o.path, Absent)>> \in Seq(Step) BY <2>1, OneStep
    <3> QED BY <3>1 DEF File, FileOf
  <2>3. pre \o File(o.path, Absent) \in Seq(Step) BY <1>1, <2>2, Joined DEF Opens
  <2>4. pre \o File(o.path, Absent) \o <<>> = pre \o File(o.path, Absent)
    BY <2>3, ConcatEmptySeq
  <2> QED BY <2>4 DEF DeleteSteps, Load
<1>3. Absent \in Contents /\ KeepsTheirs(o, text[o.path], Absent)
  BY <1>0, ContentFacts DEF KeepsTheirs, Theirs
<1> HIDE DEF pre, steps
<1>4. /\ steps \in Seq(Step)
      /\ Shaped(o, CmdsOf(steps), ChangesOf(steps))
      /\ \A i \in FileSteps(ChangesOf(steps)) : ChangesOf(steps)[i].before = text[o.path]
      /\ (\E i \in 1 .. Len(pre) : pre[i] = BootoutStep) => Has(CmdsOf(steps), "bootout")
  <2>1. IsFilePlan(o, Absent, pre, steps) BY <1>1, <1>2, <1>3 DEF IsFilePlan
  <2> QED BY <2>1, FilePlanIsShaped
<1> QED BY <1>1, <1>4 DEF Sound, steps

(* Every request: an operation, its plan, and either the job is not        *)
(* loaded, or the plan unloads it, or no plist is changed, or a creation   *)
(* did not see it.                                                         *)
LEMMA RequestFacts ==
  ASSUME Types, text \in [Paths -> Contents], Request
  PROVE  \E o \in Ops, steps \in Seq(Step) :
           /\ Ask(o.verb, o.on, o.path, steps) /\ Sound(o, steps)
           /\ strayed' \in BOOLEAN /\ (strayed => strayed')
           /\ \/ strayed' \/ loaded[Domain(o.path)] = Absent
              \/ FileSteps(ChangesOf(steps)) = {} \/ Has(CmdsOf(steps), "bootout")
<1> DEFINE Op(verb, on, p) == [verb |-> verb, on |-> on, path |-> p]
<1>0. \A verb \in {"create", "update", "delete", "switch"}, on \in BOOLEAN, p \in Paths :
        /\ Op(verb, on, p) \in Ops /\ Op(verb, on, p).verb = verb
        /\ Op(verb, on, p).on = on /\ Op(verb, on, p).path = p
  BY DEF Ops
<1> HIDE DEF Op
<1>s. strayed \in BOOLEAN BY DEF Types
<1>1. ASSUME NEW p \in Paths, NEW on \in BOOLEAN, Create(p, on)
      PROVE  \E o \in Ops, steps \in Seq(Step) :
               /\ Ask(o.verb, o.on, o.path, steps) /\ Sound(o, steps)
               /\ strayed' \in BOOLEAN /\ (strayed => strayed')
               /\ \/ strayed' \/ loaded[Domain(o.path)] = Absent
                  \/ FileSteps(ChangesOf(steps)) = {} \/ Has(CmdsOf(steps), "bootout")
  <2>1. PICK listed \in BOOLEAN :
          /\ text[p] # Absent => text[p].mine
          /\ Ask("create", on, p, CreateSteps(p, on, listed))
          /\ strayed' = (strayed \/ Unseen(p, listed))
    BY <1>1 DEF Create, InList
  <2> DEFINE o == Op("create", on, p)
             steps == CreateSteps(p, on, listed)
  <2>2. o \in Ops /\ o.verb = "create" /\ o.on = on /\ o.path = p BY <1>0
  <2>3. Sound(o, steps) /\ (listed => Has(CmdsOf(steps), "bootout"))
    <3>1. CreateSteps(o.path, o.on, listed) = steps BY <2>2
    <3> HIDE DEF steps, o
    <3> QED BY <2>1, <2>2, <3>1, CreateIsSound
  <2>4. strayed' \/ loaded[Domain(o.path)] = Absent \/ listed
    BY <2>1, <2>2 DEF Unseen
  <2>5. strayed' \in BOOLEAN /\ (strayed => strayed') BY <1>s, <2>1 DEF Unseen
  <2>6. Ask(o.verb, o.on, o.path, steps) BY <2>1, <2>2
  <2> HIDE DEF o, steps
  <2> QED BY <2>2, <2>3, <2>4, <2>5, <2>6 DEF Sound
<1>2. ASSUME NEW p \in Paths, NEW on \in BOOLEAN, Update(p, on)
      PROVE  \E o \in Ops, steps \in Seq(Step) :
               /\ Ask(o.verb, o.on, o.path, steps) /\ Sound(o, steps)
               /\ strayed' \in BOOLEAN /\ (strayed => strayed')
               /\ \/ strayed' \/ loaded[Domain(o.path)] = Absent
                  \/ FileSteps(ChangesOf(steps)) = {} \/ Has(CmdsOf(steps), "bootout")
  <2> DEFINE o == Op("update", on, p)
             steps == UpdateSteps(p, on)
  <2>1. text[p] # Absent /\ Ask("update", on, p, steps) /\ strayed' = strayed
    BY <1>2 DEF Update, Rows
  <2>2. o \in Ops /\ o.verb = "update" /\ o.on = on /\ o.path = p BY <1>0
  <2>3. Sound(o, steps) /\ Has(CmdsOf(steps), "bootout")
    <3>1. UpdateSteps(o.path, o.on) = steps BY <2>2
    <3> HIDE DEF steps, o
    <3> QED BY <2>1, <2>2, <3>1, UpdateIsSound
  <2>4. Ask(o.verb, o.on, o.path, steps) BY <2>1, <2>2
  <2> HIDE DEF o, steps
  <2> QED BY <1>s, <2>1, <2>2, <2>3, <2>4 DEF Sound
<1>3. ASSUME NEW p \in Paths, Delete(p)
      PROVE  \E o \in Ops, steps \in Seq(Step) :
               /\ Ask(o.verb, o.on, o.path, steps) /\ Sound(o, steps)
               /\ strayed' \in BOOLEAN /\ (strayed => strayed')
               /\ \/ strayed' \/ loaded[Domain(o.path)] = Absent
                  \/ FileSteps(ChangesOf(steps)) = {} \/ Has(CmdsOf(steps), "bootout")
  <2> DEFINE o == Op("delete", FALSE, p)
             steps == DeleteSteps(p)
  <2>1. text[p] # Absent /\ Ask("delete", FALSE, p, steps) /\ strayed' = strayed
    BY <1>3 DEF Delete, Rows
  <2>2. o \in Ops /\ o.verb = "delete" /\ o.on = FALSE /\ o.path = p BY <1>0
  <2>3. Sound(o, steps) /\ Has(CmdsOf(steps), "bootout")
    <3>1. DeleteSteps(o.path) = steps BY <2>2
    <3> HIDE DEF steps, o
    <3> QED BY <2>1, <2>2, <3>1, DeleteIsSound
  <2>4. Ask(o.verb, o.on, o.path, steps) BY <2>1, <2>2
  <2> HIDE DEF o, steps
  <2> QED BY <1>s, <2>1, <2>2, <2>3, <2>4 DEF Sound
<1>4. ASSUME NEW p \in Paths, NEW on \in BOOLEAN,
             Ask("switch", on, p, SwitchSteps(on)), UNCHANGED strayed
      PROVE  \E o \in Ops, steps \in Seq(Step) :
               /\ Ask(o.verb, o.on, o.path, steps) /\ Sound(o, steps)
               /\ strayed' \in BOOLEAN /\ (strayed => strayed')
               /\ \/ strayed' \/ loaded[Domain(o.path)] = Absent
                  \/ FileSteps(ChangesOf(steps)) = {} \/ Has(CmdsOf(steps), "bootout")
  <2> DEFINE o == Op("switch", on, p)
             steps == SwitchSteps(on)
  <2>1. Ask("switch", on, p, steps) /\ strayed' = strayed BY <1>4
  <2>2. o \in Ops /\ o.verb = "switch" /\ o.on = on /\ o.path = p BY <1>0
  <2>3. Sound(o, steps) /\ FileSteps(ChangesOf(steps)) = {}
    <3>1. SwitchSteps(o.on) = steps BY <2>2
    <3> HIDE DEF steps, o
    <3>2. /\ steps \in Seq(Step) /\ Shaped(o, CmdsOf(steps), ChangesOf(steps))
          /\ FileSteps(ChangesOf(steps)) = {}
      BY <2>2, <3>1, SwitchPlanIsShaped
    <3> QED BY <3>2 DEF Sound
  <2>4. Ask(o.verb, o.on, o.path, steps) BY <2>1, <2>2
  <2> HIDE DEF o, steps
  <2> QED BY <1>s, <2>1, <2>2, <2>3, <2>4 DEF Sound
<1>5. ASSUME NEW p \in Paths, NEW on \in BOOLEAN, SetEnabled(p, on)
      PROVE  Ask("switch", on, p, SwitchSteps(on)) /\ UNCHANGED strayed
  BY <1>5 DEF SetEnabled
<1>6. ASSUME NEW p \in Paths, NEW row \in Paths, Toggle(row, p)
      PROVE  \E on \in BOOLEAN : Ask("switch", on, p, SwitchSteps(on)) /\ UNCHANGED strayed
  BY <1>6 DEF Toggle, TakenAsEnabled
<1> QED BY <1>1, <1>2, <1>3, <1>4, <1>5, <1>6 DEF Request

-----------------------------------------------------------------------------
(* The steps                                                               *)

LEMMA RequestKeepsLInv == LInv /\ Request => LInv'
<1> SUFFICES ASSUME LInv, Request PROVE LInv' OBVIOUS
<1>0. /\ TypeOK /\ Types /\ LoadedIsOnDisk /\ Held /\ text \in [Paths -> Contents]
      /\ ~dry /\ touched = {}
  BY DEF LInv, IInv, TypeOK, Types
<1>1. PICK o \in Ops, steps \in Seq(Step) :
        /\ Ask(o.verb, o.on, o.path, steps) /\ Sound(o, steps)
        /\ strayed' \in BOOLEAN /\ (strayed => strayed')
        /\ \/ strayed' \/ loaded[Domain(o.path)] = Absent
           \/ FileSteps(ChangesOf(steps)) = {} \/ Has(CmdsOf(steps), "bootout")
  BY <1>0, RequestFacts
<1>c. PICK cs : cs = CmdsOf(steps) OBVIOUS
<1>p. PICK pl : pl = ChangesOf(steps) OBVIOUS
<1>2. /\ op' = o /\ plan' = pl /\ cmds' = cs /\ asked' = asked + 1 /\ booted' = FALSE
      /\ phase' = "running" /\ next' = 1 /\ applied' = {} /\ notes' = {} /\ outputs' = <<>>
      /\ text0' = text /\ perm0' = perm /\ unsure' = {}
      /\ text' = text /\ perm' = perm /\ dry' = dry /\ touched' = touched /\ edits' = edits
      /\ loaded' = loaded /\ override' = override
      /\ want' = [want EXCEPT ![Domain(o.path)] = IF @ = "down" /\ ~o.on THEN @ ELSE "none"]
  <2>1. o = [verb |-> o.verb, on |-> o.on, path |-> o.path] BY DEF Ops
  <2> QED BY <1>1, <1>c, <1>p, <2>1 DEF Ask, CmdsOf, ChangesOf, host, launchd
<1>3. /\ pl \in Seq(Change) /\ Len(pl) \in Nat /\ DOMAIN pl = 1 .. Len(pl) /\ DOMAIN cs = 1 .. Len(pl)
      /\ Shaped(o, cs, pl) /\ \A i \in FileSteps(pl) : pl[i].before = text[o.path]
  BY <1>1, <1>c, <1>p, StepsType DEF Sound
<1>4. /\ \A i \in FileSteps(pl) : pl[i].path = o.path
      /\ \A i, j \in FileSteps(pl) : i = j
      /\ FileSteps(pl) \subseteq 1 .. Len(pl)
      /\ o.path \in Paths
  BY <1>3 DEF Shaped, FileSteps, Ops
<1>5. TypeOK'
  <2>1. DistinctPaths(pl) BY <1>4 DEF DistinctPaths
  <2>2. 1 \in 1 .. Len(pl) + 1 BY <1>3
  <2> QED BY <1>0, <1>2, <1>3, <2>1, <2>2 DEF TypeOK, Phases
<1>6. IInv'
  <2>1. OnDisk' BY <1>2, <1>3, <1>4 DEF OnDisk, Planned
  <2>2. AppliedIsPrefix'
    <3>1. \A i \in FileSteps(pl) : ~(i < 1) BY <1>3, <1>4
    <3> QED BY <1>2, <3>1 DEF AppliedIsPrefix
  <2>3. Endings' BY <1>0, <1>2 DEF Endings
  <2> QED BY <1>5, <2>1, <2>2, <2>3 DEF IInv
<1>7. /\ want' \in [Domains -> {"none", "up", "down"}]
      /\ \A d \in Domains : want'[d] = IF d = Domain(o.path)
                                      THEN IF want[d] = "down" /\ ~o.on THEN "down" ELSE "none"
                                      ELSE want[d]
  <2>1. Domain(o.path) \in Domains BY DEF Domain, Domains
  <2> QED BY <1>0, <1>2, <2>1 DEF Types
<1>8. Types'
  <2>1. asked' \in Nat /\ asked' # 0 BY <1>0, <1>2 DEF Types
  <2> QED BY <1>0, <1>1, <1>2, <1>3, <1>7, <2>1 DEF Types
<1>9. Guarded'
  <2>1. CASE Has(cs, "bootout")
    <3>1. PICK j \in DOMAIN cs : cs[j] = "bootout" BY <2>1 DEF Has
    <3>2. j >= 1 BY <1>3, <3>1
    <3> QED BY <1>2, <3>1, <3>2 DEF Guarded
  <2>2. CASE strayed' \/ loaded[Domain(o.path)] = Absent \/ FileSteps(pl) = {}
    BY <1>2, <2>2 DEF Guarded, D
  <2> QED BY <1>1, <1>c, <1>p, <2>1, <2>2
<1>10. LoadedIsOnDisk' BY <1>0, <1>1, <1>2 DEF LoadedIsOnDisk, Job
<1>11. OnPath' BY <1>2, <1>3 DEF OnPath
<1>12. Achieved'
  <2>1. \A j \in DOMAIN cs : ~(j < 1) BY <1>3
  <2>2. \A i \in FileSteps(pl) : ~(i < 1) BY <1>3, <1>4
  <2> QED BY <1>2, <2>1, <2>2 DEF Achieved, Passed
<1>13. Held'
  <2>1. ASSUME NEW d \in Domains, want'[d] = "down"
        PROVE  /\ loaded'[d] = Absent /\ override'[d] = "disabled"
               /\ d = D' => ~op'.on
    BY <1>0, <1>2, <1>7, <2>1 DEF Held, D
  <2>2. ASSUME NEW d \in Domains, want'[d] = "up"
        PROVE  d # D' /\ \E p \in Rows' : Domain(p) = d /\ ~Barred(d, text[p])'
    <3>1. want[d] = "up" /\ d # Domain(o.path) BY <1>7, <2>2
    <3>2. PICK p \in Rows : Domain(p) = d /\ ~Barred(d, text[p]) BY <1>0, <3>1 DEF Held
    <3> QED BY <1>2, <3>1, <3>2 DEF Rows, Barred, D
  <2> QED BY <1>2, <2>1, <2>2 DEF Held
<1> QED BY <1>6, <1>8, <1>9, <1>10, <1>11, <1>12, <1>13 DEF LInv

(* What a plan says of the step it is at, in the words the steps need.     *)
LEMMA PlanFacts ==
  ASSUME LInv
  PROVE  /\ TypeOK /\ Types /\ D \in Domains /\ op.path \in Paths /\ D = Domain(op.path)
         /\ Len(plan) \in Nat /\ DOMAIN plan = 1 .. Len(plan) /\ DOMAIN cmds = 1 .. Len(plan)
         /\ FileSteps(plan) \subseteq 1 .. Len(plan)
         /\ next \in Nat /\ next >= 1 /\ next <= Len(plan) + 1
         /\ \A i \in FileSteps(plan) :
              /\ plan[i].path = op.path /\ plan[i].before \in Contents /\ plan[i].after \in Contents
              /\ \A j \in FileSteps(plan) : i = j
              /\ \A j \in DOMAIN cmds : cmds[j] = "bootout" => j < i
              /\ \A j \in DOMAIN cmds : cmds[j] = "bootstrap" => i < j
         /\ text \in [Paths -> Contents]
         /\ booted => phase \in Terminal
<1>1. /\ TypeOK /\ Types /\ Shaped(op, cmds, plan) /\ op \in Ops /\ plan \in Seq(Change)
      /\ next \in 1 .. Len(plan) + 1 /\ text \in [Paths -> Contents]
      /\ booted => phase \in Terminal
  BY DEF LInv, IInv, TypeOK, Types
<1>2. op.path \in Paths /\ D \in Domains /\ D = Domain(op.path)
  BY <1>1 DEF Ops, D, Domain, Domains
<1>3. /\ Len(plan) \in Nat /\ DOMAIN plan = 1 .. Len(plan) /\ DOMAIN cmds = 1 .. Len(plan)
      /\ FileSteps(plan) \subseteq 1 .. Len(plan)
      /\ next \in Nat /\ next >= 1 /\ next <= Len(plan) + 1
  BY <1>1 DEF Shaped, FileSteps
<1>4. \A i \in FileSteps(plan) : plan[i].before \in Contents /\ plan[i].after \in Contents
  BY <1>1, FileStepFacts
<1>5. \A i \in FileSteps(plan) :
        /\ plan[i].path = op.path
        /\ \A j \in FileSteps(plan) : i = j
        /\ \A j \in DOMAIN cmds : cmds[j] = "bootout" => j < i
        /\ \A j \in DOMAIN cmds : cmds[j] = "bootstrap" => i < j
  BY <1>1 DEF Shaped
<1> QED BY <1>1, <1>2, <1>3, <1>4, <1>5

(* A step of the executor on a file, or at its end.                        *)
Writes(i) ==
  text' = [text EXCEPT ![op.path] = plan[i].after] \/ text' = [text EXCEPT ![op.path] = plan[i].before]

LEMMA FileWorkFacts ==
  ASSUME LInv, FileWork
  PROVE  /\ IInv'
         /\ UNCHANGED <<plan, dry, touched, op, cmds, want, asked, loaded, override, strayed, booted>>
         /\ phase \in {"running", "rollback"}
         /\ \/ text' = text
            \/ \E i \in FileSteps(plan) :
                 /\ Writes(i)
                 /\ (phase = "running" /\ i = next) \/ (phase = "rollback" /\ applied # {})
         /\ \/ /\ phase = "running" /\ phase' = "running" /\ next' = next + 1
               /\ next \in FileSteps(plan) /\ text' = [text EXCEPT ![op.path] = plan[next].after]
            \/ /\ phase = "running" /\ phase' = "rollback" /\ next' = next
               /\ next \in FileSteps(plan)
            \/ /\ phase = "running" /\ phase' = "ok" /\ next' = next /\ next = Len(plan) + 1
               /\ text' = text
            \/ phase = "rollback" /\ phase' = "rollback" /\ applied # {}
            \/ phase = "rollback" /\ phase' = "error" /\ applied = {} /\ text' = text
<1>0. /\ TypeOK /\ IInv /\ text \in [Paths -> Contents]
      /\ \A i \in FileSteps(plan) : plan[i].path = op.path
  BY PlanFacts DEF LInv
<1>1. UNCHANGED <<op, cmds, want, asked, loaded, override, strayed, booted>>
  BY DEF FileWork, request, launchd
<1>2. Execute BY DEF FileWork, Execute
<1>3. IInv' /\ UNCHANGED <<plan, dry, touched>>
  <2>1. IInv' BY <1>0, <1>2, IInvStep DEF Next
  <2>2. UNCHANGED <<plan, dry, touched>>
    BY DEF FileWork, FileStep, FileStepFails, Finish, RolledBack, Undo, UndoFails, history
  <2> QED BY <2>1, <2>2
<1>4. CASE FileStep
  <2>1. next \in FileSteps(plan) BY <1>0, <1>4 DEF FileStep, AtChange, FileSteps, TypeOK
  <2>2. /\ text' = [text EXCEPT ![op.path] = plan[next].after]
        /\ phase = "running" /\ phase' = "running" /\ next' = next + 1
    BY <1>0, <1>4, <2>1 DEF FileStep, AtChange, Put
  <2>w. Writes(next) BY <2>2 DEF Writes
  <2>3. \/ text' = text
        \/ \E i \in FileSteps(plan) :
             /\ Writes(i)
             /\ (phase = "running" /\ i = next) \/ (phase = "rollback" /\ applied # {})
    BY <2>1, <2>2, <2>w
  <2> QED BY <1>1, <1>3, <2>1, <2>2, <2>3
<1>5. CASE FileStepFails
  <2>1. next \in FileSteps(plan) BY <1>0, <1>5 DEF FileStepFails, AtChange, FileSteps, TypeOK
  <2>2. /\ text' = text \/ text' = [text EXCEPT ![op.path] = plan[next].after]
        /\ phase = "running" /\ phase' = "rollback" /\ next' = next
    BY <1>0, <1>5, <2>1 DEF FileStepFails, AtChange, Put, host
  <2>w. text' = text \/ Writes(next) BY <2>2 DEF Writes
  <2>3. \/ text' = text
        \/ \E i \in FileSteps(plan) :
             /\ Writes(i)
             /\ (phase = "running" /\ i = next) \/ (phase = "rollback" /\ applied # {})
    BY <2>1, <2>2, <2>w
  <2> QED BY <1>1, <1>3, <2>1, <2>2, <2>3
<1>6. CASE Finish
  BY <1>1, <1>3, <1>6 DEF Finish, host
<1>7. CASE RolledBack
  BY <1>1, <1>3, <1>7 DEF RolledBack, host
<1>8. ASSUME NEW i \in applied, Undo(i) \/ UndoFails(i)
      PROVE  /\ phase = "rollback" /\ phase' = "rollback" /\ applied # {}
             /\ \/ text' = text
                \/ \E k \in FileSteps(plan) : Writes(k)
  <2>1. i \in FileSteps(plan) BY <1>0, <1>8 DEF TypeOK
  <2>2. text' = text \/ Writes(i)
    BY <1>0, <1>8, <2>1 DEF Undo, UndoFails, Put, host, Writes
  <2> QED BY <1>8, <2>1, <2>2 DEF Undo, UndoFails
<1> QED BY <1>1, <1>3, <1>4, <1>5, <1>6, <1>7, <1>8 DEF FileWork

LEMMA FileWorkKeepsLInv == LInv /\ FileWork => LInv'
<1> SUFFICES ASSUME LInv, FileWork PROVE LInv' OBVIOUS
<1>0. /\ TypeOK /\ Types /\ D \in Domains /\ op.path \in Paths /\ D = Domain(op.path)
      /\ Len(plan) \in Nat /\ DOMAIN cmds = 1 .. Len(plan)
      /\ FileSteps(plan) \subseteq 1 .. Len(plan)
      /\ next \in Nat /\ next >= 1 /\ next <= Len(plan) + 1
      /\ \A i \in FileSteps(plan) :
           /\ \A j \in FileSteps(plan) : i = j
           /\ \A j \in DOMAIN cmds : cmds[j] = "bootout" => j < i
           /\ \A j \in DOMAIN cmds : cmds[j] = "bootstrap" => i < j
      /\ text \in [Paths -> Contents]
  BY PlanFacts
<1>1. /\ IInv'
      /\ plan' = plan /\ dry' = dry /\ touched' = touched /\ op' = op /\ cmds' = cmds
      /\ want' = want /\ asked' = asked /\ loaded' = loaded /\ override' = override
      /\ strayed' = strayed /\ booted' = booted
      /\ phase \in {"running", "rollback"}
  BY FileWorkFacts
<1>2. \/ text' = text
      \/ \E i \in FileSteps(plan) :
           /\ Writes(i)
           /\ (phase = "running" /\ i = next) \/ (phase = "rollback" /\ applied # {})
  BY FileWorkFacts
<1>3. \/ /\ phase = "running" /\ phase' = "running" /\ next' = next + 1
         /\ next \in FileSteps(plan) /\ text' = [text EXCEPT ![op.path] = plan[next].after]
      \/ /\ phase = "running" /\ phase' = "rollback" /\ next' = next
         /\ next \in FileSteps(plan)
      \/ /\ phase = "running" /\ phase' = "ok" /\ next' = next /\ next = Len(plan) + 1
         /\ text' = text
      \/ phase = "rollback" /\ phase' = "rollback" /\ applied # {}
      \/ phase = "rollback" /\ phase' = "error" /\ applied = {} /\ text' = text
  BY FileWorkFacts
<1>4. D' = D BY <1>1 DEF D
<1>5. ~booted BY <1>1, PlanFacts DEF Terminal
<1>6. \A p \in Paths : p # op.path => text'[p] = text[p] BY <1>0, <1>2 DEF Writes
<1>7. next \in FileSteps(plan) /\ phase = "running" =>
        ~\E j \in DOMAIN cmds : j >= next /\ cmds[j] = "bootout"
  BY <1>0
<1>8. text' # text => strayed \/ loaded[D] = Absent
  <2>1. ASSUME text' # text PROVE strayed \/ loaded[D] = Absent
    <3>1. PICK i \in FileSteps(plan) : (phase = "running" /\ i = next) \/ (phase = "rollback" /\ applied # {})
      BY <1>2, <2>1
    <3>2. CASE phase = "running" /\ i = next
      <4>1. ~(next > Len(plan)) /\ FileSteps(plan) # {} BY <1>0, <3>1, <3>2
      <4> QED BY <1>7, <3>1, <3>2, <4>1 DEF LInv, Guarded, Terminal
    <3>3. CASE phase = "rollback" /\ applied # {}
      BY <3>1, <3>3 DEF LInv, Guarded, Terminal
    <3> QED BY <3>1, <3>2, <3>3
  <2> QED BY <2>1
<1>9. Types' BY <1>0, <1>1, <1>5 DEF Types
<1>10. Guarded'
  <2>1. Guarded BY DEF LInv
  <2>2. CASE strayed \/ loaded[D] = Absent \/ FileSteps(plan) = {}
    BY <1>1, <1>4, <2>2 DEF Guarded
  <2>3. CASE phase = "rollback" /\ applied = {}
    <3>1. phase' \in Terminal BY <1>3, <2>3 DEF Terminal
    <3> QED BY <3>1 DEF Guarded
  <2>4. CASE phase = "running" /\ next > Len(plan)
    <3>1. next \notin FileSteps(plan) BY <1>0, <2>4
    <3>2. phase' \in Terminal BY <1>3, <2>4, <3>1 DEF Terminal
    <3> QED BY <3>2 DEF Guarded
  <2>5. CASE phase = "running" /\ \E j \in DOMAIN cmds : j >= next /\ cmds[j] = "bootout"
    <3>1. next # Len(plan) + 1 BY <1>0, <2>5
    <3> QED BY <1>3, <1>7, <2>5, <3>1
  <2>6. phase \notin Terminal BY <1>1 DEF Terminal
  <2> QED BY <2>1, <2>2, <2>3, <2>4, <2>5, <2>6 DEF Guarded
<1>11. LoadedIsOnDisk'
  <2> SUFFICES ASSUME ~strayed, NEW d \in Domains, loaded[d] # Absent
               PROVE  loaded[d] = [path |-> loaded[d].path, text |-> text'[loaded[d].path]]
    BY <1>1 DEF LoadedIsOnDisk, Job
  <2>1. loaded[d] = [path |-> loaded[d].path, text |-> text[loaded[d].path]]
    BY DEF LInv, LoadedIsOnDisk, Job
  <2>2. loaded[d].path \in Paths /\ Domain(loaded[d].path) = d BY <1>0 DEF Types, Jobs
  <2>3. CASE text' = text BY <2>1, <2>3
  <2>4. CASE text' # text
    <3>1. d # D BY <1>8, <2>4
    <3>2. loaded[d].path # op.path BY <1>0, <2>2, <3>1
    <3> QED BY <1>6, <2>1, <2>2, <3>2
  <2> QED BY <2>3, <2>4
<1>12. OnPath'
  <2>1. \A i \in FileSteps(plan) : text[op.path] \in {plan[i].before, plan[i].after}
    BY <1>1 DEF LInv, OnPath
  <2>2. \A i \in FileSteps(plan) : text'[op.path] \in {plan[i].before, plan[i].after}
    BY <1>0, <1>2, <2>1 DEF Writes
  <2> QED BY <1>1, <2>2 DEF OnPath
<1>13. Achieved'
  <2>1. CASE /\ phase = "running" /\ phase' = "running" /\ next' = next + 1
             /\ next \in FileSteps(plan) /\ text' = [text EXCEPT ![op.path] = plan[next].after]
    <3>1. cmds[next] = "file" BY <1>0, <2>1 DEF Types, Shaped, FileSteps
    <3>2. \A j \in DOMAIN cmds : j < next + 1 => j < next \/ cmds[j] = "file" BY <1>0, <3>1
    <3>3. ~\E j \in DOMAIN cmds : j < next + 1 /\ cmds[j] = "bootstrap"
      BY <1>0, <2>1, <3>1
    <3>4. ASSUME \E j \in DOMAIN cmds : j < next + 1 /\ cmds[j] = "bootout"
          PROVE  loaded[D] = Absent
      <4>1. \E j \in DOMAIN cmds : j < next /\ cmds[j] = "bootout" BY <3>2, <3>4
      <4>2. ~\E j \in DOMAIN cmds : j < next /\ cmds[j] = "bootstrap" BY <1>0, <2>1
      <4> QED BY <1>5, <2>1, <4>1, <4>2 DEF LInv, Achieved, Passed
    <3>5. \A i \in FileSteps(plan) : text'[op.path] = plan[i].after BY <1>0, <2>1
    <3> QED BY <1>1, <1>4, <2>1, <3>3, <3>4, <3>5 DEF Achieved, Passed
  <2>2. CASE /\ phase = "running" /\ phase' = "ok" /\ next' = next /\ next = Len(plan) + 1
             /\ text' = text
    BY <1>1, <1>4, <1>5, <2>2 DEF LInv, Achieved, Passed, Job
  <2>3. CASE phase' \in {"rollback", "error"} BY <2>3 DEF Achieved
  <2> QED BY <1>3, <2>1, <2>2, <2>3
<1>14. Held'
  <2>1. ASSUME NEW d \in Domains, want[d] = "up"
        PROVE  /\ \E p \in Rows' : Domain(p) = d /\ ~Barred(d, text[p])'
               /\ d = D => phase' \in Terminal
    <3>1. PICK p \in Rows : Domain(p) = d /\ ~Barred(d, text[p]) BY <2>1 DEF LInv, Held
    <3>2. CASE d = D
      <4>1. phase = "running" /\ next > Len(plan)
        BY <1>1, <2>1, <3>2 DEF LInv, Held, Terminal
      <4>2. next \notin FileSteps(plan) BY <1>0, <4>1
      <4>3. phase' = "ok" /\ text' = text BY <1>3, <4>1, <4>2
      <4> QED BY <1>1, <3>1, <4>3 DEF Rows, Barred, Terminal
    <3>3. CASE d # D
      <4>1. p # op.path /\ p \in Paths BY <1>0, <3>1, <3>3 DEF Rows
      <4>2. text'[p] = text[p] BY <1>6, <4>1
      <4> QED BY <1>1, <3>1, <3>3, <4>1, <4>2 DEF Rows, Barred
    <3> QED BY <3>2, <3>3
  <2>2. ASSUME NEW d \in Domains
        PROVE  /\ want[d] = "down" => loaded[d] = Absent /\ override[d] = "disabled"
               /\ want[d] = "down" /\ d = D => ~op.on
    BY DEF LInv, Held
  <2> QED BY <1>1, <1>4, <1>5, <2>1, <2>2 DEF Held
<1> QED BY <1>1, <1>9, <1>10, <1>11, <1>12, <1>13, <1>14 DEF LInv

(* What launchctl may do to the domain of the request, and to no other.    *)
LEMMA EffectFacts ==
  ASSUME LInv, NEW cmd \in Commands \ {"file"}, Effect(cmd) \/ UNCHANGED launchd,
         text' = text
  PROVE  /\ loaded' \in [Domains -> Jobs \cup {Absent}]
         /\ \A d \in Domains : loaded'[d] # Absent => Domain(loaded'[d].path) = d
         /\ override' \in [Domains -> {"none", "enabled", "disabled"}]
         /\ \A d \in Domains : d # D => loaded'[d] = loaded[d] /\ override'[d] = override[d]
         /\ loaded'[D] = loaded[D] \/ loaded'[D] = Absent
              \/ (cmd = "bootstrap" /\ loaded'[D] = Job(op.path))
         /\ cmd # "enable" => override'[D] = override[D] \/ override'[D] = "disabled"
         /\ Effect(cmd) =>
              /\ cmd = "bootout" => loaded'[D] = Absent
              /\ cmd = "bootstrap" => /\ loaded'[D] = Job(op.path) /\ text[op.path] # Absent
                                      /\ ~Barred(D, text[op.path]) /\ override' = override
              /\ cmd = "disable" => override'[D] = "disabled" /\ loaded' = loaded
<1>0. /\ D \in Domains /\ op.path \in Paths /\ D = Domain(op.path) /\ text \in [Paths -> Contents]
      /\ loaded \in [Domains -> Jobs \cup {Absent}]
      /\ \A d \in Domains : loaded[d] # Absent => Domain(loaded[d].path) = d
      /\ override \in [Domains -> {"none", "enabled", "disabled"}]
  BY PlanFacts DEF Types
<1>1. CASE UNCHANGED launchd /\ ~Effect(cmd)
  BY <1>0, <1>1 DEF launchd
<1>2. CASE Effect(cmd)
  <2>1. CASE cmd = "bootout"
    <3>1. loaded' = [loaded EXCEPT ![D] = Absent] /\ override' = override
      BY <1>2, <2>1 DEF Effect
    <3> QED BY <1>0, <2>1, <3>1
  <2>2. CASE cmd = "bootstrap"
    <3>1. /\ loaded' = [loaded EXCEPT ![D] = Job(op.path)] /\ override' = override
          /\ Loadable(op.path)
      BY <1>2, <2>2 DEF Effect
    <3>2. text[op.path] # Absent /\ ~Barred(D, text[op.path])
      BY <1>0, <3>1 DEF Loadable
    <3>3. Job(op.path) \in Jobs /\ Job(op.path).path = op.path
      BY <1>0, <3>2 DEF Job, Jobs, Contents
    <3> QED BY <1>0, <2>2, <3>1, <3>2, <3>3
  <2>3. CASE cmd = "enable"
    <3>1. override' = [override EXCEPT ![D] = "enabled"] /\ loaded' = loaded
      BY <1>2, <2>3 DEF Effect
    <3> QED BY <1>0, <2>3, <3>1
  <2>4. CASE cmd = "disable"
    <3>1. override' = [override EXCEPT ![D] = "disabled"] /\ loaded' = loaded
      BY <1>2, <2>4 DEF Effect
    <3> QED BY <1>0, <2>4, <3>1
  <2>5. CASE cmd = "mkdir"
    <3>1. override' = override /\ loaded' = loaded
      BY <1>2, <2>5 DEF Effect, launchd
    <3> QED BY <1>0, <2>5, <3>1
  <2> QED BY <2>1, <2>2, <2>3, <2>4, <2>5 DEF Commands
<1> QED BY <1>1, <1>2

(* The command the executor is at, and what the shape of the plan says of  *)
(* it.                                                                     *)
LEMMA CommandFacts ==
  ASSUME LInv, AtChange(CommandChange)
  PROVE  /\ phase = "running" /\ ~dry /\ ~booted /\ next <= Len(plan) /\ next \in DOMAIN cmds
         /\ next \notin FileSteps(plan)
         /\ cmds[next] \in Commands \ {"file"}
         /\ cmds[next] = "bootout" => plan[next].onFail = "allow"
         /\ cmds[next] \in {"bootstrap", "disable"} => plan[next].onFail = "error" /\ next = Len(plan)
         /\ cmds[next] \in {"bootstrap", "enable"} => op.on
         /\ cmds[next] = "disable" => ~op.on
         /\ (\E j \in DOMAIN cmds : j >= next /\ cmds[j] = "bootout") => applied = {}
<1>0. /\ TypeOK /\ Types /\ DOMAIN plan = 1 .. Len(plan) /\ DOMAIN cmds = 1 .. Len(plan)
      /\ next \in Nat /\ next >= 1 /\ Len(plan) \in Nat
      /\ FileSteps(plan) \subseteq 1 .. Len(plan)
      /\ \A i \in FileSteps(plan) : \A j \in DOMAIN cmds : cmds[j] = "bootout" => j < i
  BY PlanFacts
<1>1. phase = "running" /\ ~dry /\ next <= Len(plan) /\ plan[next] \in CommandChange
  BY DEF AtChange
<1>2. next \in DOMAIN plan /\ next \in DOMAIN cmds BY <1>0, <1>1
<1>3. next \notin FileSteps(plan)
  BY <1>0, <1>1, <1>2, CommandIsNoFileStep DEF TypeOK
<1>4. /\ cmds[next] \in Commands /\ cmds[next] # "file"
      /\ cmds[next] = "bootout" => plan[next].onFail = "allow"
      /\ cmds[next] \in {"bootstrap", "disable"} => plan[next].onFail = "error" /\ next = Len(plan)
      /\ cmds[next] \in {"bootstrap", "enable"} => op.on
      /\ cmds[next] = "disable" => ~op.on
  BY <1>0, <1>2, <1>3 DEF Types, Shaped
<1>5. ASSUME NEW j \in DOMAIN cmds, j >= next, cmds[j] = "bootout" PROVE applied = {}
  <2>1. \A i \in applied : i \in FileSteps(plan) /\ i < next
    BY <1>0 DEF TypeOK, LInv, IInv, AppliedIsPrefix
  <2>2. \A i \in applied : j < i BY <1>5, <1>0, <2>1
  <2>3. j \in Nat /\ \A i \in applied : i \in Nat BY <1>0, <2>1
  <2> QED BY <1>0, <1>5, <2>1, <2>2, <2>3
<1>6. ~booted BY <1>1, PlanFacts DEF Terminal
<1> QED BY <1>1, <1>2, <1>3, <1>4, <1>5, <1>6

LEMMA CommandStep ==
  ASSUME LInv, RunCommand \/ RunCommandFails
  PROVE  /\ IInv' /\ AtChange(CommandChange)
         /\ UNCHANGED <<plan, dry, text, touched, applied>>
BY IInvStep DEF LInv, Next, Execute, RunCommand, RunCommandFails, history, host

LEMMA ExitFacts ==
  ASSUME LInv, Command
  PROVE  \E exit \in Exits :
           /\ exit = "listed" => cmds[next] = "bootout" /\ loaded[D] = Absent
           /\ IF exit = "zero" THEN Effect(cmds[next]) ELSE UNCHANGED launchd
           /\ IF Tolerates(plan[next].onFail, exit)
              THEN phase' = "running" /\ next' = next + 1
              ELSE phase' = "rollback" /\ next' = next
<1>1. outputs \in Seq(Exits) BY PlanFacts DEF TypeOK
<1>2. AtChange(CommandChange) /\ phase = "running"
  BY DEF Command, RunCommand, AtChange
<1>3. PICK exit \in Exits :
        /\ outputs' = Append(outputs, exit)
        /\ IF Tolerates(plan[next].onFail, exit)
           THEN next' = next + 1 /\ UNCHANGED phase
           ELSE phase' = "rollback" /\ UNCHANGED next
  BY DEF Command, RunCommand
<1>4. outputs'[Len(outputs')] = exit BY <1>1, <1>3
<1> QED BY <1>2, <1>3, <1>4 DEF Command

LEMMA CommandFailsKeepsLInv == LInv /\ CommandFails => LInv'
<1> SUFFICES ASSUME LInv, CommandFails PROVE LInv' OBVIOUS
<1>0. /\ TypeOK /\ Types /\ D \in Domains /\ op.path \in Paths /\ D = Domain(op.path)
      /\ Len(plan) \in Nat /\ DOMAIN cmds = 1 .. Len(plan)
      /\ next \in Nat /\ next >= 1
      /\ FileSteps(plan) \subseteq 1 .. Len(plan)
  BY PlanFacts
<1>1. AtChange(CommandChange) /\ IInv' /\ UNCHANGED <<plan, dry, text, touched, applied>>
  BY CommandStep DEF CommandFails
<1> DEFINE cmd == cmds[next]
<1>2. /\ phase = "running" /\ ~booted /\ next <= Len(plan) /\ next \in DOMAIN cmds
      /\ next \notin FileSteps(plan)
      /\ cmd \in Commands \ {"file"}
      /\ cmd = "bootout" => plan[next].onFail = "allow"
      /\ cmd \in {"bootstrap", "disable"} => plan[next].onFail = "error" /\ next = Len(plan)
      /\ cmd \in {"bootstrap", "enable"} => op.on
      /\ cmd = "disable" => ~op.on
      /\ (\E j \in DOMAIN cmds : j >= next /\ cmds[j] = "bootout") => applied = {}
  BY <1>1, CommandFacts
<1>3. /\ UNCHANGED <<op, cmds, want, asked, booted>>
      /\ phase' = "rollback" /\ next' = next
      /\ Effect(cmd) \/ UNCHANGED launchd
      /\ strayed' \in BOOLEAN /\ (strayed => strayed')
      /\ strayed' \/ cmd # "bootstrap" \/ UNCHANGED launchd
  BY <1>0 DEF CommandFails, RunCommandFails, request, Types
<1> HIDE DEF cmd
<1>4. /\ loaded' \in [Domains -> Jobs \cup {Absent}]
      /\ \A d \in Domains : loaded'[d] # Absent => Domain(loaded'[d].path) = d
      /\ override' \in [Domains -> {"none", "enabled", "disabled"}]
      /\ \A d \in Domains : d # D => loaded'[d] = loaded[d] /\ override'[d] = override[d]
      /\ loaded'[D] = loaded[D] \/ loaded'[D] = Absent
           \/ (cmd = "bootstrap" /\ loaded'[D] = Job(op.path))
      /\ cmd # "enable" => override'[D] = override[D] \/ override'[D] = "disabled"
  BY <1>1, <1>2, <1>3, EffectFacts
<1>5. D' = D BY <1>3 DEF D
<1>6. Types' BY <1>0, <1>1, <1>2, <1>3, <1>4 DEF Types
<1>7. Guarded'
  <2>1. CASE strayed' \/ loaded[D] = Absent \/ FileSteps(plan) = {}
    <3>1. strayed' \/ loaded'[D] = Absent \/ FileSteps(plan) = {}
      BY <1>3, <1>4, <2>1 DEF launchd
    <3> QED BY <1>1, <1>5, <3>1 DEF Guarded
  <2>2. CASE \E j \in DOMAIN cmds : j >= next /\ cmds[j] = "bootout"
    BY <1>1, <1>2, <1>3, <2>2 DEF Guarded
  <2>3. ~(phase \in Terminal) /\ phase # "rollback" /\ ~(next > Len(plan))
    BY <1>0, <1>2 DEF Terminal
  <2> QED BY <1>3, <2>1, <2>2, <2>3 DEF LInv, Guarded
<1>8. LoadedIsOnDisk'
  <2> SUFFICES ASSUME ~strayed, NEW d \in Domains, loaded'[d] # Absent
               PROVE  loaded'[d] = Job(loaded'[d].path)
    BY <1>1, <1>3 DEF LoadedIsOnDisk, Job
  <2>1. loaded[d] # Absent => loaded[d] = Job(loaded[d].path) BY DEF LInv, LoadedIsOnDisk
  <2>2. loaded'[d] = loaded[d] \/ loaded'[d] = Job(op.path) BY <1>4
  <2> QED BY <2>1, <2>2 DEF Job
<1>9. OnPath' BY <1>1, <1>2, <1>3 DEF LInv, OnPath
<1>10. Achieved' BY <1>3 DEF Achieved
<1>11. Held'
  <2>1. ASSUME NEW d \in Domains, want[d] = "down"
        PROVE  /\ loaded'[d] = Absent /\ override'[d] = "disabled"
               /\ d = D => ~op.on
    <3>1. /\ loaded[d] = Absent /\ override[d] = "disabled" /\ (d = D => ~op.on)
      BY <2>1 DEF LInv, Held
    <3> QED BY <1>2, <1>4, <3>1
  <2>2. ASSUME NEW d \in Domains, want[d] = "up"
        PROVE  d # D /\ \E p \in Rows' : Domain(p) = d /\ ~Barred(d, text[p])'
    <3>1. d # D BY <1>0, <1>2, <2>2 DEF LInv, Held, Terminal
    <3>2. PICK p \in Rows : Domain(p) = d /\ ~Barred(d, text[p]) BY <2>2 DEF LInv, Held
    <3> QED BY <1>1, <1>4, <3>1, <3>2 DEF Rows, Barred
  <2> QED BY <1>2, <1>3, <1>5, <2>1, <2>2 DEF Held
<1> QED BY <1>1, <1>6, <1>7, <1>8, <1>9, <1>10, <1>11 DEF LInv

LEMMA CommandKeepsLInv == LInv /\ Command => LInv'
<1> SUFFICES ASSUME LInv, Command PROVE LInv' OBVIOUS
<1>0. /\ TypeOK /\ Types /\ D \in Domains /\ op.path \in Paths /\ D = Domain(op.path)
      /\ Len(plan) \in Nat /\ DOMAIN cmds = 1 .. Len(plan)
      /\ next \in Nat /\ next >= 1
      /\ FileSteps(plan) \subseteq 1 .. Len(plan)
  BY PlanFacts
<1>1. AtChange(CommandChange) /\ IInv' /\ UNCHANGED <<plan, dry, text, touched, applied>>
  BY CommandStep DEF Command
<1> DEFINE cmd == cmds[next]
<1>2. /\ phase = "running" /\ ~booted /\ next <= Len(plan) /\ next \in DOMAIN cmds
      /\ next \notin FileSteps(plan)
      /\ cmd \in Commands \ {"file"}
      /\ cmd = "bootout" => plan[next].onFail = "allow"
      /\ cmd \in {"bootstrap", "disable"} => plan[next].onFail = "error" /\ next = Len(plan)
      /\ cmd \in {"bootstrap", "enable"} => op.on
      /\ cmd = "disable" => ~op.on
      /\ (\E j \in DOMAIN cmds : j >= next /\ cmds[j] = "bootout") => applied = {}
  BY <1>1, CommandFacts
<1>3. PICK exit \in Exits :
        /\ exit = "listed" => cmd = "bootout" /\ loaded[D] = Absent
        /\ IF exit = "zero" THEN Effect(cmd) ELSE UNCHANGED launchd
        /\ IF Tolerates(plan[next].onFail, exit)
           THEN phase' = "running" /\ next' = next + 1
           ELSE phase' = "rollback" /\ next' = next
  BY ExitFacts
<1>4. /\ op' = op /\ cmds' = cmds /\ asked' = asked /\ strayed' = strayed /\ booted' = booted
      /\ want' = IF phase' = "running" /\ next' > Len(plan) /\ (op.on \/ op.verb = "switch")
                 THEN [want EXCEPT ![D] = IF op.on THEN "up" ELSE "down"] ELSE want
  BY DEF Command
<1> HIDE DEF cmd
<1>5. /\ loaded' \in [Domains -> Jobs \cup {Absent}]
      /\ \A d \in Domains : loaded'[d] # Absent => Domain(loaded'[d].path) = d
      /\ override' \in [Domains -> {"none", "enabled", "disabled"}]
      /\ \A d \in Domains : d # D => loaded'[d] = loaded[d] /\ override'[d] = override[d]
      /\ loaded'[D] = loaded[D] \/ loaded'[D] = Absent
           \/ (cmd = "bootstrap" /\ loaded'[D] = Job(op.path))
      /\ cmd # "enable" => override'[D] = override[D] \/ override'[D] = "disabled"
      /\ Effect(cmd) =>
           /\ cmd = "bootout" => loaded'[D] = Absent
           /\ cmd = "bootstrap" => /\ loaded'[D] = Job(op.path) /\ text[op.path] # Absent
                                   /\ ~Barred(D, text[op.path]) /\ override' = override
           /\ cmd = "disable" => override'[D] = "disabled" /\ loaded' = loaded
  BY <1>1, <1>2, <1>3, EffectFacts
<1>6. D' = D BY <1>4 DEF D
(* What an exit lets through.                                              *)
<1>7. /\ exit = "zero" => Tolerates(plan[next].onFail, exit)
      /\ exit # "zero" => loaded' = loaded /\ override' = override
      /\ cmd \in {"bootstrap", "disable"} /\ Tolerates(plan[next].onFail, exit) => Effect(cmd)
      /\ cmd = "bootout" /\ Tolerates(plan[next].onFail, exit) => loaded'[D] = Absent
  <2>1. exit \in {"zero", "listed", "other"} BY DEF Exits
  <2> QED BY <1>2, <1>3, <1>5, <2>1 DEF Tolerates, launchd
<1>8. want' \in [Domains -> {"none", "up", "down"}]
  BY <1>0, <1>4 DEF Types
<1>9. Types' BY <1>0, <1>1, <1>2, <1>4, <1>5, <1>8 DEF Types
<1>10. Guarded'
  <2>1. CASE strayed \/ loaded[D] = Absent \/ FileSteps(plan) = {}
    <3>1. CASE cmd = "bootstrap" /\ exit = "zero"
      <4>1. phase' = "running" /\ next' > Len(plan) BY <1>0, <1>2, <1>3, <1>7, <3>1
      <4> QED BY <1>1, <4>1 DEF Guarded
    <3>2. CASE ~(cmd = "bootstrap" /\ exit = "zero")
      <4>1. strayed' \/ loaded'[D] = Absent \/ FileSteps(plan) = {}
        BY <1>4, <1>5, <1>7, <2>1, <3>2
      <4> QED BY <1>1, <1>6, <4>1 DEF Guarded
    <3> QED BY <3>1, <3>2
  <2>2. ASSUME NEW j \in DOMAIN cmds, j >= next, cmds[j] = "bootout"
        PROVE  Guarded'
    <3>1. CASE ~Tolerates(plan[next].onFail, exit)
      <4>1. phase' = "rollback" /\ applied' = {} BY <1>1, <1>2, <1>3, <2>2, <3>1
      <4> QED BY <4>1 DEF Guarded
    <3>2. CASE Tolerates(plan[next].onFail, exit) /\ j = next
      <4>1. loaded'[D] = Absent BY <1>7, <2>2, <3>2 DEF cmd
      <4> QED BY <1>6, <4>1 DEF Guarded
    <3>3. CASE Tolerates(plan[next].onFail, exit) /\ j # next
      <4>1. phase' = "running" /\ j >= next' BY <1>0, <1>3, <2>2, <3>3
      <4> QED BY <1>4, <2>2, <4>1 DEF Guarded
    <3> QED BY <3>1, <3>2, <3>3
  <2>3. ~(phase \in Terminal) /\ phase # "rollback" /\ ~(next > Len(plan))
    BY <1>0, <1>2 DEF Terminal
  <2> QED BY <2>1, <2>2, <2>3 DEF LInv, Guarded
<1>11. LoadedIsOnDisk'
  <2> SUFFICES ASSUME ~strayed, NEW d \in Domains, loaded'[d] # Absent
               PROVE  loaded'[d] = Job(loaded'[d].path)
    BY <1>1, <1>4 DEF LoadedIsOnDisk, Job
  <2>1. loaded[d] # Absent => loaded[d] = Job(loaded[d].path) BY DEF LInv, LoadedIsOnDisk
  <2>2. loaded'[d] = loaded[d] \/ loaded'[d] = Job(op.path) BY <1>5
  <2> QED BY <2>1, <2>2 DEF Job
<1>12. OnPath' BY <1>1, <1>2, <1>4 DEF LInv, OnPath
<1>13. Achieved'
  <2> SUFFICES ASSUME phase' \in {"running", "ok"} PROVE Achieved' BY DEF Achieved
  <2>1. Tolerates(plan[next].onFail, exit) /\ phase' = "running" /\ next' = next + 1 BY <1>3
  <2>2. \A j \in DOMAIN cmds : j < next + 1 => j < next \/ j = next BY <1>0
  <2>3. ASSUME \E j \in DOMAIN cmds : j < next + 1 /\ cmds[j] = "bootout",
               ~\E j \in DOMAIN cmds : j < next + 1 /\ cmds[j] = "bootstrap"
        PROVE  loaded'[D] = Absent
    <3>1. cmd # "bootstrap" BY <1>0, <1>2, <2>3 DEF cmd
    <3>2. CASE cmd = "bootout" BY <1>7, <2>1, <3>2
    <3>3. CASE cmd # "bootout"
      <4>1. Passed("bootout") BY <2>2, <2>3, <3>3 DEF Passed, cmd
      <4>2. ~Passed("bootstrap")
        <5>1. \A j \in DOMAIN cmds : j < next => j < next + 1 BY <1>0
        <5> QED BY <2>3, <5>1 DEF Passed
      <4>3. loaded[D] = Absent BY <1>2, <4>1, <4>2 DEF LInv, Achieved
      <4> QED BY <1>5, <3>1, <4>3
    <3> QED BY <3>2, <3>3
  <2>4. ASSUME NEW j \in DOMAIN cmds, j < next + 1, cmds[j] = "bootstrap"
        PROVE  loaded'[D] = Job(op.path)
    <3>1. j = Len(plan) BY <1>0, <2>4 DEF Types, Shaped
    <3>2. j = next BY <1>0, <1>2, <2>4, <3>1
    <3>3. cmd = "bootstrap" BY <2>4, <3>2 DEF cmd
    <3> QED BY <1>5, <1>7, <2>1, <3>3
  <2>5. ASSUME NEW i \in FileSteps(plan), i < next + 1 PROVE text[op.path] = plan[i].after
    <3>1. i < next BY <1>0, <1>2, <2>5
    <3> QED BY <1>2, <3>1 DEF LInv, Achieved
  <2> QED BY <1>1, <1>4, <1>6, <2>1, <2>3, <2>4, <2>5 DEF Achieved, Passed, Job
<1>14. Held'
  <2> DEFINE settled == phase' = "running" /\ next' > Len(plan) /\ (op.on \/ op.verb = "switch")
  <2>1. ASSUME settled
        PROVE  /\ Tolerates(plan[next].onFail, exit) /\ next = Len(plan)
               /\ op.on => /\ text[op.path] # Absent /\ ~Barred(D, text[op.path])
                           /\ override' = override /\ phase' = "running" /\ next' > Len(plan)
               /\ ~op.on => loaded'[D] = Absent /\ override'[D] = "disabled"
    <3>1. Tolerates(plan[next].onFail, exit) /\ next = Len(plan) BY <1>0, <1>2, <1>3, <2>1
    <3>2. CASE op.on
      <4>1. cmd = "bootstrap" BY <1>0, <3>1, <3>2 DEF Types, Shaped, cmd
      <4> QED BY <1>5, <1>7, <2>1, <3>1, <3>2, <4>1
    <3>3. CASE ~op.on
      <4>1. op.verb = "switch" BY <2>1, <3>3
      <4>2. cmd = "disable" /\ Has(cmds, "bootout")
        BY <1>0, <3>1, <3>3, <4>1 DEF Types, Shaped, cmd
      <4>3. PICK j \in DOMAIN cmds : cmds[j] = "bootout" BY <4>2 DEF Has
      <4>4. j < next BY <1>0, <3>1, <4>2, <4>3 DEF cmd
      <4>5. Passed("bootout") BY <4>3, <4>4 DEF Passed
      <4>6. ~Passed("bootstrap") BY <1>0, <3>3 DEF Types, Shaped, Passed
      <4>7. loaded[D] = Absent BY <1>2, <4>5, <4>6 DEF LInv, Achieved
      <4> QED BY <1>5, <1>7, <3>1, <3>3, <4>2, <4>7
    <3> QED BY <3>2, <3>3
  <2>2. \A d \in Domains : want'[d] = IF settled /\ d = D
                                      THEN IF op.on THEN "up" ELSE "down" ELSE want[d]
    BY <1>0, <1>4 DEF Types
  <2> HIDE DEF settled
  <2>3. ASSUME NEW d \in Domains, want'[d] = "down"
        PROVE  /\ loaded'[d] = Absent /\ override'[d] = "disabled"
               /\ d = D => ~op.on
    <3>1. CASE settled /\ d = D BY <2>1, <2>2, <2>3, <3>1
    <3>2. CASE ~(settled /\ d = D)
      <4>1. want[d] = "down" BY <2>2, <2>3, <3>2
      <4>2. /\ loaded[d] = Absent /\ override[d] = "disabled" /\ (d = D => ~op.on)
        BY <4>1 DEF LInv, Held
      <4> QED BY <1>2, <1>5, <4>2
    <3> QED BY <3>1, <3>2
  <2>4. ASSUME NEW d \in Domains, want'[d] = "up"
        PROVE  /\ \E p \in Rows' : Domain(p) = d /\ ~Barred(d, text[p])'
               /\ d = D => phase' = "running" /\ next' > Len(plan)
    <3>1. CASE settled /\ d = D
      <4>1. op.on BY <2>2, <2>4, <3>1
      <4>2. /\ text[op.path] # Absent /\ ~Barred(D, text[op.path])
            /\ override' = override /\ phase' = "running" /\ next' > Len(plan)
        BY <2>1, <3>1, <4>1
      <4>3. op.path \in Rows' /\ Domain(op.path) = d BY <1>0, <1>1, <3>1, <4>2 DEF Rows
      <4>4. ~(override'[d] = "disabled" \/ (override'[d] = "none" /\ text'[op.path].off))
        BY <1>1, <3>1, <4>2 DEF Barred
      <4> QED BY <4>2, <4>3, <4>4 DEF Barred
    <3>2. CASE ~(settled /\ d = D)
      <4>1. want[d] = "up" BY <2>2, <2>4, <3>2
      <4>2. d # D BY <1>0, <1>2, <4>1 DEF LInv, Held, Terminal
      <4>3. PICK p \in Rows : Domain(p) = d /\ ~Barred(d, text[p]) BY <4>1 DEF LInv, Held
      <4> QED BY <1>1, <1>5, <4>2, <4>3 DEF Rows, Barred
    <3> QED BY <3>1, <3>2
  <2> QED BY <1>1, <1>2, <1>4, <1>6, <2>3, <2>4 DEF Held
<1> QED BY <1>1, <1>9, <1>10, <1>11, <1>12, <1>13, <1>14 DEF LInv

LEMMA KilledKeepsLInv == LInv /\ Killed => LInv'
<1> SUFFICES ASSUME LInv, Killed PROVE LInv' OBVIOUS
<1>1. /\ UNCHANGED <<plan, dry, text, touched, op, cmds, want, asked, loaded, override,
                     strayed, booted>>
      /\ phase' = "killed" /\ phase \in {"running", "rollback"}
  BY DEF Killed, Kill, request, launchd, host, history
<1>2. IInv' BY IInvStep DEF LInv, Killed, Next
<1>3. Types' BY <1>1 DEF LInv, Types, Terminal
<1>4. Guarded' /\ OnPath' /\ Achieved' BY <1>1 DEF Guarded, OnPath, Achieved, Terminal
<1>5. LoadedIsOnDisk' BY <1>1 DEF LInv, LoadedIsOnDisk, Job
<1>6. Held'
  <2>1. ASSUME NEW d \in Domains, want[d] = "up"
        PROVE  \E p \in Rows' : Domain(p) = d /\ ~Barred(d, text[p])'
    <3>1. PICK p \in Rows : Domain(p) = d /\ ~Barred(d, text[p]) BY <2>1 DEF LInv, Held
    <3> QED BY <1>1, <3>1 DEF Rows, Barred
  <2>2. D' = D BY <1>1 DEF D
  <2> QED BY <1>1, <2>1, <2>2 DEF LInv, Held, Terminal
<1> QED BY <1>2, <1>3, <1>4, <1>5, <1>6 DEF LInv

LEMMA LoginKeepsLInv == LInv /\ Login => LInv'
<1> SUFFICES ASSUME LInv, Login PROVE LInv' OBVIOUS
<1>0. Types /\ TypeOK /\ text \in [Paths -> Contents] BY PlanFacts
<1>1. /\ UNCHANGED <<vars, op, cmds, want, asked, override, strayed>>
      /\ UNCHANGED <<plan, dry, text, touched, phase, next, applied>>
      /\ booted' = TRUE /\ phase \in Terminal
      /\ loaded' \in [Domains -> {Job(p) : p \in Rows} \cup {Absent}]
  BY DEF Login, request, vars, host, history, Terminal
<1>2. ASSUME NEW d \in Domains
      PROVE  /\ loaded'[d] \in Jobs \cup {Absent}
             /\ loaded'[d] # Absent =>
                  Domain(loaded'[d].path) = d /\ loaded'[d] = Job(loaded'[d].path)
             /\ override[d] = "disabled" => loaded'[d] = Absent
             /\ (\E p \in Rows : Domain(p) = d /\ ~Barred(d, text[p])) => loaded'[d] # Absent
  <2> DEFINE found == {p \in Rows : Domain(p) = d /\ ~Barred(d, text[p])}
  <2>1. IF found = {} THEN loaded'[d] = Absent ELSE loaded'[d] \in {Job(p) : p \in found}
    BY DEF Login
  <2>2. ASSUME NEW p \in found
        PROVE Job(p) \in Jobs /\ Job(p) # Absent /\ Job(p).path = p /\ Domain(p) = d
    <3>1. text[p] \in Texts /\ p \in Paths BY <1>0 DEF Rows, Contents
    <3>2. Job(p) \in Jobs BY <3>1 DEF Job, Jobs
    <3> QED BY <3>2, LaunchdAssumption DEF Jobs, Job
  <2>3. override[d] = "disabled" => found = {} BY DEF Barred
  <2>4. (\E p \in Rows : Domain(p) = d /\ ~Barred(d, text[p])) => found # {} OBVIOUS
  <2> HIDE DEF found
  <2>5. CASE found = {} BY <2>1, <2>4, <2>5
  <2>6. CASE found # {}
    <3>1. PICK p \in found : loaded'[d] = Job(p) BY <2>1, <2>6
    <3> QED BY <2>2, <2>3, <2>6, <3>1
  <2> QED BY <2>5, <2>6
<1>3. loaded' \in [Domains -> Jobs \cup {Absent}] BY <1>1, <1>2
<1>4. IInv' BY <1>1, IInvStep DEF LInv
<1>5. Types' BY <1>0, <1>1, <1>2, <1>3 DEF Types
<1>6. Guarded' /\ OnPath' /\ Achieved' BY <1>1 DEF Guarded, OnPath, Achieved, Terminal
<1>7. LoadedIsOnDisk' BY <1>1, <1>2 DEF LoadedIsOnDisk, Job
<1>8. Held'
  <2>1. ASSUME NEW d \in Domains, want[d] = "up"
        PROVE  loaded'[d] # Absent /\ \E p \in Rows' : Domain(p) = d /\ ~Barred(d, text[p])'
    <3>1. PICK p \in Rows : Domain(p) = d /\ ~Barred(d, text[p]) BY <2>1 DEF LInv, Held
    <3>2. p \in Rows' /\ ~Barred(d, text[p])' BY <1>1, <3>1 DEF Rows, Barred
    <3> QED BY <1>2, <3>1, <3>2
  <2>2. ASSUME NEW d \in Domains, want[d] = "down"
        PROVE  loaded'[d] = Absent /\ override[d] = "disabled" /\ (d = D => ~op.on)
    BY <1>2, <2>2 DEF LInv, Held
  <2>3. D' = D BY <1>1 DEF D
  <2> QED BY <1>1, <2>1, <2>2, <2>3 DEF Held
<1> QED BY <1>4, <1>5, <1>6, <1>7, <1>8 DEF LInv

LEMMA StutterKeepsLInv == LInv /\ UNCHANGED lvars => LInv'
<1> SUFFICES ASSUME LInv, UNCHANGED lvars PROVE LInv' OBVIOUS
<1>1. /\ UNCHANGED vars
      /\ UNCHANGED <<plan, dry, text, touched, phase, next, applied>>
      /\ UNCHANGED <<op, cmds, want, asked, loaded, override, strayed, booted>>
  BY DEF lvars, request, launchd, vars, host, history
<1>2. IInv' BY <1>1, IInvStep DEF LInv
<1>3. D' = D BY <1>1 DEF D
<1>4. Types' BY <1>1 DEF LInv, Types
<1>5. Guarded' BY <1>1, <1>3 DEF LInv, Guarded
<1>6. OnPath' BY <1>1 DEF LInv, OnPath
<1>7. Achieved' BY <1>1, <1>3 DEF LInv, Achieved, Passed, Job
<1>8. LoadedIsOnDisk' BY <1>1 DEF LInv, LoadedIsOnDisk, Job
<1>9. Held' BY <1>1, <1>3 DEF LInv, Held, Rows, Barred
<1> QED BY <1>2, <1>4, <1>5, <1>6, <1>7, <1>8, <1>9 DEF LInv

LEMMA InitLInv == LInit => LInv
<1> SUFFICES ASSUME LInit PROVE LInv OBVIOUS
<1>1. /\ IInv /\ plan = <<>> /\ cmds = <<>> /\ ~dry /\ touched = {} /\ phase = "running"
      /\ text \in [Paths -> Contents]
      /\ op = [verb |-> "create", on |-> FALSE, path |-> agent]
      /\ loaded \in [Domains -> {Job(p) : p \in Rows} \cup {Absent}]
      /\ \A d \in Domains : loaded[d] # Absent => Domain(loaded[d].path) = d
      /\ override \in [Domains -> {"none", "enabled", "disabled"}]
      /\ want = [d \in Domains |-> "none"]
      /\ strayed = FALSE /\ booted = FALSE /\ asked = 0
  BY InitIInv DEF LInit, Init
<1>2. DOMAIN plan = {} /\ DOMAIN cmds = {} /\ FileSteps(plan) = {} BY <1>1 DEF FileSteps
<1>3. op \in Ops /\ op.verb = "create" /\ ~op.on BY <1>1, LaunchdAssumption DEF Ops
<1>4. Shaped(op, cmds, plan) BY <1>2, <1>3 DEF Shaped
<1>5. \A p \in Rows : Job(p) \in Jobs /\ Job(p) = Job(Job(p).path)
  BY <1>1 DEF Rows, Job, Jobs, Contents
<1>6. loaded \in [Domains -> Jobs \cup {Absent}] BY <1>1, <1>5
<1>7. want \in [Domains -> {"none", "up", "down"}] /\ \A d \in Domains : want[d] = "none"
  BY <1>1
<1>8. Types BY <1>1, <1>3, <1>4, <1>6, <1>7 DEF Types
<1>9. Guarded /\ OnPath BY <1>2 DEF Guarded, OnPath
<1>10. LoadedIsOnDisk
  <2> SUFFICES ASSUME NEW d \in Domains, loaded[d] # Absent PROVE loaded[d] = Job(loaded[d].path)
    BY DEF LoadedIsOnDisk
  <2>1. \E p \in Rows : loaded[d] = Job(p) BY <1>1
  <2> QED BY <1>5, <2>1
<1>11. Achieved BY <1>1, <1>2 DEF Achieved, Passed
<1>12. Held BY <1>7 DEF Held
<1> QED BY <1>1, <1>8, <1>9, <1>10, <1>11, <1>12 DEF LInv

LEMMA LaunchdInvariant == LSpec => []LInv
<1>1. LInv /\ [LNext]_lvars => LInv'
  BY RequestKeepsLInv, CommandKeepsLInv, CommandFailsKeepsLInv, FileWorkKeepsLInv,
     KilledKeepsLInv, LoginKeepsLInv, StutterKeepsLInv
  DEF LNext, Over
<1> QED BY <1>1, InitLInv, PTL DEF LSpec

-----------------------------------------------------------------------------
(* Whatever fails and whenever the program is killed, what launchd runs is *)
(* what the plist it was loaded from says, but for the two ways `strayed`  *)
(* records.                                                                *)
THEOREM LoadedIsOnDiskHolds == LSpec => []LoadedIsOnDisk
BY LaunchdInvariant, PTL DEF LInv

(* What was put down stays down over logins, failures and edits, and what  *)
(* was put on comes back.                                                  *)
THEOREM StaysAsAskedHolds == LSpec => []StaysAsAsked
<1>1. LInv => StaysAsAsked BY DEF LInv, Held, StaysAsAsked
<1> QED BY <1>1, LaunchdInvariant, PTL

(* A success is in effect: no exit that the plan lets through leaves the   *)
(* job as it was.                                                          *)
THEOREM SuccessIsInEffectHolds == LSpec => []SuccessIsInEffect
<1>1. LInv => SuccessIsInEffect
  <2> SUFFICES ASSUME LInv, phase = "ok", asked > 0, ~booted
               PROVE  /\ op.on => loaded[D] = Job(op.path)
                      /\ ~op.on /\ op.verb # "create" => loaded[D] = Absent
                      /\ op.verb = "delete" => text[op.path] = Absent
    BY DEF SuccessIsInEffect
  <2>1. /\ Shaped(op, cmds, plan) /\ Len(plan) \in Nat /\ DOMAIN cmds = 1 .. Len(plan)
        /\ FileSteps(plan) \subseteq 1 .. Len(plan)
    BY PlanFacts DEF Types
  <2>2. /\ next = Len(plan) + 1
        /\ Passed("bootout") /\ ~Passed("bootstrap") => loaded[D] = Absent
        /\ Passed("bootstrap") => loaded[D] = Job(op.path)
        /\ \A i \in FileSteps(plan) : i < next => text[op.path] = plan[i].after
    BY DEF LInv, Achieved
  <2>3. \A i \in 1 .. Len(plan) : i < next BY <2>1, <2>2
  <2>4. ASSUME op.on PROVE loaded[D] = Job(op.path)
    <3>1. Len(plan) \in 1 .. Len(plan) /\ cmds[Len(plan)] = "bootstrap"
      BY <2>1, <2>4 DEF Shaped
    <3> QED BY <2>1, <2>2, <2>3, <3>1 DEF Passed
  <2>5. ASSUME ~op.on, op.verb # "create" PROVE loaded[D] = Absent
    <3>1. Passed("bootout") BY <2>1, <2>3, <2>5 DEF Shaped, Has, Passed
    <3>2. ~Passed("bootstrap") BY <2>1, <2>5 DEF Shaped, Passed
    <3> QED BY <2>2, <3>1, <3>2
  <2>6. ASSUME op.verb = "delete" PROVE text[op.path] = Absent
    <3>1. PICK i \in FileSteps(plan) : plan[i].after = Absent BY <2>1, <2>6 DEF Shaped
    <3> QED BY <2>1, <2>2, <2>3, <3>1
  <2> QED BY <2>4, <2>5, <2>6
<1> QED BY <1>1, LaunchdInvariant, PTL

(* A plist of somebody else's stays theirs until it is deleted on request, *)
(* over every failure and rollback.                                        *)
THEOREM TheirsStayTheirsHolds == LSpec => TheirsStayTheirs
<1> DEFINE A == \A p \in Paths : text[p] # Absent /\ text'[p] # text[p] /\ ~text[p].mine =>
                  IF text'[p] = Absent THEN op.verb = "delete" /\ op.path = p
                  ELSE ~text'[p].mine /\ text'[p].off = text[p].off
<1>1. LInv /\ [LNext]_lvars => [A]_text
  <2> SUFFICES ASSUME LInv, [LNext]_lvars, text' # text,
                      NEW p \in Paths, text[p] # Absent, text'[p] # text[p], ~text[p].mine
               PROVE  IF text'[p] = Absent THEN op.verb = "delete" /\ op.path = p
                      ELSE ~text'[p].mine /\ text'[p].off = text[p].off
    OBVIOUS
  <2>1. FileWork
    <3>1. Request => text' = text
      <4>1. Types /\ text \in [Paths -> Contents] BY PlanFacts
      <4> QED BY <4>1, RequestFacts DEF Ask, host
    <3>2. Command \/ CommandFails => text' = text BY CommandStep DEF Command, CommandFails
    <3>3. Killed \/ Login \/ Over \/ UNCHANGED lvars => text' = text
      BY DEF Killed, Kill, Login, Over, lvars, vars, host
    <3> QED BY <3>1, <3>2, <3>3 DEF LNext
  <2>2. PICK i \in FileSteps(plan) : Writes(i) BY <2>1, FileWorkFacts
  <2>3. /\ text \in [Paths -> Contents] /\ op.path \in Paths
        /\ KeepsTheirs(op, plan[i].before, plan[i].after)
    BY PlanFacts DEF Types, Shaped
  <2>4. p = op.path /\ (text'[p] = plan[i].after \/ text'[p] = plan[i].before)
    BY <2>2, <2>3 DEF Writes
  <2>5. text[p] \in {plan[i].before, plan[i].after}
    BY <2>1, <2>4, FileWorkFacts DEF LInv, OnPath
  <2>6. Theirs(text[p]) BY DEF Theirs
  <2> QED BY <2>3, <2>4, <2>5, <2>6 DEF KeepsTheirs, Theirs
<1> QED BY <1>1, LaunchdInvariant, PTL DEF LSpec, TheirsStayTheirs
=============================================================================
