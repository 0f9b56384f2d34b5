------------------------- MODULE SystemdWriter_proofs -------------------------
(***************************************************************************)
(* That the systemd writer leaves a service of the operator alone, and     *)
(* that what it reports as done is in effect.  The writer hands its plans  *)
(* to the executor, so what is proved of the executor in                   *)
(* PlanExecutor_proofs holds of every step of the writer but the one the   *)
(* executor knows nothing of: the files that are removed again after a     *)
(* creation that did not load.                                             *)
(***************************************************************************)
EXTENDS SystemdWriter, PlanExecutor_proofs, SequenceTheorems

Commands == {"mkdir", "check", "reload", "enable", "disable", "stop", "try-restart",
             "reset-failed", "file"}
Step == [cmd: Commands, change: Change]

RunOf(c, f) == [cmd |-> c, change |-> [kind |-> "command", onFail |-> f]]
FileOf(p, t, after) ==
  [cmd |-> "file", change |-> [kind |-> "file", path |-> p, before |-> t[p],
                               after |-> after, mode |-> DefaultMode]]

-----------------------------------------------------------------------------
(* What the plans have in common.  After: d may come somewhere after c.    *)
(* Nothing is written behind a reload, no timer is stopped behind an       *)
(* enable nor enabled behind a stop, nothing is written or loaded behind   *)
(* an enable, and the restart is the last command.                         *)
After(o, c, d) ==
  /\ c # "try-restart"
  /\ c = "reload" => d # "file"
  /\ c = "enable" => /\ d \notin {"disable", "stop", "reload", "file"}
                     /\ (o.verb # "update" => d # "try-restart")
  /\ c \in {"disable", "stop"} => d # "enable"
  /\ o.verb = "delete" => d \notin {"disable", "enable", "try-restart"}

(* A step of a plan for o, made from the files t.                          *)
Fitting(o, t, s) ==
  /\ s \in Step
  /\ s.cmd = "file" <=> s.change \in FileChange
  /\ s.cmd = "try-restart" => o.verb = "update"
  /\ s.cmd = "enable" => o.on
  /\ o.verb = "create" => s.cmd \notin {"disable", "stop"}
  /\ o.verb = "switch" => s.cmd \notin {"file", "reload"}
  /\ s.cmd \in {"reload", "enable", "stop"} \/ (s.cmd = "disable" /\ o.verb # "delete") =>
       s.change.onFail = "error"
  /\ s.cmd = "file" =>
       /\ s.change.after = (IF o.verb = "delete" THEN Absent ELSE new)
       /\ s.change.before = t[s.change.path]
       /\ o.verb # "create" /\ s.change.path = service => Marked(t[service])

(* The steps no plan for o may lack.                                       *)
Writes(P, p) == \E s \in P : s.cmd = "file" /\ s.change.path = p
Runs(P, c) == \E s \in P : s.cmd = c
Complete(o, t, state, P) ==
  /\ o.verb # "switch" => Runs(P, "reload") /\ Writes(P, timer)
  /\ o.verb = "create" => Writes(P, service)
  /\ o.verb \in {"update", "delete"} /\ Marked(t[service]) => Writes(P, service)
  /\ o.on /\ o.verb # "delete" => Runs(P, "enable")
  /\ ~o.on /\ o.verb = "update" => Runs(P, "disable")
  /\ ~o.on /\ o.verb = "switch" => Runs(P, "disable") \/ Runs(P, "stop")
  /\ Runs(P, "stop") => state = "static" /\ \A s \in P : s.cmd = "stop"
  /\ o.verb = "update" => Runs(P, "try-restart")
  /\ o.verb = "delete" => Runs(P, "disable")

(* The steps of s are those in P, in an order that After allows.           *)
LaidOut(o, s, P) ==
  /\ s \in Seq(Step)
  /\ P = {s[i] : i \in DOMAIN s}
  /\ \A i, j \in DOMAIN s : i < j => After(o, s[i].cmd, s[j].cmd)

LEMMA RunOfType ==
  ASSUME NEW c \in Commands \ {"file"}, NEW f \in Policies
  PROVE  /\ RunOf(c, f) \in Step /\ RunOf(c, f).cmd = c /\ RunOf(c, f).change.onFail = f
         /\ RunOf(c, f).change \notin FileChange
BY DEF RunOf, Step, Change, CommandChange, FileChange

LEMMA FileOfType ==
  ASSUME NEW t \in [Paths -> Contents], NEW p \in Paths, NEW after \in Contents
  PROVE  /\ FileOf(p, t, after) \in Step /\ FileOf(p, t, after).cmd = "file"
         /\ FileOf(p, t, after).change \in FileChange
         /\ FileOf(p, t, after).change.path = p
         /\ FileOf(p, t, after).change.before = t[p]
         /\ FileOf(p, t, after).change.after = after
BY HostAssumption DEF FileOf, Step, Commands, Change, FileChange

LEMMA OneStep ==
  ASSUME NEW o, NEW s \in Step
  PROVE  LaidOut(o, <<s>>, {s})
<1>1. <<s>> \in Seq(Step) /\ DOMAIN <<s>> = 1 .. 1 /\ <<s>>[1] = s OBVIOUS
<1>2. \A i \in 1 .. 1 : i = 1 OBVIOUS
<1>3. {<<s>>[i] : i \in DOMAIN <<s>>} = {s} BY <1>1, <1>2
<1>4. \A i, j \in DOMAIN <<s>> : ~(i < j) BY <1>1, <1>2
<1> QED BY <1>1, <1>3, <1>4 DEF LaidOut

LEMMA NoStep ==
  ASSUME NEW o
  PROVE  LaidOut(o, <<>>, {})
BY DEF LaidOut

LEMMA Joined ==
  ASSUME NEW o, NEW a, NEW b, NEW P, NEW Q, LaidOut(o, a, P), LaidOut(o, b, Q),
         \A x \in P, y \in Q : After(o, x.cmd, y.cmd)
  PROVE  LaidOut(o, a \o b, P \cup Q)
<1>0. /\ a \in Seq(Step) /\ b \in Seq(Step)
      /\ P = {a[i] : i \in DOMAIN a} /\ Q = {b[i] : i \in DOMAIN b}
  BY DEF LaidOut
<1>1. /\ a \o b \in Seq(Step) /\ Len(a \o b) = Len(a) + Len(b)
      /\ \A i \in 1 .. Len(a) + Len(b) : (a \o b)[i] = IF i <= Len(a) THEN a[i] ELSE b[i - Len(a)]
  BY <1>0, ConcatProperties
<1>2. /\ Len(a) \in Nat /\ DOMAIN a = 1 .. Len(a) /\ Len(b) \in Nat /\ DOMAIN b = 1 .. Len(b)
      /\ DOMAIN (a \o b) = 1 .. Len(a) + Len(b)
  BY <1>0, <1>1
<1>3. ASSUME NEW i \in DOMAIN (a \o b)
      PROVE  \/ i \in DOMAIN a /\ (a \o b)[i] = a[i]
             \/ /\ i - Len(a) \in DOMAIN b /\ (a \o b)[i] = b[i - Len(a)]
                /\ i > Len(a)
  BY <1>1, <1>2
<1>4. \A i \in DOMAIN a : i \in DOMAIN (a \o b) /\ (a \o b)[i] = a[i]
  BY <1>1, <1>2
<1>5. \A i \in DOMAIN b : Len(a) + i \in DOMAIN (a \o b) /\ (a \o b)[Len(a) + i] = b[i]
  <2>1. \A i \in DOMAIN b : /\ Len(a) + i \in 1 .. Len(a) + Len(b) /\ ~(Len(a) + i <= Len(a))
                            /\ Len(a) + i - Len(a) = i
    BY <1>2
  <2> QED BY <1>1, <1>2, <2>1
<1>6. P \cup Q = {(a \o b)[i] : i \in DOMAIN (a \o b)}
  <2>1. ASSUME NEW i \in DOMAIN (a \o b) PROVE (a \o b)[i] \in P \cup Q
    BY <1>0, <1>3
  <2>2. ASSUME NEW x \in P PROVE \E i \in DOMAIN (a \o b) : x = (a \o b)[i]
    <3>1. PICK i \in DOMAIN a : x = a[i] BY <1>0
    <3> QED BY <1>4, <3>1
  <2>3. ASSUME NEW x \in Q PROVE \E i \in DOMAIN (a \o b) : x = (a \o b)[i]
    <3>1. PICK i \in DOMAIN b : x = b[i] BY <1>0
    <3> QED BY <1>5, <3>1
  <2> QED BY <2>1, <2>2, <2>3
<1>7. ASSUME NEW i \in DOMAIN (a \o b), NEW j \in DOMAIN (a \o b), i < j
      PROVE  After(o, (a \o b)[i].cmd, (a \o b)[j].cmd)
  <2>0. i \in Nat /\ j \in Nat BY <1>2
  <2>1. CASE j \in DOMAIN a /\ (a \o b)[j] = a[j]
    <3>1. i \in DOMAIN a BY <1>2, <1>7, <2>0, <2>1
    <3> QED BY <1>4, <1>7, <2>1, <3>1 DEF LaidOut
  <2>2. CASE j - Len(a) \in DOMAIN b /\ (a \o b)[j] = b[j - Len(a)]
    <3>1. CASE i \in DOMAIN a /\ (a \o b)[i] = a[i]
      <4>1. a[i] \in P /\ b[j - Len(a)] \in Q BY <1>0, <2>2, <3>1
      <4> QED BY <2>2, <3>1, <4>1
    <3>2. CASE i - Len(a) \in DOMAIN b /\ (a \o b)[i] = b[i - Len(a)]
      <4>1. i - Len(a) < j - Len(a) BY <1>2, <1>7, <2>0
      <4> QED BY <2>2, <3>2, <4>1 DEF LaidOut
    <3> QED BY <1>3, <3>1, <3>2
  <2> QED BY <1>3, <2>1, <2>2
<1> QED BY <1>1, <1>6, <1>7 DEF LaidOut

-----------------------------------------------------------------------------
(* The plans, one by one.                                                  *)
Sound(o, t, state, s) ==
  \E P : /\ LaidOut(o, s, P)
         /\ \A x \in P : Fitting(o, t, x)
         /\ Complete(o, t, state, P)

LEMMA StepFacts ==
  ASSUME NEW t \in [Paths -> Contents]
  PROVE  /\ \A c \in Commands \ {"file"}, f \in {"error", "ignore"} :
              /\ RunOf(c, f) \in Step /\ RunOf(c, f).cmd = c /\ RunOf(c, f).change.onFail = f
              /\ RunOf(c, f).change \notin FileChange
              /\ Run(c, f) = <<RunOf(c, f)>>
         /\ \A p \in Paths, after \in {new, Absent} :
              /\ FileOf(p, t, after) \in Step /\ FileOf(p, t, after).cmd = "file"
              /\ FileOf(p, t, after).change \in FileChange
              /\ FileOf(p, t, after).change.path = p
              /\ FileOf(p, t, after).change.before = t[p]
              /\ FileOf(p, t, after).change.after = after
              /\ File(p, t, after) = <<FileOf(p, t, after)>>
<1>1. {"error", "ignore"} \subseteq Policies /\ {new, Absent} \subseteq Contents
  BY SystemdAssumption DEF Policies, Contents
<1>2. \A c, f : Run(c, f) = <<RunOf(c, f)>> BY DEF Run, RunOf
<1>3. \A p, after : File(p, t, after) = <<FileOf(p, t, after)>> BY DEF File, FileOf
<1> QED BY <1>1, <1>2, <1>3, RunOfType, FileOfType

LEMMA RunLaidOut ==
  ASSUME NEW o, NEW c \in Commands \ {"file"}, NEW f \in {"error", "ignore"}
  PROVE  LaidOut(o, Run(c, f), {RunOf(c, f)})
<1>1. RunOf(c, f) \in Step BY RunOfType DEF Policies
<1>2. LaidOut(o, <<RunOf(c, f)>>, {RunOf(c, f)}) BY <1>1, OneStep
<1> QED BY <1>2 DEF Run, RunOf

LEMMA FileLaidOut ==
  ASSUME NEW o, NEW t \in [Paths -> Contents], NEW p \in Paths, NEW after \in {new, Absent}
  PROVE  LaidOut(o, File(p, t, after), {FileOf(p, t, after)})
<1>1. FileOf(p, t, after) \in Step
  BY FileOfType, SystemdAssumption DEF Contents
<1>2. LaidOut(o, <<FileOf(p, t, after)>>, {FileOf(p, t, after)}) BY <1>1, OneStep
<1> QED BY <1>2 DEF File, FileOf

LEMMA CreateIsSound ==
  ASSUME NEW o \in Ops, NEW t \in [Paths -> Contents], NEW state, NEW check \in BOOLEAN,
         o.verb = "create"
  PROVE  Sound(o, t, state, CreateSteps(o.on, t, check))
<1> DEFINE mkdirs == IF UserScope THEN Run("mkdir", "error") ELSE <<>>
           checks == IF check THEN Run("check", "error") ELSE <<>>
           enables == IF o.on THEN Enable ELSE <<>>
           M == IF UserScope THEN {RunOf("mkdir", "error")} ELSE {}
           C == IF check THEN {RunOf("check", "error")} ELSE {}
           E == IF o.on THEN {RunOf("enable", "error")} ELSE {}
           T == {FileOf(timer, t, new)}
           S == {FileOf(service, t, new)}
           R == {RunOf("reload", "error")}
<1>1. LaidOut(o, mkdirs, M) /\ LaidOut(o, checks, C) /\ LaidOut(o, enables, E)
      /\ LaidOut(o, Reload, R)
  BY RunLaidOut, NoStep DEF Commands, Enable, Reload
<1>2. LaidOut(o, File(timer, t, new), T) /\ LaidOut(o, File(service, t, new), S)
  BY FileLaidOut, SystemdAssumption
<1>3. /\ \A x \in M : x.cmd = "mkdir" /\ Fitting(o, t, x)
      /\ \A x \in C : x.cmd = "check" /\ Fitting(o, t, x)
      /\ \A x \in E : x.cmd = "enable" /\ Fitting(o, t, x)
      /\ \A x \in R : x.cmd = "reload" /\ Fitting(o, t, x)
  BY StepFacts DEF Commands, Fitting
<1>4. /\ \A x \in T : x.cmd = "file" /\ x.change.path = timer /\ Fitting(o, t, x)
      /\ \A x \in S : x.cmd = "file" /\ x.change.path = service /\ Fitting(o, t, x)
  BY StepFacts, SystemdAssumption DEF Fitting
<1>5. T # {} /\ S # {} /\ R # {} /\ (o.on => E # {}) OBVIOUS
<1>6. CreateSteps(o.on, t, check) =
        mkdirs \o checks \o File(timer, t, new) \o File(service, t, new) \o Reload \o enables
  BY DEF CreateSteps
<1> HIDE DEF mkdirs, checks, enables, M, C, E, T, S, R
<1>7. LaidOut(o, mkdirs \o checks, M \cup C)
  <2>1. \A x \in M, y \in C : After(o, x.cmd, y.cmd) BY <1>3 DEF After
  <2> QED BY <1>1, <2>1, Joined
<1>8. LaidOut(o, mkdirs \o checks \o File(timer, t, new), M \cup C \cup T)
  <2>1. \A x \in M \cup C, y \in T : After(o, x.cmd, y.cmd) BY <1>3, <1>4 DEF After
  <2> QED BY <1>2, <1>7, <2>1, Joined
<1>9. LaidOut(o, mkdirs \o checks \o File(timer, t, new) \o File(service, t, new),
              M \cup C \cup T \cup S)
  <2>1. \A x \in M \cup C \cup T, y \in S : After(o, x.cmd, y.cmd) BY <1>3, <1>4 DEF After
  <2> QED BY <1>2, <1>8, <2>1, Joined
<1>10. LaidOut(o, mkdirs \o checks \o File(timer, t, new) \o File(service, t, new) \o Reload,
               M \cup C \cup T \cup S \cup R)
  <2>1. \A x \in M \cup C \cup T \cup S, y \in R : After(o, x.cmd, y.cmd)
    BY <1>3, <1>4 DEF After
  <2> QED BY <1>1, <1>9, <2>1, Joined
<1>11. LaidOut(o, CreateSteps(o.on, t, check), M \cup C \cup T \cup S \cup R \cup E)
  <2>1. \A x \in M \cup C \cup T \cup S \cup R, y \in E : After(o, x.cmd, y.cmd)
    BY <1>3, <1>4 DEF After
  <2> QED BY <1>1, <1>6, <1>10, <2>1, Joined
<1>12. \A x \in M \cup C \cup T \cup S \cup R \cup E : Fitting(o, t, x)
  BY <1>3, <1>4
<1>13. Complete(o, t, state, M \cup C \cup T \cup S \cup R \cup E)
  BY <1>3, <1>4, <1>5 DEF Complete, Writes, Runs
<1> QED BY <1>11, <1>12, <1>13 DEF Sound

LEMMA UpdateIsSound ==
  ASSUME NEW o \in Ops, NEW t \in [Paths -> Contents], NEW state, o.verb = "update"
  PROVE  Sound(o, t, state, UpdateSteps(o.on, t))
<1> DEFINE services == IF Marked(t[service]) THEN File(service, t, new) ELSE <<>>
           links == IF o.on THEN Enable ELSE Disable("error")
           restarts == Run("try-restart", "ignore")
           T == {FileOf(timer, t, new)}
           S == IF Marked(t[service]) THEN {FileOf(service, t, new)} ELSE {}
           R == {RunOf("reload", "error")}
           L == IF o.on THEN {RunOf("enable", "error")} ELSE {RunOf("disable", "error")}
           A == {RunOf("try-restart", "ignore")}
<1>1. LaidOut(o, links, L) /\ LaidOut(o, Reload, R) /\ LaidOut(o, restarts, A)
  BY RunLaidOut DEF Commands, Enable, Disable, Reload
<1>2. LaidOut(o, File(timer, t, new), T) /\ LaidOut(o, services, S)
  BY FileLaidOut, NoStep, SystemdAssumption
<1>3. /\ \A x \in L : x.cmd = (IF o.on THEN "enable" ELSE "disable") /\ Fitting(o, t, x)
      /\ \A x \in R : x.cmd = "reload" /\ Fitting(o, t, x)
      /\ \A x \in A : x.cmd = "try-restart" /\ Fitting(o, t, x)
  BY StepFacts DEF Commands, Fitting
<1>4. /\ \A x \in T : x.cmd = "file" /\ x.change.path = timer /\ Fitting(o, t, x)
      /\ \A x \in S : x.cmd = "file" /\ x.change.path = service /\ Fitting(o, t, x)
  BY StepFacts, SystemdAssumption DEF Fitting
<1>5. T # {} /\ R # {} /\ L # {} /\ A # {} /\ (Marked(t[service]) => S # {}) OBVIOUS
<1>6. UpdateSteps(o.on, t) = File(timer, t, new) \o services \o Reload \o links \o restarts
  BY DEF UpdateSteps
<1> HIDE DEF services, links, restarts, T, S, R, L, A
<1>7. LaidOut(o, File(timer, t, new) \o services, T \cup S)
  <2>1. \A x \in T, y \in S : After(o, x.cmd, y.cmd) BY <1>4 DEF After
  <2> QED BY <1>2, <2>1, Joined
<1>8. LaidOut(o, File(timer, t, new) \o services \o Reload, T \cup S \cup R)
  <2>1. \A x \in T \cup S, y \in R : After(o, x.cmd, y.cmd) BY <1>3, <1>4 DEF After
  <2> QED BY <1>1, <1>7, <2>1, Joined
<1>9. LaidOut(o, File(timer, t, new) \o services \o Reload \o links, T \cup S \cup R \cup L)
  <2>1. \A x \in T \cup S \cup R, y \in L : After(o, x.cmd, y.cmd) BY <1>3, <1>4 DEF After
  <2> QED BY <1>1, <1>8, <2>1, Joined
<1>10. LaidOut(o, UpdateSteps(o.on, t), T \cup S \cup R \cup L \cup A)
  <2>1. \A x \in T \cup S \cup R \cup L, y \in A : After(o, x.cmd, y.cmd)
    BY <1>3, <1>4 DEF After
  <2> QED BY <1>1, <1>6, <1>9, <2>1, Joined
<1>11. \A x \in T \cup S \cup R \cup L \cup A : Fitting(o, t, x)
  BY <1>3, <1>4
<1>12. Complete(o, t, state, T \cup S \cup R \cup L \cup A)
  BY <1>3, <1>4, <1>5 DEF Complete, Writes, Runs
<1> QED BY <1>10, <1>11, <1>12 DEF Sound

LEMMA DeleteIsSound ==
  ASSUME NEW o \in Ops, NEW t \in [Paths -> Contents], NEW state, o.verb = "delete"
  PROVE  Sound(o, t, state, DeleteSteps(t))
<1> DEFINE services == IF Marked(t[service]) THEN File(service, t, Absent) ELSE <<>>
           resets == Run("reset-failed", "ignore")
           L == {RunOf("disable", "ignore")}
           T == {FileOf(timer, t, Absent)}
           S == IF Marked(t[service]) THEN {FileOf(service, t, Absent)} ELSE {}
           R == {RunOf("reload", "error")}
           A == {RunOf("reset-failed", "ignore")}
<1>1. LaidOut(o, Disable("ignore"), L) /\ LaidOut(o, Reload, R) /\ LaidOut(o, resets, A)
  BY RunLaidOut DEF Commands, Disable, Reload
<1>2. LaidOut(o, File(timer, t, Absent), T) /\ LaidOut(o, services, S)
  BY FileLaidOut, NoStep, SystemdAssumption
<1>3. /\ \A x \in L : x.cmd = "disable" /\ Fitting(o, t, x)
      /\ \A x \in R : x.cmd = "reload" /\ Fitting(o, t, x)
      /\ \A x \in A : x.cmd = "reset-failed" /\ Fitting(o, t, x)
  BY StepFacts DEF Commands, Fitting
<1>4. /\ \A x \in T : x.cmd = "file" /\ x.change.path = timer /\ Fitting(o, t, x)
      /\ \A x \in S : x.cmd = "file" /\ x.change.path = service /\ Fitting(o, t, x)
  BY StepFacts, SystemdAssumption DEF Fitting
<1>5. T # {} /\ R # {} /\ L # {} /\ (Marked(t[service]) => S # {}) OBVIOUS
<1>6. DeleteSteps(t) = Disable("ignore") \o File(timer, t, Absent) \o services \o Reload \o resets
  BY DEF DeleteSteps
<1> HIDE DEF services, resets, T, S, R, L, A
<1>7. LaidOut(o, Disable("ignore") \o File(timer, t, Absent), L \cup T)
  <2>1. \A x \in L, y \in T : After(o, x.cmd, y.cmd) BY <1>3, <1>4 DEF After
  <2> QED BY <1>1, <1>2, <2>1, Joined
<1>8. LaidOut(o, Disable("ignore") \o File(timer, t, Absent) \o services, L \cup T \cup S)
  <2>1. \A x \in L \cup T, y \in S : After(o, x.cmd, y.cmd) BY <1>3, <1>4 DEF After
  <2> QED BY <1>2, <1>7, <2>1, Joined
<1>9. LaidOut(o, Disable("ignore") \o File(timer, t, Absent) \o services \o Reload,
              L \cup T \cup S \cup R)
  <2>1. \A x \in L \cup T \cup S, y \in R : After(o, x.cmd, y.cmd) BY <1>3, <1>4 DEF After
  <2> QED BY <1>1, <1>8, <2>1, Joined
<1>10. LaidOut(o, DeleteSteps(t), L \cup T \cup S \cup R \cup A)
  <2>1. \A x \in L \cup T \cup S \cup R, y \in A : After(o, x.cmd, y.cmd)
    BY <1>3, <1>4 DEF After
  <2> QED BY <1>1, <1>6, <1>9, <2>1, Joined
<1>11. \A x \in L \cup T \cup S \cup R \cup A : Fitting(o, t, x)
  BY <1>3, <1>4
<1>12. Complete(o, t, state, L \cup T \cup S \cup R \cup A)
  BY <1>3, <1>4, <1>5 DEF Complete, Writes, Runs
<1> QED BY <1>10, <1>11, <1>12 DEF Sound

LEMMA SwitchIsSound ==
  ASSUME NEW o \in Ops, NEW t \in [Paths -> Contents], NEW state, o.verb = "switch"
  PROVE  Sound(o, t, state, SwitchSteps(o.on, state))
<1>1. PICK c : c = IF o.on THEN "enable" ELSE IF state = "static" THEN "stop" ELSE "disable"
  OBVIOUS
<1>2. SwitchSteps(o.on, state) = Run(c, "error")
  BY <1>1 DEF SwitchSteps, Enable, Disable
<1>3. c \in Commands \ {"file"} /\ c # "try-restart" BY <1>1 DEF Commands
<1>4. LaidOut(o, Run(c, "error"), {RunOf(c, "error")}) BY <1>3, RunLaidOut
<1>5. RunOf(c, "error").cmd = c /\ Fitting(o, t, RunOf(c, "error"))
  BY <1>1, <1>3, StepFacts DEF Fitting
<1>6. Complete(o, t, state, {RunOf(c, "error")})
  BY <1>1, <1>5 DEF Complete, Runs, Writes
<1> QED BY <1>2, <1>4, <1>5, <1>6 DEF Sound

LEMMA PlansAreSound ==
  ASSUME NEW o \in Ops, NEW t \in [Paths -> Contents], NEW state, NEW check \in BOOLEAN
  PROVE  Sound(o, t, state, Steps(o, t, state, check))
<1>1. o.verb \in {"create", "update", "delete", "switch"} BY DEF Ops, Verbs
<1> QED BY <1>1, CreateIsSound, UpdateIsSound, DeleteIsSound, SwitchIsSound DEF Steps

-----------------------------------------------------------------------------
(* The plan of a request is one of these, read off the two lists that the  *)
(* writer keeps: the changes, and the commands behind them.                *)
Has(c) == \E i \in DOMAIN cmds : cmds[i] = c
Puts(p) == \E i \in FileSteps(plan) : plan[i].path = p

Shaped ==
  /\ DOMAIN cmds = DOMAIN plan
  /\ \A i \in DOMAIN plan :
       /\ cmds[i] \in Commands
       /\ cmds[i] = "file" <=> i \in FileSteps(plan)
       /\ cmds[i] = "try-restart" => op.verb = "update"
       /\ cmds[i] = "enable" => op.on
       /\ op.verb = "create" => cmds[i] \notin {"disable", "stop"}
       /\ op.verb = "switch" => cmds[i] \notin {"file", "reload"}
       /\ cmds[i] \in {"reload", "enable", "stop"} \/ (cmds[i] = "disable" /\ op.verb # "delete") =>
            plan[i].onFail = "error"
  /\ \A i \in FileSteps(plan) :
       /\ plan[i].after = (IF op.verb = "delete" THEN Absent ELSE new)
       /\ op.verb # "create" /\ plan[i].path = service => Marked(text0[service])
       /\ ~Unrecorded(i)
  /\ \A i, j \in DOMAIN plan : i < j => After(op, cmds[i], cmds[j])
  /\ op.verb # "switch" => Has("reload") /\ Puts(timer)
  /\ op.verb = "create" => Puts(service)
  /\ op.verb \in {"update", "delete"} /\ Marked(text0[service]) => Puts(service)
  /\ op.on /\ op.verb # "delete" => Has("enable")
  /\ ~op.on /\ op.verb = "update" => Has("disable")
  /\ ~op.on /\ op.verb = "switch" => Has("disable") \/ Has("stop")
  /\ Has("stop") => \A i \in DOMAIN cmds : cmds[i] = "stop"
  /\ op.verb = "update" => Has("try-restart")
  /\ op.verb = "delete" => Has("disable")

LEMMA InitShaped == UInit => Shaped /\ (Has("stop") => link = "static")
<1> SUFFICES ASSUME UInit PROVE Shaped /\ (Has("stop") => link = "static") OBVIOUS
<1> DEFINE steps == Steps(op, text, link, analyze)
<1>1. /\ op \in Ops /\ text \in [Paths -> Contents] /\ text0 = text /\ analyze \in BOOLEAN
      /\ op.verb # "create" => text[timer] # Absent
      /\ plan = Changes(steps) /\ cmds = [i \in DOMAIN steps |-> steps[i].cmd]
  BY DEF UInit, Init, Accepted
<1>2. Sound(op, text, link, steps) BY <1>1, PlansAreSound
<1> HIDE DEF steps
<1>3. PICK P : /\ LaidOut(op, steps, P)
               /\ \A x \in P : Fitting(op, text, x)
               /\ Complete(op, text, link, P)
  BY <1>2 DEF Sound
<1>4. /\ steps \in Seq(Step) /\ P = {steps[i] : i \in DOMAIN steps}
      /\ \A i, j \in DOMAIN steps : i < j => After(op, steps[i].cmd, steps[j].cmd)
  BY <1>3 DEF LaidOut
<1>5. /\ DOMAIN plan = DOMAIN steps /\ DOMAIN cmds = DOMAIN steps
      /\ \A i \in DOMAIN steps : /\ plan[i] = steps[i].change /\ cmds[i] = steps[i].cmd
                                 /\ steps[i] \in P
  BY <1>1, <1>4 DEF Changes
<1>6. \A i \in DOMAIN steps : Fitting(op, text, steps[i]) BY <1>3, <1>5
<1>7. FileSteps(plan) = {i \in DOMAIN steps : steps[i].cmd = "file"}
  BY <1>5, <1>6 DEF FileSteps, Fitting
<1>8. ASSUME NEW i \in FileSteps(plan)
      PROVE  /\ plan[i].after = (IF op.verb = "delete" THEN Absent ELSE new)
             /\ op.verb # "create" /\ plan[i].path = service => Marked(text0[service])
             /\ ~Unrecorded(i)
  <2>1. Fitting(op, text, steps[i]) /\ steps[i].cmd = "file" /\ plan[i] = steps[i].change
    BY <1>5, <1>6, <1>7
  <2>2. plan[i].path \in {timer, service}
    BY <1>8, SystemdAssumption DEF FileSteps, FileChange
  <2>3. new # Absent /\ mine # Absent BY SystemdAssumption, HostAssumption
  <2>4. op.verb # "create" => text[plan[i].path] # Absent
    BY <1>1, <2>1, <2>2, <2>3 DEF Fitting, Marked
  <2> QED BY <1>1, <2>1, <2>3, <2>4 DEF Fitting, Unrecorded
<1>9. \A c : Has(c) <=> Runs(P, c) BY <1>4, <1>5 DEF Has, Runs
<1>10. ASSUME NEW p PROVE Puts(p) <=> Writes(P, p)
  <2>1. ASSUME NEW i \in FileSteps(plan), plan[i].path = p PROVE Writes(P, p)
    <3>1. steps[i] \in P /\ steps[i].cmd = "file" /\ steps[i].change.path = p
      BY <1>5, <1>7, <2>1
    <3> QED BY <3>1 DEF Writes
  <2>2. ASSUME NEW s \in P, s.cmd = "file", s.change.path = p PROVE Puts(p)
    <3>1. PICK i \in DOMAIN steps : s = steps[i] BY <1>4
    <3>2. i \in FileSteps(plan) /\ plan[i].path = p BY <1>5, <1>7, <2>2, <3>1
    <3> QED BY <3>2 DEF Puts
  <2> QED BY <2>1, <2>2 DEF Puts, Writes
<1>11. \A i \in DOMAIN plan :
         /\ cmds[i] \in Commands
         /\ cmds[i] = "file" <=> i \in FileSteps(plan)
         /\ cmds[i] = "try-restart" => op.verb = "update"
         /\ cmds[i] = "enable" => op.on
         /\ op.verb = "create" => cmds[i] \notin {"disable", "stop"}
         /\ op.verb = "switch" => cmds[i] \notin {"file", "reload"}
         /\ cmds[i] \in {"reload", "enable", "stop"} \/ (cmds[i] = "disable" /\ op.verb # "delete") =>
              plan[i].onFail = "error"
  BY <1>5, <1>6, <1>7 DEF Fitting, Step
<1>12. \A i, j \in DOMAIN plan : i < j => After(op, cmds[i], cmds[j])
  BY <1>4, <1>5
<1>13. /\ Complete(op, text0, link, P)
       /\ Has("stop") => \A i \in DOMAIN cmds : cmds[i] = "stop"
  BY <1>1, <1>3, <1>5, <1>9 DEF Complete
<1> QED BY <1>5, <1>8, <1>9, <1>10, <1>11, <1>12, <1>13 DEF Shaped, Complete

-----------------------------------------------------------------------------
TakenBack == op.verb = "create" /\ phase = "ok" /\ verdict = "error"

(* What the executor knows of the disk holds until a creation is taken     *)
(* back.                                                                   *)
UInv ==
  /\ op \in Ops
  /\ IInv \/ TakenBack
  /\ touched = {}
  /\ op.verb = "create" => text0[timer] # theirs /\ text0[service] # theirs
  /\ \A p \in Paths : text0[p] # new
  /\ Shaped

(* What the commands of a plan that goes well have brought about so far.   *)
(* Later commands leave it: that is what After is for.                     *)
Passed(c) == \E i \in DOMAIN cmds : i < next /\ cmds[i] = c
UnderEffect ==
  /\ unsure = {} /\ notes = {}
  /\ Passed("reload") => loaded = text
  /\ Passed("enable") => link = "enabled" /\ (op.verb # "update" => running # Absent)
  /\ Passed("stop") \/ (Passed("disable") /\ op.verb # "delete") =>
       link # "enabled" /\ running = Absent
  /\ Passed("try-restart") /\ outputs[Len(outputs)] = "zero" => running \in {Absent, new}
  /\ Passed("disable") /\ op.verb = "delete" /\ outputs[1] = "zero" => running = Absent
  /\ Has("stop") => link = "static"
  /\ op.verb = "switch" => loaded = text /\ running \in {Absent, text[timer]}
  /\ op.verb = "create" => running \in {Absent, text0[timer]} \/ (Passed("enable") /\ running = new)
  /\ op.verb = "create" /\ text0[timer] = Absent /\ ~Passed("enable") => link # "enabled"

Answered ==
  /\ verdict = "ok" => phase = "ok"
  /\ phase \in {"running", "ok"} /\ ~dry /\ verdict # "error" => UnderEffect

EInv == UInv /\ Answering /\ Answered

LEMMA InitEInv == UInit => EInv
<1> SUFFICES ASSUME UInit PROVE EInv OBVIOUS
<1>1. Init /\ IInv BY InitIInv DEF UInit
<1>2. /\ op \in Ops /\ touched = {} /\ unsure = {} /\ notes = {} /\ text0 = text /\ next = 1
      /\ phase = "running" /\ outputs = <<>> /\ verdict = "none"
  BY DEF UInit, Init
<1>3. op.verb = "create" => text0[timer] # theirs /\ text0[service] # theirs
  BY <1>2 DEF UInit, Accepted
<1>4. Shaped /\ (Has("stop") => link = "static") BY InitShaped
<1>5. DOMAIN plan = 1 .. Len(plan) /\ DOMAIN cmds = DOMAIN plan
  BY <1>1, <1>4 DEF Shaped, IInv, TypeOK
<1>6. \A c : ~Passed(c) BY <1>2, <1>5 DEF Passed
<1>7. Answering
  <2>1. CommandsBefore(1) = {} BY <1>5 DEF CommandsBefore
  <2> QED BY <1>2, <2>1, FS_EmptySet DEF Answering
<1>8. \A p \in Paths : text0[p] # new BY <1>2 DEF UInit
<1>9. /\ loaded = text /\ running \in {Absent, text[timer]}
      /\ text[timer] = Absent => link # "enabled"
  BY DEF UInit
<1> QED BY <1>1, <1>2, <1>3, <1>4, <1>6, <1>7, <1>8, <1>9 DEF EInv, UInv, Answered, UnderEffect

-----------------------------------------------------------------------------
(* Every step of the writer is a step of the executor, or none of it, but  *)
(* for the one that takes a creation back.                                 *)
LEMMA WriterSteps ==
  ASSUME [UNext]_uvars
  PROVE  /\ UNCHANGED request
         /\ \/ /\ Execute \/ Kill \/ UNCHANGED vars
               /\ phase = "ok" => UNCHANGED vars /\ (verdict # "none" => UNCHANGED verdict)
            \/ TakeBack
<1> USE DEF request, manager
<1>1. CASE Command
  BY <1>1 DEF Command, RunCommand, AtChange, Execute
<1>2. CASE CommandFails
  BY <1>2 DEF CommandFails, RunCommandFails, AtChange, Execute
<1>3. CASE FileWork
  BY <1>3 DEF FileWork, Execute, DryRun, FileStep, FileStepFails, AtChange, Finish, RolledBack,
              Undo, UndoFails
<1>4. CASE Report
  BY <1>4 DEF Report
<1>5. CASE Killed
  BY <1>5 DEF Killed, Kill
<1>6. CASE TakeBack
  BY <1>6 DEF TakeBack
<1>7. CASE Over \/ UNCHANGED uvars
  BY <1>7 DEF Over, uvars
<1> QED BY <1>1, <1>2, <1>3, <1>4, <1>5, <1>6, <1>7 DEF UNext

(* What a plan looks like never changes.                                   *)
LEMMA ShapeStays ==
  ASSUME Shaped, UNCHANGED <<plan, text0, op, cmds>>
  PROVE  Shaped' /\ \A c : Has(c)' = Has(c)
BY DEF Shaped, Has, Puts, Unrecorded

LEMMA NextUInv == UInv /\ [UNext]_uvars => UInv'
<1> SUFFICES ASSUME UInv, [UNext]_uvars PROVE UInv' OBVIOUS
<1>0. UNCHANGED <<op, cmds>> BY WriterSteps DEF request
<1>1. CASE TakeBack
  <2>1. op.verb = "create" /\ phase = "ok" /\ verdict' = "error" BY <1>1 DEF TakeBack, Created
  <2>2. UNCHANGED <<op, phase, plan, text0, touched>> BY <1>1 DEF TakeBack, request, history
  <2>3. Shaped' BY <1>0, <2>2, ShapeStays DEF UInv
  <2> QED BY <2>1, <2>2, <2>3 DEF UInv, TakenBack
<1>2. CASE ~TakeBack
  <2>1. /\ Execute \/ Kill \/ UNCHANGED vars
        /\ phase = "ok" => UNCHANGED vars /\ (verdict # "none" => UNCHANGED verdict)
    BY <1>2, WriterSteps
  <2>2. UNCHANGED <<plan, text0, touched>>
    BY <2>1 DEF Execute, DryRun, FileStep, FileStepFails, RunCommand, RunCommandFails, Finish,
                RolledBack, Undo, UndoFails, Kill, vars, history
  <2>3. IInv' \/ TakenBack'
    <3>1. CASE IInv BY <2>1, <3>1, IInvStep DEF Next
    <3>2. CASE ~IInv BY <1>0, <2>1, <3>2 DEF UInv, TakenBack, vars
    <3> QED BY <3>1, <3>2
  <2>4. Shaped' BY <1>0, <2>2, ShapeStays DEF UInv
  <2> QED BY <1>0, <2>2, <2>3, <2>4 DEF UInv
<1> QED BY <1>1, <1>2

LEMMA NextAnswering == UInv /\ Answering /\ [UNext]_uvars => Answering'
<1> SUFFICES ASSUME UInv, Answering, [UNext]_uvars PROVE Answering' OBVIOUS
<1>1. CASE TakeBack
  <2>1. UNCHANGED <<phase, next, plan, dry, outputs>> BY <1>1 DEF TakeBack
  <2> QED BY <2>1 DEF Answering, CommandsBefore
<1>2. CASE ~TakeBack
  <2>1. /\ Execute \/ Kill \/ UNCHANGED vars
        /\ phase = "ok" => UNCHANGED vars
    BY <1>2, WriterSteps
  <2>2. CASE IInv BY <2>1, <2>2, AnsweringStep DEF IInv, Next
  <2>3. CASE ~IInv
    <3>1. UNCHANGED <<phase, next, plan, dry, outputs>>
      BY <2>1, <2>3 DEF UInv, TakenBack, vars
    <3> QED BY <3>1 DEF Answering, CommandsBefore
  <2> QED BY <2>2, <2>3
<1> QED BY <1>1, <1>2

-----------------------------------------------------------------------------
(* Commands and files                                                      *)

LEMMA PlanFacts ==
  ASSUME UInv, IInv
  PROVE  /\ TypeOK /\ plan \in Seq(Change) /\ Len(plan) \in Nat
         /\ DOMAIN plan = 1 .. Len(plan) /\ DOMAIN cmds = 1 .. Len(plan)
         /\ next \in Nat /\ next >= 1 /\ next <= Len(plan) + 1
         /\ FileSteps(plan) \subseteq 1 .. Len(plan)
         /\ outputs \in Seq(Exits) /\ Len(outputs) \in Nat
BY DEF UInv, IInv, TypeOK, Shaped, FileSteps

(* While all goes well the files the plan has come past are in place.      *)
LEMMA InPlace ==
  ASSUME UInv, IInv, UnderEffect, phase \in {"running", "ok"}, ~dry,
         NEW i \in FileSteps(plan), phase = "running" => i < next
  PROVE  text[plan[i].path] = plan[i].after
<1>1. i \in applied BY DEF IInv, AppliedIsPrefix, Endings
<1>2. ~Excused(i) BY DEF Excused, UInv, Shaped, UnderEffect
<1> QED BY <1>1, <1>2 DEF IInv, OnDisk

(* Whatever a command comes past lets it come.                             *)
LEMMA PassedAllows ==
  ASSUME UInv, IInv, next \in DOMAIN plan, NEW c, Passed(c)
  PROVE  After(op, c, cmds[next])
<1>1. DOMAIN cmds = DOMAIN plan /\ \A i, j \in DOMAIN plan : i < j => After(op, cmds[i], cmds[j])
  BY DEF UInv, Shaped
<1> QED BY <1>1 DEF Passed

LEMMA PassedStep ==
  ASSUME UInv, IInv, next \in DOMAIN plan, cmds' = cmds, next' = next + 1, NEW c
  PROVE  Passed(c)' <=> Passed(c) \/ c = cmds[next]
<1>1. DOMAIN cmds = 1 .. Len(plan) /\ next \in 1 .. Len(plan) BY PlanFacts
<1> QED BY <1>1 DEF Passed

LEMMA EffectFacts ==
  ASSUME NEW c \in Commands \ {"file"}, NEW done \in BOOLEAN, Effect(c, done)
  PROVE  /\ loaded' = loaded \/ (c = "reload" /\ done)
         /\ c = "reload" /\ done => loaded' = text
         /\ c \notin {"enable", "disable", "stop", "try-restart"} =>
              /\ running' = running
              /\ link' = link \/ (c = "reload" /\ link = "static" /\ link' = "disabled")
         /\ c = "enable" /\ done => link' = "enabled" /\ running' # Absent
         /\ c = "enable" /\ done => running' \in {running, loaded[timer]}
         /\ c = "disable" /\ done => link' \in {"static", "disabled"} /\ running' = Absent
         /\ c = "stop" /\ done => link' = link /\ running' = Absent
         /\ c = "try-restart" => /\ link' = link /\ loaded' = loaded
                                 /\ running = Absent => running' = Absent
                                 /\ done => running' \in {Absent, loaded[timer]}
<1> USE DEF manager
<1>1. CASE c = "reload" BY <1>1 DEF Effect, Reloaded
<1>2. CASE c = "enable" BY <1>2 DEF Effect, Enabled, Loads
<1>3. CASE c = "disable" BY <1>3 DEF Effect, Stopped
<1>4. CASE c = "stop" BY <1>4 DEF Effect, Stopped
<1>5. CASE c = "try-restart" BY <1>5 DEF Effect, Restarted
<1>6. CASE c \in {"mkdir", "check", "reset-failed"} BY <1>6 DEF Effect
<1> QED BY <1>1, <1>2, <1>3, <1>4, <1>5, <1>6 DEF Commands

LEMMA CommandInEffect ==
  ASSUME UInv, IInv, Answering, UnderEffect, Command, phase' = "running"
  PROVE  UnderEffect'
<1>0. /\ TypeOK /\ plan \in Seq(Change) /\ Len(plan) \in Nat
      /\ DOMAIN plan = 1 .. Len(plan) /\ DOMAIN cmds = 1 .. Len(plan)
      /\ next \in Nat /\ next >= 1 /\ next <= Len(plan) + 1
      /\ FileSteps(plan) \subseteq 1 .. Len(plan)
      /\ outputs \in Seq(Exits) /\ Len(outputs) \in Nat
  BY PlanFacts
<1>c. PICK c : c = cmds[next] OBVIOUS
<1>1. /\ phase = "running" /\ ~dry /\ next \in DOMAIN plan /\ plan[next] \in CommandChange
      /\ UNCHANGED <<op, cmds, plan, text, text0, unsure, notes>>
  BY <1>0 DEF Command, RunCommand, AtChange, request, host, history
<1>2. /\ next \notin FileSteps(plan) /\ c \in Commands \ {"file"}
      /\ c \in {"reload", "enable", "stop"} \/ (c = "disable" /\ op.verb # "delete") =>
           plan[next].onFail = "error"
      /\ c = "try-restart" => op.verb = "update"
  <2>1. next \notin FileSteps(plan) BY <1>0, <1>1, CommandIsNoFileStep
  <2> QED BY <1>c, <1>1, <2>1 DEF UInv, Shaped
<1>3. PICK exit \in Exits :
        /\ outputs' = Append(outputs, exit)
        /\ Tolerates(plan[next].onFail, exit) /\ next' = next + 1
  BY <1>1 DEF Command, RunCommand
<1>4. /\ Len(outputs') = Len(outputs) + 1 /\ outputs'[Len(outputs')] = exit
      /\ Len(outputs) >= 1 => outputs'[1] = outputs[1]
      /\ Len(outputs) = 0 => outputs'[1] = exit
  BY <1>0, <1>3
<1>d. PICK done \in BOOLEAN : done <=> exit = "zero" OBVIOUS
<1>5. Effect(c, done)
  <2>1. Effect(cmds[next], outputs'[Len(outputs')] = "zero") BY DEF Command
  <2>2. (outputs'[Len(outputs')] = "zero") = done BY <1>4, <1>d
  <2> QED BY <1>c, <2>1, <2>2
<1>6. c \in {"reload", "enable", "stop"} \/ (c = "disable" /\ op.verb # "delete") => done
  BY <1>2, <1>3, <1>d DEF Tolerates
<1>7. \A x : Passed(x)' <=> Passed(x) \/ x = c
  BY <1>c, <1>1, <1>3, PassedStep DEF Command, request
<1>8. \A x : Passed(x) => After(op, x, c) BY <1>c, <1>1, PassedAllows
<1>9. Has("stop") => c = "stop" BY <1>c, <1>0, <1>1 DEF UInv, Shaped
<1>10. \A x : Has(x)' = Has(x) BY <1>1 DEF Has
<1>e. /\ loaded' = loaded \/ (c = "reload" /\ done)
      /\ c = "reload" /\ done => loaded' = text
      /\ c \notin {"enable", "disable", "stop", "try-restart"} =>
           /\ running' = running
           /\ link' = link \/ (c = "reload" /\ link = "static" /\ link' = "disabled")
      /\ c = "enable" /\ done => link' = "enabled" /\ running' # Absent
      /\ c = "enable" /\ done => running' \in {running, loaded[timer]}
      /\ c = "disable" /\ done => link' \in {"static", "disabled"} /\ running' = Absent
      /\ c = "stop" /\ done => link' = link /\ running' = Absent
      /\ c = "try-restart" => /\ link' = link /\ loaded' = loaded
                              /\ running = Absent => running' = Absent
                              /\ done => running' \in {Absent, loaded[timer]}
  BY <1>2, <1>5, EffectFacts
<1>11. Passed("reload")' => loaded' = text'
  BY <1>1, <1>6, <1>7, <1>e DEF UnderEffect
<1>12. Passed("enable")' => link' = "enabled" /\ (op'.verb # "update" => running' # Absent)
  <2>1. CASE c = "enable" BY <1>6, <1>e, <2>1
  <2>2. CASE c # "enable" /\ Passed("enable")
    <3>1. c \notin {"disable", "stop"} /\ (op.verb # "update" => c # "try-restart")
      BY <1>8, <2>2 DEF After
    <3>2. link = "enabled" /\ (op.verb # "update" => running # Absent)
      BY <2>2 DEF UnderEffect
    <3> QED BY <1>1, <1>e, <2>2, <3>1, <3>2
  <2> QED BY <1>7, <2>1, <2>2
<1>13. Passed("stop")' \/ (Passed("disable")' /\ op'.verb # "delete") =>
         link' # "enabled" /\ running' = Absent
  <2>1. CASE c = "stop"
    <3>1. Has("stop") BY <1>c, <1>0, <1>1, <2>1 DEF Has
    <3> QED BY <1>6, <1>e, <2>1, <3>1 DEF UnderEffect
  <2>2. CASE c = "disable" /\ op.verb # "delete" BY <1>6, <1>e, <2>2
  <2>3. CASE c # "stop" /\ ~(c = "disable" /\ op.verb # "delete")
             /\ (Passed("stop") \/ (Passed("disable") /\ op.verb # "delete"))
    <3>1. link # "enabled" /\ running = Absent BY <2>3 DEF UnderEffect
    <3>2. c # "enable" BY <1>8, <2>3 DEF After
    <3>3. c # "disable"
      <4>1. CASE op.verb # "delete" BY <2>3, <4>1
      <4>2. CASE op.verb = "delete" /\ Passed("stop") BY <1>8, <4>2 DEF After
      <4> QED BY <2>3, <4>1, <4>2
    <3> QED BY <1>e, <2>3, <3>1, <3>2, <3>3
  <2> QED BY <1>1, <1>7, <2>1, <2>2, <2>3
<1>14. Passed("try-restart")' /\ outputs'[Len(outputs')] = "zero" => running' \in {Absent, new}
  <2>1. ~Passed("try-restart") BY <1>8 DEF After
  <2>2. CASE c = "try-restart" /\ done
    <3>1. op.verb = "update" /\ ~(op.verb = "delete") BY <1>2, <2>2
    <3>2. \A i \in DOMAIN plan : i # next => i < next
      <4>1. \A j \in DOMAIN plan : next < j => After(op, cmds[next], cmds[j])
        BY <1>1 DEF UInv, Shaped
      <4>2. \A j \in DOMAIN plan : ~(next < j) BY <1>c, <2>2, <4>1 DEF After
      <4> QED BY <1>0, <4>2
    <3>3. Passed("reload")
      <4>1. Has("reload") BY <3>1 DEF UInv, Shaped
      <4>2. PICK i \in DOMAIN cmds : cmds[i] = "reload" BY <4>1 DEF Has
      <4>3. i # next BY <1>c, <2>2, <4>2
      <4> QED BY <1>0, <3>2, <4>2, <4>3 DEF Passed
    <3>4. text[timer] = new
      <4>1. Puts(timer) BY <3>1 DEF UInv, Shaped
      <4>2. PICK i \in FileSteps(plan) : plan[i].path = timer BY <4>1 DEF Puts
      <4>3. i < next BY <1>0, <1>2, <3>2, <4>2
      <4>4. text[plan[i].path] = plan[i].after BY <1>1, <4>3, InPlace
      <4>5. plan[i].after = new BY <3>1 DEF UInv, Shaped
      <4> QED BY <4>2, <4>4, <4>5
    <3> QED BY <1>e, <2>2, <3>3, <3>4 DEF UnderEffect
  <2> QED BY <1>4, <1>7, <1>d, <2>1, <2>2
<1>15. Passed("disable")' /\ op'.verb = "delete" /\ outputs'[1] = "zero" => running' = Absent
  <2>1. CASE c = "disable" /\ op.verb = "delete"
    <3>1. next = 1
      <4>1. \A i \in DOMAIN plan : i < next => After(op, cmds[i], cmds[next])
        BY <1>1 DEF UInv, Shaped
      <4>2. \A i \in DOMAIN plan : ~(i < next) BY <1>c, <2>1, <4>1 DEF After
      <4> QED BY <1>0, <1>1, <4>2
    <3>2. Len(outputs) = 0
      <4>1. CommandsBefore(1) = {} BY <1>0 DEF CommandsBefore
      <4> QED BY <1>1, <3>1, <4>1, FS_EmptySet DEF Answering
    <3> QED BY <1>4, <1>d, <1>e, <2>1, <3>2
  <2>2. CASE c # "disable" /\ Passed("disable") /\ op.verb = "delete"
    <3>1. Len(outputs) >= 1
      <4>1. PICK i \in DOMAIN cmds : i < next /\ cmds[i] = "disable" BY <2>2 DEF Passed
      <4>2. plan[i] \in CommandChange
        <5>1. i \in DOMAIN plan /\ i \notin FileSteps(plan)
          BY <1>0, <4>1 DEF UInv, Shaped
        <5> QED BY <1>0, <5>1 DEF FileSteps, Change
      <4>3. i \in CommandsBefore(next) BY <1>0, <4>1, <4>2 DEF CommandsBefore
      <4>4. Cardinality(CommandsBefore(i)) + 1 \in 1 .. Cardinality(CommandsBefore(next))
        BY <1>0, <4>3, CommandsRank
      <4>5. Cardinality(CommandsBefore(i)) \in Nat BY <1>0, <4>1, CommandsCount
      <4>6. Len(outputs) = Cardinality(CommandsBefore(next)) BY <1>1 DEF Answering
      <4> QED BY <1>0, <4>4, <4>5, <4>6
    <3>2. c \notin {"enable", "disable", "try-restart"} BY <1>8, <2>2 DEF After
    <3>3. outputs[1] = "zero" => running = Absent BY <2>2 DEF UnderEffect
    <3> QED BY <1>4, <1>6, <1>e, <3>1, <3>2, <3>3
  <2> QED BY <1>1, <1>7, <2>1, <2>2
<1>16. Has("stop")' => link' = "static"
  BY <1>6, <1>9, <1>10, <1>e DEF UnderEffect
<1>17. unsure' = {} /\ notes' = {} BY <1>1 DEF UnderEffect
<1>f. /\ c = "enable" => op.on
      /\ op.verb = "create" => c \notin {"disable", "stop", "try-restart"}
      /\ op.verb = "switch" => c \notin {"reload", "try-restart"}
  BY <1>c, <1>1, <1>2 DEF UInv, Shaped
<1>18. op'.verb = "switch" => loaded' = text' /\ running' \in {Absent, text'[timer]}
  <2> SUFFICES ASSUME op.verb = "switch"
               PROVE  loaded' = text /\ running' \in {Absent, text[timer]}
    BY <1>1
  <2>1. loaded = text /\ running \in {Absent, text[timer]} BY DEF UnderEffect
  <2> QED BY <1>2, <1>6, <1>e, <1>f, <2>1 DEF Commands
<1>19. c = "enable" /\ op.verb = "create" => loaded[timer] = new
  <2> SUFFICES ASSUME c = "enable", op.verb = "create" PROVE loaded[timer] = new OBVIOUS
  <2>1. \A j \in DOMAIN plan : next < j => cmds[j] \notin {"reload", "file"}
    BY <1>c, <1>1 DEF UInv, Shaped, After
  <2>2. Passed("reload")
    <3>1. Has("reload") BY DEF UInv, Shaped
    <3>2. PICK i \in DOMAIN cmds : cmds[i] = "reload" BY <3>1 DEF Has
    <3>3. i # next /\ ~(next < i) BY <1>0, <1>c, <2>1, <3>2
    <3> QED BY <1>0, <3>2, <3>3 DEF Passed
  <2>3. text[timer] = new
    <3>1. Puts(timer) BY DEF UInv, Shaped
    <3>2. PICK i \in FileSteps(plan) : plan[i].path = timer BY <3>1 DEF Puts
    <3>3. cmds[i] = "file" /\ i \in DOMAIN plan BY <1>0, <3>2 DEF UInv, Shaped
    <3>4. i # next /\ ~(next < i) BY <1>c, <2>1, <3>3
    <3>5. i < next BY <1>0, <3>3, <3>4
    <3>6. text[plan[i].path] = plan[i].after BY <1>1, <3>5, InPlace
    <3>7. plan[i].after = new BY DEF UInv, Shaped
    <3> QED BY <3>2, <3>6, <3>7
  <2> QED BY <2>2, <2>3 DEF UnderEffect
<1>20. op'.verb = "create" =>
         running' \in {Absent, text0'[timer]} \/ (Passed("enable")' /\ running' = new)
  <2> SUFFICES ASSUME op.verb = "create"
               PROVE  running' \in {Absent, text0[timer]} \/ (Passed("enable")' /\ running' = new)
    BY <1>1
  <2>1. running \in {Absent, text0[timer]} \/ (Passed("enable") /\ running = new)
    BY DEF UnderEffect
  <2>2. CASE c = "enable" BY <1>6, <1>7, <1>19, <1>e, <2>1, <2>2
  <2>3. CASE c # "enable"
    <3>1. running' = running BY <1>e, <1>f, <2>3
    <3> QED BY <1>7, <2>1, <3>1
  <2> QED BY <2>2, <2>3
<1>21. op'.verb = "create" /\ text0'[timer] = Absent /\ ~Passed("enable")' => link' # "enabled"
  <2> SUFFICES ASSUME op.verb = "create", text0[timer] = Absent, ~Passed("enable"), c # "enable"
               PROVE  link' # "enabled"
    BY <1>1, <1>7
  <2>1. link # "enabled" BY DEF UnderEffect
  <2> QED BY <1>e, <1>f, <2>1
<1> QED BY <1>11, <1>12, <1>13, <1>14, <1>15, <1>16, <1>17, <1>18, <1>20, <1>21 DEF UnderEffect

(* Nothing is written once the manager was told to reload.                 *)
LEMMA FileInEffect ==
  ASSUME UInv, IInv, UnderEffect, FileStep, UNCHANGED <<request, manager>>
  PROVE  UnderEffect'
<1>1. /\ next \in DOMAIN plan /\ plan[next] \in FileChange /\ next' = next + 1
      /\ UNCHANGED <<plan, unsure, notes, outputs>>
  BY PlanFacts DEF FileStep, AtChange, history
<1>2. UNCHANGED <<op, cmds, loaded, link, running>> BY DEF request, manager
<1>3. cmds[next] = "file"
  <2>1. next \in FileSteps(plan) BY <1>1 DEF FileSteps
  <2> QED BY <1>1, <2>1 DEF UInv, Shaped
<1>4. \A c : Passed(c)' <=> Passed(c) \/ c = "file" BY <1>1, <1>2, <1>3, PassedStep
<1>5. ~Passed("reload") BY <1>1, <1>3, PassedAllows DEF After
<1>6. \A c : Has(c)' = Has(c) BY <1>2 DEF Has
<1>7. op.verb # "switch" /\ text0' = text0 BY <1>1, <1>3 DEF UInv, Shaped, FileStep, history
<1> QED BY <1>1, <1>2, <1>4, <1>5, <1>6, <1>7 DEF UnderEffect

LEMMA StillInEffect ==
  ASSUME UnderEffect,
         UNCHANGED <<op, cmds, next, outputs, text, text0, unsure, notes, loaded, link, running>>
  PROVE  UnderEffect'
BY DEF UnderEffect, Passed, Has

LEMMA NextAnswered == EInv /\ [UNext]_uvars => Answered'
<1> SUFFICES ASSUME EInv, [UNext]_uvars PROVE Answered' OBVIOUS
<1> USE DEF request, manager
<1>0. UInv /\ Answering /\ Answered BY DEF EInv
<1>1. ASSUME UNCHANGED verdict,
             phase = "ok" => phase' = "ok" \/ verdict # "ok",
             phase' \in {"running", "ok"} /\ ~dry' /\ verdict # "error" =>
               /\ phase \in {"running", "ok"} /\ ~dry
               /\ UnderEffect => UnderEffect'
      PROVE  Answered'
  BY <1>0, <1>1 DEF Answered
<1>2. CASE Command
  <2>1. phase = "running" /\ phase' \in {"running", "rollback"} /\ UNCHANGED <<verdict, dry>>
    BY <1>2 DEF Command, RunCommand, AtChange
  <2>2. IInv BY <1>0, <2>1 DEF UInv, TakenBack
  <2> QED BY <1>0, <1>1, <1>2, <2>1, <2>2, CommandInEffect
<1>3. CASE CommandFails
  <2>1. phase = "running" /\ phase' = "rollback" /\ UNCHANGED verdict
    BY <1>3 DEF CommandFails, RunCommandFails, AtChange
  <2> QED BY <1>1, <2>1
<1>4. CASE FileWork
  <2>0. UNCHANGED <<request, manager, verdict>> BY <1>4 DEF FileWork
  <2>1. CASE FileStep
    <3>1. phase = "running" /\ phase' = phase /\ dry' = dry
      BY <2>1 DEF FileStep, AtChange
    <3>2. IInv BY <1>0, <3>1 DEF UInv, TakenBack
    <3> QED BY <1>0, <1>1, <2>0, <2>1, <3>1, <3>2, FileInEffect
  <2>2. CASE Finish
    <3>1. /\ phase = "running" /\ ~dry
          /\ UNCHANGED <<op, cmds, next, outputs, text, text0, unsure, notes, loaded, link,
                         running>>
      BY <2>0, <2>2 DEF Finish, host, history
    <3> QED BY <1>1, <2>0, <3>1, StillInEffect
  <2>3. CASE DryRun
    BY <1>1, <2>0, <2>3 DEF DryRun
  <2>4. CASE FileStepFails \/ RolledBack \/ \E i \in applied : Undo(i) \/ UndoFails(i)
    <3>1. phase # "ok" /\ phase' \in {"rollback", "error"}
      BY <2>4 DEF FileStepFails, AtChange, RolledBack, Undo, UndoFails
    <3> QED BY <1>1, <2>0, <3>1
  <2> QED BY <1>4, <2>1, <2>2, <2>3, <2>4 DEF FileWork
<1>5. CASE Report
  <2>1. UNCHANGED <<vars, op, cmds, manager>> /\ verdict = "none" BY <1>5 DEF Report
  <2>2. verdict' = "ok" => phase = "ok" BY <1>5 DEF Report, Created
  <2>3. UNCHANGED <<phase, dry, op, cmds, next, outputs, text, text0, unsure, notes, loaded, link,
                    running>>
    BY <2>1 DEF vars, host, history
  <2> QED BY <1>0, <2>1, <2>2, <2>3, StillInEffect DEF Answered
<1>6. CASE TakeBack
  BY <1>6 DEF TakeBack, Answered
<1>7. CASE Killed
  BY <1>1, <1>7 DEF Killed, Kill
<1>8. CASE Over \/ UNCHANGED uvars
  <2>1. UNCHANGED <<phase, dry, op, cmds, next, outputs, text, text0, unsure, notes, loaded, link,
                    running, verdict>>
    BY <1>8 DEF Over, uvars, vars, host, history
  <2> QED BY <1>1, <2>1, StillInEffect
<1> QED BY <1>2, <1>3, <1>4, <1>5, <1>6, <1>7, <1>8 DEF UNext

(* The invariant of the systemd writer: what the executor knows, the shape *)
(* of the plan, and what its commands have brought about so far.           *)
THEOREM SystemdInvariant == USpec => []EInv
<1>1. EInv /\ [UNext]_uvars => EInv'
  BY NextUInv, NextAnswering, NextAnswered DEF EInv
<1> QED BY InitEInv, <1>1, PTL DEF USpec

-----------------------------------------------------------------------------
(* MANAGED_MARKER: whatever an operation does, fails at, rolls back or     *)
(* takes back, a service without the marker is as it was found; and a      *)
(* creation leaves a timer without it alone too.                           *)
THEOREM TheirServiceIsSafe == USpec => []TheirServiceSurvives
<1>1. EInv => TheirServiceSurvives
  <2> SUFFICES ASSUME EInv PROVE TheirServiceSurvives OBVIOUS
  <2>1. ASSUME text0[service] = theirs PROVE text[service] = theirs
    <3>1. op.verb # "create" /\ IInv /\ touched = {} BY <2>1 DEF EInv, UInv, TakenBack
    <3>2. ~Marked(text0[service]) BY <2>1, SystemdAssumption DEF Marked
    <3>3. service \notin Planned BY <3>1, <3>2 DEF EInv, UInv, Shaped, Planned
    <3>4. service \in Paths \ (Planned \cup touched) BY <3>1, <3>3, SystemdAssumption
    <3> QED BY <2>1, <3>1, <3>4 DEF IInv, OnDisk
  <2> QED BY <2>1 DEF EInv, UInv, TheirServiceSurvives
<1> QED BY <1>1, SystemdInvariant, PTL

(* The executor keeps its promise to this writer: unless a creation was    *)
(* taken back, every file is in place or none.                             *)
THEOREM SystemdAllOrNothing == USpec => [](~TakenBack => AllOrNothing)
<1>1. EInv => (~TakenBack => AllOrNothing)
  BY DEF EInv, UInv, TakenBack, IInv, OnDisk, Endings, AllOrNothing, Excused
<1> QED BY <1>1, SystemdInvariant, PTL

(* The one place of a command in a plan, and the place of its output.      *)
LEMMA RestartIsLast ==
  ASSUME UInv, IInv, Answering, phase = "ok", ~dry, op.verb = "update"
  PROVE  Advisory("try-restart") = outputs[Len(outputs)]
<1>0. /\ Len(plan) \in Nat /\ DOMAIN plan = 1 .. Len(plan) /\ DOMAIN cmds = 1 .. Len(plan)
      /\ plan \in Seq(Change)
      /\ \A i \in DOMAIN plan : cmds[i] = "file" <=> i \in FileSteps(plan)
      /\ \A i, j \in DOMAIN plan : i < j => After(op, cmds[i], cmds[j])
  BY PlanFacts DEF UInv, Shaped
<1>1. PICK n \in DOMAIN cmds : cmds[n] = "try-restart"
  BY DEF UInv, Shaped, Has
<1>2. \A i \in DOMAIN cmds : cmds[i] = "try-restart" => ~\E j \in DOMAIN cmds : i < j
  BY <1>0 DEF After
<1>3. n = Len(plan)
  <2>1. ~(n < Len(plan)) BY <1>0, <1>1, <1>2
  <2> QED BY <1>0, <1>1, <2>1
<1>4. (CHOOSE i \in DOMAIN cmds : cmds[i] = "try-restart") = Len(plan)
  <2>1. \A i \in DOMAIN cmds : cmds[i] = "try-restart" => i = Len(plan)
    <3>1. Len(plan) \in DOMAIN cmds BY <1>1, <1>3
    <3>2. \A i \in DOMAIN cmds : cmds[i] = "try-restart" => ~(i < Len(plan)) BY <1>2, <3>1
    <3> QED BY <1>0, <3>2
  <2> QED BY <1>1, <2>1
<1>5. {j \in 1 .. Len(plan) : cmds[j] # "file"} = CommandsBefore(Len(plan) + 1)
  <2>1. \A j \in DOMAIN plan : plan[j] \in CommandChange <=> j \notin FileSteps(plan)
    BY <1>0 DEF FileSteps, Change, FileChange, CommandChange
  <2> QED BY <1>0, <2>1 DEF CommandsBefore
<1>6. Len(outputs) = Cardinality(CommandsBefore(Len(plan) + 1))
  BY DEF Answering
<1> QED BY <1>4, <1>5, <1>6 DEF Advisory

LEMMA StopIsFirst ==
  ASSUME UInv, IInv, op.verb = "delete"
  PROVE  Advisory("disable") = outputs[1]
<1>0. /\ Len(plan) \in Nat /\ DOMAIN plan = 1 .. Len(plan) /\ DOMAIN cmds = 1 .. Len(plan)
      /\ \A i, j \in DOMAIN plan : i < j => After(op, cmds[i], cmds[j])
  BY PlanFacts DEF UInv, Shaped
<1>1. PICK n \in DOMAIN cmds : cmds[n] = "disable"
  BY DEF UInv, Shaped, Has
<1>2. \A i \in DOMAIN cmds : cmds[i] = "disable" => ~\E j \in DOMAIN cmds : j < i
  BY <1>0 DEF After
<1>3. 1 \in DOMAIN cmds BY <1>0, <1>1
<1>4. \A i \in DOMAIN cmds : cmds[i] = "disable" => i = 1
  <2>1. \A i \in DOMAIN cmds : cmds[i] = "disable" => ~(1 < i) BY <1>2, <1>3
  <2> QED BY <1>0, <2>1
<1>5. (CHOOSE i \in DOMAIN cmds : cmds[i] = "disable") = 1 BY <1>1, <1>4
<1>6. cmds[1] = "disable" BY <1>1, <1>4
<1>7. {j \in 1 .. 1 : cmds[j] # "file"} = {1} BY <1>6
<1>8. Cardinality({1}) = 1 BY FS_Singleton
<1> QED BY <1>5, <1>7, <1>8 DEF Advisory

(* verify_loaded and the exits of systemctl: what is reported as done is   *)
(* what is on disk, what the manager has loaded, and how the timer is set, *)
(* whatever was refused, lost or rolled back on the way.                   *)
THEOREM SystemdSuccessIsInEffect == USpec => []SuccessIsInEffect
<1>1. EInv => SuccessIsInEffect
  <2> SUFFICES ASSUME EInv, Succeeded PROVE SuccessIsInEffect
    BY DEF SuccessIsInEffect
  <2>1. /\ UInv /\ IInv /\ Answering /\ UnderEffect /\ phase = "ok" /\ ~dry /\ touched = {}
        /\ Shaped /\ op \in Ops
    BY DEF EInv, Answered, Succeeded, UInv, TakenBack
  <2>2. /\ DOMAIN cmds = 1 .. Len(plan) /\ Len(plan) \in Nat /\ next = Len(plan) + 1
        /\ text \in [Paths -> Contents] /\ text0 \in [Paths -> Contents]
    BY <2>1, PlanFacts DEF Answering, TypeOK
  <2>3. \A c : Has(c) => Passed(c) BY <2>2 DEF Has, Passed
  <2>4. /\ Paths = {timer, service} /\ timer # service /\ Texts = {theirs, mine, new}
        /\ theirs \notin {mine, new}
    BY SystemdAssumption
  <2>5. \A p \in Paths : Puts(p) => text[p] = (IF op.verb = "delete" THEN Absent ELSE new)
    <3>1. ASSUME NEW p \in Paths, NEW i \in FileSteps(plan), plan[i].path = p
          PROVE  text[p] = (IF op.verb = "delete" THEN Absent ELSE new)
      <4>1. text[plan[i].path] = plan[i].after BY <2>1, InPlace
      <4>2. plan[i].after = (IF op.verb = "delete" THEN Absent ELSE new) BY <2>1 DEF Shaped
      <4> QED BY <3>1, <4>1, <4>2
    <3> QED BY <3>1 DEF Puts
  <2>6. op.verb # "switch" => loaded = text /\ Puts(timer)
    BY <2>1, <2>3 DEF Shaped, UnderEffect
  <2>7. op.verb = "create" => text = [p \in Paths |-> new]
    <3> SUFFICES ASSUME op.verb = "create" PROVE \A p \in Paths : text[p] = new
      BY <2>2
    <3>1. Puts(timer) /\ Puts(service) BY <2>1 DEF Shaped
    <3> QED BY <2>4, <2>5, <3>1
  <2>8. op.verb \in {"update", "delete"} /\ ~Puts(service) => ~Marked(text[service])
    <3> SUFFICES ASSUME op.verb \in {"update", "delete"}, ~Puts(service)
                 PROVE  ~Marked(text[service])
      OBVIOUS
    <3>1. ~Marked(text0[service]) BY <2>1 DEF Shaped
    <3>2. service \notin Planned BY DEF Puts, Planned
    <3>3. text[service] = text0[service] BY <2>1, <2>4, <3>2 DEF IInv, OnDisk
    <3> QED BY <3>1, <3>3
  <2>9. op.verb = "update" => text[timer] = new /\ text[service] # mine
    <3> SUFFICES ASSUME op.verb = "update" PROVE text[timer] = new /\ text[service] # mine
      OBVIOUS
    <3>1. text[timer] = new BY <2>4, <2>5, <2>6
    <3>2. CASE Puts(service)
      <4>1. text[service] = new BY <2>4, <2>5, <3>2
      <4>2. text0[service] \in {mine, new} /\ text0[service] # new
        <5>1. PICK i \in FileSteps(plan) : plan[i].path = service BY <3>2 DEF Puts
        <5>2. Marked(text0[service]) BY <2>1, <5>1 DEF Shaped
        <5> QED BY <2>1, <2>4, <5>2 DEF Marked, UInv
      <4> QED BY <3>1, <4>1, <4>2
    <3>3. CASE ~Puts(service) BY <2>8, <3>1, <3>3 DEF Marked
    <3> QED BY <3>1, <3>2, <3>3
  <2>10. op.verb = "delete" => text[timer] = Absent /\ ~Marked(text[service])
    <3> SUFFICES ASSUME op.verb = "delete" PROVE text[timer] = Absent /\ ~Marked(text[service])
      OBVIOUS
    <3>1. text[timer] = Absent BY <2>4, <2>5, <2>6
    <3>2. Absent \notin {mine, new} BY <2>4, HostAssumption
    <3>3. CASE Puts(service)
      <4>1. text[service] = Absent BY <2>4, <2>5, <3>3
      <4> QED BY <3>1, <3>2, <4>1 DEF Marked
    <3>4. CASE ~Puts(service) BY <2>8, <3>1, <3>4
    <3> QED BY <3>1, <3>3, <3>4
  <2>11. op.verb # "delete" /\ op.on =>
           link = "enabled" /\ (op.verb # "update" => running # Absent)
    BY <2>1, <2>3 DEF Shaped, UnderEffect
  <2>12. op.verb \in {"update", "switch"} /\ ~op.on => link # "enabled" /\ running = Absent
    <3> SUFFICES ASSUME op.verb \in {"update", "switch"}, ~op.on
                 PROVE  link # "enabled" /\ running = Absent
      OBVIOUS
    <3>1. Has("disable") \/ Has("stop") BY <2>1 DEF Shaped
    <3>2. Passed("stop") \/ (Passed("disable") /\ op.verb # "delete") BY <2>3, <3>1
    <3> QED BY <2>1, <3>2 DEF UnderEffect
  <2>15. op.verb = "create" =>
           /\ text0[timer] \in {Absent, mine} /\ mine # Absent
           /\ Passed("enable") => op.on
    <3>1. op.verb = "create" => text0[timer] \notin {theirs, new}
      BY <2>1, <2>4 DEF UInv
    <3>2. Passed("enable") => op.on BY <2>1 DEF Passed, Shaped
    <3> QED BY <2>2, <2>4, <3>1, <3>2, HostAssumption DEF Contents
  <2>16. op.verb \in {"create", "switch"} /\ op.on =>
           running = text[timer] \/ (CreatedOver /\ running = mine)
    <3>1. CASE op.verb = "switch" BY <2>1, <2>11, <3>1 DEF UnderEffect
    <3>2. CASE op.verb = "create" /\ op.on
      <4>1. running # Absent /\ running \in {Absent, text0[timer], new}
        BY <2>1, <2>11, <3>2 DEF UnderEffect
      <4>2. text[timer] = new BY <2>4, <2>7, <3>2
      <4> QED BY <2>15, <3>2, <4>1, <4>2 DEF CreatedOver
    <3> QED BY <3>1, <3>2
  <2>17. op.verb # "delete" /\ ~op.on => (link # "enabled" /\ running = Absent) \/ CreatedOver
    <3>1. CASE op.verb = "create" /\ ~op.on
      BY <2>1, <2>15, <3>1 DEF UnderEffect, CreatedOver
    <3>2. op.verb \in {"create", "update", "delete", "switch"} BY <2>1 DEF Ops, Verbs
    <3> QED BY <2>12, <3>1, <3>2
  <2>13. op.verb = "update" /\ Advisory("try-restart") = "zero" => running \in {Absent, new}
    <3> SUFFICES ASSUME op.verb = "update", Advisory("try-restart") = "zero"
                 PROVE  running \in {Absent, new}
      OBVIOUS
    <3>1. Has("try-restart") BY <2>1 DEF Shaped
    <3>2. outputs[Len(outputs)] = "zero" BY <2>1, RestartIsLast
    <3> QED BY <2>1, <2>3, <3>1, <3>2 DEF UnderEffect
  <2>14. op.verb = "delete" /\ Advisory("disable") = "zero" => running = Absent
    <3> SUFFICES ASSUME op.verb = "delete", Advisory("disable") = "zero" PROVE running = Absent
      OBVIOUS
    <3>1. Has("disable") BY <2>1 DEF Shaped
    <3>2. outputs[1] = "zero" BY <2>1, StopIsFirst
    <3> QED BY <2>1, <2>3, <3>1, <3>2 DEF UnderEffect
  <2> QED BY <2>6, <2>7, <2>9, <2>10, <2>11, <2>13, <2>14, <2>16, <2>17
    DEF SuccessIsInEffect
<1> QED BY <1>1, SystemdInvariant, PTL
=============================================================================
