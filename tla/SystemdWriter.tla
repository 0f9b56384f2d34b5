---------------------------- MODULE SystemdWriter ----------------------------
(***************************************************************************)
(* The systemd writer (write/systemd.rs) on one timer and its service: the *)
(* plans it hands to the executor of PlanExecutor, what the commands in    *)
(* them do to the service manager, and the check after a creation.         *)
(*                                                                         *)
(* A unit file holds text without our marker ("theirs"), text a former run *)
(* wrote ("mine"), or what this mutation renders ("new").  The manager     *)
(* goes by the files it last loaded, and an active timer by the ones it    *)
(* was last started with.                                                  *)
(***************************************************************************)
EXTENDS PlanExecutor

CONSTANTS timer, service, theirs, mine, new,
          UserScope     (* scope == Scope::User                            *)

ASSUME SystemdAssumption ==
  /\ Paths = {timer, service} /\ timer # service
  /\ Texts = {theirs, mine, new} /\ theirs \notin {mine, new}
  /\ UserScope \in BOOLEAN

VARIABLES
  op,        (* the mutation                                               *)
  valid,     (* whether the manager accepts what op renders                *)
  analyze,   (* whether systemd-analyze is installed                       *)
  cmds,      (* the command behind every change of the plan, or "file"     *)
  loaded,    (* the unit files as the manager last loaded them             *)
  link,      (* UnitFileState of the timer                                 *)
  running,   (* what the active timer was started with, Absent if inactive *)
  verdict    (* what the operator is told                                  *)

manager == <<loaded, link, running>>
request == <<op, valid, analyze, cmds>>
uvars == <<vars, request, manager, verdict>>

Verbs == {"create", "update", "delete", "switch"}
Ops == [verb: Verbs, on: BOOLEAN]

UTypeOK ==
  /\ TypeOK
  /\ op \in Ops /\ valid \in BOOLEAN /\ analyze \in BOOLEAN
  /\ Len(cmds) = Len(plan)
  /\ loaded \in [Paths -> Contents]
  /\ link \in {"enabled", "disabled", "static"}
  /\ running \in Contents
  /\ verdict \in {"none", "ok", "error"}

-----------------------------------------------------------------------------
(* The plans, as pairs of a command name and a change; t are the files.    *)
Run(cmd, onFail) == <<[cmd |-> cmd, change |-> [kind |-> "command", onFail |-> onFail]]>>

File(p, t, after) ==
  <<[cmd |-> "file", change |-> [kind |-> "file", path |-> p, before |-> t[p],
                                 after |-> after, mode |-> DefaultMode]]>>

(* Mutant of Marked: any file will do.                                     *)
AnyText(content) == content # Absent

(* text.contains(MANAGED_MARKER)                                           *)
Marked(content) == content \in {mine, new}

(* Mutant of Reload: its failure is passed over.                           *)
ReloadIgnored == Run("reload", "ignore")
Reload == Run("reload", "error")
Enable == Run("enable", "error")
Disable(onFail) == Run("disable", onFail)

CreateSteps(on, t, check) ==
  (IF UserScope THEN Run("mkdir", "error") ELSE <<>>)
    \o (IF check THEN Run("check", "error") ELSE <<>>)
    \o File(timer, t, new) \o File(service, t, new)
    \o Reload \o (IF on THEN Enable ELSE <<>>)

UpdateSteps(on, t) ==
  File(timer, t, new)
    \o (IF Marked(t[service]) THEN File(service, t, new) ELSE <<>>)
    \o Reload \o (IF on THEN Enable ELSE Disable("error"))
    \o Run("try-restart", "ignore")

DeleteSteps(t) ==
  Disable("ignore")
    \o File(timer, t, Absent)
    \o (IF Marked(t[service]) THEN File(service, t, Absent) ELSE <<>>)
    \o Reload \o Run("reset-failed", "ignore")

SwitchSteps(on, state) ==
  IF on THEN Enable ELSE IF state = "static" THEN Run("stop", "error") ELSE Disable("error")

Steps(o, t, state, check) ==
  CASE o.verb = "create" -> CreateSteps(o.on, t, check)
    [] o.verb = "update" -> UpdateSteps(o.on, t)
    [] o.verb = "delete" -> DeleteSteps(t)
    [] o.verb = "switch" -> SwitchSteps(o.on, state)

Changes(steps) == [i \in DOMAIN steps |-> steps[i].change]

(* read_existing, check_calendar, locate and the UnitFileState test: an    *)
(* operation they refuse makes no plan.  A one-file timer of the operator  *)
(* may be static; the other timers have an [Install] section.              *)
Accepted ==
  /\ op.verb = "create" => /\ text[timer] # theirs /\ text[service] # theirs
                           /\ analyze => valid
  /\ op.verb # "create" => text[timer] # Absent
  /\ op.verb = "switch" /\ op.on => link # "static"

UInit ==
  /\ Init
  /\ \A p \in Paths : text[p] # new
  /\ loaded = text
  /\ link \in {"enabled", "disabled", "static"}
  /\ link = "static" => text[timer] = theirs
  /\ running \in {Absent, text[timer]}
  /\ text[timer] = Absent => link = "disabled"
  /\ op \in Ops /\ valid \in BOOLEAN /\ analyze \in BOOLEAN
  /\ op.verb = "delete" => ~op.on
  /\ Accepted
  /\ LET steps == Steps(op, text, link, analyze)
     IN plan = Changes(steps) /\ cmds = [i \in DOMAIN steps |-> steps[i].cmd]
  /\ verdict = "none"

-----------------------------------------------------------------------------
(* What systemctl does, when it succeeds and when it does not.             *)
Loads(content) == content # Absent /\ (content = new => valid)

Reloaded ==
  /\ loaded' = text
  /\ link' = IF link = "static" /\ text[timer] = new THEN "disabled" ELSE link
  /\ UNCHANGED running

Enabled(done) ==
  /\ done => Loads(loaded[timer])
  /\ link' \in (IF done THEN {"enabled"} ELSE {link, "enabled"})
  /\ running' = IF done /\ running = Absent THEN loaded[timer] ELSE running
  /\ UNCHANGED loaded

Stopped(state) == link' = state /\ running' = Absent /\ UNCHANGED loaded

Restarted(done) ==
  /\ done /\ running # Absent => Loads(loaded[timer])
  /\ running' \in (IF running = Absent THEN {Absent}
                   ELSE IF done THEN {loaded[timer]} ELSE {running, Absent})
  /\ UNCHANGED <<loaded, link>>

Effect(cmd, done) ==
  CASE cmd = "reload" /\ done -> Reloaded
    [] cmd = "enable" -> Enabled(done)
    [] cmd = "disable" /\ done -> Stopped(IF link = "static" THEN link ELSE "disabled")
    [] cmd = "stop" /\ done -> Stopped(link)
    [] cmd = "try-restart" -> Restarted(done)
    [] cmd = "check" /\ done -> valid /\ UNCHANGED manager
    [] OTHER -> UNCHANGED manager

Command ==
  /\ RunCommand
  /\ Effect(cmds[next], outputs'[Len(outputs')] = "zero")
  /\ UNCHANGED <<request, verdict>>

CommandFails ==
  /\ RunCommandFails
  /\ UNCHANGED manager \/ Effect(cmds[next], TRUE)
  /\ UNCHANGED <<request, verdict>>

FileWork ==
  /\ \/ DryRun \/ FileStep \/ FileStepFails \/ Finish \/ RolledBack
     \/ \E i \in applied : Undo(i) \/ UndoFails(i)
  /\ UNCHANGED <<request, manager, verdict>>

-----------------------------------------------------------------------------
(* The answer.  Only a creation looks at what the manager made of it.      *)
Created == phase = "ok" /\ ~dry /\ op.verb = "create"

Report ==
  /\ verdict = "none"
  /\ \/ phase = "error" /\ verdict' = "error"
     \/ phase = "ok" /\ ~Created /\ verdict' = "ok"
     \/ Created /\ Loads(loaded[timer]) /\ verdict' = "ok"
     \/ (* the question itself failed *)
        Created /\ Faults # {} /\ verdict' = "error"
  /\ UNCHANGED <<vars, request, manager>>

(* verify_loaded: LoadState is not "loaded".  What is done about it may    *)
(* fail, and nobody looks.                                                 *)
TakeBack ==
  /\ verdict = "none" /\ Created /\ ~Loads(loaded[timer])
  /\ \E removed \in (IF "refused" \in Faults THEN SUBSET Paths ELSE {Paths}) :
       text' = [p \in Paths |-> IF p \in removed THEN Absent ELSE text[p]]
  /\ loaded' = text' \/ (Faults # {} /\ UNCHANGED loaded)
  /\ verdict' = "error"
  /\ UNCHANGED <<plan, dry, perm, phase, next, applied, notes, outputs, history, request, link,
                 running>>

Killed == Kill /\ UNCHANGED <<request, manager, verdict>>

Over == (verdict # "none" \/ phase = "killed") /\ UNCHANGED uvars

UNext == Command \/ CommandFails \/ FileWork \/ Report \/ TakeBack \/ Killed \/ Over

USpec == UInit /\ [][UNext]_uvars

-----------------------------------------------------------------------------
(* A success is in effect: the files are in place, the manager has loaded  *)
(* them, and the timer is on or off as it was asked to be, on the schedule *)
(* of its file.  Two advisory commands may have failed unnoticed: the      *)
(* restart after an update, and the stop before a deletion.  And a         *)
(* creation over a timer of ours asks for nothing but what it would of a   *)
(* new one: it neither disables or stops that timer when it was to be off, *)
(* nor restarts it when it runs, on its old schedule, and was to be on.    *)
Advisory(cmd) ==
  LET i == CHOOSE i \in DOMAIN cmds : cmds[i] = cmd
  IN outputs[Cardinality({j \in 1 .. i : cmds[j] # "file"})]
Succeeded == verdict = "ok" /\ ~dry
CreatedOver == op.verb = "create" /\ text0[timer] = mine
SuccessIsInEffect ==
  Succeeded =>
    /\ op.verb # "switch" => loaded = text
    /\ op.verb = "create" => text = [p \in Paths |-> new]
    /\ op.verb = "update" => text[timer] = new /\ text[service] # mine
    /\ op.verb = "delete" => text[timer] = Absent /\ ~Marked(text[service])
    /\ op.verb # "delete" /\ op.on => link = "enabled"
    /\ op.verb \in {"create", "switch"} /\ op.on =>
         running = text[timer] \/ (CreatedOver /\ running = mine)
    /\ op.verb # "delete" /\ ~op.on => (link # "enabled" /\ running = Absent) \/ CreatedOver
    /\ op.verb = "update" /\ Advisory("try-restart") = "zero" => running \in {Absent, new}
    /\ op.verb = "delete" /\ Advisory("disable") = "zero" => running = Absent

(* A service without the marker is left alone by every operation, its      *)
(* failures, its rollback and the check after a creation.                  *)
TheirServiceSurvives ==
  /\ text0[service] = theirs => text[service] = theirs
  /\ op.verb = "create" /\ text0[timer] = theirs => text[timer] = theirs
=============================================================================
