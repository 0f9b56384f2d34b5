---------------------------- MODULE LaunchdWriter ----------------------------
(***************************************************************************)
(* The launchd writer (write/launchd.rs) on one label: the plans it hands  *)
(* to the executor of PlanExecutor, one request after another, what the    *)
(* launchctl commands in them do, and logins in between.                   *)
(*                                                                         *)
(* A label may have a plist in several directories; a directory belongs to *)
(* a domain, and a domain runs at most one job of that label.  A plist is  *)
(* ours or somebody else's, may carry `Disabled`, and has a version that   *)
(* every edit changes.  `launchctl disable` and `enable` write a database  *)
(* that wins over `Disabled` and survives a login.                         *)
(***************************************************************************)
EXTENDS PlanExecutor

CONSTANTS
  Dirs,      (* writable_dirs: the paths of the label, in lookup order     *)
  agent,     (* the plist in the operator's home                           *)
  daemon,    (* the plist in SYSTEM_DAEMON_DIR                             *)
  MaxAsks    (* bound on the requests                                      *)

ASSUME LaunchdAssumption ==
  /\ Dirs \in Seq(Paths) /\ {Dirs[i] : i \in DOMAIN Dirs} = Paths
  /\ {agent, daemon} \subseteq Paths /\ agent # daemon
  /\ Texts = [mine: BOOLEAN, off: BOOLEAN, version: {1, 2}]
  /\ Absent \notin [path: Paths, text: Texts]
  /\ MaxAsks \in Nat

VARIABLES
  op,        (* the request being served                                   *)
  cmds,      (* the command behind every change of the plan, or "file"     *)
  loaded,    (* the job launchd runs in a domain                           *)
  override,  (* what its database says of the label in a domain            *)
  want,      (* history: what the operator last asked of a domain          *)
  strayed,   (* history: a plist was changed under a job in one of the two *)
             (* ways that LoadedIsOnDisk names                             *)
  booted,    (* history: a login since the last request                    *)
  asked      (* history: how many requests                                 *)

request == <<op, cmds, want, asked>>
launchd == <<loaded, override>>
lvars == <<vars, request, launchd, strayed, booted>>

Domains == {"gui", "system"}
Domain(p) == IF p = daemon THEN "system" ELSE "gui"
Job(p) == [path |-> p, text |-> text[p]]
Jobs == [path: Paths, text: Texts]

Ops == [verb: {"create", "update", "delete", "switch"}, on: BOOLEAN, path: Paths]

LTypeOK ==
  /\ TypeOK
  /\ op \in Ops
  /\ Len(cmds) = Len(plan)
  /\ loaded \in [Domains -> Jobs \cup {Absent}]
  /\ \A d \in Domains : loaded[d] # Absent => Domain(loaded[d].path) = d
  /\ override \in [Domains -> {"none", "enabled", "disabled"}]
  /\ want \in [Domains -> {"none", "up", "down"}]
  /\ strayed \in BOOLEAN /\ booted \in BOOLEAN
  /\ asked \in 0 .. MaxAsks

-----------------------------------------------------------------------------
(* The plans, as pairs of a command name and a change.                     *)
Run(cmd, onFail) == <<[cmd |-> cmd, change |-> [kind |-> "command", onFail |-> onFail]]>>

File(p, after) ==
  <<[cmd |-> "file", change |-> [kind |-> "file", path |-> p, before |-> text[p],
                                 after |-> after, mode |-> DefaultMode]]>>

Bootout == Run("bootout", "allow")
Enable == Run("enable", "ignore")

(* Mutant of Bootstrap: its failure is passed over.                        *)
BootstrapIgnored == Run("bootstrap", "ignore")
Bootstrap == Run("bootstrap", "error")

(* Mutant of Disable: no override is written.                              *)
DisableForgotten == <<>>
Disable == Run("disable", "error")

OtherVersion(content) == 3 - content.version

(* render_plist                                                            *)
Rendered(content) ==
  [mine |-> TRUE, off |-> FALSE,
   version |-> IF content = Absent THEN 1 ELSE OtherVersion(content)]

(* Mutant of Edited: every plist is regenerated.                           *)
Regenerated(content) == Rendered(content)

(* An update regenerates a plist of ours; merge_into keeps the keys of any *)
(* other one, `Disabled` among them.                                       *)
Edited(content) ==
  IF content.mine THEN Rendered(content)
  ELSE [content EXCEPT !.version = OtherVersion(content)]

Load(on) == IF on THEN Enable \o Bootstrap ELSE <<>>

CreateSteps(p, on, listed) ==
  (IF listed THEN Bootout ELSE <<>>)
    \o (IF p = agent THEN Run("mkdir", "error") ELSE <<>>)
    \o File(p, Rendered(text[p])) \o Load(on)

(* Mutant of UpdateSteps: the file first.                                  *)
UpdateStepsLate(p, on) == File(p, Edited(text[p])) \o Bootout \o Load(on)

UpdateSteps(p, on) == Bootout \o File(p, Edited(text[p])) \o Load(on)

DeleteSteps(p) == Bootout \o File(p, Absent)

SwitchSteps(on) == IF on THEN Load(TRUE) ELSE Bootout \o Disable

-----------------------------------------------------------------------------
(* Requests.  The listing has a row per plist; the CLI refuses an id with  *)
(* more than one row, the interface acts on the row selected.              *)
Rows == {p \in Paths : text[p] # Absent}
Unique == Cardinality(Rows) = 1

(* launchctl, asked without privilege, names the jobs of the operator's    *)
(* own domain, by label.                                                   *)
InList == loaded["gui"] # Absent

(* ScheduledTask::enabled, and what `unwrap_or(true)` makes of it.         *)
Enabled(p) == IF InList THEN "yes" ELSE IF text[p].off THEN "no" ELSE "none"
TakenAsEnabled(p) == Enabled(p) # "no"

(* locate without a hint, as in delete and set_enabled                     *)
Located(p) ==
  LET first == CHOOSE i \in DOMAIN Dirs :
                 /\ text[Dirs[i]] # Absent
                 /\ \A j \in 1 .. i - 1 : text[Dirs[j]] = Absent
  IN p = Dirs[first]

Barred(d, content) == override[d] = "disabled" \/ (override[d] = "none" /\ content.off)

(* Hand a plan to the executor; a request starts from the files as they    *)
(* are.                                                                    *)
Ask(verb, on, p, steps) ==
  /\ phase \in {"ok", "error", "killed"} /\ asked < MaxAsks
  /\ op' = [verb |-> verb, on |-> on, path |-> p]
  /\ plan' = [i \in DOMAIN steps |-> steps[i].change]
  /\ cmds' = [i \in DOMAIN steps |-> steps[i].cmd]
  /\ want' = [want EXCEPT ![Domain(p)] = IF @ = "down" /\ ~on THEN @ ELSE "none"]
  /\ asked' = asked + 1 /\ booted' = FALSE
  /\ phase' = "running" /\ next' = 1
  /\ applied' = {} /\ notes' = {} /\ outputs' = <<>>
  /\ text0' = text /\ perm0' = perm /\ unsure' = {}
  /\ UNCHANGED <<dry, host, touched, edits, launchd>>

(* A creation replaces a plist of ours without unloading its job.          *)
Unseen(p, listed) == ~listed /\ loaded[Domain(p)] # Absent

(* loaded_labels gives no label at all when launchctl does not answer.     *)
Create(p, on) ==
  \E listed \in (IF Faults = {} THEN {InList} ELSE {InList, FALSE}) :
    /\ text[p] # Absent => text[p].mine
    /\ listed => text[p] # Absent
    /\ Ask("create", on, p, CreateSteps(p, on, listed))
    /\ strayed' = (strayed \/ Unseen(p, listed))

Update(p, on) ==
  /\ p \in Rows
  /\ Ask("update", on, p, UpdateSteps(p, on))
  /\ UNCHANGED strayed

Delete(p) ==
  /\ p \in Rows /\ Located(p)
  /\ Ask("delete", FALSE, p, DeleteSteps(p))
  /\ UNCHANGED strayed

SetEnabled(p, on) ==
  /\ p \in Rows /\ Unique
  /\ Ask("switch", on, p, SwitchSteps(on))
  /\ UNCHANGED strayed

(* The key `t` on a row: what is flipped is what the row says.             *)
Toggle(row, p) ==
  /\ row \in Rows /\ p \in Rows /\ Located(p)
  /\ LET on == ~TakenAsEnabled(row) IN Ask("switch", on, p, SwitchSteps(on))
  /\ UNCHANGED strayed

Request ==
  \E p \in Paths :
    \/ \E on \in BOOLEAN : Create(p, on) \/ Update(p, on) \/ SetEnabled(p, on)
    \/ Delete(p)
    \/ \E row \in Paths : Toggle(row, p)

-----------------------------------------------------------------------------
(* What launchctl does, when it succeeds and when it does not.             *)
D == Domain(op.path)

Loadable(p) ==
  /\ text[p] # Absent /\ ~Barred(Domain(p), text[p])
  /\ loaded[Domain(p)] = Absent

Effect(cmd) ==
  CASE cmd = "bootout" ->
         /\ loaded[D] # Absent
         /\ loaded' = [loaded EXCEPT ![D] = Absent] /\ UNCHANGED override
    [] cmd = "bootstrap" ->
         /\ Loadable(op.path)
         /\ loaded' = [loaded EXCEPT ![D] = Job(op.path)] /\ UNCHANGED override
    [] cmd = "enable" -> override' = [override EXCEPT ![D] = "enabled"] /\ UNCHANGED loaded
    [] cmd = "disable" -> override' = [override EXCEPT ![D] = "disabled"] /\ UNCHANGED loaded
    [] cmd = "mkdir" -> UNCHANGED launchd

(* Exit 3 of bootout: there was nothing to unload.                         *)
Command ==
  /\ RunCommand
  /\ LET cmd == cmds[next]
         exit == outputs'[Len(outputs')]
     IN /\ exit = "listed" => cmd = "bootout" /\ loaded[D] = Absent
        /\ IF exit = "zero" THEN Effect(cmd) ELSE UNCHANGED launchd
  /\ want' = IF phase' = "running" /\ next' > Len(plan) /\ (op.on \/ op.verb = "switch")
             THEN [want EXCEPT ![D] = IF op.on THEN "up" ELSE "down"] ELSE want
  /\ UNCHANGED <<op, cmds, asked, strayed, booted>>

CommandFails ==
  /\ RunCommandFails
  /\ \/ UNCHANGED <<launchd, strayed>>
     \/ /\ "lost" \in Faults
        /\ Effect(cmds[next])
        /\ strayed' = (strayed \/ cmds[next] = "bootstrap")
  /\ UNCHANGED <<request, booted>>

FileWork ==
  /\ \/ FileStep \/ FileStepFails \/ Finish \/ RolledBack
     \/ \E i \in applied : Undo(i) \/ UndoFails(i)
  /\ UNCHANGED <<request, launchd, strayed, booted>>

Killed == Kill /\ UNCHANGED <<request, launchd, strayed, booted>>

(* A new login session, or a boot: every plist launchd finds and may load. *)
Login ==
  /\ phase \in {"ok", "error", "killed"} /\ ~booted
  /\ booted' = TRUE
  /\ loaded' \in [Domains -> {Job(p) : p \in Rows} \cup {Absent}]
  /\ \A d \in Domains :
       LET found == {p \in Rows : Domain(p) = d /\ ~Barred(d, text[p])}
       IN IF found = {} THEN loaded'[d] = Absent ELSE loaded'[d] \in {Job(p) : p \in found}
  /\ UNCHANGED <<vars, request, override, strayed>>

Over == asked = MaxAsks /\ booted /\ UNCHANGED lvars

LInit ==
  /\ Init /\ plan = <<>> /\ ~dry
  /\ \A p \in Paths : text[p] # Absent =>
       text[p].version = 1 /\ (text[p].mine => ~text[p].off)
  /\ loaded \in [Domains -> {Job(p) : p \in Rows} \cup {Absent}]
  /\ \A d \in Domains : loaded[d] # Absent => Domain(loaded[d].path) = d
  /\ override \in [Domains -> {"none", "enabled", "disabled"}]
  /\ op = [verb |-> "create", on |-> FALSE, path |-> agent]
  /\ cmds = <<>>
  /\ want = [d \in Domains |-> "none"]
  /\ strayed = FALSE /\ booted = FALSE /\ asked = 0

LNext == Request \/ Command \/ CommandFails \/ FileWork \/ Killed \/ Login \/ Over

LSpec == LInit /\ [][LNext]_lvars

-----------------------------------------------------------------------------
(* A success is in effect: what was asked to be on is loaded from the      *)
(* plist as it is now, what was asked to be off, or deleted, is not        *)
(* loaded.  A creation that is off says nothing of a job it did not see.   *)
SuccessIsInEffect ==
  phase = "ok" /\ asked > 0 /\ ~booted =>
    /\ op.on => loaded[D] = Job(op.path)
    /\ ~op.on /\ op.verb # "create" => loaded[D] = Absent
    /\ op.verb = "delete" => text[op.path] = Absent

(* What launchd runs is what the plist it was loaded from says, whatever   *)
(* fails and whenever the program is killed: the job is unloaded before    *)
(* its plist is written.  Two things break it: a creation that replaces a  *)
(* plist whose job launchctl did not list, and a rollback after a load     *)
(* that took effect although it was reported as failed.                    *)
LoadedIsOnDisk ==
  ~strayed => \A d \in Domains : loaded[d] # Absent => loaded[d] = Job(loaded[d].path)

(* What was disabled stays down over logins, failures and edits until the  *)
(* operator asks for it to be on, and what was put on comes back at login. *)
StaysAsAsked ==
  \A d \in Domains :
    /\ want[d] = "down" => loaded[d] = Absent
    /\ want[d] = "up" /\ booted => loaded[d] # Absent

(* A plist of somebody else stays theirs, with its `Disabled`, until it is *)
(* deleted on request; a rollback never makes it ours either.              *)
TheirsStayTheirs ==
  [][\A p \in Paths : text[p] # Absent /\ text'[p] # text[p] /\ ~text[p].mine =>
       IF text'[p] = Absent THEN op.verb = "delete" /\ op.path = p
       ELSE ~text'[p].mine /\ text'[p].off = text[p].off]_text
=============================================================================
