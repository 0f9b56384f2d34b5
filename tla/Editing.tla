------------------------------- MODULE Editing -------------------------------
(***************************************************************************)
(* One job as the operator types it, lists it and edits it again, with the *)
(* command line (merge_edit in ops.rs) or the form of the terminal         *)
(* interface (form.rs): which job an edit addresses, what becomes of its   *)
(* schedule, and what is refused.  How the files are written is the        *)
(* writers' matter and taken to succeed.                                   *)
(***************************************************************************)
EXTENDS JobIds, Conversions

CONSTANTS
  Sources,        (* \subseteq {"cron", "systemd", "anacron", "launchd"}     *)
  Texts(_),       (* what the operator types for a source                  *)
  Retyped(_),     (* the same, for an edit                                 *)
  NewTargets,     (* where a job may be asked for                          *)
  TheirJobs       (* jobs found on the machine: [target, disk, command]    *)

(* A command as a scheduler runs it: what it says, and how many times      *)
(* "/bin/sh -c" is written before that.  none: blank; comment: "# ...";    *)
(* chain: one with " ; " in it.  MostShells stands for itself and more.    *)
MostShells == 2
Commands == [text : {"run", "none", "comment", "chain"}, shells : 0..MostShells]
NoCommand == [text |-> "none", shells |-> 0]
TypedCommands == {c \in Commands : c.shells = 0}

(* A job is asked for in a file or under a name of its own, never as a     *)
(* script, and in the crontab of a user with a name shuvjobs takes.        *)
MayBeNew(t) == t.kind # "script" /\ (t.source = "cron" /\ t.kind = "user" => Safe(t.at))
ASSUME TargetsAssumption ==
  /\ \A t \in NewTargets : WellPlaced(t) /\ MayBeNew(t)
  /\ \A j \in TheirJobs : WellPlaced(j.target)

(* What stands for a number in a text is one, and so on.                   *)
Parts ==
  {p \in [body : {"*", "one", "span"}, from : Nat, to : Nat, step : Nat] : p.body = "one" => p.from = p.to}
Formed(text) ==
  /\ text[1] # "after"
  /\ text[1] = "number" => text[2] \in Nat
  /\ text[1] = "interval" => text[2] \in Nat /\ text[3] \in DOMAIN PerUnit
  /\ text[1] = "fields" => {text[2].min, text[2].hour, text[2].dom, text[2].dow} \subseteq Seq(Parts) \ {<<>>}
ASSUME TextsAssumption == \A s \in Sources : \A text \in Texts(s) \cup Retyped(s) : Formed(text)

(* What a reader can find in a file: rules, as it takes them.              *)
Held(s, d) ==
  \/ s = "cron" /\ d[1] \in {"word", "fields"}
  \/ s = "systemd" /\ (d[1] = "calendar" \/ (d[1] = "interval" /\ d[2] \in Nat /\ d[3] = "s"))
  \/ s = "anacron" /\ (IsWord(d, AnacronAliases) \/ (d[1] = "number" /\ d[2] \in Nat))
  \/ s = "launchd" /\ (d[1] = "dicts" \/ (d[1] = "number" /\ d[2] \in Nat))
HeldRules(s, rules) ==
  /\ Len(rules) \in Nat \ {0} /\ DOMAIN rules = 1..Len(rules)
  /\ s \in {"cron", "anacron"} => Len(rules) = 1
  /\ \A i \in DOMAIN rules : Held(s, AsRhythm(rules[i]))
ASSUME JobsAssumption ==
  \A j \in TheirJobs : HeldRules(j.target.source, j.disk) /\ j.command \in Commands
ASSUME SourcesAssumption == Sources \subseteq {"cron", "systemd", "anacron", "launchd"}

VARIABLES
  target,    (* where the job lives                                        *)
  disk,      (* its schedule as the file holds it, a sequence of rules     *)
  command,   (* what the scheduler runs                                    *)
  ours,      (* whether shuvjobs created it                                *)
  wanted,    (* history: the rules somebody last asked for                 *)
  pc,        (* "none", "listed", "planned"                                *)
  spec,      (* the JobSpec of an edit                                     *)
  face,      (* "cli" or "form"                                            *)
  kept,      (* whether the edit leaves the schedule as it was             *)
  outcome    (* to the last add or edit                                    *)

evars == <<target, disk, command, ours, wanted, pc, spec, face, kept, outcome>>
place == <<target, disk, command, ours, wanted>>

source == target.source
JobSpec(schedule, cmd, name, text) ==
  [schedule |-> schedule, command |-> cmd, name |-> name, asked |-> text]
NoSpec == JobSpec(Refused, NoCommand, NoName, <<>>)

ETypeOK ==
  /\ target \in NewTargets \cup {j.target : j \in TheirJobs} \cup {NoTarget}
  /\ command \in Commands
  /\ ours \in BOOLEAN
  /\ pc \in {"none", "listed", "planned"}
  /\ spec.command \in Commands
  /\ face \in {"cli", "form"} /\ kept \in BOOLEAN
  /\ outcome \in {"none", "accepted", "refused"}

Fresh(t, d, c, o) ==
  /\ target = t /\ disk = d /\ command = c /\ ours = o /\ wanted = d
  /\ spec = NoSpec /\ face = "cli" /\ kept = FALSE /\ outcome = "none"

EInit ==
  \/ pc = "none" /\ Fresh(NoTarget, <<>>, NoCommand, FALSE)
  \/ pc = "listed" /\ \E j \in TheirJobs : j.target.source \in Sources
                                         /\ Fresh(j.target, j.disk, j.command, FALSE)

-----------------------------------------------------------------------------
(* validate_command: blank, or a comment to the file it would go to.       *)
ValidCommand(cmd) == cmd.shells > 0 \/ cmd.text \notin {"none", "comment"}

(* JobSpec::validate *)
ValidSpec(s) == s.command # NoCommand /\ (s.name = NoName \/ Safe(s.name))

(* A new job: parse_schedule, then the writer's create.  The name is       *)
(* checked where the file or the job is named after it.                    *)
NewName(t) == CASE t.source = "systemd"                 -> Stem(t.at)
                [] t.kind = "line"                      -> FileName(t.at)
                [] t.source = "cron" /\ t.kind = "user" -> NoName
                [] OTHER                                -> t.at
Creatable(t, c) ==
  /\ ValidCommand(c) /\ ValidSpec(JobSpec(Refused, c, NewName(t), <<>>))
  /\ NewName(t) # NoName => ValidName(t.source, NewName(t))

(* render_service, render_plist and merge_into put a shell around what     *)
(* they are given; a line is written as it stands.                         *)
Wrapped(c) == IF c.shells < MostShells THEN [c EXCEPT !.shells = @ + 1] ELSE c
Written(s, c) == IF s \in {"systemd", "launchd"} THEN Wrapped(c) ELSE c

Add(t, text, c) ==
  LET written == Render(t.source, ParseSchedule(t.source, text))
      fits    == /\ ParseSchedule(t.source, text) # Refused
                 /\ Creatable(t, c) /\ written # Refused
  IN /\ pc = "none" /\ t.source \in Sources
     /\ IF fits
        THEN /\ target' = t /\ disk' = <<written>> /\ command' = Written(t.source, c) /\ ours' = TRUE
             /\ wanted' = <<text>> /\ pc' = "listed" /\ outcome' = "accepted"
        ELSE UNCHANGED <<place, pc>> /\ outcome' = "refused"
     /\ UNCHANGED <<spec, face, kept>>

-----------------------------------------------------------------------------
(* The edit begins: what the list shows becomes a JobSpec.                 *)
Shown == Read(source, Chosen(source, disk))

(* The command comes with the shells around it, and of a service only up   *)
(* to the first " ; " (extract_property_subfield).                         *)
ShownCommand ==
  IF source = "systemd" /\ command.text = "chain" THEN [command EXCEPT !.text = "run"] ELSE command

(* merge_edit: what is not named stays as it is shown; the schedule is not *)
(* parsed again.                                                           *)
Merge(schedule, asked) == JobSpec(schedule, ShownCommand, DeriveName(target), asked)

(* Form::from_task and to_spec: the name is shown for three sources, the   *)
(* schedule is parsed again.                                               *)
FormName == IF source = "cron" THEN NoName ELSE TaskName(target)
ToSpec(typed, asked) == JobSpec(ParseSchedule(source, typed), ShownCommand, FormName, asked)

Submit(s) ==
  IF s.schedule # Refused /\ ValidSpec(s)
  THEN pc' = "planned" /\ spec' = s /\ outcome' = "none"
  ELSE outcome' = "refused" /\ UNCHANGED <<pc, spec>>

(* An edit of anything but the schedule.                                   *)
Edit(f) ==
  /\ pc = "listed" /\ face' = f /\ kept' = TRUE
  /\ Submit(IF f = "cli" THEN Merge(Shown, wanted) ELSE ToSpec(ScheduleText(Shown), wanted))
  /\ UNCHANGED place

(* An edit of the schedule.                                                *)
Reschedule(f, text) ==
  /\ pc = "listed" /\ face' = f /\ kept' = FALSE
  /\ Submit(IF f = "cli" THEN Merge(ParseSchedule(source, text), <<text>>) ELSE ToSpec(text, <<text>>))
  /\ UNCHANGED place

(* The writer's update: the id leads back to the job, which keeps its      *)
(* name.  Its one rule replaces all there were; a service that shuvjobs    *)
(* did not write is left as it is (require_same_command).  What it refuses *)
(* leaves the file alone.                                                  *)
Update ==
  LET id      == ToId(target)
      found   == ParseId(source, id)
      written == Render(source, spec.schedule)
  IN /\ pc = "planned" /\ pc' = "listed" /\ spec' = NoSpec
     /\ IF /\ found # NoTarget /\ found.kind # "script" /\ ValidCommand(spec.command)
           /\ SameName(found, spec.name) /\ written # Refused
        THEN /\ target' = found /\ disk' = <<written>> /\ wanted' = spec.asked
             /\ command' = IF source = "systemd" /\ ~ours THEN command
                           ELSE Written(source, spec.command)
             /\ outcome' = "accepted"
        ELSE UNCHANGED <<target, disk, wanted, command>> /\ outcome' = "refused"
     /\ UNCHANGED <<ours, face, kept>>

ENext ==
  \/ \E t \in NewTargets, c \in TypedCommands : \E text \in Texts(t.source) : Add(t, text, c)
  \/ \E f \in {"cli", "form"} : Edit(f)
  \/ \E f \in {"cli", "form"} : \E text \in Retyped(source) : Reschedule(f, text)
  \/ Update

EditingSpec == EInit /\ [][ENext]_evars

-----------------------------------------------------------------------------
(* The job runs when it was asked to, however often it has been listed and *)
(* edited since.  Two texts come out wrong: a range of days that begins or *)
(* ends with 7, 0-7 say, which a timer takes for the Sunday alone, and a   *)
(* number of days whose seconds do not fit.  And of a job found on the     *)
(* machine with several rules, or with one that fires once after the       *)
(* start, an edit keeps a single rule, for a rhythm.                       *)
SameRules(a, b) ==
  /\ \A i \in DOMAIN a : \E j \in DOMAIN b : SameMeaning(Meaning(source, a[i]), Meaning(source, b[j]))
  /\ \A j \in DOMAIN b : \E i \in DOMAIN a : SameMeaning(Meaning(source, a[i]), Meaning(source, b[j]))
OddWeek(text) ==
  /\ text[1] = "fields"
  /\ \E i \in DOMAIN text[2].dow :
       LET part == text[2].dow[i] IN part.from # part.to /\ 7 \in {part.from, part.to}
Wraps(text) == text[1] = "number" /\ text[2] * Day >= Width
OneIsShown == Len(wanted) > 1 \/ wanted[1][1] = "after"
WantedIsKept ==
  \/ SameRules(wanted, disk)
  \/ source = "systemd" /\ OddWeek(wanted[1])
  \/ source = "anacron" /\ Wraps(wanted[1])
MeaningIsKept ==
  pc = "listed" =>
    \/ WantedIsKept
    \/ OneIsShown /\ \E i \in DOMAIN wanted : SameRules(<<AsRhythm(wanted[i])>>, disk)

(* A job that shuvjobs created and whose schedule it can show takes every  *)
(* edit of the command line that leaves the schedule alone.                *)
UnchangedEditIsAccepted ==
  outcome = "refused" /\ kept /\ face = "cli" /\ ours => Shown = <<"Calendar", Empty>>

(* The id of a job leads back to it.  It leads nowhere only where it is    *)
(* made of a name, of a user or of a job of anacron or launchd, with       *)
(* characters that no name of ours has.                                    *)
Named(t) == t.source \in {"anacron", "launchd"} \/ (t.source = "cron" /\ t.kind = "user")
IdsLeadBack ==
  pc # "none" =>
    LET found == ParseId(source, ToId(target))
    IN found = target \/ (found = NoTarget /\ Named(target) /\ ~Safe(target.at))

(* What README.md says of the edit form, and form.rs of the text in it:    *)
(* the form comes filled in, so Enter plans the edit of a job of ours.     *)
FormEditIsPlanned == ~(outcome = "refused" /\ kept /\ face = "form" /\ ours)

(* What merge_edit says: "Everything unspecified keeps its current value". *)
(* No edit of this module names the command, and some name no schedule.    *)
CommandIsKept == [][pc # "none" => command' = command]_evars
=============================================================================
