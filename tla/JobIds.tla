------------------------------- MODULE JobIds -------------------------------
(***************************************************************************)
(* The id every reader gives a job, the parsers that lead an id back to    *)
(* the file, line, unit or label it came from (ids.rs), and the rules for  *)
(* names (write/mod.rs).                                                   *)
(*                                                                         *)
(* A text is a sequence of tokens: words, numbers, the directories cron    *)
(* knows, and the characters and suffixes the parsers look for.            *)
(***************************************************************************)
EXTENDS Sequences, SequencesExt, FiniteSetsExt, Integers

CONSTANT Numbers        (* tokens that read as a number from 1 up          *)

RunPartsDirs == {"/etc/cron.hourly", "/etc/cron.daily"}
Rooted == RunPartsDirs \cup {"/etc/crontab", "/etc/cron.d"}   (* start with "/" *)
UnsafeTokens == Rooted \cup {":", "/", "@", " ", "("}

ASSUME NumbersAssumption == Numbers \cap UnsafeTokens = {}

(* shell_safe_filename and shell_safe_username: letters, digits, "_", "-"  *)
(* and ".".  A test of names; no path passes it.                           *)
Safe(text) == text # <<>> /\ \A i \in DOMAIN text : text[i] \notin UnsafeTokens
IsNumber(text) == Len(text) = 1 /\ text[1] \in Numbers

Has(text, token) == token \in ToSet(text)
StripPrefix(prefix, text) == SubSeq(text, Len(prefix) + 1, Len(text))
EndsWith(text, token) == text # <<>> /\ Last(text) = token

(* rsplit_once *)
LastAt(text, token) == Max({i \in DOMAIN text : text[i] = token})
Before(text, token) == SubSeq(text, 1, LastAt(text, token) - 1)
After(text, token) == SubSeq(text, LastAt(text, token) + 1, Len(text))

-----------------------------------------------------------------------------
(* Where a job lives: its source, the kind of place, whose it is or the    *)
(* path of it, and the line, <<>> where there is none.                     *)
Target(source, kind, at, line) ==
  [source |-> source, kind |-> kind, at |-> at, line |-> line]
NoTarget == Target("none", "none", <<>>, <<>>)

SystemFile(path, line) == Target("cron", "line", path, line)
UserCrontab(user, line) == Target("cron", "user", user, line)
RunParts(path) == Target("cron", "script", path, <<>>)
SystemdId(scope, unit) == Target("systemd", scope, unit, <<>>)

(* TaskId::to_id *)
ToId(t) ==
  CASE t.kind = "line"       -> t.at \o <<":">> \o t.line
    [] t.source = "cron" /\ t.kind = "user" -> <<"user", ":">> \o t.at \o <<":">> \o t.line
    [] t.kind = "script"     -> t.at
    [] t.source = "systemd"  -> (IF t.kind = "user" THEN <<"user", "/">> ELSE <<>>) \o t.at
    [] t.source \in {"at", "anacron"} -> <<t.source, ":">> \o t.at
    [] OTHER                 -> t.at

UserCrontabOf(id) ==
  LET rest == StripPrefix(<<"user", ":">>, id)
  IN IF /\ Has(rest, ":") /\ IsNumber(After(rest, ":"))
        /\ Safe(Before(rest, ":"))
     THEN UserCrontab(Before(rest, ":"), After(rest, ":"))
     ELSE NoTarget

IsScript(id) ==
  /\ Len(id) > 2 /\ id[1] \in RunPartsDirs /\ id[2] = "/"
  /\ ~Has(SubSeq(id, 3, Len(id)), "/")

IsLine(id) == /\ Has(id, ":") /\ IsNumber(After(id, ":"))
              /\ Before(id, ":") # <<>> /\ Head(id) \in Rooted

(* The places the readers report.  A line is one of a file outside the     *)
(* directories of scripts, and a name is anything.                         *)
Placed(t) ==
  \/ t.source = "cron" /\ t.kind = "line" /\ t.at[1] \in Rooted \ RunPartsDirs /\ IsNumber(t.line)
  \/ t.source = "cron" /\ t.kind = "user" /\ IsNumber(t.line)
  \/ t.source = "cron" /\ t.kind = "script" /\ IsScript(t.at) /\ t.line = <<>>
  \/ /\ t.source = "systemd" /\ t.kind \in {"system", "user"} /\ t.line = <<>>
     /\ EndsWith(t.at, ".timer") /\ ~Has(t.at, "/")
  \/ t.source \in {"anacron", "launchd"} /\ t.kind = "job" /\ t.line = <<>>
WellPlaced(t) ==
  /\ t = Target(t.source, t.kind, t.at, t.line)
  /\ t.at \in Seq(STRING) \ {<<>>} /\ t.line \in Seq(STRING) /\ Placed(t)

(* Mutant of ParseCronId: the number is split off first.                   *)
ParseCronIdByColon(id) ==
  CASE IsPrefix(<<"user", ":">>, id) -> UserCrontabOf(id)
    [] IsLine(id)                    -> SystemFile(Before(id, ":"), After(id, ":"))
    [] IsScript(id)                  -> RunParts(id)
    [] OTHER                         -> NoTarget

(* A script may be called "backup:2": it is looked for before a line is.   *)
ParseCronId(id) ==
  CASE IsPrefix(<<"user", ":">>, id) -> UserCrontabOf(id)
    [] ~IsPrefix(<<"user", ":">>, id) /\ IsScript(id) -> RunParts(id)
    [] ~IsPrefix(<<"user", ":">>, id) /\ ~IsScript(id) /\ IsLine(id) ->
         SystemFile(Before(id, ":"), After(id, ":"))
    [] OTHER -> NoTarget

(* split_task_id and parse_systemd_id *)
ParseSystemdId(id) ==
  LET user == IsPrefix(<<"user", "/">>, id)
      unit == IF user THEN StripPrefix(<<"user", "/">>, id) ELSE id
  IN IF EndsWith(unit, ".timer") /\ ~Has(unit, "/")
     THEN SystemdId(IF user THEN "user" ELSE "system", unit)
     ELSE NoTarget

(* parse_at_id and parse_anacron_id: with or without their prefix.         *)
Unprefixed(source, id) ==
  IF IsPrefix(<<source, ":">>, id) THEN StripPrefix(<<source, ":">>, id) ELSE id

ParseId(source, id) ==
  CASE source = "cron"    -> ParseCronId(id)
    [] source = "systemd" -> ParseSystemdId(id)
    [] source = "at"      -> IF IsNumber(Unprefixed("at", id))
                             THEN Target("at", "job", Unprefixed("at", id), <<>>) ELSE NoTarget
    [] source = "anacron" -> IF Safe(Unprefixed("anacron", id))
                             THEN Target("anacron", "job", Unprefixed("anacron", id), <<>>)
                             ELSE NoTarget
    [] source = "launchd" -> IF Safe(id) THEN Target("launchd", "job", id, <<>>) ELSE NoTarget

-----------------------------------------------------------------------------
(* Names                                                                   *)

(* validate_simple_name: what a new job may be called.                     *)
ValidName(source, name) ==
  /\ Safe(name) /\ Head(name) # "."
  /\ source = "cron" => ~Has(name, ".") /\ ~Has(name, ".timer")
  /\ source = "systemd" => ~EndsWith(name, ".timer")

(* The name the list shows for a timer (Scope::task_name); the other       *)
(* readers show the file name, the job or the label.  Mutant of DeriveName *)
(* too: the name is taken from the list.                                   *)
Stem(unit) == Front(unit)
TaskName(t) ==
  IF t.source # "systemd" THEN t.at
  ELSE Stem(t.at) \o (IF t.kind = "user" THEN <<" ", "(", "user">> ELSE <<>>)

(* derive_name: the name the command line passes on.  NoName for a user's  *)
(* crontab and for at.  Every ".timer" at the end goes.                    *)
NoName == <<>>
TrimTimer(unit) == SubSeq(unit, 1, Max({0} \cup {i \in DOMAIN unit : unit[i] # ".timer"}))

FileName(path) == IF Has(path, "/") THEN After(path, "/") ELSE <<"crontab">>

DeriveName(t) ==
  CASE t.source = "systemd" -> TrimTimer(t.at)
    [] t.kind \in {"line", "script"} -> FileName(t.at)
    [] t.source \in {"anacron", "launchd"} -> t.at
    [] OTHER -> NoName

(* The writers that take no new name for a job: the unit's stem or the     *)
(* label is the only one.                                                  *)
SameName(t, name) ==
  \/ name = NoName
  \/ t.source = "systemd" /\ name = Stem(t.at)
  \/ t.source = "launchd" /\ name = t.at
  \/ t.source \notin {"systemd", "launchd"}
=============================================================================
