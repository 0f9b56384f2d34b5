----------------------------- MODULE CronWriter -----------------------------
(***************************************************************************)
(* The cron writer (write/cron.rs) on one crontab: a per-user one, reached *)
(* only through `crontab -l` and `crontab -`, a system file that is read   *)
(* and written in place, or a script in a run-parts directory, which is a  *)
(* crontab of one line: enabled when it is executable.  The operator picks *)
(* a job from a listing; an id is a line number in it.  Other programs     *)
(* edit the same crontab.                                                  *)
(*                                                                         *)
(* A line is what the parsers tell apart: a job, enabled or behind the     *)
(* `#shuvjobs-disabled# ` marker, an environment assignment, a comment,    *)
(* the `# managed by shuvjobs` marker, or a line of the banner that        *)
(* `crontab` puts on top of every crontab it installs.                     *)
(***************************************************************************)
EXTENDS Naturals, FiniteSets, SequencesExt

CONSTANTS
  Scopes,      (* "user", "system", "script"                               *)
  Jobs,        (* schedule and command of a job                            *)
  Kinds,       (* lines other than jobs that others write                  *)
  Marks,       (* how a job line may be disabled, see Disabled             *)
  BannerLen,   (* lines of the banner                                      *)
  Gone,        (* there is no crontab                                      *)
  MaxLen,      (* bound on the lines of a crontab below its banner         *)
  MaxEdits     (* bound on the edits of other programs                     *)

ASSUME CronAssumption ==
  /\ Scopes \subseteq {"user", "system", "script"}
  /\ Marks \subseteq {"ours", "tight", "indented"}
  /\ Kinds \subseteq {"env", "comment", "managed"}
  /\ BannerLen \in 0 .. 3
  /\ MaxLen \in Nat /\ MaxEdits \in Nat

NoJob == "none"
ASSUME JobsAssumption == NoJob \notin Jobs

(* "ours" is the marker as written here, "tight" one without its trailing  *)
(* blank, "indented" one with blanks before it: the last two are edits of  *)
(* the operator.  A line that is not marked has mark "none".               *)
JobLine(job, mark) == [kind |-> "job", job |-> job, mark |-> mark]
Plain(kind) == [kind |-> kind, job |-> NoJob, mark |-> "none"]
JobLines == {JobLine(j, m) : j \in Jobs, m \in Marks \cup {"ours", "none"}}
Scripts == {<<JobLine(j, m)>> : j \in Jobs, m \in {"none", "ours"}}
OthersLines == JobLines \cup {Plain(k) : k \in Kinds}
Lines == OthersLines \cup {Plain("managed"), Plain("banner")}
ASSUME GoneAssumption == Gone \notin Seq(Lines)

VARIABLES
  scope,     (* of the crontab                                             *)
  file,      (* the crontab, as `crontab -l` or `cat` shows it             *)
  seen,      (* the crontab the listing was made from                      *)
  pc,        (* how far the writer is                                      *)
  op,        (* the mutation asked for                                     *)
  text,      (* the crontab as the writer read it                          *)
  told,      (* what the operator was told last                            *)
  edits      (* history: edits of other programs                           *)

vars == <<scope, file, seen, pc, op, text, told, edits>>

(* A creation may be overtaken by one more line of another program.        *)
LineNumbers == 0 .. BannerLen + MaxLen + 2

(* `line` is 0 for a creation; `on` is spec.enabled, or what to switch to. *)
Ops == [kind: {"create", "update", "delete", "switch"}, line: LineNumbers,
        job: Jobs \cup {NoJob}, on: BOOLEAN]
NoOp == [kind |-> "create", line |-> 0, job |-> NoJob, on |-> TRUE]
Told == [result: {"none", "ok", "already", "conflict", "failed"},
         line: LineNumbers, sure: BOOLEAN]

TypeOK ==
  /\ scope \in Scopes
  /\ file = Gone \/ file \in Seq(Lines)
  /\ seen = Gone \/ seen \in Seq(Lines)
  /\ pc \in {"idle", "asked", "planned", "settle"}
  /\ op \in Ops
  /\ text = Gone \/ text \in Seq(Lines)
  /\ told \in Told
  /\ edits \in 0 .. MaxEdits

-----------------------------------------------------------------------------
(* The text behind a crontab: the writer reads a missing per-user one as   *)
(* empty.                                                                  *)
Text(f) == IF f = Gone THEN <<>> ELSE f

IsBanner(line) == line.kind = "banner"

(* strip_install_header: at most three lines, only from the top.           *)
Header(t) ==
  CHOOSE n \in 0 .. 3 :
    /\ n <= Len(t) /\ \A i \in 1 .. n : IsBanner(t[i])
    /\ n < 3 /\ n < Len(t) => ~IsBanner(t[n + 1])
Body(t) == SubSeq(t, Header(t) + 1, Len(t))
WithBanner(body) ==
  IF scope = "user" THEN [i \in 1 .. BannerLen |-> Plain("banner")] \o body ELSE body

(* parse_job_line, after strip_disabled_marker on the trimmed line: the    *)
(* listing shows a job whatever its marker looks like.                     *)
IsJob(line) == line.kind = "job"
JobAt(t, n) == n \in DOMAIN t /\ IsJob(t[n])

(* toggle looks for the marker without trimming the line first.            *)
Disabled(line) == IsJob(line) /\ line.mark \in {"ours", "tight"}

HasContent(t) == \E i \in DOMAIN t : t[i].kind \in {"job", "env"}

(* Mutant of HasJobLines: a disabled job is taken for a comment.           *)
HasEnabledLines(t) == \E i \in DOMAIN t : IsJob(t[i]) /\ t[i].mark = "none"
HasJobLines(t) == \E i \in DOMAIN t : IsJob(t[i])
IsManaged(t) == \E i \in DOMAIN t : t[i].kind = "managed"

Decorate(job, on) == JobLine(job, IF on THEN "none" ELSE "ours")

Init ==
  /\ scope \in Scopes
  /\ IF scope = "script" THEN file \in Scripts \cup {Gone}
     ELSE \E body \in BoundedSeq(OthersLines, 2) : file \in {WithBanner(body), Gone}
  /\ seen = <<>> /\ text = <<>>
  /\ pc = "idle"
  /\ op = NoOp
  /\ told = [result |-> "none", line |-> 0, sure |-> FALSE]
  /\ edits = 0

-----------------------------------------------------------------------------
(* The mutation is over: the next one starts from a listing of its own.    *)
Done(result, line, sure) ==
  /\ pc' = "idle" /\ op' = NoOp /\ text' = <<>> /\ seen' = <<>>
  /\ told' = [result |-> result, line |-> line, sure |-> sure]

(* The listing.                                                            *)
Collect ==
  /\ pc = "idle" /\ seen # Text(file)
  /\ seen' = Text(file)
  /\ UNCHANGED <<scope, file, pc, op, text, told, edits>>

(* A creation, or a mutation of a line the listing shows as a job.         *)
Ask ==
  /\ pc = "idle"
  /\ op' \in Ops
  /\ IF op'.kind = "create"
     THEN op'.line = 0 /\ Len(Body(Text(file))) < MaxLen
     ELSE JobAt(seen, op'.line)
  /\ op'.job = NoJob <=> op'.kind \in {"delete", "switch"}
  /\ op'.kind = "delete" => op'.on
  /\ pc' = "asked"
  /\ told' = [result |-> "none", line |-> 0, sure |-> FALSE]
  /\ UNCHANGED <<scope, file, seen, text, edits>>

(* job_line_at and toggle refuse a line that holds no job any more, and    *)
(* uncomment one that does not start with the whole marker.                *)
Drifted(t) ==
  CASE op.kind = "create" -> FALSE
    [] op.kind \in {"update", "delete"} -> ~JobAt(t, op.line)
    [] op.kind = "switch" ->
         \/ op.line \notin DOMAIN t
         \/ op.on /\ Disabled(t[op.line]) /\ t[op.line].mark = "tight"
         \/ ~op.on /\ ~Disabled(t[op.line]) /\ ~(IsJob(t[op.line]) /\ t[op.line].mark = "none")

(* Mutant of Already: the test of toggle is the wrong way round.           *)
AlreadyInverted(t) ==
  op.kind = "switch" /\ op.line \in DOMAIN t /\ (op.on <=> Disabled(t[op.line]))

Already(t) == op.kind = "switch" /\ op.line \in DOMAIN t /\ (op.on <=> ~Disabled(t[op.line]))

(* run_parts_unsupported: a script is neither made nor edited.             *)
Unsupported == scope = "script" /\ op.kind \in {"create", "update"}

(* Reading and planning; a refusal or a no-op ends here.  Of a script only *)
(* a removal reads anything, and only to plan an undo.                     *)
Plan ==
  /\ pc = "asked"
  /\ LET gone == scope = "system" /\ file = Gone /\ op.kind # "create"
         refused == Unsupported \/ gone \/ (scope # "script" /\ Drifted(Text(file)))
         already == scope # "script" /\ Already(Text(file))
     IN IF refused \/ already
        THEN Done(IF refused THEN "conflict" ELSE "already", op.line, FALSE)
        ELSE /\ text' = IF scope = "system" THEN file ELSE Text(file)
             /\ pc' = "planned"
             /\ UNCHANGED <<seen, op, told>>
  /\ UNCHANGED <<scope, file, edits>>

(* What the plan makes of the text read.                                   *)
After(t) ==
  CASE op.kind = "create" /\ t = Gone -> <<Plain("managed"), Decorate(op.job, op.on)>>
    [] op.kind = "create" /\ t # Gone -> Append(t, Decorate(op.job, op.on))
    [] op.kind = "update" -> ReplaceAt(t, op.line, Decorate(op.job, op.on))
    [] op.kind = "delete" -> RemoveAt(t, op.line)
    [] op.kind = "switch" -> ReplaceAt(t, op.line, Decorate(t[op.line].job, op.on))

(* A crontab with nothing left in it is removed with `crontab -r`; a file  *)
(* without jobs only if it carries the marker; a script always.            *)
Emptied ==
  /\ op.kind = "delete"
  /\ CASE scope = "user" -> ~HasContent(After(text))
       [] scope = "system" -> IsManaged(text) /\ ~HasJobLines(After(text))
       [] scope = "script" -> TRUE

(* `crontab -` puts its banner on top of what it is given.                 *)
Installed == WithBanner(Body(After(text)))

(* A script is switched by a chmod, on whatever is there by then.          *)
Put ==
  /\ scope = "script" /\ op.kind = "switch" => file # Gone
  /\ file' = IF Emptied THEN Gone
             ELSE CASE scope = "user" -> Installed
                    [] scope = "system" -> After(text)
                    [] scope = "script" -> After(file)

(* A line number in a system file is right by itself; the id of a line of  *)
(* a per-user crontab is settled by reading it again.                      *)
NewLine == IF op.kind = "create" THEN Len(After(text)) ELSE op.line
Settles == scope = "user" /\ op.kind \in {"create", "update"}

Apply ==
  /\ pc = "planned"
  /\ Put
  /\ IF Settles
     THEN pc' = "settle" /\ UNCHANGED <<seen, op, text, told>>
     ELSE Done("ok", NewLine, TRUE)
  /\ UNCHANGED <<scope, edits>>

(* The command or the write failed, or its answer was lost.                *)
ApplyFails ==
  /\ pc = "planned"
  /\ Put \/ UNCHANGED file
  /\ Done("failed", op.line, FALSE)
  /\ UNCHANGED <<scope, edits>>

Hits(t) == {n \in DOMAIN t : IsJob(t[n]) /\ t[n].job = op.job}

(* Mutant of Settle: the first line that fits is taken.                    *)
SettleOnFirst ==
  /\ pc = "settle"
  /\ \/ Done("ok", NewLine, FALSE)
     \/ \E n \in Hits(Text(file)) :
          (\A m \in Hits(Text(file)) : n <= m) /\ Done("ok", n, TRUE)
  /\ UNCHANGED <<scope, file, edits>>

(* resolve_user_id and settle_user_id: the one line with that schedule and *)
(* command, or a guess that a note calls one.                              *)
Settle ==
  /\ pc = "settle"
  /\ \/ (* crontab -l failed, or shows no such line, or several *)
        Done("ok", NewLine, FALSE)
     \/ \E n \in DOMAIN Text(file) : Hits(Text(file)) = {n} /\ Done("ok", n, TRUE)
  /\ UNCHANGED <<scope, file, edits>>

-----------------------------------------------------------------------------
(* `crontab -e`, a package, or another shuvjobs: a line more or less, no   *)
(* crontab at all, or another script.                                      *)
OtherProgram ==
  /\ edits < MaxEdits /\ edits' = edits + 1
  /\ LET body == Body(Text(file)) IN
       \/ file # Gone /\ file' = Gone
       \/ scope = "script" /\ file' \in Scripts \ {file}
       \/ \E i \in DOMAIN body :
            scope # "script" /\ file' = WithBanner(RemoveAt(body, i))
       \/ \E i \in 1 .. Len(body) + 1, l \in OthersLines :
            /\ scope # "script" /\ Len(body) < MaxLen
            /\ file' = WithBanner(InsertAt(body, i, l))
  /\ UNCHANGED <<scope, seen, pc, op, text, told>>

Next == Collect \/ Ask \/ Plan \/ Apply \/ ApplyFails \/ Settle \/ OtherProgram

Spec == Init /\ [][Next]_vars

-----------------------------------------------------------------------------
(* "Change exactly this one line and leave the rest": against the text the *)
(* writer read, a write adds, replaces or drops the one line asked for and *)
(* keeps every other one, in order, with no second banner; a crontab is    *)
(* only removed when none of the other lines is a job.                     *)
Written == pc = "planned" /\ pc' # "planned" /\ file' # file
Others ==
  IF op.kind = "create" THEN IF text = Gone THEN <<Plain("managed")>> ELSE Body(text)
  ELSE RemoveAt(Body(text), op.line - Header(text))
OneLineWritten ==
  [][Written =>
       IF op.kind = "delete"
       THEN file' = WithBanner(Others) \/ (file' = Gone /\ \A i \in DOMAIN Others : ~IsJob(Others[i]))
       ELSE \E i \in 1 .. Len(Others) + 1, l \in JobLines :
              /\ file' = WithBanner(InsertAt(Others, i, l))
              /\ op.job # NoJob => l.job = op.job
              /\ l.mark = "none" <=> op.on]_vars

(* "The id we report is the one `list` will show": an id reported without  *)
(* a note names the one line with that job.                                *)
ReportedIdNamesTheJob ==
  [][told'.sure /\ told' # told /\ op.job # NoJob =>
                         /\ JobAt(Text(file'), told'.line)
                         /\ Text(file')[told'.line].job = op.job
                         /\ scope = "user" => Cardinality(Hits(Text(file'))) = 1]_vars

(* A switch that finds a job on its line and ends well leaves it as it was *)
(* asked to be, and the note that it already was is true.                  *)
Found == JobAt(IF pc = "asked" THEN Text(file) ELSE text, op.line)
SwitchIsTrue ==
  [][pc # "idle" /\ op.kind = "switch" /\ Found /\ told'.result \in {"ok", "already"} =>
       JobAt(Text(file'), op.line) /\ (Text(file')[op.line].mark = "none" <=> op.on)]_vars
=============================================================================
