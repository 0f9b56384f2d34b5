---------------------------- MODULE AnacronWriter ----------------------------
(***************************************************************************)
(* The anacron writer (write/anacron.rs) on /etc/anacrontab and the time   *)
(* stamps below /var/spool/anacron, with the reader (anacron.rs) that      *)
(* lists what it wrote.  An id is the job's name, and may be stale.  The   *)
(* operator edits the same file by hand, and anacron stamps what it runs.  *)
(*                                                                         *)
(* A line is what the two parsers tell apart.  Commands are left out.      *)
(***************************************************************************)
EXTENDS Naturals, FiniteSets, Sequences

CONSTANTS
  Names,         (* job names                                              *)
  Delays,        (* values of the delay column that fit in 32 bits         *)
  DefaultDelay,  (* 5                                                      *)
  Schedules,     (* schedules asked for, see Expressible                   *)
  OthersLines,   (* lines the operator writes                              *)
  Gone,          (* there is no /etc/anacrontab                            *)
  MaxLen,        (* bound on the lines of the file                         *)
  MaxEdits       (* bound on the operator's edits                          *)

NoJob == "no job"
Wide == "wide"        (* a delay that only fits in 64 bits                 *)
Keep == "keep"        (* no --delay was given                              *)

(* "tight" is the marker without its blank, "indented" one with blanks     *)
(* before it, "twice" a marker behind a marker.                            *)
Marks == {"none", "ours", "tight", "indented", "twice"}
Tokens == {"1", "@daily", "@annually", "@hourly"}
Lines == [job: Names \cup {NoJob}, period: Tokens, delay: Delays \cup {Wide}, mark: Marks]

ASSUME AnacronAssumption ==
  /\ OthersLines \subseteq Lines /\ Gone \notin Seq(Lines)
  /\ Schedules \subseteq {"1d", "@daily", "@annually", "1h"}
  /\ DefaultDelay \in Delays
  /\ Names # {} /\ NoJob \notin Names /\ Keep \notin Delays
  /\ MaxLen \in Nat /\ MaxEdits \in Nat

VARIABLES
  file,     (* the lines of /etc/anacrontab, or Gone                       *)
  spool,    (* the jobs with a time stamp                                  *)
  pc,       (* "idle", "planned", "wrote" (the spool is next), "undo"      *)
  op,       (* the mutation                                                *)
  text,     (* the file as the writer read it                              *)
  new,      (* the file it will write                                      *)
  edits,    (* history: edits of the operator                              *)
  theirs,   (* history: names the operator has given to several lines      *)
  left      (* history: names whose line went in a way that leaves a stamp *)

vars == <<file, spool, pc, op, text, new, edits, theirs, left>>
History == <<edits, theirs, left>>

(* `job` is the id; what an operation has no use for is fixed.             *)
Ops == {o \in [kind: {"create", "update", "delete", "switch"}, job: Names, name: Names,
               schedule: Schedules \cup {"none"}, delay: Delays \cup {Keep}, on: BOOLEAN] :
          /\ o.kind # "update" => o.name = o.job
          /\ IF o.kind \in {"delete", "switch"}
             THEN o.schedule = "none" /\ o.delay = Keep
             ELSE o.schedule # "none"
          /\ o.kind = "delete" => o.on}
NoOp == CHOOSE o \in Ops : o.kind = "delete"

IsText(t) == t \in Seq(Lines)

TypeOK ==
  /\ file = Gone \/ IsText(file)
  /\ spool \subseteq Names
  /\ pc \in {"idle", "planned", "wrote", "undo"}
  /\ op \in Ops
  /\ IsText(text) /\ IsText(new)
  /\ edits \in 0 .. MaxEdits
  /\ theirs \subseteq Names /\ left \subseteq Names

-----------------------------------------------------------------------------
(* The two parsers                                                         *)

(* entry_of: the writer does not look at the period.                       *)
IsEntry(line) == line.job # NoJob /\ line.mark # "twice" /\ line.delay # Wide
Entries(t, job) == {i \in DOMAIN t : IsEntry(t[i]) /\ t[i].job = job}

(* Period::parse: the reader does, and passes over what it does not know.  *)
Schedule(period) == CASE period \in {"1", "@daily"} -> "1d"
                      [] period = "@annually"       -> "@yearly"
                      [] OTHER                      -> "none"
IsShown(line) ==
  line.job # NoJob /\ line.mark # "twice" /\ Schedule(line.period) # "none"
Shown(line) ==
  [job |-> line.job, schedule |-> Schedule(line.period), on |-> line.mark = "none"]

(* A name on several lines.                                                *)
Doubles(t) == {n \in Names : \E i, j \in Entries(t, n) : i # j}

Body(f) == IF f = Gone THEN <<>> ELSE f
Jobs(f) == {Body(f)[i].job : i \in DOMAIN Body(f)}

-----------------------------------------------------------------------------
(* Planning                                                                *)

(* render_period: whole days, or a shorthand.                              *)
Expressible(schedule) == schedule # "1h"
RenderPeriod(schedule) == IF schedule = "1d" THEN "1" ELSE schedule

RenderLine(o, delay) ==
  [job |-> o.name, period |-> RenderPeriod(o.schedule), delay |-> delay,
   mark |-> IF o.on THEN "none" ELSE "ours"]

(* Mutant of Delay: an edit that names no delay resets it.                 *)
DelayReset(o, line) == IF o.delay = Keep THEN DefaultDelay ELSE o.delay

Delay(o, line) == IF o.delay = Keep THEN line.delay ELSE o.delay

(* Mutant of Taken: a disabled job does not count.                         *)
TakenByEnabled(t, name) == \E i \in Entries(t, name) : t[i].mark = "none"

(* require_unused: a disabled job counts.                                  *)
Taken(t, name) == Entries(t, name) # {}

(* locate: the one line of that name.                                      *)
Locate(t, job) == CHOOSE i \in Entries(t, job) : TRUE
Located(t, job) == \E i \in Entries(t, job) : Entries(t, job) = {i}

(* Mutant of Stale: a rename forgets the old stamp.                        *)
StaleDeleted(o) == IF o.kind = "delete" THEN o.job ELSE NoJob

(* The stamp that has to go with its line.                                 *)
Stale(o) == IF o.kind = "delete" \/ o.name # o.job THEN o.job ELSE NoJob

(* strip_disabled_marker on the line as it stands, blanks and all.         *)
IsDisabled(line) == line.mark \in {"ours", "tight", "twice"}

Done == pc' = "idle" /\ op' = NoOp /\ text' = <<>> /\ new' = <<>>
Propose(o, t) == pc' = "planned" /\ op' = o /\ text' = file /\ new' = t

WithoutLine(t, n) == [i \in 1 .. Len(t) - 1 |-> IF i < n THEN t[i] ELSE t[i + 1]]

Create(o) ==
  /\ o.kind = "create" /\ Len(file) < MaxLen
  /\ Expressible(o.schedule) /\ ~Taken(file, o.name)
  /\ Propose(o, Append(file, RenderLine(o, IF o.delay = Keep THEN DefaultDelay ELSE o.delay)))

Update(o) ==
  /\ o.kind = "update" /\ Located(file, o.job)
  /\ Expressible(o.schedule)
  /\ o.name # o.job => ~Taken(file, o.name)
  /\ LET n == Locate(file, o.job)
     IN  Propose(o, [file EXCEPT ![n] = RenderLine(o, Delay(o, file[n]))])

Delete(o) ==
  /\ o.kind = "delete" /\ Located(file, o.job)
  /\ Propose(o, WithoutLine(file, Locate(file, o.job)))

(* comment_out puts a marker before whatever is there.                     *)
Switched(line, on) ==
  [line EXCEPT !.mark = IF on THEN "none" ELSE IF line.mark = "none" THEN "ours" ELSE "twice"]

(* Nothing to do is an empty plan and a note; uncomment wants the whole    *)
(* marker.                                                                 *)
Switch(o) ==
  /\ o.kind = "switch" /\ Located(file, o.job)
  /\ LET n == Locate(file, o.job) IN
       IF o.on # IsDisabled(file[n])
       THEN Propose(o, file)
       ELSE /\ o.on => file[n].mark # "tight"
            /\ Propose(o, [file EXCEPT ![n] = Switched(file[n], o.on)])

(* One of the four operations, up to the finished plan.                    *)
Plan ==
  /\ pc = "idle" /\ file # Gone
  /\ \E o \in Ops : Create(o) \/ Update(o) \/ Delete(o) \/ Switch(o)
  /\ UNCHANGED <<file, spool, History>>

(* An operation that is refused leaves everything as it is.                *)
Refused == pc = "idle" /\ UNCHANGED vars

-----------------------------------------------------------------------------
(* Carrying it out (`execute`)                                             *)

(* A write replaces the file: what others put there since it was read is   *)
(* gone, their stamps are not.                                             *)
Overwrites(t, own) == left' = left \cup ((Jobs(file) \ Jobs(t)) \ (own \cup {NoJob}))

Nothing ==
  /\ pc = "planned" /\ op.kind = "switch" /\ new = text
  /\ Done
  /\ UNCHANGED <<file, spool, History>>

Writes == pc = "planned" /\ ~(op.kind = "switch" /\ new = text)

Write ==
  /\ Writes
  /\ file' = new
  /\ Overwrites(new, Jobs(text))
  /\ IF Stale(op) = NoJob THEN Done ELSE pc' = "wrote" /\ UNCHANGED <<op, text, new>>
  /\ UNCHANGED <<spool, edits, theirs>>

WriteFails ==
  /\ Writes
  /\ \/ UNCHANGED <<file, left>>
     \/ file' = new /\ Overwrites(new, {})  (* written, the answer was lost *)
  /\ Done
  /\ UNCHANGED <<spool, edits, theirs>>

(* The stamp, which is routinely absent.                                   *)
Drop ==
  /\ pc = "wrote"
  /\ spool' = spool \ {Stale(op)}
  /\ Done
  /\ UNCHANGED <<file, History>>

DropFails ==
  /\ pc = "wrote"
  /\ spool' \in {spool, spool \ {Stale(op)}}
  /\ pc' = "undo"
  /\ UNCHANGED <<file, op, text, new, History>>

(* The rollback puts the file back; the stamp was never recorded.          *)
Undo ==
  /\ pc = "undo"
  /\ \/ file' = text /\ Overwrites(text, {})
     \/ UNCHANGED file /\ left' = left \cup {Stale(op)}
  /\ Done
  /\ UNCHANGED <<spool, edits, theirs>>

Kill ==
  /\ pc # "idle"
  /\ Done
  /\ left' = IF pc = "planned" THEN left ELSE left \cup {Stale(op)}
  /\ UNCHANGED <<file, spool, edits, theirs>>

-----------------------------------------------------------------------------
(* The operator edits the file: a line more or less, or none at all.       *)
OtherHand ==
  /\ edits < MaxEdits /\ edits' = edits + 1
  /\ \/ file # Gone /\ file' = Gone
     \/ \E n \in DOMAIN Body(file) : file' = WithoutLine(file, n)
     \/ \E l \in OthersLines : Len(Body(file)) < MaxLen /\ file' = Append(Body(file), l)
  /\ theirs' = theirs \cup Doubles(Body(file'))
  /\ left' = left \cup ((Jobs(file) \ Jobs(file')) \ {NoJob})
  /\ UNCHANGED <<spool, pc, op, text, new>>

(* anacron has run a job.                                                  *)
Stamp ==
  /\ \E i \in DOMAIN Body(file) :
       /\ file[i].job # NoJob /\ file[i].mark = "none"
       /\ spool' = spool \cup {file[i].job}
  /\ UNCHANGED <<file, pc, op, text, new, History>>

Init ==
  /\ \/ file = Gone
     \/ file = <<>>
     \/ \E a \in OthersLines : file = <<a>>
     \/ \E a, b \in OthersLines : file = <<a, b>>
  /\ spool = {}
  /\ pc = "idle"
  /\ op = NoOp
  /\ text = <<>> /\ new = <<>>
  /\ edits = 0 /\ theirs = Doubles(Body(file)) /\ left = {}

Next == Plan \/ Refused \/ Nothing \/ Write \/ WriteFails \/ Drop \/ DropFails \/ Undo \/ Kill
        \/ OtherHand \/ Stamp

Spec == Init /\ [][Next]_vars

-----------------------------------------------------------------------------
(* A name stands on one line, disabled or not: re-enabling a disabled job  *)
(* can never collide.  Whatever was lost, undone or overwritten, a name on *)
(* several lines was put there by the operator (require_unused).           *)
NamesStayUnique == Doubles(Body(file)) \subseteq theirs

(* "Renaming a job means the old spool file is orphaned and has to go with *)
(* it": between mutations every stamp belongs to a line, except where the  *)
(* operator took the line, or a mutation that failed or was killed midway  *)
(* did.  A job created under an old name would not run otherwise.          *)
StampsHaveJobs == pc = "idle" => spool \subseteq Jobs(file) \cup left

(* What a plan writes reads back as what was asked for: the reader shows   *)
(* that job with that schedule, switched as asked, and an edit that names  *)
(* no delay has kept it; every other line is as it was.  Switching a job   *)
(* whose marker has blanks before it is the exception: the writer does not *)
(* see the marker that the reader sees.                                    *)
Means(schedule) == IF schedule = "@annually" THEN "@yearly" ELSE "1d"
AsAsked(line) ==
  /\ IsShown(line)
  /\ Shown(line) = [job |-> op.name, schedule |-> Means(op.schedule), on |-> op.on]
OnlyAt(n) == DOMAIN new = DOMAIN text /\ \A i \in DOMAIN text : i # n => new[i] = text[i]
ReadsBackAsAsked ==
  pc = "planned" =>
    CASE op.kind = "create" ->
           new = Append(text, new[Len(new)]) /\ AsAsked(new[Len(new)])
      [] op.kind = "delete" ->
           \E n \in DOMAIN text :
             /\ text[n].job = op.job
             /\ new = SubSeq(text, 1, n - 1) \o SubSeq(text, n + 1, Len(text))
      [] op.kind = "update" ->
           \E n \in DOMAIN text :
             /\ text[n].job = op.job /\ OnlyAt(n) /\ AsAsked(new[n])
             /\ new[n].delay = IF op.delay = Keep THEN text[n].delay ELSE op.delay
      [] op.kind = "switch" ->
           \E n \in DOMAIN text :
             /\ text[n].job = op.job /\ OnlyAt(n)
             /\ IsShown(text[n]) /\ text[n].mark # "indented" =>
                  IsShown(new[n]) /\ Shown(new[n]) = [Shown(text[n]) EXCEPT !.on = op.on]
=============================================================================
