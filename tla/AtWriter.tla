------------------------------ MODULE AtWriter ------------------------------
(***************************************************************************)
(* The at writer (write/at.rs) in several sessions that share one queue,   *)
(* with atd running what is due.  An edit queues the new job, reads its    *)
(* number off the answer, and removes the old one; there is nothing to     *)
(* lock and nothing to roll back, so all that counts is the order.         *)
(*                                                                         *)
(* Time is counted in MIN_LEAD_SECONDS.  Jobs are numbered in the order    *)
(* they are queued.  A "line" is a job with the edits made of it.          *)
(***************************************************************************)
EXTENDS Naturals, FiniteSets, Sequences

CONSTANTS
  Sessions,  (* programs that use the queue at the same time               *)
  Faults,    (* what a failing call does: "refused" or "lost"              *)
  MaxNow,    (* bound on the clock                                         *)
  MaxAsks    (* bound on the requests                                      *)

ASSUME AtAssumption ==
  /\ Faults \subseteq {"refused", "lost"}
  /\ MaxNow \in Nat /\ MaxAsks \in Nat

VARIABLES
  now,       (* the clock                                                  *)
  jobs,      (* every job ever queued                                      *)
  session,   (* what each session is about                                 *)
  loose,     (* history: jobs queued by an edit that then failed           *)
  asked      (* history: how many requests                                 *)

atvars == <<now, jobs, session, loose, asked>>

Text == 0            (* ScheduleType::Calendar: words that at resolves     *)
MinLead == 1         (* MIN_LEAD_SECONDS                                   *)
Whens == 0 .. MaxNow + 1

Stages == {"plan", "check", "queue", "remove", "ok", "error", "killed"}
Idle == {"ok", "error", "killed"}

Job == [status: {"pending", "ran", "replaced", "deleted"}, when: Whens, line: Nat \ {0}]

(* old is the job named in the id, 0 for a create; new the number that was *)
(* read off the answer of at, 0 before.                                    *)
Session == [stage: Stages, verb: {"create", "update", "delete"},
            old: Nat, new: Nat, when: Whens, blank: BOOLEAN]

NamesItsJob(s) ==
  /\ session[s].old \in {0} \cup DOMAIN jobs /\ session[s].new \in {0} \cup DOMAIN jobs
  /\ session[s].old = 0 <=> session[s].verb = "create"
  /\ session[s].stage = "remove" => session[s].verb # "create"
  /\ session[s].stage = "queue" => session[s].verb # "delete"

TypeOK ==
  /\ now \in 0 .. MaxNow
  /\ jobs \in Seq(Job)
  /\ session \in [Sessions -> Session]
  /\ \A s \in Sessions : NamesItsJob(s)
  /\ loose \subseteq DOMAIN jobs
  /\ asked \in 0 .. MaxAsks

Init ==
  /\ now = 0 /\ jobs = <<>> /\ loose = {} /\ asked = 0
  /\ session = [s \in Sessions |-> [stage |-> "ok", verb |-> "create", old |-> 0, new |-> 0,
                                    when |-> Text, blank |-> FALSE]]

-----------------------------------------------------------------------------
At(s, stage) == session[s].stage = stage
Goto(s, stage) == session' = [session EXCEPT ![s].stage = stage]

(* A request for a job that some listing showed: it may be gone by now.    *)
(* The command of an edit may be blank.                                    *)
Ask(s) ==
  /\ session[s].stage \in Idle /\ asked < MaxAsks
  /\ \E verb \in {"create", "update", "delete"}, old \in {0} \cup DOMAIN jobs, when \in Whens,
        blank \in BOOLEAN :
       /\ old = 0 <=> verb = "create"
       /\ verb = "delete" => when = Text
       /\ blank => verb = "update"
       /\ session' = [session EXCEPT ![s] = [stage |-> "plan", verb |-> verb, old |-> old,
                                             new |-> 0, when |-> when, blank |-> blank]]
  /\ asked' = asked + 1
  /\ UNCHANGED <<now, jobs, loose>>

(* at_command: the lead of a fixed time.                                   *)
TooSoon(when) == when # Text /\ when < now + MinLead

Pending(j) == j \in DOMAIN jobs /\ jobs[j].status = "pending"

(* What a plan is refused for: the time, or a job that `at -c` does not    *)
(* know when its command is wanted.                                        *)
Refused(s) ==
  /\ session[s].verb # "delete"
  /\ TooSoon(session[s].when) \/ (session[s].blank /\ ~Pending(session[s].old))

(* The dry run in Session::apply, and the same checks once more when the   *)
(* plan is made to be carried out.                                         *)
Plan(s) ==
  /\ At(s, "plan")
  /\ Goto(s, IF Refused(s) THEN "error" ELSE "check")
  /\ UNCHANGED <<now, jobs, loose, asked>>

(* Mutant of Check: an edit removes the old job first.                     *)
CheckRemovesFirst(s) ==
  /\ At(s, "check")
  /\ Goto(s, IF Refused(s) THEN "error"
             ELSE IF session[s].verb = "create" THEN "queue" ELSE "remove")
  /\ UNCHANGED <<now, jobs, loose, asked>>

Check(s) ==
  /\ At(s, "check")
  /\ Goto(s, IF Refused(s) THEN "error"
             ELSE IF session[s].verb = "delete" THEN "remove" ELSE "queue")
  /\ UNCHANGED <<now, jobs, loose, asked>>

(* The edit ends here, and the job it may have queued stays.               *)
LeftOver(s) ==
  loose' = loose \cup (IF session[s].verb = "update" THEN {session[s].new} \ {0} ELSE {})

(* A call that reads (the job body, the UTC offset) may fail, and so may   *)
(* one that at or atrm denies.                                             *)
Denied(s) ==
  /\ "refused" \in Faults /\ session[s].stage \in {"plan", "check", "queue", "remove"}
  /\ session[s].stage \in {"plan", "check"} =>
       session[s].blank \/ (session[s].verb # "delete" /\ session[s].when # Text)
  /\ Goto(s, "error")
  /\ LeftOver(s)
  /\ UNCHANGED <<now, jobs, asked>>

Line(s) == IF session[s].old = 0 THEN Len(jobs) + 1 ELSE jobs[session[s].old].line

(* at refuses a time that has passed, and takes a text to mean the future. *)
Queued(s) ==
  /\ session[s].when = Text \/ session[s].when > now
  /\ \E when \in (IF session[s].when = Text THEN {now, now + 1} ELSE {session[s].when}) :
       jobs' = Append(jobs, [status |-> "pending", when |-> when, line |-> Line(s)])

(* Mutant of AfterQueue: there is always an old job.                       *)
RemoveAlways(s) == "remove"

AfterQueue(s) == IF session[s].verb = "update" THEN "remove" ELSE "ok"

(* Mutant of Queue: the id of the old job is reported.                     *)
QueueOldNumber(s) ==
  /\ At(s, "queue") /\ Queued(s)
  /\ session' = [session EXCEPT ![s].stage = AfterQueue(s), ![s].new = session[s].old]
  /\ UNCHANGED <<now, loose, asked>>

Queue(s) ==
  /\ At(s, "queue") /\ Queued(s)
  /\ session' = [session EXCEPT ![s].stage = AfterQueue(s), ![s].new = Len(jobs')]
  /\ UNCHANGED <<now, loose, asked>>

(* The job is queued and the session does not get to know: no answer, or   *)
(* one without a job number.                                               *)
QueueUnheard(s) ==
  /\ At(s, "queue") /\ Queued(s) /\ "lost" \in Faults
  /\ Goto(s, "error")
  /\ loose' = IF session[s].verb = "update" THEN loose \cup {Len(jobs')} ELSE loose
  /\ UNCHANGED <<now, asked>>

QueueTooLate(s) ==
  /\ At(s, "queue") /\ ~(session[s].when = Text \/ session[s].when > now)
  /\ Goto(s, "error")
  /\ UNCHANGED <<now, jobs, loose, asked>>

Removed(s) ==
  /\ Pending(session[s].old)
  /\ jobs' = [jobs EXCEPT ![session[s].old].status =
                IF session[s].verb = "delete" THEN "deleted" ELSE "replaced"]

Remove(s) ==
  /\ At(s, "remove") /\ Removed(s)
  /\ Goto(s, "ok")
  /\ UNCHANGED <<now, loose, asked>>

RemoveUnheard(s) ==
  /\ At(s, "remove") /\ Removed(s) /\ "lost" \in Faults
  /\ Goto(s, "error")
  /\ UNCHANGED <<now, loose, asked>>

(* Mutant of NothingToRemove: a failing atrm is passed over.               *)
NothingToRemoveIgnored(s) ==
  /\ At(s, "remove") /\ ~Pending(session[s].old)
  /\ Goto(s, "ok")
  /\ UNCHANGED <<now, jobs, loose, asked>>

(* atrm cannot find the job: it has run, or another session was faster.    *)
NothingToRemove(s) ==
  /\ At(s, "remove") /\ ~Pending(session[s].old)
  /\ Goto(s, "error")
  /\ LeftOver(s)
  /\ UNCHANGED <<now, jobs, asked>>

Kill(s) ==
  /\ session[s].stage \notin Idle
  /\ Goto(s, "killed")
  /\ LeftOver(s)
  /\ UNCHANGED <<now, jobs, asked>>

(* atd *)
Fire(j) ==
  /\ Pending(j) /\ jobs[j].when <= now
  /\ jobs' = [jobs EXCEPT ![j].status = "ran"]
  /\ UNCHANGED <<now, session, loose, asked>>

Tick == now < MaxNow /\ now' = now + 1 /\ UNCHANGED <<jobs, session, loose, asked>>

Over == asked = MaxAsks /\ (\A s \in Sessions : session[s].stage \in Idle) /\ UNCHANGED atvars

Step(s) == \/ Ask(s) \/ Plan(s) \/ Check(s) \/ Denied(s)
           \/ Queue(s) \/ QueueUnheard(s) \/ QueueTooLate(s)
           \/ Remove(s) \/ RemoveUnheard(s) \/ NothingToRemove(s) \/ Kill(s)

Next == (\E s \in Sessions : Step(s)) \/ (\E j \in DOMAIN jobs : Fire(j)) \/ Tick \/ Over

Spec == Init /\ [][Next]_atvars

-----------------------------------------------------------------------------
(* What the comment on update says: a job is never lost by an edit.        *)
(* Whatever fails, however sessions cross, a job that an edit removed has  *)
(* a newer one of its line that runs, has run, or was deleted on request.  *)
NoJobIsLost ==
  \A j \in DOMAIN jobs : jobs[j].status = "replaced" =>
    \E k \in j + 1 .. Len(jobs) : jobs[k].line = jobs[j].line /\ jobs[k].status # "replaced"

(* A job runs, or will run, more than once only by an edit that was not    *)
(* reported as done.                                                       *)
Live(line) == {j \in DOMAIN jobs : jobs[j].line = line /\ jobs[j].status \in {"pending", "ran"}}
Loose(line) == {j \in loose : jobs[j].line = line}
Underway(line) == {s \in Sessions : /\ At(s, "remove") /\ session[s].verb = "update"
                                    /\ jobs[session[s].old].line = line}
DuplicatesAreReported ==
  \A line \in 1 .. Len(jobs) :
    Cardinality(Live(line)) <= 1 + Cardinality(Loose(line)) + Cardinality(Underway(line))

(* What is reported as done is done: the number names a job at the time    *)
(* asked for, and the old job neither waits nor has run.                   *)
SuccessIsTrue ==
  \A s \in Sessions : At(s, "ok") =>
    /\ session[s].verb # "delete" /\ session[s].new # 0 =>
         jobs[session[s].new].when = session[s].when \/ session[s].when = Text
    /\ session[s].verb = "update" =>
         /\ jobs[session[s].old].status = "replaced"
         /\ session[s].new > session[s].old
         /\ jobs[session[s].new].line = jobs[session[s].old].line
    /\ session[s].verb = "delete" => jobs[session[s].old].status = "deleted"
=============================================================================
