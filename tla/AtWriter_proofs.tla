--------------------------- MODULE AtWriter_proofs ---------------------------
(***************************************************************************)
(* For every number of sessions, requests and ticks of the clock: the type *)
(* invariant of AtWriter, that no edit loses a job, that what is reported  *)
(* as done is done, and that a job is there twice only where this was      *)
(* reported.                                                               *)
(***************************************************************************)
EXTENDS AtWriter, FiniteSetTheorems, TLAPS

(* A session that has queued a job knows its number; an edit that is about *)
(* to remove the old job has queued the new one, of the same line.         *)
Knows(s) ==
  session[s].stage \in {"remove", "ok"} =>
    /\ session[s].verb # "delete" /\ session[s].new # 0 =>
         jobs[session[s].new].when = session[s].when \/ session[s].when = Text
    /\ session[s].verb = "update" =>
         /\ session[s].new \in DOMAIN jobs
         /\ session[s].new > session[s].old
         /\ jobs[session[s].new].line = jobs[session[s].old].line

HasRemoved(s) ==
  session[s].stage = "ok" =>
    /\ session[s].verb = "update" => jobs[session[s].old].status = "replaced"
    /\ session[s].verb = "delete" => jobs[session[s].old].status = "deleted"

SessionsOK == \A s \in Sessions : Knows(s) /\ HasRemoved(s)

IInv == TypeOK /\ SessionsOK /\ NoJobIsLost

(* Jobs are never renumbered, rescheduled or revived.                      *)
Grown ==
  /\ Len(jobs) <= Len(jobs')
  /\ \A j \in DOMAIN jobs :
       /\ j \in DOMAIN jobs'
       /\ jobs'[j].when = jobs[j].when /\ jobs'[j].line = jobs[j].line
       /\ jobs[j].status # "pending" => jobs'[j].status = jobs[j].status

-----------------------------------------------------------------------------
LEMMA JobType ==
  ASSUME TypeOK, NEW j \in DOMAIN jobs
  PROVE  /\ jobs[j] \in Job
         /\ jobs[j].when \in Whens /\ jobs[j].line \in Nat \ {0}
<1>1. jobs[j] \in Job
  BY DEF TypeOK
<1> QED
  BY <1>1 DEF Job

LEMMA StatusChange ==
  ASSUME TypeOK, NEW j \in DOMAIN jobs,
         NEW status \in {"pending", "ran", "replaced", "deleted"},
         jobs[j].status = "pending",
         jobs' = [jobs EXCEPT ![j].status = status]
  PROVE  /\ jobs' \in Seq(Job) /\ Len(jobs') = Len(jobs)
         /\ jobs'[j].status = status
         /\ \A k \in DOMAIN jobs \ {j} : jobs'[k] = jobs[k]
         /\ Grown
<1>1. jobs \in Seq(Job)
  BY DEF TypeOK
<1>2. [jobs[j] EXCEPT !.status = status] \in Job
  BY JobType DEF Job
<1>3. jobs' = [jobs EXCEPT ![j] = [jobs[j] EXCEPT !.status = status]]
  OBVIOUS
<1>4. jobs' \in Seq(Job) /\ Len(jobs') = Len(jobs) /\ DOMAIN jobs' = DOMAIN jobs
  BY <1>1, <1>2, <1>3
<1>5. jobs'[j] = [jobs[j] EXCEPT !.status = status]
  BY <1>1, <1>3
<1>6. jobs'[j].status = status /\ jobs'[j].when = jobs[j].when /\ jobs'[j].line = jobs[j].line
  BY <1>5, JobType DEF Job
<1>7. \A k \in DOMAIN jobs \ {j} : jobs'[k] = jobs[k]
  BY <1>1, <1>3
<1>8. Grown
  BY <1>1, <1>4, <1>6, <1>7 DEF Grown
<1> QED
  BY <1>4, <1>6, <1>7, <1>8

LEMMA QueuedFacts ==
  ASSUME TypeOK, NEW s \in Sessions, Queued(s)
  PROVE  /\ jobs' \in Seq(Job) /\ Len(jobs') = Len(jobs) + 1
         /\ \A j \in DOMAIN jobs : jobs'[j] = jobs[j]
         /\ jobs'[Len(jobs')].status = "pending"
         /\ jobs'[Len(jobs')].line = Line(s)
         /\ session[s].when = Text \/ jobs'[Len(jobs')].when = session[s].when
         /\ Grown
<1>1. Line(s) \in Nat \ {0}
  <2>1. session[s].old \in {0} \cup DOMAIN jobs /\ jobs \in Seq(Job)
    BY DEF TypeOK, NamesItsJob
  <2> QED
    BY <2>1, JobType DEF Line
<1>2. PICK when \in (IF session[s].when = Text THEN {now, now + 1} ELSE {session[s].when}) :
        jobs' = Append(jobs, [status |-> "pending", when |-> when, line |-> Line(s)])
  BY DEF Queued
<1>3. when \in Whens
  <2>1. now \in 0 .. MaxNow /\ session[s].when \in Whens
    BY DEF TypeOK, Session
  <2> QED
    BY <1>2, <2>1, AtAssumption DEF Whens
<1> DEFINE job == [status |-> "pending", when |-> when, line |-> Line(s)]
<1>4. job \in Job /\ job.status = "pending" /\ job.when = when /\ job.line = Line(s)
  BY <1>1, <1>3 DEF Job
<1>5. session[s].when = Text \/ job.when = session[s].when
  BY <1>2, <1>4
<1>6. jobs \in Seq(Job) /\ jobs' = Append(jobs, job)
  BY <1>2 DEF TypeOK
<1> HIDE DEF job
<1>7. /\ jobs' \in Seq(Job) /\ Len(jobs') = Len(jobs) + 1 /\ jobs'[Len(jobs')] = job
      /\ DOMAIN jobs = 1 .. Len(jobs) /\ DOMAIN jobs' = 1 .. Len(jobs')
      /\ \A j \in DOMAIN jobs : jobs'[j] = jobs[j]
  BY <1>4, <1>6
<1>8. Grown
  BY <1>6, <1>7 DEF Grown
<1> QED
  BY <1>4, <1>5, <1>7, <1>8

LEMMA RemovedFacts ==
  ASSUME TypeOK, NEW s \in Sessions, Removed(s)
  PROVE  /\ jobs' \in Seq(Job) /\ Len(jobs') = Len(jobs)
         /\ session[s].old \in DOMAIN jobs
         /\ jobs'[session[s].old].status =
              IF session[s].verb = "delete" THEN "deleted" ELSE "replaced"
         /\ \A j \in DOMAIN jobs \ {session[s].old} : jobs'[j] = jobs[j]
         /\ Grown
  BY StatusChange DEF Removed, Pending

LEMMA FireFacts ==
  ASSUME TypeOK, NEW j \in DOMAIN jobs, Fire(j)
  PROVE  /\ jobs' \in Seq(Job) /\ Len(jobs') = Len(jobs)
         /\ jobs'[j].status = "ran"
         /\ \A k \in DOMAIN jobs \ {j} : jobs'[k] = jobs[k]
         /\ Grown
  BY StatusChange DEF Fire, Pending

LEMMA InitIInv == Init => IInv
  BY AtAssumption DEF Init, IInv, TypeOK, SessionsOK, Knows, HasRemoved, NoJobIsLost, Whens,
     Stages, Text, Job, Session, NamesItsJob

LEMMA GotoType ==
  ASSUME TypeOK, NEW s \in Sessions, NEW stage \in Stages, Goto(s, stage),
         jobs' \in Seq(Job), Len(jobs) <= Len(jobs'),
         stage = "remove" => session[s].verb # "create",
         stage = "queue" => session[s].verb # "delete"
  PROVE  session' \in [Sessions -> Session] /\ \A t \in Sessions : NamesItsJob(t)'
<1>1. session \in [Sessions -> Session] /\ \A t \in Sessions : NamesItsJob(t)
  BY DEF TypeOK
<1>2. DOMAIN jobs \subseteq DOMAIN jobs'
  BY DEF TypeOK
<1>3. session' = [session EXCEPT ![s] = [session[s] EXCEPT !.stage = stage]]
  BY DEF Goto
<1>4. [session[s] EXCEPT !.stage = stage] \in Session
  BY <1>1 DEF Session
<1>5. session' \in [Sessions -> Session]
  BY <1>1, <1>3, <1>4
<1>6. ASSUME NEW t \in Sessions PROVE NamesItsJob(t)'
  <2>1. /\ session'[t].old = session[t].old /\ session'[t].verb = session[t].verb
        /\ session'[t].new = session[t].new
        /\ session'[t].stage = IF t = s THEN stage ELSE session[t].stage
    BY <1>1, <1>3, <1>4 DEF Session
  <2> QED
    BY <1>1, <1>2, <2>1 DEF NamesItsJob
<1> QED
  BY <1>5, <1>6

LEMMA TypeStep == TypeOK /\ [Next]_atvars => TypeOK'
<1> SUFFICES ASSUME TypeOK, [Next]_atvars PROVE TypeOK'
  OBVIOUS
<1>0. /\ now \in 0 .. MaxNow /\ jobs \in Seq(Job) /\ session \in [Sessions -> Session]
      /\ loose \subseteq DOMAIN jobs /\ asked \in 0 .. MaxAsks
      /\ \A t \in Sessions : NamesItsJob(t)
  BY DEF TypeOK
<1>1. ASSUME NEW s \in Sessions, Ask(s) PROVE TypeOK'
  <2>1. PICK verb \in {"create", "update", "delete"}, old \in {0} \cup DOMAIN jobs,
             when \in Whens, blank \in BOOLEAN :
          /\ old = 0 <=> verb = "create"
          /\ session' = [session EXCEPT ![s] = [stage |-> "plan", verb |-> verb, old |-> old,
                                                new |-> 0, when |-> when, blank |-> blank]]
    BY <1>1 DEF Ask
  <2> DEFINE r == [stage |-> "plan", verb |-> verb, old |-> old, new |-> 0, when |-> when,
                   blank |-> blank]
  <2>2. r \in Session /\ r.old = old /\ r.verb = verb /\ r.stage = "plan"
    BY <1>0 DEF Session, Stages
  <2>3. session' = [session EXCEPT ![s] = r]
    BY <2>1
  <2> HIDE DEF r
  <2>4. session' \in [Sessions -> Session]
    BY <1>0, <2>2, <2>3
  <2>5. jobs' = jobs /\ now' = now /\ loose' = loose /\ asked' \in 0 .. MaxAsks
    BY <1>0, <1>1, AtAssumption DEF Ask
  <2>6. \A t \in Sessions : NamesItsJob(t)'
    <3>1. /\ r.new = 0
          /\ \A t \in Sessions \ {s} : session'[t] = session[t]
          /\ session'[s] = r
      BY <1>0, <2>2, <2>3 DEF r
    <3> QED
      BY <1>0, <2>1, <2>2, <3>1, <2>5 DEF NamesItsJob
  <2> QED
    BY <1>0, <2>4, <2>5, <2>6 DEF TypeOK
<1>2. ASSUME NEW s \in Sessions, Plan(s) \/ Check(s) PROVE TypeOK'
  <2>1. PICK stage \in Stages : /\ Goto(s, stage)
                                /\ stage = "remove" => session[s].verb = "delete"
                                /\ stage = "queue" => session[s].verb # "delete"
    BY <1>2 DEF Plan, Check, Stages
  <2>2. jobs' = jobs /\ now' = now /\ loose' = loose /\ asked' = asked
    BY <1>2 DEF Plan, Check
  <2> QED
    BY <1>0, <2>1, <2>2, GotoType DEF TypeOK
<1>3. ASSUME NEW s \in Sessions, Denied(s) \/ NothingToRemove(s) \/ Kill(s) PROVE TypeOK'
  <2>1. PICK stage \in {"error", "killed"} : Goto(s, stage)
    BY <1>3 DEF Denied, NothingToRemove, Kill
  <2>2. jobs' = jobs /\ now' = now /\ asked' = asked
    BY <1>3 DEF Denied, NothingToRemove, Kill
  <2>3. loose' \subseteq DOMAIN jobs'
    <3>1. session[s].new \in {0} \cup DOMAIN jobs
      BY <1>0 DEF NamesItsJob
    <3> QED
      BY <1>0, <1>3, <2>2, <3>1 DEF Denied, NothingToRemove, Kill, LeftOver
  <2> QED
    BY <1>0, <2>1, <2>2, <2>3, GotoType DEF TypeOK, Stages
<1>4. ASSUME NEW s \in Sessions, Queue(s) PROVE TypeOK'
  <2>1. Queued(s) /\ now' = now /\ loose' = loose /\ asked' = asked
    BY <1>4 DEF Queue
  <2>2. /\ jobs' \in Seq(Job) /\ Len(jobs') = Len(jobs) + 1
    BY <2>1, QueuedFacts
  <2> DEFINE r == [session[s] EXCEPT !.stage = AfterQueue(s), !.new = Len(jobs')]
  <2>3. session' = [session EXCEPT ![s] = r]
    BY <1>4 DEF Queue
  <2>4. /\ r \in Session /\ r.old = session[s].old /\ r.verb = session[s].verb
        /\ r.new = Len(jobs') /\ r.stage = AfterQueue(s)
    <3>1. session[s] \in Session /\ Len(jobs') \in Nat /\ AfterQueue(s) \in Stages
      BY <1>0, <2>2 DEF Stages, AfterQueue
    <3> QED
      BY <3>1 DEF Session
  <2> HIDE DEF r
  <2>5. session' \in [Sessions -> Session] /\ session'[s] = r
        /\ \A t \in Sessions \ {s} : session'[t] = session[t]
    BY <1>0, <2>3, <2>4
  <2>6. DOMAIN jobs \subseteq DOMAIN jobs' /\ Len(jobs') \in DOMAIN jobs'
    BY <1>0, <2>2
  <2>7. \A t \in Sessions : NamesItsJob(t)'
    BY <1>0, <2>4, <2>5, <2>6 DEF NamesItsJob, AfterQueue
  <2> QED
    BY <1>0, <2>1, <2>2, <2>5, <2>6, <2>7 DEF TypeOK
<1>5. ASSUME NEW s \in Sessions, QueueUnheard(s) PROVE TypeOK'
  <2>1. Queued(s) /\ Goto(s, "error") /\ now' = now /\ asked' = asked
    BY <1>5 DEF QueueUnheard
  <2>2. jobs' \in Seq(Job) /\ Len(jobs') = Len(jobs) + 1
    BY <2>1, QueuedFacts
  <2>3. loose' \subseteq DOMAIN jobs'
    BY <1>0, <1>5, <2>2 DEF QueueUnheard
  <2> QED
    BY <1>0, <2>1, <2>2, <2>3, GotoType DEF TypeOK, Stages
<1>6. ASSUME NEW s \in Sessions, QueueTooLate(s) PROVE TypeOK'
  <2>1. Goto(s, "error") /\ jobs' = jobs /\ now' = now /\ loose' = loose /\ asked' = asked
    BY <1>6 DEF QueueTooLate
  <2> QED
    BY <1>0, <2>1, GotoType DEF TypeOK, Stages
<1>7. ASSUME NEW s \in Sessions, Remove(s) \/ RemoveUnheard(s) PROVE TypeOK'
  <2>1. PICK stage \in {"ok", "error"} : Goto(s, stage)
    BY <1>7 DEF Remove, RemoveUnheard
  <2>2. Removed(s) /\ now' = now /\ loose' = loose /\ asked' = asked
    BY <1>7 DEF Remove, RemoveUnheard
  <2>3. jobs' \in Seq(Job) /\ Len(jobs') = Len(jobs)
    BY <2>2, RemovedFacts
  <2> QED
    BY <1>0, <2>1, <2>2, <2>3, GotoType DEF TypeOK, Stages
<1>8. ASSUME NEW j \in DOMAIN jobs, Fire(j) PROVE TypeOK'
  <2>1. jobs' \in Seq(Job) /\ Len(jobs') = Len(jobs)
    BY <1>8, FireFacts
  <2>2. DOMAIN jobs' = DOMAIN jobs /\ session' = session /\ now' = now /\ loose' = loose
        /\ asked' = asked
    BY <1>0, <1>8, <2>1 DEF Fire
  <2> QED
    BY <1>0, <2>1, <2>2 DEF TypeOK, NamesItsJob
<1>9. CASE Tick
  BY <1>0, <1>9, AtAssumption DEF Tick, TypeOK, NamesItsJob
<1>10. CASE UNCHANGED atvars
  BY <1>0, <1>10 DEF atvars, TypeOK, NamesItsJob
<1> QED
  BY <1>1, <1>2, <1>3, <1>4, <1>5, <1>6, <1>7, <1>8, <1>9, <1>10 DEF Next, Step, Over

-----------------------------------------------------------------------------
(* Every step lets the jobs grow.                                          *)
LEMMA GrownStep == TypeOK /\ [Next]_atvars => Grown
<1> SUFFICES ASSUME TypeOK, [Next]_atvars PROVE Grown
  OBVIOUS
<1>1. CASE UNCHANGED jobs
  BY <1>1 DEF Grown, TypeOK
<1>2. CASE \E s \in Sessions : Queued(s)
  BY <1>2, QueuedFacts
<1>3. CASE \E s \in Sessions : Removed(s)
  BY <1>3, RemovedFacts
<1>4. CASE \E j \in DOMAIN jobs : Fire(j)
  BY <1>4, FireFacts
<1> QED
  BY <1>1, <1>2, <1>3, <1>4 DEF Next, Step, Over, atvars, Ask, Plan, Check, Denied, Queue,
     QueueUnheard, QueueTooLate, Remove, RemoveUnheard, NothingToRemove, Kill, Tick

(* A session that stays where it is keeps what it knows.                   *)
LEMMA StaysTrue ==
  ASSUME TypeOK, Grown, NEW t \in Sessions, Knows(t), HasRemoved(t), session'[t] = session[t]
  PROVE  Knows(t)' /\ HasRemoved(t)'
<1>1. NamesItsJob(t)
  BY DEF TypeOK
<1>2. /\ session[t].verb # "create" => session[t].old \in DOMAIN jobs
      /\ session[t].new # 0 => session[t].new \in DOMAIN jobs
  BY <1>1 DEF NamesItsJob
<1> QED
  BY <1>2 DEF Knows, HasRemoved, Grown

LEMMA SessionsStep == TypeOK /\ SessionsOK /\ [Next]_atvars => SessionsOK'
<1> SUFFICES ASSUME TypeOK, SessionsOK, [Next]_atvars PROVE SessionsOK'
  OBVIOUS
<1>0. /\ jobs \in Seq(Job) /\ session \in [Sessions -> Session]
      /\ \A t \in Sessions : NamesItsJob(t) /\ Knows(t) /\ HasRemoved(t)
  BY DEF TypeOK, SessionsOK
<1>1. Grown
  BY GrownStep
<1>2. CASE UNCHANGED session
  BY <1>0, <1>1, <1>2, StaysTrue DEF SessionsOK
<1>3. ASSUME NEW s \in Sessions, NEW stage \in Stages, Goto(s, stage),
             stage = "remove" => session[s].verb = "delete", stage # "ok"
      PROVE  SessionsOK'
  <2>1. \A t \in Sessions \ {s} : session'[t] = session[t]
    BY <1>0, <1>3 DEF Goto
  <2>2. session'[s].stage = stage /\ session'[s].verb = session[s].verb
    BY <1>0, <1>3 DEF Goto, Session
  <2>3. Knows(s)' /\ HasRemoved(s)'
    BY <1>3, <2>2 DEF Knows, HasRemoved
  <2> QED
    BY <1>0, <1>1, <2>1, <2>3, StaysTrue DEF SessionsOK
<1>4. ASSUME NEW s \in Sessions, Ask(s) PROVE SessionsOK'
  <2>1. \A t \in Sessions \ {s} : session'[t] = session[t]
    BY <1>0, <1>4 DEF Ask
  <2>2. session'[s].stage = "plan"
    BY <1>0, <1>4 DEF Ask
  <2>3. Knows(s)' /\ HasRemoved(s)'
    BY <2>2 DEF Knows, HasRemoved
  <2> QED
    BY <1>0, <1>1, <2>1, <2>3, StaysTrue DEF SessionsOK
<1>5. ASSUME NEW s \in Sessions, Queue(s) PROVE SessionsOK'
  <2>1. /\ Queued(s)
        /\ session' = [session EXCEPT ![s] = [session[s] EXCEPT !.stage = AfterQueue(s),
                                                               !.new = Len(jobs')]]
        /\ session[s].stage = "queue"
    BY <1>5 DEF Queue, At
  <2>2. \A t \in Sessions \ {s} : session'[t] = session[t]
    BY <1>0, <2>1
  <2>3. /\ session'[s].stage = AfterQueue(s) /\ session'[s].new = Len(jobs')
        /\ session'[s].verb = session[s].verb /\ session'[s].old = session[s].old
        /\ session'[s].when = session[s].when
    BY <1>0, <2>1 DEF Session
  <2>4. /\ Len(jobs') = Len(jobs) + 1 /\ jobs' \in Seq(Job)
        /\ \A j \in DOMAIN jobs : jobs'[j] = jobs[j]
        /\ session[s].when = Text \/ jobs'[Len(jobs')].when = session[s].when
        /\ jobs'[Len(jobs')].line = Line(s)
    BY <2>1, QueuedFacts
  <2>5. Knows(s)'
    <3>1. CASE session[s].verb = "update"
      <4>1. session[s].old \in DOMAIN jobs /\ session[s].old # 0
        BY <1>0, <3>1 DEF NamesItsJob
      <4>2. Len(jobs') \in DOMAIN jobs' /\ Len(jobs') > session[s].old
        BY <1>0, <2>4, <4>1
      <4>3. jobs'[Len(jobs')].line = jobs'[session[s].old].line
        BY <2>4, <4>1 DEF Line
      <4> QED
        BY <2>3, <2>4, <4>2, <4>3 DEF Knows
    <3>2. CASE session[s].verb # "update"
      BY <2>3, <2>4, <3>2 DEF Knows
    <3> QED
      BY <3>1, <3>2
  <2>6. HasRemoved(s)'
    <3>1. session[s].verb # "delete"
      BY <1>0, <2>1 DEF NamesItsJob
    <3> QED
      BY <2>3, <3>1 DEF HasRemoved, AfterQueue
  <2> QED
    BY <1>0, <1>1, <2>2, <2>5, <2>6, StaysTrue DEF SessionsOK
<1>6. ASSUME NEW s \in Sessions, Remove(s) PROVE SessionsOK'
  <2>1. Removed(s) /\ Goto(s, "ok") /\ session[s].stage = "remove"
    BY <1>6 DEF Remove, At
  <2>2. \A t \in Sessions \ {s} : session'[t] = session[t]
    BY <1>0, <2>1 DEF Goto
  <2>3. /\ session'[s].stage = "ok" /\ session'[s].new = session[s].new
        /\ session'[s].verb = session[s].verb /\ session'[s].old = session[s].old
        /\ session'[s].when = session[s].when
    BY <1>0, <2>1 DEF Goto, Session
  <2>4. HasRemoved(s)'
    BY <2>1, <2>3, RemovedFacts DEF HasRemoved
  <2>5. Knows(s)'
    <3>1. Knows(s) /\ NamesItsJob(s)
      BY <1>0
    <3>2. session[s].old \in DOMAIN jobs
      BY <2>1, RemovedFacts
    <3> QED
      BY <1>1, <2>1, <2>3, <3>1, <3>2 DEF Knows, NamesItsJob, Grown
  <2> QED
    BY <1>0, <1>1, <2>2, <2>4, <2>5, StaysTrue DEF SessionsOK
<1>7. ASSUME NEW s \in Sessions, Plan(s) \/ Check(s) PROVE SessionsOK'
  <2>1. PICK stage \in Stages \ {"ok"} : /\ Goto(s, stage)
                                         /\ stage = "remove" => session[s].verb = "delete"
    BY <1>7 DEF Plan, Check, Stages
  <2> QED
    BY <1>3, <2>1
<1>8. ASSUME NEW s \in Sessions,
             \/ Denied(s) \/ QueueUnheard(s) \/ QueueTooLate(s)
             \/ RemoveUnheard(s) \/ NothingToRemove(s) \/ Kill(s)
      PROVE  SessionsOK'
  <2>1. PICK stage \in {"error", "killed"} : Goto(s, stage)
    BY <1>8 DEF Denied, QueueUnheard, QueueTooLate, RemoveUnheard, NothingToRemove, Kill
  <2> QED
    BY <1>3, <2>1 DEF Stages
<1> QED
  BY <1>2, <1>4, <1>5, <1>6, <1>7, <1>8 DEF Next, Step, Over, Fire, Tick, atvars

(* The newest job of a line is never the one that an edit removes.         *)
Succeeded(j) == \E k \in j + 1 .. Len(jobs) : /\ jobs[k].line = jobs[j].line
                                              /\ jobs[k].status # "replaced"

LEMMA NoJobIsLostStep ==
  TypeOK /\ SessionsOK /\ NoJobIsLost /\ [Next]_atvars => NoJobIsLost'
<1> SUFFICES ASSUME TypeOK, SessionsOK, NoJobIsLost, [Next]_atvars PROVE NoJobIsLost'
  OBVIOUS
<1>0. /\ jobs \in Seq(Job)
      /\ \A j \in DOMAIN jobs : jobs[j].status = "replaced" => Succeeded(j)
  BY DEF TypeOK, NoJobIsLost, Succeeded
<1>1. CASE UNCHANGED jobs
  BY <1>1 DEF NoJobIsLost
<1>2. ASSUME NEW s \in Sessions, Queued(s) PROVE NoJobIsLost'
  <2>1. /\ jobs' \in Seq(Job) /\ Len(jobs') = Len(jobs) + 1
        /\ \A j \in DOMAIN jobs : jobs'[j] = jobs[j]
        /\ jobs'[Len(jobs')].status = "pending"
    BY <1>2, QueuedFacts
  <2>2. ASSUME NEW j \in DOMAIN jobs', jobs'[j].status = "replaced"
        PROVE  \E k \in j + 1 .. Len(jobs') : /\ jobs'[k].line = jobs'[j].line
                                              /\ jobs'[k].status # "replaced"
    <3>1. j \in DOMAIN jobs
      BY <1>0, <2>1, <2>2
    <3>2. PICK k \in j + 1 .. Len(jobs) : /\ jobs[k].line = jobs[j].line
                                          /\ jobs[k].status # "replaced"
      BY <1>0, <2>1, <2>2, <3>1 DEF Succeeded
    <3>3. k \in DOMAIN jobs /\ k \in j + 1 .. Len(jobs')
      BY <1>0, <2>1, <3>1, <3>2
    <3> QED
      BY <2>1, <3>1, <3>2, <3>3
  <2> QED
    BY <2>2 DEF NoJobIsLost
<1>3. ASSUME NEW i \in DOMAIN jobs, Len(jobs') = Len(jobs), jobs' \in Seq(Job), Grown,
             jobs'[i].status # "replaced",
             \A j \in DOMAIN jobs \ {i} : jobs'[j] = jobs[j]
      PROVE  NoJobIsLost'
  <2>1. ASSUME NEW j \in DOMAIN jobs', jobs'[j].status = "replaced"
        PROVE  \E k \in j + 1 .. Len(jobs') : /\ jobs'[k].line = jobs'[j].line
                                              /\ jobs'[k].status # "replaced"
    <3>1. j \in DOMAIN jobs /\ j # i
      BY <1>0, <1>3, <2>1
    <3>2. PICK k \in j + 1 .. Len(jobs) : /\ jobs[k].line = jobs[j].line
                                          /\ jobs[k].status # "replaced"
      BY <1>0, <1>3, <2>1, <3>1 DEF Succeeded
    <3>3. k \in DOMAIN jobs
      BY <1>0, <3>1, <3>2
    <3>4. jobs'[k].line = jobs'[j].line /\ jobs'[k].status # "replaced"
      BY <1>3, <3>1, <3>2, <3>3 DEF Grown
    <3> QED
      BY <1>3, <3>2, <3>4
  <2> QED
    BY <2>1 DEF NoJobIsLost
<1>4. ASSUME NEW s \in Sessions, Removed(s), session[s].stage = "remove" PROVE NoJobIsLost'
  <2> DEFINE old == session[s].old
  <2>1. /\ jobs' \in Seq(Job) /\ Len(jobs') = Len(jobs) /\ old \in DOMAIN jobs
        /\ jobs'[old].status = IF session[s].verb = "delete" THEN "deleted" ELSE "replaced"
        /\ \A j \in DOMAIN jobs \ {old} : jobs'[j] = jobs[j]
        /\ Grown
    BY <1>4, RemovedFacts
  <2>2. CASE session[s].verb = "delete"
    BY <1>3, <2>1, <2>2
  <2>3. CASE session[s].verb # "delete"
    <3>1. session[s].verb = "update"
      BY <1>4, <2>3 DEF TypeOK, NamesItsJob, Session
    <3> DEFINE new == session[s].new
    <3>2. new \in DOMAIN jobs /\ new > old /\ jobs[new].line = jobs[old].line
      BY <1>4, <3>1 DEF SessionsOK, Knows
    <3>3. old \in Nat /\ new \in Nat
      BY <1>0, <2>1, <3>2
    <3> HIDE DEF old, new
    <3>4. PICK k \in DOMAIN jobs : /\ k > old /\ jobs[k].line = jobs[old].line
                                   /\ jobs[k].status # "replaced"
      <4>1. CASE jobs[new].status # "replaced"
        BY <3>2, <4>1
      <4>2. CASE jobs[new].status = "replaced"
        <5>1. PICK k \in new + 1 .. Len(jobs) : /\ jobs[k].line = jobs[new].line
                                                /\ jobs[k].status # "replaced"
          BY <1>0, <3>2, <4>2 DEF Succeeded
        <5>2. k \in DOMAIN jobs /\ k > old
          BY <1>0, <3>2, <3>3, <5>1
        <5> QED
          BY <3>2, <5>1, <5>2
      <4> QED
        BY <4>1, <4>2
    <3>5. k \in Nat /\ k \in DOMAIN jobs \ {old} /\ jobs'[k] = jobs[k]
      BY <1>0, <2>1, <3>3, <3>4
    <3>6. ASSUME NEW j \in DOMAIN jobs', jobs'[j].status = "replaced"
          PROVE  \E m \in j + 1 .. Len(jobs') : /\ jobs'[m].line = jobs'[j].line
                                                /\ jobs'[m].status # "replaced"
      <4>0. j \in DOMAIN jobs /\ j \in Nat
        BY <1>0, <2>1, <3>6
      <4>1. CASE j = old
        <5>1. jobs'[j].line = jobs[old].line
          BY <2>1, <4>0, <4>1 DEF Grown
        <5>2. k \in j + 1 .. Len(jobs')
          BY <1>0, <2>1, <3>3, <3>4, <3>5, <4>1
        <5> QED
          BY <3>4, <3>5, <5>1, <5>2
      <4>2. CASE j # old
        <5>1. jobs'[j] = jobs[j]
          BY <2>1, <4>0, <4>2
        <5>2. PICK m \in j + 1 .. Len(jobs) : /\ jobs[m].line = jobs[j].line
                                              /\ jobs[m].status # "replaced"
          BY <1>0, <3>6, <4>0, <5>1 DEF Succeeded
        <5>3. m \in DOMAIN jobs /\ m \in j + 1 .. Len(jobs')
          BY <1>0, <2>1, <4>0, <5>2
        <5>4. CASE m # old
          BY <2>1, <5>1, <5>2, <5>3, <5>4
        <5>5. CASE m = old
          <6>1. k \in j + 1 .. Len(jobs')
            BY <1>0, <2>1, <3>3, <3>4, <3>5, <4>0, <5>2, <5>5
          <6> QED
            BY <3>4, <3>5, <5>1, <5>2, <5>5, <6>1
        <5> QED
          BY <5>4, <5>5
      <4> QED
        BY <4>1, <4>2
    <3> QED
      BY <3>6 DEF NoJobIsLost
  <2> QED
    BY <2>2, <2>3
<1>5. ASSUME NEW j \in DOMAIN jobs, Fire(j) PROVE NoJobIsLost'
  BY <1>3, <1>5, FireFacts
<1>6. CASE \E s \in Sessions : Queue(s) \/ QueueUnheard(s)
  BY <1>2, <1>6 DEF Queue, QueueUnheard
<1>7. CASE \E s \in Sessions : Remove(s) \/ RemoveUnheard(s)
  BY <1>4, <1>7 DEF Remove, RemoveUnheard, At
<1> QED
  BY <1>1, <1>5, <1>6, <1>7 DEF Next, Step, Over, atvars, Ask, Plan, Check, Denied,
     QueueTooLate, NothingToRemove, Kill, Tick

-----------------------------------------------------------------------------
LEMMA SpecIInv == Spec => []IInv
<1>1. IInv /\ [Next]_atvars => IInv'
  BY TypeStep, SessionsStep, NoJobIsLostStep DEF IInv
<1> QED
  BY InitIInv, <1>1, PTL DEF Spec

(* The state is well typed: every request that names a job names one that  *)
(* was queued, and only requests with an old job get to atrm.              *)
THEOREM TypeCorrect == Spec => []TypeOK
<1>1. IInv => TypeOK
  BY DEF IInv
<1> QED
  BY SpecIInv, <1>1, PTL

(* No edit loses a job, whatever fails and however many sessions edit,     *)
(* delete and are killed at the same time: AtWriter::update queues first.  *)
THEOREM NoJobIsLostHolds == Spec => []NoJobIsLost
<1>1. IInv => NoJobIsLost
  BY DEF IInv
<1> QED
  BY SpecIInv, <1>1, PTL

(* What a session reports as done is done, and its job number is right.    *)
THEOREM SuccessIsTrueHolds == Spec => []SuccessIsTrue
<1>1. IInv => SuccessIsTrue
  BY DEF IInv, SessionsOK, Knows, HasRemoved, SuccessIsTrue, At
<1> QED
  BY SpecIInv, <1>1, PTL

-----------------------------------------------------------------------------
(* Duplicates.  A job too many is one that an edit queued beside the old   *)
(* one, so there is an edit to account for it: one about to remove the old *)
(* job, or one that failed.  That the accounts are kept job by job needs   *)
(* the facts below: an edit has a number of its own, which no failed edit  *)
(* has, and has none before it queued.                                     *)
Edits(s) == session[s].stage = "remove" /\ session[s].verb = "update"
Editing == {s \in Sessions : Edits(s)}

NumberIsFresh(s) ==
  /\ session[s].stage \in {"plan", "check", "queue"} => session[s].new = 0
  /\ Edits(s) => session[s].new \notin loose

Fresh ==
  /\ \A s \in Sessions : NumberIsFresh(s)
  /\ \A s, t \in Editing : s # t => session[s].new # session[t].new

(* No line has a number that no job has yet.                               *)
Lines == \A j \in DOMAIN jobs : jobs[j].line <= j

Balanced(L, O, U) == Cardinality(L) <= 1 + Cardinality(O) + Cardinality(U)
Accounted == \A line \in Nat : Balanced(Live(line), Loose(line), Underway(line))

-----------------------------------------------------------------------------
(* Sums of finite sets.                                                    *)
LEMMA QuietBalance ==
  ASSUME NEW L, NEW O, NEW U, NEW L2, NEW O2, NEW U2,
         IsFiniteSet(L), IsFiniteSet(O2), IsFiniteSet(U2),
         L2 \subseteq L, O \subseteq O2, U \subseteq U2, Balanced(L, O, U)
  PROVE  Balanced(L2, O2, U2)
<1>1. IsFiniteSet(L2) /\ IsFiniteSet(O) /\ IsFiniteSet(U)
  BY FS_Subset
<1>2. /\ Cardinality(L2) <= Cardinality(L) /\ Cardinality(O) <= Cardinality(O2)
      /\ Cardinality(U) <= Cardinality(U2)
  BY FS_Subset
<1>3. /\ Cardinality(L) \in Nat /\ Cardinality(O) \in Nat /\ Cardinality(U) \in Nat
      /\ Cardinality(L2) \in Nat /\ Cardinality(O2) \in Nat /\ Cardinality(U2) \in Nat
  BY <1>1, FS_CardinalityType
<1> QED
  BY <1>2, <1>3 DEF Balanced

LEMMA NewBalance ==
  ASSUME NEW L, NEW O, NEW U, NEW n, L \subseteq {n}, IsFiniteSet(O), IsFiniteSet(U)
  PROVE  Balanced(L, O, U)
<1>1. IsFiniteSet({n}) /\ Cardinality({n}) = 1
  BY FS_Singleton
<1>2. IsFiniteSet(L) /\ Cardinality(L) <= 1
  BY <1>1, FS_Subset
<1>3. Cardinality(L) \in Nat /\ Cardinality(O) \in Nat /\ Cardinality(U) \in Nat
  BY <1>2, FS_CardinalityType
<1> QED
  BY <1>2, <1>3 DEF Balanced

LEMMA QueueBalance ==
  ASSUME NEW L, NEW O, NEW U, NEW n, NEW s,
         IsFiniteSet(L), IsFiniteSet(O), IsFiniteSet(U), Balanced(L, O, U), n \notin L
  PROVE  /\ n \notin O => Balanced(L \cup {n}, O \cup {n}, U)
         /\ s \notin U => Balanced(L \cup {n}, O, U \cup {s})
<1>1. Cardinality(L) \in Nat /\ Cardinality(O) \in Nat /\ Cardinality(U) \in Nat
  BY FS_CardinalityType
<1>2. Cardinality(L \cup {n}) = Cardinality(L) + 1
  BY FS_AddElement
<1>3. n \notin O => Cardinality(O \cup {n}) = Cardinality(O) + 1
  BY FS_AddElement
<1>4. s \notin U => Cardinality(U \cup {s}) = Cardinality(U) + 1
  BY FS_AddElement
<1> QED
  BY <1>1, <1>2, <1>3, <1>4 DEF Balanced

LEMMA LeaveBalance ==
  ASSUME NEW L, NEW O, NEW U, NEW n, NEW s,
         IsFiniteSet(L), IsFiniteSet(O), IsFiniteSet(U), Balanced(L, O, U), s \in U
  PROVE  /\ n \in L => Balanced(L \ {n}, O, U \ {s})
         /\ n \notin O => Balanced(L, O \cup {n}, U \ {s})
<1>1. Cardinality(L) \in Nat /\ Cardinality(O) \in Nat /\ Cardinality(U) \in Nat
  BY FS_CardinalityType
<1>2. n \in L => Cardinality(L \ {n}) = Cardinality(L) - 1
  BY FS_RemoveElement
<1>3. n \notin O => Cardinality(O \cup {n}) = Cardinality(O) + 1
  BY FS_AddElement
<1>4. Cardinality(U \ {s}) = Cardinality(U) - 1
  BY FS_RemoveElement
<1> QED
  BY <1>1, <1>2, <1>3, <1>4 DEF Balanced

-----------------------------------------------------------------------------
LEMMA AccountsAreFinite ==
  ASSUME TypeOK, IsFiniteSet(Editing), NEW line \in Nat
  PROVE  IsFiniteSet(Live(line)) /\ IsFiniteSet(Loose(line)) /\ IsFiniteSet(Underway(line))
<1>1. IsFiniteSet(DOMAIN jobs)
  <2>1. jobs \in Seq(Job)
    BY DEF TypeOK
  <2>2. DOMAIN jobs = 1 .. Len(jobs) /\ Len(jobs) \in Int
    BY <2>1
  <2> QED
    BY <2>2, FS_Interval
<1>2. Live(line) \subseteq DOMAIN jobs /\ Loose(line) \subseteq DOMAIN jobs
  BY DEF TypeOK, Live, Loose
<1>3. Underway(line) \subseteq Editing
  BY DEF Underway, Editing, Edits, At
<1> QED
  BY <1>1, <1>2, <1>3, FS_Subset

(* Only one session moves in a step.                                       *)
OthersStay(s) == \A t \in Sessions \ {s} : session'[t] = session[t]

LEMMA EditingStaysFinite ==
  ASSUME IsFiniteSet(Editing), NEW s \in Sessions, OthersStay(s)
  PROVE  IsFiniteSet(Editing')
<1>1. Editing' \subseteq Editing \cup {s}
  BY DEF Editing, Edits, OthersStay
<1> QED
  BY <1>1, FS_AddElement, FS_Subset

LEMMA OldJob ==
  ASSUME TypeOK, NEW s \in Sessions, session[s].verb # "create"
  PROVE  session[s].old \in DOMAIN jobs
  BY DEF TypeOK, NamesItsJob

(* An edit that is about to remove knows the new job and its line.         *)
LEMMA EditKnows ==
  ASSUME TypeOK, SessionsOK, NEW s \in Sessions, Edits(s)
  PROVE  /\ session[s].old \in DOMAIN jobs /\ session[s].new \in DOMAIN jobs
         /\ session[s].new # 0
         /\ jobs[session[s].new].line = jobs[session[s].old].line
<1>1. session[s].old \in DOMAIN jobs
  BY OldJob DEF Edits
<1>2. session[s].new \in DOMAIN jobs /\ jobs[session[s].new].line = jobs[session[s].old].line
  BY DEF SessionsOK, Knows, Edits
<1>3. jobs \in Seq(Job)
  BY DEF TypeOK
<1> QED
  BY <1>1, <1>2, <1>3

(* What the step of one session does to the edits of a line: the others'   *)
(* stay, whatever is queued, removed or run.                               *)
LEMMA UnderwayStep ==
  ASSUME TypeOK, Grown, NEW s \in Sessions, OthersStay(s), NEW line \in Nat
  PROVE  /\ Underway(line)' \ {s} = Underway(line) \ {s}
         /\ s \in Underway(line)' <=> Edits(s)' /\ jobs'[session'[s].old].line = line
         /\ s \in Underway(line) <=> Edits(s) /\ jobs[session[s].old].line = line
<1>1. ASSUME NEW t \in Sessions \ {s} PROVE t \in Underway(line)' <=> t \in Underway(line)
  <2>1. session'[t] = session[t]
    BY <1>1 DEF OthersStay
  <2>2. session[t].verb = "update" => session[t].old \in DOMAIN jobs
    BY OldJob
  <2>3. session[t].verb = "update" => jobs'[session[t].old].line = jobs[session[t].old].line
    BY <2>2 DEF Grown
  <2> QED
    BY <2>1, <2>3 DEF Underway, At
<1> QED
  BY <1>1 DEF Underway, Edits, At

LEMMA NoSessionStep ==
  ASSUME TypeOK, Grown, session' = session, NEW line \in Nat
  PROVE  Underway(line)' = Underway(line)
<1>1. ASSUME NEW t \in Sessions PROVE t \in Underway(line)' <=> t \in Underway(line)
  <2>1. session[t].verb = "update" => session[t].old \in DOMAIN jobs
    BY OldJob
  <2>2. session[t].verb = "update" => jobs'[session[t].old].line = jobs[session[t].old].line
    BY <2>1 DEF Grown
  <2> QED
    BY <2>2 DEF Underway, At
<1> QED
  BY <1>1 DEF Underway

LEMMA LooseStep ==
  ASSUME TypeOK, Grown, NEW line \in Nat
  PROVE  /\ loose' = loose => Loose(line)' = Loose(line)
         /\ \A n : loose' = loose \cup {n} =>
              Loose(line)' = Loose(line) \cup (IF jobs'[n].line = line THEN {n} ELSE {})
<1>1. \A j \in loose : jobs'[j].line = jobs[j].line
  BY DEF TypeOK, Grown
<1> QED
  BY <1>1 DEF Loose

(* The numbers of edits stay their own while no session takes a new one.   *)
LEMMA FreshStays ==
  ASSUME Fresh, NEW s \in Sessions, OthersStay(s), loose' \subseteq loose,
         NumberIsFresh(s)', Edits(s)' => Edits(s) /\ session'[s].new = session[s].new
  PROVE  Fresh'
<1>1. \A t \in Sessions : NumberIsFresh(t)'
  BY DEF Fresh, NumberIsFresh, OthersStay, Edits
<1>2. \A t, u \in Editing' : t # u => session'[t].new # session'[u].new
  BY DEF Fresh, Editing, OthersStay, Edits
<1> QED
  BY <1>1, <1>2 DEF Fresh

LEMMA AccountsStayFinite ==
  ASSUME TypeOK', IsFiniteSet(Editing'), NEW line \in Nat
  PROVE  IsFiniteSet(Live(line)') /\ IsFiniteSet(Loose(line)') /\ IsFiniteSet(Underway(line)')
<1>1. IsFiniteSet(DOMAIN jobs')
  <2>1. jobs' \in Seq(Job)
    BY DEF TypeOK
  <2>2. DOMAIN jobs' = 1 .. Len(jobs') /\ Len(jobs') \in Int
    BY <2>1
  <2> QED
    BY <2>2, FS_Interval
<1>2. Live(line)' \subseteq DOMAIN jobs' /\ Loose(line)' \subseteq DOMAIN jobs'
  BY DEF TypeOK, Live, Loose
<1>3. Underway(line)' \subseteq Editing'
  BY DEF Underway, Editing, Edits, At
<1> QED
  BY <1>1, <1>2, <1>3, FS_Subset

Accounts == IsFiniteSet(Editing) /\ Fresh /\ Lines /\ Accounted

(* A session that neither queues nor removes, nor gives up an edit.        *)
LEMMA QuietStep ==
  ASSUME IInv, Accounts, TypeOK', Grown, NEW s \in Sessions, OthersStay(s),
         jobs' = jobs, loose' = loose, ~Edits(s), ~Edits(s)', NumberIsFresh(s)'
  PROVE  Accounts'
<1>0. TypeOK
  BY DEF IInv
<1>1. IsFiniteSet(Editing')
  BY EditingStaysFinite DEF Accounts
<1>2. Fresh'
  BY FreshStays DEF Accounts
<1>3. Lines'
  BY DEF Accounts, Lines
<1>4. ASSUME NEW line \in Nat PROVE Balanced(Live(line)', Loose(line)', Underway(line)')
  <2>1. Live(line)' = Live(line)
    BY DEF Live
  <2>2. Loose(line)' = Loose(line)
    BY <1>0, LooseStep
  <2>3. Underway(line)' = Underway(line)
    <3>1. s \notin Underway(line) /\ s \notin Underway(line)'
      BY <1>0, UnderwayStep
    <3> QED
      BY <1>0, <3>1, UnderwayStep
  <2> QED
    BY <2>1, <2>2, <2>3 DEF Accounts, Accounted, Balanced
<1> QED
  BY <1>1, <1>2, <1>3, <1>4 DEF Accounts, Accounted

(* An edit that gives up: its new job is one too many from now on, and the *)
(* edit that accounted for it is replaced by the failure that does.        *)
LEMMA AbandonStep ==
  ASSUME IInv, Accounts, TypeOK', Grown, NEW s \in Sessions, OthersStay(s), jobs' = jobs,
         Edits(s), loose' = loose \cup {session[s].new}, session'[s].stage \in Idle
  PROVE  Accounts'
<1>0. TypeOK /\ SessionsOK
  BY DEF IInv
<1> DEFINE new == session[s].new
<1>1. /\ session[s].old \in DOMAIN jobs /\ new \in DOMAIN jobs
      /\ jobs[new].line = jobs[session[s].old].line
  BY <1>0, EditKnows
<1>2. new \notin loose
  BY DEF Accounts, Fresh, NumberIsFresh
<1>3. IsFiniteSet(Editing')
  BY EditingStaysFinite DEF Accounts
<1>4. ~Edits(s)'
  BY DEF Edits, Idle
<1>5. Fresh'
  <2>1. ASSUME NEW t \in Sessions PROVE NumberIsFresh(t)'
    <3>1. CASE t = s
      BY <1>4, <3>1 DEF NumberIsFresh, Idle
    <3>2. CASE t # s
      <4>1. session'[t] = session[t] /\ NumberIsFresh(t)
        BY <3>2 DEF OthersStay, Accounts, Fresh
      <4>2. Edits(t) => session[t].new # new
        BY <3>2 DEF Accounts, Fresh, Editing
      <4> QED
        BY <4>1, <4>2 DEF NumberIsFresh, Edits
    <3> QED
      BY <3>1, <3>2
  <2>2. \A t, u \in Editing' : t # u => session'[t].new # session'[u].new
    <3>1. ASSUME NEW t \in Editing' PROVE t \in Editing /\ session'[t] = session[t]
      BY <1>4, <3>1 DEF Editing, OthersStay, Edits
    <3> QED
      BY <3>1 DEF Accounts, Fresh
  <2> QED
    BY <2>1, <2>2 DEF Fresh
<1>6. Lines'
  BY DEF Accounts, Lines
<1>7. ASSUME NEW line \in Nat PROVE Balanced(Live(line)', Loose(line)', Underway(line)')
  <2>0. /\ IsFiniteSet(Live(line)) /\ IsFiniteSet(Loose(line)) /\ IsFiniteSet(Underway(line))
        /\ Balanced(Live(line), Loose(line), Underway(line))
    BY <1>0, AccountsAreFinite DEF Accounts, Accounted
  <2>1. Live(line)' = Live(line)
    BY DEF Live
  <2>2. /\ jobs[new].line = line => Loose(line)' = Loose(line) \cup {new}
        /\ jobs[new].line # line => Loose(line)' = Loose(line)
    BY <1>0, LooseStep
  <2>3. new \notin Loose(line)
    BY <1>2 DEF Loose
  <2>4. Underway(line)' = Underway(line) \ {s}
    BY <1>0, <1>4, UnderwayStep
  <2>5. s \in Underway(line) <=> jobs[new].line = line
    BY <1>0, <1>1, UnderwayStep
  <2> HIDE DEF new
  <2>6. CASE jobs[new].line = line
    <3>1. Balanced(Live(line), Loose(line) \cup {new}, Underway(line) \ {s})
      BY <2>0, <2>3, <2>5, <2>6, LeaveBalance
    <3> QED
      BY <2>1, <2>2, <2>4, <2>6, <3>1
  <2>7. CASE jobs[new].line # line
    BY <2>0, <2>1, <2>2, <2>4, <2>5, <2>7, QuietBalance
  <2> QED
    BY <2>6, <2>7
<1> QED
  BY <1>3, <1>5, <1>6, <1>7 DEF Accounts, Accounted

(* What is queued is the first of a line of its own, or one more of an old *)
(* line, which the edit or its failure accounts for.                       *)
LEMMA QueueStep ==
  ASSUME IInv, Accounts, TypeOK', NEW s \in Sessions, Queue(s) \/ QueueUnheard(s)
  PROVE  Accounts'
<1>0. TypeOK /\ SessionsOK /\ jobs \in Seq(Job) /\ session \in [Sessions -> Session]
  BY DEF IInv, TypeOK
<1> DEFINE n == Len(jobs')
<1>1. Queued(s) /\ session[s].stage = "queue"
  BY DEF Queue, QueueUnheard, At
<1>2. /\ jobs' \in Seq(Job) /\ n = Len(jobs) + 1
      /\ \A j \in DOMAIN jobs : jobs'[j] = jobs[j]
      /\ jobs'[n].status = "pending" /\ jobs'[n].line = Line(s) /\ Grown
  BY <1>0, <1>1, QueuedFacts
<1>3. /\ DOMAIN jobs = 1 .. Len(jobs) /\ DOMAIN jobs' = DOMAIN jobs \cup {n}
      /\ n \notin DOMAIN jobs /\ n \in Nat \ {0}
  BY <1>0, <1>2
<1>4. OthersStay(s)
  BY <1>0 DEF Queue, QueueUnheard, Goto, OthersStay
<1>5. /\ session'[s].old = session[s].old /\ session'[s].verb = session[s].verb
      /\ Queue(s) => session'[s].new = n /\ session'[s].stage = AfterQueue(s)
      /\ QueueUnheard(s) => session'[s].stage = "error"
  BY <1>0 DEF Queue, QueueUnheard, Goto, Session
<1>6. n \notin loose /\ \A t \in Editing : session[t].new # n
  <2>1. \A t \in Editing : session[t].new \in DOMAIN jobs
    BY <1>0, EditKnows DEF Editing
  <2> QED
    BY <1>0, <1>3, <2>1 DEF TypeOK
<1>7. IsFiniteSet(Editing')
  BY <1>4, EditingStaysFinite DEF Accounts
<1>8. /\ Line(s) \in Nat \ {0} /\ Line(s) <= n
      /\ session[s].verb = "create" => Line(s) = n
      /\ session[s].verb # "create" =>
           session[s].old \in DOMAIN jobs /\ Line(s) = jobs[session[s].old].line
  <2>1. session[s].verb = "create" => session[s].old = 0
    BY <1>0 DEF TypeOK, NamesItsJob
  <2>2. CASE session[s].verb = "create"
    BY <1>2, <1>3, <2>1, <2>2 DEF Line
  <2>3. CASE session[s].verb # "create"
    <3>1. session[s].old \in DOMAIN jobs
      BY <1>0, <2>3, OldJob
    <3>2. session[s].old # 0 /\ Line(s) = jobs[session[s].old].line
      BY <1>3, <3>1 DEF Line
    <3>3. jobs[session[s].old].line \in Nat \ {0}
      BY <1>0, <3>1, JobType
    <3>4. jobs[session[s].old].line <= session[s].old
      BY <3>1 DEF Accounts, Lines
    <3> QED
      BY <1>2, <1>3, <2>3, <3>1, <3>2, <3>3, <3>4
  <2> QED
    BY <2>2, <2>3
<1>9. Lines'
  BY <1>2, <1>3, <1>8 DEF Accounts, Lines
<1> DEFINE updates == session[s].verb = "update"
<1>10. \/ /\ Queue(s) /\ loose' = loose /\ (Edits(s)' <=> updates)
       \/ /\ QueueUnheard(s) /\ ~Edits(s)'
          /\ loose' = IF updates THEN loose \cup {n} ELSE loose
  <2>1. CASE Queue(s)
    <3>1. loose' = loose
      BY <2>1 DEF Queue
    <3>2. Edits(s)' <=> updates
      BY <1>5, <2>1 DEF Edits, AfterQueue
    <3> QED
      BY <2>1, <3>1, <3>2
  <2>2. CASE QueueUnheard(s)
    BY <1>5, <2>2 DEF QueueUnheard, Edits
  <2> QED
    BY <2>1, <2>2
<1> HIDE DEF n
<1>11. Fresh'
  <2>1. loose' \subseteq loose \cup {n}
    BY <1>10
  <2>2. ASSUME NEW t \in Sessions PROVE NumberIsFresh(t)'
    <3>1. CASE t = s
      <4>1. session'[s].stage \notin {"plan", "check", "queue"}
        BY <1>5, <1>10 DEF AfterQueue
      <4>2. Edits(s)' => session'[s].new \notin loose'
        BY <1>5, <1>6, <1>10
      <4> QED
        BY <3>1, <4>1, <4>2 DEF NumberIsFresh
    <3>2. CASE t # s
      <4>1. session'[t] = session[t] /\ NumberIsFresh(t)
        BY <1>4, <3>2 DEF OthersStay, Accounts, Fresh
      <4>2. Edits(t) => session[t].new # n
        BY <1>6 DEF Editing
      <4> QED
        BY <2>1, <4>1, <4>2 DEF NumberIsFresh, Edits
    <3> QED
      BY <3>1, <3>2
  <2>3. \A t, u \in Editing' : t # u => session'[t].new # session'[u].new
    <3>1. ASSUME NEW t \in Editing' PROVE t = s \/ (t \in Editing /\ session'[t] = session[t])
      BY <1>4, <3>1 DEF Editing, OthersStay, Edits
    <3>2. s \in Editing' => session'[s].new = n
      BY <1>5, <1>10 DEF Editing
    <3> QED
      BY <1>6, <3>1, <3>2 DEF Accounts, Fresh
  <2> QED
    BY <2>2, <2>3 DEF Fresh
<1>12. ASSUME NEW line \in Nat PROVE Balanced(Live(line)', Loose(line)', Underway(line)')
  <2>0. /\ IsFiniteSet(Live(line)) /\ IsFiniteSet(Loose(line)) /\ IsFiniteSet(Underway(line))
        /\ Balanced(Live(line), Loose(line), Underway(line))
    BY <1>0, AccountsAreFinite DEF Accounts, Accounted
  <2>1. /\ line # Line(s) => Live(line)' = Live(line)
        /\ line = Line(s) => Live(line)' = Live(line) \cup {n}
    BY <1>2, <1>3 DEF Live
  <2>2. n \notin Live(line) /\ n \notin Loose(line)
    BY <1>3, <1>6 DEF Live, Loose
  <2>3. s \notin Underway(line)
    BY <1>1 DEF Underway, At
  <2>4. Underway(line)' \ {s} = Underway(line)
    BY <1>0, <1>2, <1>4, <2>3, UnderwayStep
  <2>5. s \in Underway(line)' <=> Edits(s)' /\ line = Line(s)
    <3>1. s \in Underway(line)' <=> Edits(s)' /\ jobs'[session'[s].old].line = line
      BY <1>0, <1>2, <1>4, UnderwayStep
    <3>2. Edits(s)' => jobs'[session'[s].old].line = Line(s)
      BY <1>2, <1>5, <1>8 DEF Edits
    <3> QED
      BY <3>1, <3>2
  <2>6. /\ loose' = loose => Loose(line)' = Loose(line)
        /\ loose' = loose \cup {n} =>
             Loose(line)' = Loose(line) \cup (IF line = Line(s) THEN {n} ELSE {})
    BY <1>0, <1>2, LooseStep
  <2>7. CASE line # Line(s)
    <3>1. Loose(line)' = Loose(line) /\ Underway(line)' = Underway(line)
      BY <1>10, <2>4, <2>5, <2>6, <2>7
    <3> QED
      BY <2>0, <2>1, <2>7, <3>1
  <2>8. CASE line = Line(s) /\ updates
    <3>1. CASE Queue(s) /\ loose' = loose /\ Edits(s)'
      <4>1. /\ Live(line)' = Live(line) \cup {n} /\ Loose(line)' = Loose(line)
            /\ Underway(line)' = Underway(line) \cup {s}
        BY <2>1, <2>4, <2>5, <2>6, <2>8, <3>1
      <4>2. Balanced(Live(line) \cup {n}, Loose(line), Underway(line) \cup {s})
        BY <2>0, <2>2, <2>3, QueueBalance
      <4> QED
        BY <4>1, <4>2
    <3>2. CASE QueueUnheard(s) /\ ~Edits(s)' /\ loose' = loose \cup {n}
      <4>1. /\ Live(line)' = Live(line) \cup {n} /\ Loose(line)' = Loose(line) \cup {n}
            /\ Underway(line)' = Underway(line)
        BY <2>1, <2>4, <2>5, <2>6, <2>8, <3>2
      <4>2. Balanced(Live(line) \cup {n}, Loose(line) \cup {n}, Underway(line))
        BY <2>0, <2>2, QueueBalance
      <4> QED
        BY <4>1, <4>2
    <3> QED
      BY <1>10, <2>8, <3>1, <3>2
  <2>9. CASE line = Line(s) /\ ~updates
    <3>1. line = n
      <4>1. session[s].verb # "delete"
        BY <1>0, <1>1 DEF TypeOK, NamesItsJob
      <4>2. session[s].verb \in {"create", "update", "delete"}
        BY <1>0 DEF Session
      <4> QED
        BY <1>8, <2>9, <4>1, <4>2
    <3>2. Live(line) = {}
      BY <1>2, <1>3, <3>1 DEF Accounts, Lines, Live
    <3>3. Live(line)' \subseteq {n}
      BY <2>1, <2>9, <3>2
    <3>4. IsFiniteSet(Loose(line)') /\ IsFiniteSet(Underway(line)')
      BY <1>7, AccountsStayFinite
    <3> QED
      BY <3>3, <3>4, NewBalance
  <2> QED
    BY <2>7, <2>8, <2>9
<1> QED
  BY <1>7, <1>9, <1>11, <1>12 DEF Accounts, Accounted

(* What is removed by an edit leaves with the edit that accounted for it.  *)
LEMMA RemoveStep ==
  ASSUME IInv, Accounts, TypeOK', NEW s \in Sessions, Remove(s) \/ RemoveUnheard(s)
  PROVE  Accounts'
<1>0. TypeOK /\ SessionsOK /\ jobs \in Seq(Job) /\ session \in [Sessions -> Session]
  BY DEF IInv, TypeOK
<1> DEFINE old == session[s].old
<1>1. Removed(s) /\ session[s].stage = "remove" /\ loose' = loose
  BY DEF Remove, RemoveUnheard, At
<1>2. /\ jobs' \in Seq(Job) /\ Len(jobs') = Len(jobs) /\ old \in DOMAIN jobs
      /\ jobs'[old].status \in {"deleted", "replaced"}
      /\ \A j \in DOMAIN jobs \ {old} : jobs'[j] = jobs[j]
      /\ Grown
  BY <1>0, <1>1, RemovedFacts
<1>3. DOMAIN jobs' = DOMAIN jobs /\ jobs[old].status = "pending"
  BY <1>0, <1>1, <1>2 DEF Removed, Pending
<1>4. OthersStay(s) /\ session'[s].stage \in {"ok", "error"}
  BY <1>0 DEF Remove, RemoveUnheard, Goto, OthersStay, Session
<1>5. ~Edits(s)' /\ NumberIsFresh(s)'
  BY <1>4 DEF Edits, NumberIsFresh
<1>6. IsFiniteSet(Editing')
  BY <1>4, EditingStaysFinite DEF Accounts
<1>7. Fresh'
  BY <1>1, <1>4, <1>5, FreshStays DEF Accounts
<1>8. \A j \in DOMAIN jobs : jobs'[j].line = jobs[j].line
  BY <1>2 DEF Grown
<1>9. Lines'
  BY <1>3, <1>8 DEF Accounts, Lines
<1> HIDE DEF old
<1>10. ASSUME NEW line \in Nat PROVE Balanced(Live(line)', Loose(line)', Underway(line)')
  <2>0. /\ IsFiniteSet(Live(line)) /\ IsFiniteSet(Loose(line)) /\ IsFiniteSet(Underway(line))
        /\ Balanced(Live(line), Loose(line), Underway(line))
    BY <1>0, AccountsAreFinite DEF Accounts, Accounted
  <2>1. Live(line)' = Live(line) \ {old}
    BY <1>2, <1>3, <1>8 DEF Live
  <2>2. Loose(line)' = Loose(line)
    BY <1>0, <1>1, <1>2, LooseStep
  <2>3. Underway(line)' = Underway(line) \ {s}
    BY <1>0, <1>2, <1>4, <1>5, UnderwayStep
  <2>4. CASE s \notin Underway(line)
    BY <2>0, <2>1, <2>2, <2>3, <2>4, QuietBalance
  <2>5. CASE s \in Underway(line)
    <3>1. jobs[old].line = line
      BY <1>0, <1>2, <1>4, <2>5, UnderwayStep DEF old
    <3>2. old \in Live(line)
      BY <1>2, <1>3, <3>1 DEF Live
    <3>3. Balanced(Live(line) \ {old}, Loose(line), Underway(line) \ {s})
      BY <2>0, <2>5, <3>2, LeaveBalance
    <3> QED
      BY <2>1, <2>2, <2>3, <3>3
  <2> QED
    BY <2>4, <2>5
<1> QED
  BY <1>6, <1>7, <1>9, <1>10 DEF Accounts, Accounted

(* A job that has run counts like one that will.                           *)
LEMMA FireStep ==
  ASSUME IInv, Accounts, NEW i \in DOMAIN jobs, Fire(i)
  PROVE  Accounts'
<1>0. TypeOK /\ jobs \in Seq(Job)
  BY DEF IInv, TypeOK
<1>1. /\ jobs' \in Seq(Job) /\ Len(jobs') = Len(jobs) /\ jobs'[i].status = "ran"
      /\ \A k \in DOMAIN jobs \ {i} : jobs'[k] = jobs[k]
      /\ Grown
  BY <1>0, FireFacts
<1>2. DOMAIN jobs' = DOMAIN jobs /\ jobs[i].status = "pending"
  BY <1>0, <1>1 DEF Fire, Pending
<1>3. \A j \in DOMAIN jobs : jobs'[j].line = jobs[j].line
  BY <1>1 DEF Grown
<1>4. session' = session /\ loose' = loose
  BY DEF Fire
<1>5. IsFiniteSet(Editing') /\ Fresh'
  BY <1>4 DEF Accounts, Editing, Edits, Fresh, NumberIsFresh
<1>6. Lines'
  BY <1>2, <1>3 DEF Accounts, Lines
<1>7. ASSUME NEW line \in Nat PROVE Balanced(Live(line)', Loose(line)', Underway(line)')
  <2>1. Live(line)' = Live(line)
    BY <1>1, <1>2, <1>3 DEF Live
  <2>2. Loose(line)' = Loose(line) /\ Underway(line)' = Underway(line)
    BY <1>0, <1>1, <1>4, LooseStep, NoSessionStep
  <2> QED
    BY <2>1, <2>2 DEF Accounts, Accounted
<1> QED
  BY <1>5, <1>6, <1>7 DEF Accounts, Accounted

LEMMA AccountsUnchanged ==
  ASSUME Accounts, UNCHANGED <<jobs, session, loose>>
  PROVE  Accounts'
<1>1. \A line : /\ Live(line)' = Live(line) /\ Loose(line)' = Loose(line)
                /\ Underway(line)' = Underway(line)
  BY DEF Live, Loose, Underway, At
<1>2. Editing' = Editing /\ Fresh' /\ Lines'
  BY DEF Accounts, Editing, Edits, Fresh, NumberIsFresh, Lines
<1> QED
  BY <1>1, <1>2 DEF Accounts, Accounted

LEMMA AccountsStep == IInv /\ Accounts /\ [Next]_atvars => Accounts'
<1> SUFFICES ASSUME IInv, Accounts, [Next]_atvars PROVE Accounts'
  OBVIOUS
<1>0. /\ TypeOK /\ TypeOK' /\ Grown /\ SessionsOK /\ session \in [Sessions -> Session]
  BY TypeStep, GrownStep DEF IInv, TypeOK
<1>1. ASSUME NEW s \in Sessions, Ask(s) PROVE Accounts'
  <2>1. OthersStay(s) /\ session'[s].stage = "plan" /\ session'[s].new = 0
    BY <1>0, <1>1 DEF Ask, OthersStay
  <2>2. ~Edits(s) /\ ~Edits(s)' /\ NumberIsFresh(s)'
    BY <1>1, <2>1 DEF Ask, Edits, NumberIsFresh, Idle
  <2>3. jobs' = jobs /\ loose' = loose
    BY <1>1 DEF Ask
  <2> QED
    BY <1>0, <2>1, <2>2, <2>3, QuietStep
<1>2. ASSUME NEW s \in Sessions, NEW stage \in Stages, Goto(s, stage),
             jobs' = jobs, loose' = loose, ~Edits(s),
             stage = "remove" => session[s].verb # "update",
             stage \in {"plan", "check", "queue"} =>
               session[s].stage \in {"plan", "check", "queue"}
      PROVE  Accounts'
  <2>1. /\ OthersStay(s) /\ session'[s].stage = stage
        /\ session'[s].new = session[s].new /\ session'[s].verb = session[s].verb
    BY <1>0, <1>2 DEF Goto, OthersStay, Session
  <2>2. NumberIsFresh(s)
    BY DEF Accounts, Fresh
  <2>3. ~Edits(s)' /\ NumberIsFresh(s)'
    BY <1>2, <2>1, <2>2 DEF Edits, NumberIsFresh
  <2> QED
    BY <1>0, <1>2, <2>1, <2>3, QuietStep
<1>3. ASSUME NEW s \in Sessions, Plan(s) \/ Check(s) \/ QueueTooLate(s) PROVE Accounts'
  <2>1. PICK stage \in Stages :
          /\ Goto(s, stage)
          /\ stage = "remove" => session[s].verb # "update"
          /\ stage \in {"plan", "check", "queue"} =>
               session[s].stage \in {"plan", "check", "queue"}
    BY <1>3 DEF Plan, Check, QueueTooLate, Stages, At
  <2>2. jobs' = jobs /\ loose' = loose /\ ~Edits(s)
    BY <1>3 DEF Plan, Check, QueueTooLate, At, Edits
  <2> QED
    BY <1>2, <2>1, <2>2
<1>4. ASSUME NEW s \in Sessions, Denied(s) \/ NothingToRemove(s) \/ Kill(s) PROVE Accounts'
  <2>1. PICK stage \in {"error", "killed"} : Goto(s, stage)
    BY <1>4 DEF Denied, NothingToRemove, Kill
  <2>2. LeftOver(s) /\ jobs' = jobs /\ session[s].stage \in {"plan", "check", "queue", "remove"}
    <3>1. session[s].stage \in Stages
      BY <1>0 DEF Session
    <3> QED
      BY <1>4, <3>1 DEF Denied, NothingToRemove, Kill, At, Stages, Idle
  <2>3. CASE Edits(s)
    <3>1. session[s].new # 0
      BY <1>0, <2>3, EditKnows
    <3>2. loose' = loose \cup {session[s].new}
      BY <2>2, <2>3, <3>1 DEF LeftOver, Edits
    <3>3. OthersStay(s) /\ session'[s].stage \in Idle
      BY <1>0, <2>1 DEF Goto, OthersStay, Session, Idle
    <3> QED
      BY <1>0, <2>2, <2>3, <3>2, <3>3, AbandonStep
  <2>4. CASE ~Edits(s)
    <3>1. session[s].verb = "update" => session[s].new = 0
      BY <2>2, <2>4 DEF Accounts, Fresh, NumberIsFresh, Edits
    <3>2. loose' = loose
      BY <2>2, <3>1 DEF LeftOver
    <3> QED
      BY <1>2, <2>1, <2>2, <2>4, <3>2 DEF Stages
  <2> QED
    BY <2>3, <2>4
<1>5. CASE Tick \/ UNCHANGED atvars
  BY <1>5, AccountsUnchanged DEF Tick, atvars
<1> QED
  BY <1>0, <1>1, <1>3, <1>4, <1>5, QueueStep, RemoveStep, FireStep DEF Next, Step, Over

LEMMA InitAccounts == Init => Accounts
<1> SUFFICES ASSUME Init PROVE Accounts
  OBVIOUS
<1>1. jobs = <<>> /\ DOMAIN jobs = {} /\ loose = {}
  BY DEF Init
<1>2. \A s \in Sessions : session[s].stage = "ok"
  BY DEF Init
<1>3. Editing = {} /\ \A line : Live(line) = {} /\ Loose(line) = {} /\ Underway(line) = {}
  BY <1>1, <1>2 DEF Editing, Edits, Live, Loose, Underway, At
<1>4. IsFiniteSet(Editing)
  BY <1>3, FS_EmptySet
<1>5. Fresh /\ Lines
  BY <1>1, <1>2, <1>3 DEF Fresh, NumberIsFresh, Lines, Edits
<1>6. Accounted
  <2>1. Balanced({}, {}, {})
    BY FS_EmptySet DEF Balanced
  <2> QED
    BY <1>3, <2>1 DEF Accounted
<1> QED
  BY <1>4, <1>5, <1>6 DEF Accounts

(* A job is there twice only by an edit still about to remove the old one, *)
(* or by one that ended in an error or was killed: for any number of       *)
(* sessions that edit the same job, or each other's new ones, at a time.   *)
THEOREM DuplicatesAreReportedHolds == Spec => []DuplicatesAreReported
<1>1. Init => Accounts
  BY InitAccounts
<1>2. IInv /\ Accounts /\ [Next]_atvars => Accounts'
  BY AccountsStep
<1>3. IInv /\ Accounts => DuplicatesAreReported
  <2>1. ASSUME TypeOK, NEW line \in 1 .. Len(jobs) PROVE line \in Nat
    OBVIOUS
  <2> QED
    BY <2>1 DEF IInv, Accounts, Accounted, Balanced, DuplicatesAreReported
<1> QED
  BY SpecIInv, <1>1, <1>2, <1>3, PTL DEF Spec
=============================================================================
