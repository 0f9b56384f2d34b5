------------------------------- MODULE TuiApp -------------------------------
(***************************************************************************)
(* The terminal interface (shuvjobs-tui): the event loop with its modes,   *)
(* form and confirmation popup, and the worker thread that runs collection *)
(* and mutations for it over a request and a reply channel.                *)
(*                                                                         *)
(* What the view shows of the jobs (selection, sorting, filter and search  *)
(* text) only decides which row a key acts on; here a key may act on any   *)
(* row.  The machine being managed is reduced to what the protocol can     *)
(* tell: whether a write to it is half done.                               *)
(***************************************************************************)
EXTENDS Naturals, Sequences

CONSTANTS
  RowOps,     (* deletions and toggles of the rows                         *)
  FormOps,    (* additions and edits a filled-in form may ask for          *)
  Interval,   (* opts.refresh_secs.is_some()                               *)
  CanPanic    (* whether a closure run by the worker may panic             *)

Ops == RowOps \cup FormOps
None == "none"

ASSUME TuiAssumption ==
  /\ {Interval, CanPanic} \subseteq BOOLEAN
  /\ None \notin Ops

VARIABLES
  at,         (* where event_loop is: "poll", "auto", "key", "exited"      *)
  mode, busy, form, pending, quit,
  worker,     (* app.worker.is_some()                                      *)
  dryRun,     (* opts.dry_run, fixed for the session                       *)
  due,        (* refresh_secs have passed since last_refresh               *)
  refreshError,
  requests, replies,   (* the two mpsc channels                            *)
  thread,     (* the worker thread: "idle", "working", "dead"              *)
  job,        (* the request it is working on                              *)
  torn,       (* an apply has made some of its writes and not the others   *)
  owed,       (* history: the rows predate a mutation that succeeded       *)
  answer,     (* history: what the last plan popup was answered            *)
  asked       (* history: the operation that popup described               *)

app == <<at, mode, busy, form, pending, quit, worker, dryRun, due, refreshError>>
chans == <<requests, replies>>
history == <<owed, answer, asked>>
vars == <<app, chans, thread, job, torn, history>>

Modes == {"Normal", "Filter", "Search", "Form", "Confirm"}
NoForm == [open |-> FALSE]
Forms == {NoForm} \cup [open: {TRUE}, op: FormOps, locked: BOOLEAN]
Refresh == [kind |-> "Refresh"]
Requests == {Refresh} \cup [kind: {"Plan", "Apply"}, op: Ops]
Replies == [request: Requests, ok: BOOLEAN, seen: BOOLEAN]

TypeOK ==
  /\ at \in {"poll", "auto", "key", "exited"}
  /\ mode \in Modes
  /\ busy \in {None, "Refresh", "Plan", "Apply"}
  /\ form \in Forms
  /\ pending \in Ops \cup {None}
  /\ {quit, worker, dryRun, due, refreshError, torn, owed} \subseteq BOOLEAN
  /\ requests \in Seq(Requests)
  /\ replies \in Seq(Replies)
  /\ thread \in {"idle", "working", "dead"}
  /\ job \in Requests
  /\ answer \in {None, "yes", "no"}
  /\ asked \in Ops \cup {None}

Init ==
  /\ at = "poll" /\ mode = "Normal" /\ busy = None
  /\ form = NoForm /\ pending = None /\ quit = FALSE
  /\ worker = TRUE /\ dryRun \in BOOLEAN /\ due = FALSE /\ refreshError = FALSE
  /\ requests = <<>> /\ replies = <<>>
  /\ thread = "idle" /\ job = Refresh
  /\ torn = FALSE
  /\ owed = FALSE /\ answer = None /\ asked = None

-----------------------------------------------------------------------------
(* Sending.  A dead thread has dropped its end of the channel: send fails  *)
(* and nothing is marked busy.                                             *)
CanSend == busy = None /\ worker /\ thread # "dead"

Send(request) == requests' = Append(requests, request) /\ busy' = request.kind

(* Mutant of RequestRefresh: asks whatever is under way.                   *)
RequestRefreshAnyway ==
  IF worker /\ thread # "dead" THEN Send(Refresh) ELSE UNCHANGED <<requests, busy>>

(* request_refresh *)
RequestRefresh ==
  IF CanSend THEN Send(Refresh) ELSE UNCHANGED <<requests, busy>>

(* send_mutation *)
SendMutation(stage, op) ==
  IF CanSend THEN Send([kind |-> stage, op |-> op]) ELSE UNCHANGED <<requests, busy>>

-----------------------------------------------------------------------------
(* poll_worker: fold one reply in, if there is one.                        *)
Reply == Head(replies)

Close(next) == pending' = None /\ form' = NoForm /\ mode' = next

(* Mutant of Refreshed: busy is only cleared by a success.                 *)
RefreshedIfOk ==
  /\ Reply.request.kind = "Refresh"
  /\ IF Reply.ok THEN busy' = None ELSE UNCHANGED busy
  /\ due' = FALSE /\ refreshError' = ~Reply.ok
  /\ UNCHANGED <<mode, form, pending, requests, history>>

(* apply_refresh: a failed collection keeps the rows that are there.       *)
Refreshed ==
  /\ Reply.request.kind = "Refresh"
  /\ busy' = None /\ due' = FALSE
  /\ refreshError' = ~Reply.ok
  /\ owed' = (owed /\ ~(Reply.ok /\ Reply.seen))
  /\ UNCHANGED <<mode, form, pending, requests, answer, asked>>

(* Mutant of Planned: the form stays open under the popup.                 *)
PlannedOverForm ==
  /\ Reply.request.kind = "Plan"
  /\ busy' = None
  /\ IF Reply.ok
     THEN /\ pending' = Reply.request.op /\ mode' = "Confirm" /\ UNCHANGED form
          /\ answer' = None /\ asked' = Reply.request.op
     ELSE Close("Normal") /\ UNCHANGED <<answer, asked>>
  /\ UNCHANGED <<due, refreshError, requests, owed>>

(* Mutant of Planned: a refused plan does not unlock its form.             *)
PlannedStillLocked ==
  /\ Reply.request.kind = "Plan"
  /\ busy' = None
  /\ IF Reply.ok
     THEN pending' = Reply.request.op /\ form' = NoForm /\ mode' = "Confirm"
     ELSE IF form.open THEN UNCHANGED <<mode, form, pending>> ELSE Close("Normal")
  /\ UNCHANGED <<due, refreshError, requests, history>>

(* apply_mutation_reply, Stage::Plan: the popup opens over any mode, and a *)
(* refused plan goes back to the form it came from.                        *)
Planned ==
  /\ Reply.request.kind = "Plan"
  /\ busy' = None
  /\ IF Reply.ok
     THEN /\ pending' = Reply.request.op /\ form' = NoForm /\ mode' = "Confirm"
          /\ answer' = None /\ asked' = Reply.request.op
     ELSE /\ IF form.open
             THEN form' = [form EXCEPT !.locked = FALSE] /\ mode' = "Form" /\ UNCHANGED pending
             ELSE Close("Normal")
          /\ UNCHANGED <<answer, asked>>
  /\ UNCHANGED <<due, refreshError, requests, owed>>

(* Mutant of Applied: no collection follows.                               *)
AppliedSilently ==
  /\ Reply.request.kind = "Apply"
  /\ Close("Normal") /\ busy' = None
  /\ UNCHANGED <<due, refreshError, requests, history>>

(* apply_mutation_reply, Stage::Apply: a success asks for the new rows.    *)
Applied ==
  /\ Reply.request.kind = "Apply"
  /\ Close("Normal")
  /\ IF Reply.ok /\ worker /\ thread # "dead" THEN Send(Refresh)
     ELSE busy' = None /\ UNCHANGED requests
  /\ UNCHANGED <<due, refreshError, history>>

Poll ==
  /\ at = "poll"
  /\ \/ /\ worker /\ replies # <<>>
        /\ Refreshed \/ Planned \/ Applied
        /\ replies' = Tail(replies)
        /\ UNCHANGED worker
     \/ (* TryRecvError::Disconnected *)
        /\ worker /\ replies = <<>> /\ thread = "dead"
        /\ worker' = FALSE /\ busy' = None
        /\ UNCHANGED <<mode, form, pending, due, refreshError, chans, history>>
     \/ /\ ~worker \/ (replies = <<>> /\ thread # "dead")
        /\ UNCHANGED <<mode, busy, form, pending, worker, due, refreshError, chans, history>>
  /\ at' = "auto"
  /\ UNCHANGED <<quit, dryRun, thread, job, torn>>

(* Mutant of AutoRefresh: a popup does not hold it back.                   *)
AutoRefreshUnderPopup ==
  /\ at = "auto"
  /\ IF Interval /\ due THEN RequestRefresh ELSE UNCHANGED <<requests, busy>>
  /\ at' = "key"
  /\ UNCHANGED <<mode, form, pending, quit, worker, dryRun, due, refreshError, replies, thread,
                 job, torn, history>>

(* maybe_auto_refresh *)
AutoRefresh ==
  /\ at = "auto"
  /\ IF Interval /\ due /\ busy = None /\ mode \notin {"Form", "Confirm"}
     THEN RequestRefresh
     ELSE UNCHANGED <<requests, busy>>
  /\ at' = "key"
  /\ UNCHANGED <<mode, form, pending, quit, worker, dryRun, due, refreshError, replies, thread,
                 job, torn, history>>

-----------------------------------------------------------------------------
(* Keys.  One at most per turn of the loop, after the screen was drawn.    *)
OnlyMode(next) ==
  mode' = next /\ UNCHANGED <<busy, form, pending, quit, requests, answer>>

NormalKey ==
  /\ mode = "Normal"
  /\ \/ (* q *)
        quit' = TRUE /\ UNCHANGED <<mode, busy, form, pending, requests, answer>>
     \/ (* f and / *)
        OnlyMode("Filter") \/ OnlyMode("Search")
     \/ (* r *)
        RequestRefresh /\ UNCHANGED <<mode, form, pending, quit, answer>>
     \/ (* a and e: can_mutate only asks what the App itself knows *)
        /\ worker /\ busy = None
        /\ \E op \in FormOps : form' = [open |-> TRUE, op |-> op, locked |-> FALSE]
        /\ mode' = "Form"
        /\ UNCHANGED <<busy, pending, quit, requests, answer>>
     \/ (* d and t *)
        /\ worker /\ busy = None
        /\ \E op \in RowOps : SendMutation("Plan", op)
        /\ UNCHANGED <<mode, form, pending, quit, answer>>

ViewKey == mode \in {"Filter", "Search"} /\ OnlyMode("Normal")

(* A locked form drops every key, Esc included.                            *)
FormKey ==
  /\ mode = "Form" /\ ~form.locked
  /\ \/ (* Esc *)
        /\ form' = NoForm /\ mode' = "Normal"
        /\ UNCHANGED <<busy, requests>>
     \/ (* any edit of the fields *)
        /\ \E op \in FormOps : form' = [form EXCEPT !.op = op]
        /\ UNCHANGED <<mode, busy, requests>>
     \/ (* Enter on valid fields: locked until the plan comes back *)
        /\ SendMutation("Plan", form.op)
        /\ form' = [form EXCEPT !.locked = CanSend]
        /\ UNCHANGED mode
  /\ UNCHANGED <<pending, quit, answer>>

(* Mutant of ConfirmKey: y does not look at --dry-run.                     *)
ConfirmKeyWritesAlways ==
  /\ mode = "Confirm"
  /\ SendMutation("Apply", pending)
  /\ answer' = "yes"
  /\ UNCHANGED <<mode, form, pending, quit>>

ConfirmKey ==
  /\ mode = "Confirm"
  /\ \/ (* y under --dry-run *)
        dryRun /\ Close("Normal") /\ UNCHANGED <<busy, requests, answer>>
     \/ (* y *)
        /\ ~dryRun
        /\ SendMutation("Apply", pending)
        /\ answer' = IF CanSend THEN "yes" ELSE answer
        /\ UNCHANGED <<mode, form, pending>>
     \/ (* n; it does not call back an apply that is on its way *)
        /\ Close("Normal")
        /\ answer' = IF busy = "Apply" THEN answer ELSE "no"
        /\ UNCHANGED <<busy, requests>>
  /\ UNCHANGED quit

(* No key, or one this mode does not know.                                 *)
NoKey == UNCHANGED <<mode, busy, form, pending, quit, requests, answer>>

Key ==
  /\ at = "key"
  /\ NormalKey \/ ViewKey \/ FormKey \/ ConfirmKey \/ NoKey
  /\ at' = IF quit' THEN "exited" ELSE "poll"
  /\ UNCHANGED <<worker, dryRun, due, refreshError, replies, thread, job, torn, owed, asked>>

-----------------------------------------------------------------------------
(* The worker thread.  It dies with the process: run returns, main calls   *)
(* process::exit, and nobody has joined it.                                *)
Running == at # "exited"

Take ==
  /\ Running /\ thread = "idle" /\ requests # <<>>
  /\ thread' = "working" /\ job' = Head(requests) /\ requests' = Tail(requests)
  /\ UNCHANGED <<app, replies, torn, history>>

Answer(ok) ==
  /\ replies' = Append(replies, [request |-> job, ok |-> ok, seen |-> owed])
  /\ thread' = "idle"
  /\ UNCHANGED <<app, requests, job, answer, asked>>

Working(kinds) == Running /\ thread = "working" /\ job.kind \in kinds

(* Collection and planning only read the machine.                          *)
Look ==
  /\ Working({"Refresh", "Plan"})
  /\ \E ok \in BOOLEAN : Answer(ok)
  /\ UNCHANGED <<torn, owed>>

BeginApply ==
  /\ Working({"Apply"}) /\ ~torn
  /\ torn' = TRUE
  /\ UNCHANGED <<app, chans, thread, job, history>>

(* Refused before anything was written.                                    *)
RefuseApply ==
  /\ Working({"Apply"}) /\ ~torn
  /\ Answer(FALSE)
  /\ UNCHANGED <<torn, owed>>

EndApply ==
  /\ Working({"Apply"}) /\ torn
  /\ torn' = FALSE
  /\ \E ok \in BOOLEAN : (* all of it, or rolled back *)
       Answer(ok) /\ owed' = (owed \/ ok)

Panic ==
  /\ CanPanic /\ Running /\ thread = "working"
  /\ thread' = "dead"
  /\ UNCHANGED <<app, chans, job, torn, history>>

WorkerStep == Take \/ Look \/ BeginApply \/ RefuseApply \/ EndApply \/ Panic

-----------------------------------------------------------------------------
Tick ==
  /\ Interval /\ Running /\ ~due
  /\ due' = TRUE
  /\ UNCHANGED <<at, mode, busy, form, pending, quit, worker, dryRun, refreshError, chans,
                 thread, job, torn, history>>

Exited == at = "exited" /\ UNCHANGED vars

Loop == Poll \/ AutoRefresh \/ Key

Next == Loop \/ WorkerStep \/ Tick \/ Exited

(* The loop never blocks for longer than its poll timeout; the worker goes *)
(* on as long as the host calls it makes return.                           *)
Fairness == WF_vars(Loop) /\ WF_vars(WorkerStep)

Spec == Init /\ [][Next]_vars /\ Fairness

-----------------------------------------------------------------------------
(* "One at a time keeps the reply channel unambiguous: every reply belongs *)
(* to whatever busy says."  At most one request is anywhere between the    *)
(* App and the worker, and busy names it; an idle App has none out.        *)
InFlight ==
  {requests[i].kind : i \in DOMAIN requests}
    \cup {replies[i].request.kind : i \in DOMAIN replies}
    \cup (IF thread = "working" THEN {job.kind} ELSE {})

ReplyBelongsToBusy ==
  /\ Len(requests) + Len(replies) + (IF thread = "working" THEN 1 ELSE 0) <= 1
  /\ InFlight \subseteq {busy}

(* The modes and the popups agree: the form owns the keyboard exactly when *)
(* there is one, there is an operation to confirm whenever the popup asks  *)
(* for one, and neither handler meets the missing popup it allows for.     *)
PopupsMatchMode ==
  /\ form.open <=> mode = "Form"
  /\ mode = "Confirm" <=> pending # None

(* As long as there is a worker, a form drops keys exactly while its plan  *)
(* is being made: it can always be edited or closed again.  When the       *)
(* worker has died, the form it was planning for stays locked.             *)
LockedWhilePlanning ==
  mode = "Form" /\ worker => (form.locked <=> busy = "Plan")

(* The machine is written for an operation only after the plan popup of    *)
(* that very operation was answered with y, and never under --dry-run.     *)
WritesAreConfirmed ==
  [][torn' /\ ~torn => /\ ~dryRun
                       /\ job.op = asked
                       /\ answer = "yes"]_vars

(* "Never pull the rows out from under an open popup": while the form or   *)
(* the confirmation is up, no collection result is folded in.              *)
Popup == mode \in {"Form", "Confirm"}
RowsStayUnderPopup ==
  [][Popup /\ Popup' => ~(replies # <<>> /\ replies' = Tail(replies)
                          /\ replies[1].request.kind = "Refresh")]_vars

(* Every request ends: the App does not stay busy, whatever the worker     *)
(* answers and even if it dies, so the mutation keys come back.            *)
BusyClears == [](busy # None => <>(busy = None \/ at = "exited"))

(* "The rows on screen describe the machine before the write": after a     *)
(* successful apply they are replaced by a collection made after it, or    *)
(* the failure to collect is on screen.                                    *)
RowsCatchUp ==
  owed ~> (~owed \/ refreshError \/ ~worker \/ at = "exited")
=============================================================================
