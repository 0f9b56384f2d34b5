---------------------------- MODULE Interface_proofs ----------------------------
(***************************************************************************)
(* Of the terminal interface, for any operations, with and without an      *)
(* interval, and whether or not the worker may panic: that the one request *)
(* under way is the one `busy` names, that modes, form and popup agree     *)
(* with each other and with it, and that nothing is written that was not   *)
(* confirmed.                                                              *)
(*                                                                         *)
(* Of the edits it and the command line plan, for any texts, names, paths  *)
(* and jobs, and for any clock: that the id of a job leads back to it,     *)
(* that shuvjobs takes again what it wrote, and that a job keeps its       *)
(* meaning from the text to the file and back.                             *)
(***************************************************************************)
EXTENDS TuiApp, Editing, SequenceTheorems, WellFoundedInduction, TLAPS

(* Where the one request is: nowhere, in the request channel, with the     *)
(* thread, or answered in the reply channel.                               *)
Nowhere == requests = <<>> /\ replies = <<>> /\ thread # "working"
Asked(r) == requests = <<r>> /\ replies = <<>> /\ thread = "idle"
Worked(r) == requests = <<>> /\ replies = <<>> /\ thread = "working" /\ job = r
Answered(a) == requests = <<>> /\ replies = <<a>> /\ thread = "idle"

Out(r) == \/ Asked(r) \/ Worked(r)
          \/ \E a \in Replies : Answered(a) /\ a.request = r

OneInFlight ==
  Nowhere \/ \E r \in Requests : Out(r) /\ busy = r.kind

(* What can be under way in a popup.                                       *)
BusyInPopup ==
  /\ mode = "Form" => busy \in {None, "Plan"}
  /\ mode = "Confirm" => busy \in {None, "Apply"}

(* What is under way to be written was asked about and confirmed.          *)
Confirmed ==
  /\ pending # None => asked = pending
  /\ busy = "Apply" => ~dryRun /\ answer = "yes"
  /\ \A r \in Requests : Out(r) /\ r.kind = "Apply" => r.op = asked

IInv == TypeOK /\ OneInFlight /\ PopupsMatchMode /\ LockedWhilePlanning
          /\ BusyInPopup /\ Confirmed

-----------------------------------------------------------------------------
(* A channel with one message, and an empty one.                           *)
LEMMA OneMessage ==
  ASSUME NEW S, NEW x \in S
  PROVE  /\ <<x>> \in Seq(S) /\ <<x>> # <<>>
         /\ Append(<<>>, x) = <<x>>
         /\ Head(<<x>>) = x /\ Tail(<<x>>) = <<>> /\ <<x>>[1] = x
         /\ Len(<<x>>) = 1 /\ DOMAIN <<x>> = {1}
OBVIOUS

LEMMA NoMessage ==
  ASSUME NEW S
  PROVE  <<>> \in Seq(S) /\ Len(<<>>) = 0 /\ DOMAIN <<>> = {}
OBVIOUS

LEMMA RequestKinds ==
  /\ Refresh \in Requests
  /\ \A kind \in {"Plan", "Apply"}, op \in Ops : [kind |-> kind, op |-> op] \in Requests
  /\ \A r \in Requests : /\ r.kind \in {"Refresh", "Plan", "Apply"}
                         /\ r.kind # "Refresh" => r.op \in Ops
                         /\ r.kind = "Refresh" => r = Refresh
  /\ Refresh.kind = "Refresh" /\ None \notin {"Refresh", "Plan", "Apply"}
BY DEF Requests, Refresh, None

LEMMA FormKinds ==
  /\ NoForm \in Forms /\ ~NoForm.open
  /\ \A f \in Forms : f.open \in BOOLEAN /\ (f.open => f.op \in FormOps /\ f.locked \in BOOLEAN)
  /\ \A op \in FormOps, locked \in BOOLEAN :
       [open |-> TRUE, op |-> op, locked |-> locked] \in Forms
  /\ \A f \in Forms, locked \in BOOLEAN, op \in FormOps : f.open =>
       /\ [f EXCEPT !.locked = locked] \in Forms /\ [f EXCEPT !.op = op] \in Forms
       /\ [f EXCEPT !.locked = locked].open /\ [f EXCEPT !.locked = locked].locked = locked
       /\ [f EXCEPT !.op = op].open /\ [f EXCEPT !.op = op].locked = f.locked
<1> DEFINE Open == [open: {TRUE}, op: FormOps, locked: BOOLEAN]
<1>1. ~NoForm.open BY DEF NoForm
<1>2. \A f \in Forms : f = NoForm \/ f \in Open BY DEF Forms
<1>3. \A f \in Open : f.open = TRUE /\ f.op \in FormOps /\ f.locked \in BOOLEAN OBVIOUS
<1>4. NoForm \in Forms /\ \A f \in Open : f \in Forms BY DEF Forms
<1>5. NoForm.open = FALSE BY DEF NoForm
<1>6. \A f \in Open, locked \in BOOLEAN, op \in FormOps :
        /\ [f EXCEPT !.locked = locked] \in Open /\ [f EXCEPT !.op = op] \in Open
        /\ [f EXCEPT !.locked = locked].locked = locked
        /\ [f EXCEPT !.op = op].locked = f.locked
  OBVIOUS
<1>7. \A op \in FormOps, locked \in BOOLEAN :
        [open |-> TRUE, op |-> op, locked |-> locked] \in Open
  OBVIOUS
<1> HIDE DEF Open
<1>8. \A f \in Forms : f.open => f \in Open BY <1>1, <1>2
<1>9. \A f \in Forms : f.open \in BOOLEAN /\ (f.open => f.op \in FormOps /\ f.locked \in BOOLEAN)
  BY <1>2, <1>3, <1>5
<1>10. \A op \in FormOps, locked \in BOOLEAN :
         [open |-> TRUE, op |-> op, locked |-> locked] \in Forms
  BY <1>4, <1>7
<1>11. ASSUME NEW f \in Forms, NEW locked \in BOOLEAN, NEW op \in FormOps, f.open
       PROVE  /\ [f EXCEPT !.locked = locked] \in Forms /\ [f EXCEPT !.op = op] \in Forms
              /\ [f EXCEPT !.locked = locked].open /\ [f EXCEPT !.locked = locked].locked = locked
              /\ [f EXCEPT !.op = op].open /\ [f EXCEPT !.op = op].locked = f.locked
  <2>1. f \in Open BY <1>8, <1>11
  <2>2. [f EXCEPT !.locked = locked] \in Open /\ [f EXCEPT !.op = op] \in Open BY <1>6, <2>1
  <2> QED BY <1>3, <1>4, <1>6, <2>1, <2>2
<1> QED BY <1>1, <1>4, <1>9, <1>10, <1>11

(* At most one place, and one request.                                     *)
LEMMA OneOut ==
  ASSUME NEW r \in Requests, NEW q \in Requests, Out(r), Out(q)
  PROVE  r = q
BY OneMessage DEF Out, Asked, Worked, Answered

LEMMA IdleIsNowhere ==
  ASSUME TypeOK, OneInFlight, busy = None
  PROVE  Nowhere
BY RequestKinds DEF OneInFlight

-----------------------------------------------------------------------------
LEMMA InitIInv == Init => IInv
<1> SUFFICES ASSUME Init PROVE IInv OBVIOUS
<1>1. TypeOK BY RequestKinds, FormKinds, NoMessage DEF Init, TypeOK, Modes
<1>2. OneInFlight BY DEF Init, OneInFlight, Nowhere
<1>3. \A r \in Requests : ~Out(r) BY OneMessage DEF Init, Out, Asked, Worked, Answered
<1>4. PopupsMatchMode /\ LockedWhilePlanning /\ BusyInPopup /\ Confirmed
  BY <1>3, FormKinds DEF Init, PopupsMatchMode, LockedWhilePlanning, BusyInPopup, Confirmed, None
<1> QED BY <1>1, <1>2, <1>4 DEF IInv

-----------------------------------------------------------------------------
(* A step that leaves the channels and the thread alone.                   *)
LEMMA StillOut ==
  ASSUME UNCHANGED <<requests, replies, thread, job>>
  PROVE  Nowhere' = Nowhere /\ \A r : Out(r)' = Out(r)
BY DEF Nowhere, Out, Asked, Worked, Answered

(* Sending while nothing is under way.                                     *)
LEMMA SentAlone ==
  ASSUME TypeOK, OneInFlight, NEW r \in Requests, CanSend, Send(r),
         UNCHANGED <<replies, thread, job>>
  PROVE  /\ Asked(r)' /\ busy' = r.kind /\ requests' \in Seq(Requests)
         /\ \A q \in Requests : Out(q)' => q = r
<1>1. Nowhere /\ thread = "idle" BY IdleIsNowhere DEF CanSend, TypeOK, Nowhere
<1>2. requests' = <<r>> /\ busy' = r.kind /\ replies' = <<>> /\ thread' = "idle"
  BY <1>1, OneMessage DEF Send, Nowhere
<1>3. \A q \in Requests : Out(q)' => q = r
  BY <1>2, OneMessage DEF Out, Asked, Worked, Answered
<1> QED BY <1>2, <1>3, OneMessage DEF Asked

(* A reply that is there is the one busy names.                            *)
LEMMA TheReply ==
  ASSUME TypeOK, OneInFlight, replies # <<>>
  PROVE  /\ Reply \in Replies /\ replies = <<Reply>> /\ requests = <<>> /\ thread = "idle"
         /\ Reply.request \in Requests /\ busy = Reply.request.kind
         /\ Out(Reply.request) /\ Tail(replies) = <<>>
<1>1. PICK r \in Requests : Out(r) /\ busy = r.kind BY DEF OneInFlight, Nowhere
<1>2. PICK a \in Replies : Answered(a) /\ a.request = r
  BY <1>1 DEF Out, Asked, Worked
<1>3. Reply = a BY <1>2, OneMessage DEF Reply, Answered
<1> QED BY <1>1, <1>2, <1>3, OneMessage DEF Answered

(* The request the thread works on is the one busy names.                  *)
LEMMA TheJob ==
  ASSUME TypeOK, OneInFlight, thread = "working"
  PROVE  requests = <<>> /\ replies = <<>> /\ Out(job) /\ job \in Requests /\ busy = job.kind
<1>1. PICK r \in Requests : Out(r) /\ busy = r.kind BY DEF OneInFlight, Nowhere
<1>2. Worked(r) BY <1>1 DEF Out, Asked, Answered
<1> QED BY <1>1, <1>2 DEF Worked

-----------------------------------------------------------------------------
(* The event loop.                                                         *)
LEMMA PollStep == IInv /\ Poll => IInv'
<1> SUFFICES ASSUME IInv, Poll PROVE IInv' OBVIOUS
<1> USE DEF IInv
<1>0. UNCHANGED <<quit, dryRun, thread, job, torn>> /\ at' = "auto" BY DEF Poll
<1>1. CASE worker /\ replies # <<>> /\ Refreshed /\ replies' = Tail(replies) /\ UNCHANGED worker
  <2>0. /\ Reply.request.kind = "Refresh" /\ busy = "Refresh" /\ busy' = None
        /\ UNCHANGED <<mode, form, pending, requests, answer, asked>>
        /\ requests' = <<>> /\ replies' = <<>> /\ thread' = "idle"
    BY <1>0, <1>1, TheReply DEF Refreshed
  <2>1. due' = FALSE /\ refreshError' \in BOOLEAN /\ owed' \in BOOLEAN
    BY <1>1, TheReply DEF Refreshed, Replies, TypeOK
  <2>2. TypeOK' BY <1>0, <1>1, <2>0, <2>1, NoMessage DEF TypeOK
  <2>3. OneInFlight' BY <2>0 DEF OneInFlight, Nowhere
  <2>4. mode \notin {"Form", "Confirm"} BY <2>0 DEF BusyInPopup, None
  <2>5. \A r \in Requests : ~Out(r)' BY <2>0, OneMessage DEF Out, Asked, Worked, Answered
  <2>6. PopupsMatchMode' /\ LockedWhilePlanning' /\ BusyInPopup'
    BY <2>0, <2>4 DEF PopupsMatchMode, LockedWhilePlanning, BusyInPopup
  <2>7. Confirmed' BY <1>0, <2>0, <2>5 DEF Confirmed, None
  <2> QED BY <2>2, <2>3, <2>6, <2>7
<1>2. CASE worker /\ replies # <<>> /\ Planned /\ replies' = Tail(replies) /\ UNCHANGED worker
  <2>0. /\ Reply.request.kind = "Plan" /\ busy = "Plan" /\ busy' = None
        /\ UNCHANGED <<due, refreshError, requests, owed>>
        /\ requests' = <<>> /\ replies' = <<>> /\ thread' = "idle"
        /\ Reply.request.op \in Ops
    BY <1>0, <1>2, TheReply, RequestKinds DEF Planned
  <2>1. \A r \in Requests : ~Out(r)' BY <2>0, OneMessage DEF Out, Asked, Worked, Answered
  <2>2. OneInFlight' BY <2>0 DEF OneInFlight, Nowhere
  <2>3. mode # "Confirm" /\ pending = None BY <2>0 DEF BusyInPopup, None, PopupsMatchMode
  <2>4. CASE Reply.ok
    <3>1. /\ pending' = Reply.request.op /\ form' = NoForm /\ mode' = "Confirm"
          /\ answer' = None /\ asked' = Reply.request.op
      BY <1>2, <2>4 DEF Planned
    <3>2. TypeOK'
      BY <1>0, <1>2, <2>0, <3>1, FormKinds, NoMessage DEF TypeOK, Modes
    <3>3. PopupsMatchMode'
      BY <2>0, <3>1, FormKinds, TuiAssumption DEF PopupsMatchMode
    <3>4. LockedWhilePlanning' /\ BusyInPopup'
      BY <2>0, <3>1 DEF LockedWhilePlanning, BusyInPopup
    <3>5. Confirmed' BY <1>0, <2>0, <2>1, <3>1 DEF Confirmed, None
    <3> QED BY <2>2, <3>2, <3>3, <3>4, <3>5
  <2>5. CASE ~Reply.ok /\ form.open
    <3>1. /\ form' = [form EXCEPT !.locked = FALSE] /\ mode' = "Form" /\ UNCHANGED pending
          /\ UNCHANGED <<answer, asked>>
      BY <1>2, <2>5 DEF Planned
    <3>2. form' \in Forms /\ form'.open /\ ~form'.locked
      BY <2>5, <3>1, FormKinds DEF TypeOK
    <3>3. TypeOK' BY <1>0, <1>2, <2>0, <3>1, <3>2, NoMessage DEF TypeOK, Modes
    <3>4. PopupsMatchMode' BY <2>3, <3>1, <3>2 DEF PopupsMatchMode
    <3>5. LockedWhilePlanning' /\ BusyInPopup'
      BY <2>0, <3>1, <3>2 DEF LockedWhilePlanning, BusyInPopup, None
    <3>6. Confirmed' BY <1>0, <2>0, <2>1, <2>3, <3>1 DEF Confirmed, None
    <3> QED BY <2>2, <3>3, <3>4, <3>5, <3>6
  <2>6. CASE ~Reply.ok /\ ~form.open
    <3>1. pending' = None /\ form' = NoForm /\ mode' = "Normal" /\ UNCHANGED <<answer, asked>>
      BY <1>2, <2>6 DEF Planned, Close
    <3>2. TypeOK' BY <1>0, <1>2, <2>0, <3>1, FormKinds, NoMessage DEF TypeOK, Modes
    <3>3. PopupsMatchMode' BY <3>1, FormKinds DEF PopupsMatchMode
    <3>4. LockedWhilePlanning' /\ BusyInPopup' BY <3>1 DEF LockedWhilePlanning, BusyInPopup
    <3>5. Confirmed' BY <1>0, <2>0, <2>1, <3>1 DEF Confirmed, None
    <3> QED BY <2>2, <3>2, <3>3, <3>4, <3>5
  <2> QED BY <2>4, <2>5, <2>6
<1>3. CASE worker /\ replies # <<>> /\ Applied /\ replies' = Tail(replies) /\ UNCHANGED worker
  <2>0. /\ pending' = None /\ form' = NoForm /\ mode' = "Normal"
        /\ requests = <<>> /\ replies' = <<>> /\ thread' = "idle" /\ thread = "idle"
        /\ UNCHANGED <<due, refreshError, owed, answer, asked>>
    BY <1>0, <1>3, TheReply DEF Applied, Close, history
  <2>1. \/ requests' = <<Refresh>> /\ busy' = "Refresh"
        \/ requests' = <<>> /\ busy' = None
    BY <1>3, <2>0, RequestKinds, OneMessage DEF Applied, Send
  <2>a. requests' \in Seq(Requests) /\ replies' \in Seq(Replies)
    <3>1. <<Refresh>> \in Seq(Requests) /\ <<>> \in Seq(Requests) /\ <<>> \in Seq(Replies)
      BY RequestKinds
    <3> QED BY <2>0, <2>1, <3>1
  <2>2. TypeOK' BY <1>0, <1>3, <2>0, <2>1, <2>a, FormKinds DEF TypeOK, Modes
  <2>3. OneInFlight'
    BY <2>0, <2>1, RequestKinds DEF OneInFlight, Nowhere, Out, Asked
  <2>4. PopupsMatchMode' BY <2>0, FormKinds DEF PopupsMatchMode
  <2>5. LockedWhilePlanning' /\ BusyInPopup' BY <2>0 DEF LockedWhilePlanning, BusyInPopup
  <2>6. \A r \in Requests : Out(r)' => r.kind = "Refresh"
    BY <2>0, <2>1, RequestKinds, OneMessage DEF Out, Asked, Worked, Answered
  <2>7. Confirmed' BY <2>0, <2>1, <2>6 DEF Confirmed, None
  <2> QED BY <2>2, <2>3, <2>4, <2>5, <2>7
<1>4. CASE /\ worker /\ replies = <<>> /\ thread = "dead" /\ worker' = FALSE /\ busy' = None
           /\ UNCHANGED <<mode, form, pending, due, refreshError, chans, history>>
  <2>0. Nowhere BY <1>4 DEF OneInFlight, Out, Asked, Worked, Answered
  <2>1. Nowhere' /\ \A r \in Requests : ~Out(r)'
    BY <1>0, <1>4, <2>0, OneMessage DEF chans, Nowhere, Out, Asked, Worked, Answered
  <2>2. TypeOK' BY <1>0, <1>4 DEF TypeOK, chans, history
  <2>3. OneInFlight' BY <2>1 DEF OneInFlight
  <2>4. PopupsMatchMode' BY <1>4 DEF PopupsMatchMode
  <2>5. LockedWhilePlanning' /\ BusyInPopup' BY <1>4 DEF LockedWhilePlanning, BusyInPopup
  <2>6. Confirmed' BY <1>0, <1>4, <2>1 DEF Confirmed, history, None
  <2> QED BY <2>2, <2>3, <2>4, <2>5, <2>6
<1>5. CASE UNCHANGED <<mode, busy, form, pending, worker, due, refreshError, chans, history>>
  <2>1. TypeOK' BY <1>0, <1>5 DEF TypeOK, chans, history
  <2>2. OneInFlight' BY <1>0, <1>5, StillOut DEF OneInFlight, chans
  <2>3. PopupsMatchMode' /\ LockedWhilePlanning' /\ BusyInPopup'
    BY <1>5 DEF PopupsMatchMode, LockedWhilePlanning, BusyInPopup
  <2>4. Confirmed' BY <1>0, <1>5, StillOut DEF Confirmed, chans, history
  <2> QED BY <2>1, <2>2, <2>3, <2>4
<1> QED BY <1>1, <1>2, <1>3, <1>4, <1>5 DEF Poll

LEMMA AutoRefreshStep == IInv /\ AutoRefresh => IInv'
<1> SUFFICES ASSUME IInv, AutoRefresh PROVE IInv' OBVIOUS
<1> USE DEF IInv
<1>0. UNCHANGED <<mode, form, pending, quit, worker, dryRun, due, refreshError, replies, thread,
                  job, torn, history>> /\ at' = "key"
  BY DEF AutoRefresh
<1>1. CASE CanSend /\ Send(Refresh) /\ mode \notin {"Form", "Confirm"}
  <2>1. /\ Asked(Refresh)' /\ busy' = "Refresh" /\ requests' \in Seq(Requests)
        /\ \A q \in Requests : Out(q)' => q = Refresh
    BY <1>0, <1>1, SentAlone, RequestKinds
  <2>2. TypeOK' BY <1>0, <2>1 DEF TypeOK, history
  <2>3. OneInFlight' BY <2>1, RequestKinds DEF OneInFlight, Out
  <2>4. PopupsMatchMode' /\ LockedWhilePlanning' /\ BusyInPopup'
    BY <1>0, <1>1 DEF PopupsMatchMode, LockedWhilePlanning, BusyInPopup
  <2>5. Confirmed' BY <1>0, <2>1, RequestKinds DEF Confirmed, history
  <2> QED BY <2>2, <2>3, <2>4, <2>5
<1>2. CASE UNCHANGED <<requests, busy>>
  <2>1. TypeOK' BY <1>0, <1>2 DEF TypeOK, history
  <2>2. OneInFlight' BY <1>0, <1>2, StillOut DEF OneInFlight
  <2>3. PopupsMatchMode' /\ LockedWhilePlanning' /\ BusyInPopup'
    BY <1>0, <1>2 DEF PopupsMatchMode, LockedWhilePlanning, BusyInPopup
  <2>4. Confirmed' BY <1>0, <1>2, StillOut DEF Confirmed, history
  <2> QED BY <2>1, <2>2, <2>3, <2>4
<1> QED BY <1>1, <1>2 DEF AutoRefresh, RequestRefresh

LEMMA KeyStep == IInv /\ Key => IInv'
<1> SUFFICES ASSUME IInv, Key PROVE IInv' OBVIOUS
<1> USE DEF IInv
<1>0. /\ at' \in {"exited", "poll"}
      /\ UNCHANGED <<worker, dryRun, due, refreshError, replies, thread, job, torn, owed, asked>>
  BY DEF Key
<1>a. form \in Forms BY DEF TypeOK
(* Nothing is sent.                                                        *)
<1>1. ASSUME UNCHANGED <<busy, requests>>,
             quit' \in BOOLEAN, form' \in Forms, mode' \in Modes,
             pending' \in {None, pending},
             answer' = answer \/ (answer' = "no" /\ busy # "Apply"),
             PopupsMatchMode', LockedWhilePlanning', BusyInPopup'
      PROVE  IInv'
  <2>1. TypeOK' BY <1>0, <1>1 DEF TypeOK
  <2>2. OneInFlight' BY <1>0, <1>1, StillOut DEF OneInFlight
  <2>3. Confirmed' BY <1>0, <1>1, StillOut DEF Confirmed
  <2> QED BY <1>1, <2>1, <2>2, <2>3
(* Something is.                                                           *)
<1>2. ASSUME NEW r \in Requests, CanSend, Send(r),
             UNCHANGED <<quit, mode, pending>>, form' \in Forms,
             IF r.kind = "Apply" THEN r.op = asked /\ ~dryRun /\ answer' = "yes"
             ELSE UNCHANGED answer,
             PopupsMatchMode', LockedWhilePlanning', BusyInPopup'
      PROVE  IInv'
  <2>1. /\ Asked(r)' /\ busy' = r.kind /\ requests' \in Seq(Requests)
        /\ \A q \in Requests : Out(q)' => q = r
    BY <1>0, <1>2, SentAlone
  <2>2. TypeOK' BY <1>0, <1>2, <2>1, RequestKinds DEF TypeOK
  <2>3. OneInFlight' BY <2>1 DEF OneInFlight, Out
  <2>4. Confirmed' BY <1>0, <1>2, <2>1 DEF Confirmed
  <2> QED BY <1>2, <2>2, <2>3, <2>4
<1>3. CASE NormalKey
  <2>0. mode = "Normal" /\ pending = None /\ ~form.open
    BY <1>3 DEF NormalKey, PopupsMatchMode
  <2>1. CASE quit' = TRUE /\ UNCHANGED <<mode, busy, form, pending, requests, answer>>
    BY <1>0, <1>1, <1>a, <2>0, <2>1
    DEF Modes, PopupsMatchMode, LockedWhilePlanning, BusyInPopup
  <2>2. CASE OnlyMode("Filter") \/ OnlyMode("Search")
    BY <1>0, <1>1, <1>a, <2>0, <2>2
    DEF OnlyMode, TypeOK, Modes, PopupsMatchMode, LockedWhilePlanning, BusyInPopup
  <2>3. CASE RequestRefresh /\ UNCHANGED <<mode, form, pending, quit, answer>>
    <3>1. PopupsMatchMode' /\ LockedWhilePlanning' /\ BusyInPopup'
      BY <2>0, <2>3 DEF PopupsMatchMode, LockedWhilePlanning, BusyInPopup
    <3>2. CASE CanSend /\ Send(Refresh)
      BY <1>2, <1>a, <2>3, <3>1, <3>2, RequestKinds
    <3>3. CASE UNCHANGED <<requests, busy>>
      BY <1>1, <1>a, <2>0, <2>3, <3>1, <3>3 DEF TypeOK
    <3> QED BY <2>3, <3>2, <3>3 DEF RequestRefresh
  <2>4. CASE /\ worker /\ busy = None
             /\ \E op \in FormOps : form' = [open |-> TRUE, op |-> op, locked |-> FALSE]
             /\ mode' = "Form"
             /\ UNCHANGED <<busy, pending, quit, requests, answer>>
    <3>1. PICK op \in FormOps : form' = [open |-> TRUE, op |-> op, locked |-> FALSE] BY <2>4
    <3>2. form' \in Forms /\ form'.open /\ ~form'.locked BY <3>1, FormKinds
    <3>3. PopupsMatchMode' BY <2>0, <2>4, <3>2 DEF PopupsMatchMode
    <3>4. LockedWhilePlanning' /\ BusyInPopup'
      BY <2>4, <3>2 DEF LockedWhilePlanning, BusyInPopup, None
    <3> QED BY <1>1, <2>4, <3>2, <3>3, <3>4 DEF TypeOK, Modes
  <2>5. CASE /\ \E op \in RowOps : SendMutation("Plan", op)
             /\ UNCHANGED <<mode, form, pending, quit, answer>>
    <3>1. PICK op \in RowOps : SendMutation("Plan", op) BY <2>5
    <3>2. [kind |-> "Plan", op |-> op] \in Requests BY RequestKinds DEF Ops
    <3>3. PopupsMatchMode' /\ LockedWhilePlanning' /\ BusyInPopup'
      BY <2>0, <2>5 DEF PopupsMatchMode, LockedWhilePlanning, BusyInPopup
    <3>4. CASE CanSend /\ Send([kind |-> "Plan", op |-> op])
      BY <1>2, <1>a, <2>5, <3>2, <3>3, <3>4
    <3>5. CASE UNCHANGED <<requests, busy>>
      BY <1>1, <1>a, <2>0, <2>5, <3>3, <3>5 DEF TypeOK
    <3> QED BY <3>1, <3>4, <3>5 DEF SendMutation
  <2> QED BY <1>3, <2>1, <2>2, <2>3, <2>4, <2>5 DEF NormalKey
<1>4. CASE ViewKey
  <2>1. /\ mode \in {"Filter", "Search"} /\ mode' = "Normal"
        /\ UNCHANGED <<busy, form, pending, quit, requests, answer>>
    BY <1>4 DEF ViewKey, OnlyMode
  <2>2. PopupsMatchMode' /\ LockedWhilePlanning' /\ BusyInPopup'
    BY <2>1 DEF PopupsMatchMode, LockedWhilePlanning, BusyInPopup
  <2> QED BY <1>1, <1>a, <2>1, <2>2 DEF TypeOK, Modes
<1>5. CASE FormKey
  <2>0. /\ mode = "Form" /\ ~form.locked /\ form.open /\ pending = None
        /\ UNCHANGED <<pending, quit, answer>>
        /\ busy \in {None, "Plan"} /\ (worker => busy # "Plan")
    BY <1>5 DEF FormKey, PopupsMatchMode, BusyInPopup, LockedWhilePlanning
  <2>1. CASE form' = NoForm /\ mode' = "Normal" /\ UNCHANGED <<busy, requests>>
    <3>1. PopupsMatchMode' BY <2>0, <2>1, FormKinds DEF PopupsMatchMode
    <3>2. LockedWhilePlanning' /\ BusyInPopup' BY <2>1 DEF LockedWhilePlanning, BusyInPopup
    <3> QED BY <1>1, <2>0, <2>1, <3>1, <3>2, FormKinds DEF TypeOK, Modes
  <2>2. CASE /\ \E op \in FormOps : form' = [form EXCEPT !.op = op]
             /\ UNCHANGED <<mode, busy, requests>>
    <3>1. PICK op \in FormOps : form' = [form EXCEPT !.op = op] BY <2>2
    <3>2. form' \in Forms /\ form'.open /\ form'.locked = form.locked
      BY <1>a, <2>0, <3>1, FormKinds
    <3>3. PopupsMatchMode' /\ LockedWhilePlanning' /\ BusyInPopup'
      BY <1>0, <2>0, <2>2, <3>2 DEF PopupsMatchMode, LockedWhilePlanning, BusyInPopup
    <3> QED BY <1>1, <2>0, <2>2, <3>2, <3>3 DEF TypeOK, Modes
  <2>3. CASE /\ SendMutation("Plan", form.op)
             /\ form' = [form EXCEPT !.locked = CanSend]
             /\ UNCHANGED mode
    <3>0. CanSend \in BOOLEAN BY DEF CanSend, TypeOK
    <3>1. form' \in Forms /\ form'.open /\ form'.locked = CanSend /\ form.op \in Ops
      BY <1>a, <2>0, <2>3, <3>0, FormKinds DEF Ops
    <3>2. PopupsMatchMode' BY <2>0, <2>3, <3>1 DEF PopupsMatchMode
    <3>3. CASE CanSend /\ Send([kind |-> "Plan", op |-> form.op])
      <4>1. LockedWhilePlanning' /\ BusyInPopup'
        BY <2>0, <2>3, <3>1, <3>3 DEF Send, LockedWhilePlanning, BusyInPopup
      <4> QED BY <1>2, <2>0, <2>3, <3>1, <3>2, <3>3, <4>1, RequestKinds
    <3>4. CASE ~CanSend /\ UNCHANGED <<requests, busy>>
      <4>1. LockedWhilePlanning' /\ BusyInPopup'
        BY <1>0, <2>0, <2>3, <3>1, <3>4 DEF LockedWhilePlanning, BusyInPopup
      <4> QED BY <1>1, <2>0, <2>3, <3>1, <3>2, <3>4, <4>1 DEF TypeOK
    <3> QED BY <2>3, <3>3, <3>4 DEF SendMutation
  <2> QED BY <1>5, <2>1, <2>2, <2>3 DEF FormKey
<1>6. CASE ConfirmKey
  <2>0. mode = "Confirm" /\ pending # None /\ ~form.open /\ UNCHANGED quit
        /\ asked = pending /\ pending \in Ops
    BY <1>6 DEF ConfirmKey, PopupsMatchMode, Confirmed, TypeOK
  <2>1. CASE /\ Close("Normal") /\ UNCHANGED <<busy, requests>>
             /\ answer' = answer \/ (answer' = "no" /\ busy # "Apply")
    <3>1. PopupsMatchMode' BY <2>1, FormKinds DEF Close, PopupsMatchMode
    <3>2. LockedWhilePlanning' /\ BusyInPopup' BY <2>1 DEF Close, LockedWhilePlanning, BusyInPopup
    <3> QED BY <1>1, <2>0, <2>1, <3>1, <3>2, FormKinds DEF Close, TypeOK, Modes
  <2>2. CASE /\ ~dryRun /\ SendMutation("Apply", pending)
             /\ answer' = IF CanSend THEN "yes" ELSE answer
             /\ UNCHANGED <<mode, form, pending>>
    <3>1. PopupsMatchMode' /\ LockedWhilePlanning'
      BY <2>0, <2>2 DEF PopupsMatchMode, LockedWhilePlanning
    <3>2. CASE CanSend /\ Send([kind |-> "Apply", op |-> pending])
      <4>1. BusyInPopup' BY <2>0, <2>2, <3>2 DEF Send, BusyInPopup
      <4> QED BY <1>2, <1>a, <2>0, <2>2, <3>1, <3>2, <4>1, RequestKinds
    <3>3. CASE ~CanSend /\ UNCHANGED <<requests, busy>>
      <4>1. BusyInPopup' BY <2>0, <2>2, <3>3 DEF BusyInPopup
      <4> QED BY <1>1, <1>a, <2>0, <2>2, <3>1, <3>3, <4>1 DEF TypeOK
    <3> QED BY <2>2, <3>2, <3>3 DEF SendMutation
  <2> QED BY <1>6, <2>1, <2>2 DEF ConfirmKey
<1>7. CASE NoKey
  BY <1>0, <1>1, <1>7
  DEF NoKey, TypeOK, PopupsMatchMode, LockedWhilePlanning, BusyInPopup
<1> QED BY <1>3, <1>4, <1>5, <1>6, <1>7 DEF Key

-----------------------------------------------------------------------------
(* The worker thread and the clock.                                        *)
LEMMA WorkerSteps == IInv /\ (WorkerStep \/ Tick) => IInv'
<1> SUFFICES ASSUME IInv, WorkerStep \/ Tick PROVE IInv' OBVIOUS
<1> USE DEF IInv
(* What the loop shows does not change; neither does which request is out. *)
<1>1. ASSUME UNCHANGED <<mode, busy, form, pending, worker, dryRun, answer, asked>>,
             TypeOK', OneInFlight', \A r \in Requests : Out(r)' => Out(r)
      PROVE  IInv'
  BY <1>1 DEF PopupsMatchMode, LockedWhilePlanning, BusyInPopup, Confirmed
<1>2. CASE Take
  <2>0. thread = "idle" /\ requests # <<>> BY <1>2 DEF Take
  <2>1. PICK r \in Requests : Asked(r) /\ busy = r.kind
    BY <2>0 DEF OneInFlight, Nowhere, Out, Worked, Answered
  <2>2. /\ job' = r /\ requests' = <<>> /\ replies' = <<>> /\ thread' = "working"
    BY <1>2, <2>1, OneMessage DEF Take, Asked
  <2>3. TypeOK' BY <1>2, <2>2, NoMessage DEF Take, TypeOK, app, history
  <2>4. OneInFlight' BY <1>2, <2>1, <2>2 DEF Take, app, OneInFlight, Out, Worked
  <2>5. \A q \in Requests : Out(q)' => q = r
    BY <2>2, OneMessage DEF Out, Asked, Worked, Answered
  <2>6. \A q \in Requests : Out(q)' => Out(q) BY <2>1, <2>5 DEF Out
  <2> QED BY <1>1, <1>2, <2>3, <2>4, <2>6 DEF Take, app, history
<1>3. ASSUME NEW ok \in BOOLEAN, thread = "working", Answer(ok),
             torn' \in BOOLEAN, owed' \in BOOLEAN
      PROVE  IInv'
  <2>0. requests = <<>> /\ replies = <<>> /\ Out(job) /\ job \in Requests /\ busy = job.kind
    BY <1>3, TheJob
  <2> DEFINE a == [request |-> job, ok |-> ok, seen |-> owed]
  <2>1. a \in Replies /\ a.request = job BY <1>3, <2>0 DEF Replies, TypeOK
  <2>2. replies' = <<a>> /\ requests' = <<>> /\ thread' = "idle"
    BY <1>3, <2>0, <2>1, OneMessage DEF Answer
  <2>3. replies' \in Seq(Replies) BY <2>1, <2>2, OneMessage
  <2>4. TypeOK' BY <1>3, <2>3 DEF Answer, TypeOK, app
  <2>5. busy' = busy BY <1>3 DEF Answer, app
  <2>6. Out(job)'
    <3>1. job' = job BY <1>3 DEF Answer
    <3>2. PICK b \in Replies : replies' = <<b>> /\ b.request = job BY <2>1, <2>2
    <3> QED BY <2>2, <3>1, <3>2 DEF Answered, Out
  <2>7. OneInFlight' BY <1>3, <2>0, <2>5, <2>6 DEF OneInFlight, Answer
  <2>8. \A q \in Requests : Out(q)' => q = job
    BY <2>1, <2>2, OneMessage DEF Out, Asked, Worked, Answered
  <2> QED BY <1>1, <1>3, <2>0, <2>4, <2>7, <2>8 DEF Answer, app
<1>4. CASE Look \/ RefuseApply \/ EndApply
  <2>1. thread = "working" /\ torn' \in BOOLEAN /\ owed' \in BOOLEAN
        /\ \E ok \in BOOLEAN : Answer(ok)
    BY <1>4 DEF Look, RefuseApply, EndApply, Working, TypeOK
  <2> QED BY <1>3, <2>1
<1>5. CASE BeginApply
  <2>1. TypeOK' BY <1>5 DEF BeginApply, TypeOK, app, chans, history
  <2>2. OneInFlight' BY <1>5, StillOut DEF BeginApply, app, chans, OneInFlight
  <2> QED BY <1>1, <1>5, <2>1, <2>2, StillOut DEF BeginApply, app, chans, history
<1>6. CASE Panic
  <2>1. requests = <<>> /\ replies = <<>> BY <1>6, TheJob DEF Panic
  <2>2. Nowhere' /\ \A r \in Requests : ~Out(r)'
    BY <1>6, <2>1, OneMessage DEF Panic, chans, Nowhere, Out, Asked, Worked, Answered
  <2>3. TypeOK' BY <1>6 DEF Panic, TypeOK, app, chans, history
  <2> QED BY <1>1, <1>6, <2>2, <2>3 DEF Panic, app, history, OneInFlight
<1>7. CASE Tick
  <2>1. TypeOK' BY <1>7 DEF Tick, TypeOK, chans, history
  <2>2. OneInFlight' BY <1>7, StillOut DEF Tick, chans, OneInFlight
  <2> QED BY <1>1, <1>7, <2>1, <2>2, StillOut DEF Tick, chans, history
<1> QED BY <1>2, <1>4, <1>5, <1>6, <1>7 DEF WorkerStep

LEMMA IInvStep == IInv /\ [Next]_vars => IInv'
<1>1. IInv /\ UNCHANGED vars => IInv'
  <2> SUFFICES ASSUME IInv, UNCHANGED vars PROVE IInv' OBVIOUS
  <2>1. TypeOK' BY DEF IInv, TypeOK, vars, app, chans, history
  <2>2. OneInFlight' BY StillOut DEF IInv, OneInFlight, vars, app, chans
  <2>3. PopupsMatchMode' /\ LockedWhilePlanning' /\ BusyInPopup'
    BY DEF IInv, vars, app, PopupsMatchMode, LockedWhilePlanning, BusyInPopup
  <2>4. Confirmed' BY StillOut DEF IInv, Confirmed, vars, app, chans, history
  <2> QED BY <2>1, <2>2, <2>3, <2>4 DEF IInv
<1> QED BY <1>1, PollStep, AutoRefreshStep, KeyStep, WorkerSteps DEF Next, Loop, Exited

LEMMA Invariance == Spec => []IInv
BY InitIInv, IInvStep, PTL DEF Spec

-----------------------------------------------------------------------------
(* The App, the channels and the worker keep their types.                  *)
THEOREM TuiTypeCorrect == Spec => []TypeOK
<1>1. IInv => TypeOK BY DEF IInv
<1> QED BY <1>1, Invariance, PTL

(* "Every reply belongs to whatever busy says": no two requests are ever   *)
(* under way, and the one that is is the one the App waits for.            *)
THEOREM ReplyBelongsToBusyHolds == Spec => []ReplyBelongsToBusy
<1>1. IInv => ReplyBelongsToBusy
  <2> SUFFICES ASSUME IInv PROVE ReplyBelongsToBusy OBVIOUS
  <2>1. CASE Nowhere BY <2>1, NoMessage DEF Nowhere, ReplyBelongsToBusy, InFlight
  <2>2. ASSUME NEW r \in Requests, Out(r), busy = r.kind PROVE ReplyBelongsToBusy
    <3>1. CASE Asked(r)
      BY <2>2, <3>1, NoMessage, OneMessage DEF Asked, ReplyBelongsToBusy, InFlight
    <3>2. CASE Worked(r)
      BY <2>2, <3>2, NoMessage DEF Worked, ReplyBelongsToBusy, InFlight
    <3>3. ASSUME NEW a \in Replies, Answered(a), a.request = r PROVE ReplyBelongsToBusy
      BY <2>2, <3>3, NoMessage, OneMessage DEF Answered, ReplyBelongsToBusy, InFlight
    <3> QED BY <2>2, <3>1, <3>2, <3>3 DEF Out
  <2> QED BY <2>1, <2>2 DEF IInv, OneInFlight
<1> QED BY <1>1, Invariance, PTL

(* Form, confirmation popup and mode agree, so neither key handler meets   *)
(* the missing popup that it allows for.                                   *)
THEOREM PopupsMatchModeHolds == Spec => []PopupsMatchMode
<1>1. IInv => PopupsMatchMode BY DEF IInv
<1> QED BY <1>1, Invariance, PTL

(* A form is locked exactly while its plan is made, as long as there is a  *)
(* worker to make it.                                                      *)
THEOREM LockedWhilePlanningHolds == Spec => []LockedWhilePlanning
<1>1. IInv => LockedWhilePlanning BY DEF IInv
<1> QED BY <1>1, Invariance, PTL

(* Every write was asked about, confirmed with y, and not under --dry-run. *)
THEOREM WritesAreConfirmedHolds == Spec => WritesAreConfirmed
<1>1. IInv /\ [Next]_vars =>
        [torn' /\ ~torn => ~dryRun /\ job.op = asked /\ answer = "yes"]_vars
  <2> SUFFICES ASSUME IInv, Next, torn', ~torn
               PROVE  ~dryRun /\ job.op = asked /\ answer = "yes"
    OBVIOUS
  <2>1. BeginApply
    BY DEF Next, Loop, Poll, AutoRefresh, Key, WorkerStep, Take, Look, RefuseApply, EndApply,
           Panic, Tick, Exited, vars
  <2>2. thread = "working" /\ job.kind = "Apply" BY <2>1 DEF BeginApply, Working
  <2>3. Out(job) /\ job \in Requests /\ busy = "Apply" BY <2>2, TheJob DEF IInv
  <2> QED BY <2>2, <2>3 DEF IInv, Confirmed
<1> QED BY <1>1, Invariance, PTL DEF Spec, WritesAreConfirmed

(* No collection is folded in under an open form or popup.                 *)
THEOREM RowsStayUnderPopupHolds == Spec => RowsStayUnderPopup
<1>1. IInv => (Popup => ~(replies # <<>> /\ replies[1].request.kind = "Refresh"))
  <2> SUFFICES ASSUME IInv, Popup, replies # <<>>, replies[1].request.kind = "Refresh"
               PROVE  FALSE
    OBVIOUS
  <2>1. busy = Reply.request.kind /\ Reply \in Replies /\ replies = <<Reply>>
    BY TheReply DEF IInv
  <2>2. replies[1] = Reply BY <2>1, OneMessage
  <2>3. busy = "Refresh" BY <2>1, <2>2
  <2> QED BY <2>3 DEF IInv, BusyInPopup, Popup, None
<1> QED BY <1>1, Invariance, PTL DEF RowsStayUnderPopup

-----------------------------------------------------------------------------
(* Ids.                                                                    *)

Four == {"cron", "systemd", "anacron", "launchd"}

(* A string, and the words an id is put together with.                     *)
Word == STRING \cup {":", "/", "user", "anacron"}
Text == Seq(Word)

(* The words an id is put together with, and the texts that are found in   *)
(* one.                                                                    *)
LEMMA Words ==
  /\ Seq(STRING) \subseteq Text
  /\ <<":">> \in Text /\ <<"user", ":">> \in Text /\ <<"user", "/">> \in Text
  /\ <<"anacron", ":">> \in Text
<1>1. ":" \in Word /\ "/" \in Word /\ "user" \in Word /\ "anacron" \in Word /\ STRING \subseteq Word
  BY DEF Word
<1>2. Seq(STRING) \subseteq Text
  BY <1>1, SeqMonotonic DEF Text
<1> QED BY <1>1, <1>2 DEF Text

(* What stands where in two texts put together.                            *)
LEMMA Concat ==
  ASSUME NEW a \in Text, NEW b \in Text
  PROVE  /\ a \o b \in Text /\ Len(a \o b) = Len(a) + Len(b)
         /\ \A i \in 1..Len(a) : (a \o b)[i] = a[i]
         /\ \A i \in 1..Len(b) : (a \o b)[Len(a) + i] = b[i]
BY DEF Text

(* How three texts are put together does not matter.                       *)
LEMMA ConcatThree ==
  ASSUME NEW a \in Text, NEW b \in Text, NEW c \in Text
  PROVE  (a \o b) \o c = a \o (b \o c)
BY ConcatAssociative DEF Text

AllButTheFirst(a, b, c, d) == a \o b \o c \o d = a \o (b \o c \o d)

(* The same of four.                                                       *)
LEMMA ConcatFour ==
  \A a, b, c, d \in Text : AllButTheFirst(a, b, c, d)
<1> SUFFICES ASSUME NEW a \in Text, NEW b \in Text, NEW c \in Text, NEW d \in Text
             PROVE  AllButTheFirst(a, b, c, d)
  OBVIOUS
<1>1. b \o c \in Text
  BY Concat
<1>2. (a \o b) \o c = a \o (b \o c)
  BY ConcatThree, SMTT(30)
<1>3. \A m \in Text : (a \o m) \o d = a \o (m \o d)
  BY ConcatThree
<1>4. (a \o (b \o c)) \o d = a \o ((b \o c) \o d)
  BY <1>1, <1>3
<1>5. a \o b \o c \o d = a \o (b \o c \o d)
  BY <1>2, <1>4
<1> QED BY <1>5 DEF AllButTheFirst

(* A prefix that was put on comes off again.                               *)
LEMMA PrefixComesOff ==
  ASSUME NEW p \in Text, NEW r \in Text
  PROVE  IsPrefix(p, p \o r) /\ StripPrefix(p, p \o r) = r
<1> DEFINE t == p \o r
<1>1. t \in Text /\ Len(t) = Len(p) + Len(r) /\ Len(p) \in Nat /\ Len(r) \in Nat
  BY Concat DEF Text
<1>2. SubSeq(t, 1, Len(p)) = p
  <2>1. \A i \in 1..Len(p) : SubSeq(t, 1, Len(p))[i] = p[i]
    BY <1>1, Concat DEF Text
  <2>2. SubSeq(t, 1, Len(p)) \in Text /\ Len(SubSeq(t, 1, Len(p))) = Len(p)
    BY <1>1, Concat DEF Text
  <2> QED BY <2>1, <2>2, SeqEqual DEF Text
<1>3. SubSeq(p, 1, Len(p)) = p
  BY SubSeqFull DEF Text
<1>4. SubSeq(t, Len(p) + 1, Len(t)) = r
  <2> DEFINE u == SubSeq(t, Len(p) + 1, Len(t))
  <2>1. u \in Text /\ Len(u) = Len(r)
    BY <1>1, Concat DEF Text
  <2>2. \A i \in 1..Len(r) : u[i] = r[i]
    BY <1>1, Concat DEF Text
  <2> QED BY <2>1, <2>2, SeqEqual DEF Text
<1> QED BY <1>1, <1>2, <1>3, <1>4 DEF IsPrefix, StripPrefix

(* A colon is a word.                                                      *)
LEMMA Colon == ":" \in Word
BY DEF Word

(* The last token c splits what was put together around it.                *)
LEMMA LastSplits ==
  ASSUME NEW a \in Text, NEW b \in Text, NEW c \in Word, ~Has(b, c)
  PROVE  LET t == a \o <<c>> \o b IN Has(t, c) /\ Before(t, c) = a /\ After(t, c) = b
<1> DEFINE t == a \o <<c>> \o b
           n == Len(a) + 1
           S == {i \in DOMAIN t : t[i] = c}
<1>0. /\ a \o <<c>> \in Text /\ Len(a \o <<c>>) = n /\ n \in Nat \ {0} /\ Len(b) \in Nat
      /\ (a \o <<c>>)[n] = c /\ \A i \in 1..Len(a) : (a \o <<c>>)[i] = a[i]
  BY DEF Text
<1>1. t \in Text /\ Len(t) = n + Len(b) /\ n \in Nat \ {0} /\ Len(b) \in Nat /\ DOMAIN t = 1..Len(t)
  BY <1>0, Concat DEF Text
<1>2. /\ \A i \in 1..Len(a) : t[i] = a[i]
      /\ t[n] = c
      /\ \A i \in 1..Len(b) : t[n + i] = b[i]
  BY <1>0, Concat
<1>3. \A i \in 1..Len(b) : b[i] # c
  <2>1. DOMAIN b = 1..Len(b)
    BY DEF Text
  <2> QED BY <2>1 DEF Has, ToSet
<1>4. n \in S /\ \A i \in S : n >= i
  <2>1. n \in S
    BY <1>1, <1>2
  <2>0. S \subseteq 1..Len(t) /\ Len(t) \in Nat
    BY <1>1
  <2> HIDE DEF S, t
  <2>2. SUFFICES ASSUME NEW i \in S, i > n PROVE FALSE
    BY <1>1, <2>0, <2>1
  <2> USE DEF S, t
  <2>3. i - n \in 1..Len(b) /\ n + (i - n) = i
    <3>1. i \in 1..Len(t)
      BY <2>0
    <3> HIDE DEF S, t
    <3> QED BY <1>1, <2>2, <3>1
  <2>4. t[i] = b[i - n]
    BY <1>2, <2>3
  <2> QED BY <1>3, <2>2, <2>3, <2>4
<1>5. LastAt(t, c) = n
  <2>1. \A m \in S : (\A i \in S : m >= i) => m = n
    <3>1. S \subseteq 1..Len(t) /\ Len(t) \in Nat
      BY <1>1
    <3> HIDE DEF S, t
    <3> QED BY <1>1, <1>4, <3>1
  <2> QED BY <1>4, <2>1 DEF LastAt, Max
<1>6. Has(t, c)
  BY <1>1, <1>2, <1>4 DEF Has, ToSet
<1>7. SubSeq(t, 1, n - 1) = a
  <2> DEFINE u == SubSeq(t, 1, n - 1)
  <2>1. u \in Text /\ Len(u) = Len(a)
    BY <1>1 DEF Text
  <2>2. \A i \in 1..Len(a) : u[i] = a[i]
    BY <1>1, <1>2 DEF Text
  <2> QED BY <2>1, <2>2, SeqEqual DEF Text
<1>8. SubSeq(t, n + 1, Len(t)) = b
  <2> DEFINE u == SubSeq(t, n + 1, Len(t))
  <2>1. u \in Text /\ Len(u) = Len(b)
    BY <1>1 DEF Text
  <2>2. \A i \in 1..Len(b) : u[i] = b[i]
    BY <1>1, <1>2 DEF Text
  <2> QED BY <2>1, <2>2, SeqEqual DEF Text
<1> QED BY <1>5, <1>6, <1>7, <1>8 DEF Before, After

(* A line number is one word, and no colon.                                *)
LEMMA NumbersHaveNoColon ==
  ASSUME NEW n \in Text, IsNumber(n)
  PROVE  ~Has(n, ":")
<1>1. DOMAIN n = {1} /\ n[1] \in Numbers
  BY DEF IsNumber, Text
<1>2. ":" \notin Numbers
  BY NumbersAssumption DEF UnsafeTokens
<1> QED BY <1>1, <1>2 DEF Has, ToSet

Found(t) == ParseId(t.source, ToId(t))

(* The id of a line of a system file leads back to the line, although the  *)
(* path may hold colons.                                                   *)
LEMMA LineIsFound ==
  ASSUME NEW t, WellPlaced(t), t.source = "cron", t.kind = "line"
  PROVE  Found(t) = t
<1> DEFINE id == t.at \o <<":">> \o t.line
<1>1. /\ t = Target("cron", "line", t.at, t.line) /\ t.at \in Text \ {<<>>} /\ t.line \in Text
      /\ t.at[1] \in Rooted \ RunPartsDirs /\ IsNumber(t.line)
  BY Words DEF WellPlaced, Placed
<1>2. Has(id, ":") /\ Before(id, ":") = t.at /\ After(id, ":") = t.line
  BY <1>1, NumbersHaveNoColon, LastSplits, Words, Colon
<1>3. id \in Text /\ id[1] = t.at[1] /\ Len(id) \in Nat \ {0}
  <2>1. <<":">> \in Text /\ Len(t.at) \in Nat \ {0} /\ Len(t.line) \in Nat
    BY <1>1, Words DEF Text
  <2>2. /\ t.at \o <<":">> \in Text /\ Len(t.at \o <<":">>) = Len(t.at) + 1
        /\ (t.at \o <<":">>)[1] = t.at[1]
    BY <1>1, <2>1, Concat
  <2> DEFINE path == t.at \o <<":">>
  <2> HIDE DEF path
  <2>3. /\ path \o t.line \in Text /\ Len(path \o t.line) = Len(path) + Len(t.line)
        /\ \A i \in 1..Len(path) : (path \o t.line)[i] = path[i]
    BY <1>1, <2>1, <2>2, Concat DEF path
  <2>4. 1 \in 1..Len(path)
    BY <2>1, <2>2 DEF path
  <2>5. id = path \o t.line
    BY DEF path
  <2>6. Len(path) = Len(t.at) + 1 /\ path[1] = t.at[1]
    BY <2>2 DEF path
  <2> HIDE DEF id
  <2> QED BY <2>1, <2>3, <2>4, <2>5, <2>6
<1>4. ~IsPrefix(<<"user", ":">>, id)
  <2>1. id[1] # "user"
    BY <1>1, <1>3 DEF Rooted, RunPartsDirs
  <2> HIDE DEF id
  <2>2. Len(id) >= 2 => SubSeq(id, 1, 2)[1] = id[1]
    BY <1>3 DEF Text
  <2>3. SubSeq(<<"user", ":">>, 1, 2)[1] = "user"
    OBVIOUS
  <2> QED BY <1>3, <2>1, <2>2, <2>3 DEF IsPrefix
<1>5. ~IsScript(id)
  BY <1>1, <1>3 DEF IsScript
<1>6. IsLine(id)
  <2>1. \A x \in Text : Head(x) = x[1]
    BY DEF Text
  <2> QED BY <1>3, <1>1, <1>2, <2>1 DEF IsLine
<1>7. ParseCronId(id) = SystemFile(t.at, t.line)
  BY <1>2, <1>4, <1>5, <1>6 DEF ParseCronId
<1>8. ToId(t) = id
  BY DEF ToId
<1> QED BY <1>1, <1>7, <1>8 DEF Found, ParseId, SystemFile

(* The id of a line of a user's crontab leads back to it, where the user   *)
(* has a safe name, and nowhere otherwise.                                 *)
LEMMA UserLineIsFound ==
  ASSUME NEW t, WellPlaced(t), t.source = "cron", t.kind = "user"
  PROVE  Found(t) = IF Safe(t.at) THEN t ELSE NoTarget
<1> DEFINE rest == t.at \o <<":">> \o t.line
           id == <<"user", ":">> \o t.at \o <<":">> \o t.line
<1>1. /\ t = Target("cron", "user", t.at, t.line) /\ t.at \in Text \ {<<>>} /\ t.line \in Text
      /\ IsNumber(t.line)
  BY Words DEF WellPlaced, Placed
<1>2. Has(rest, ":") /\ Before(rest, ":") = t.at /\ After(rest, ":") = t.line
  BY <1>1, NumbersHaveNoColon, LastSplits, Words, Colon
<1>3. <<"user", ":">> \in Text /\ <<":">> \in Text /\ t.at \o <<":">> \in Text /\ rest \in Text
  BY <1>1, Words, Concat
<1>4. id = <<"user", ":">> \o rest
  <2>1. t.at \in Text /\ t.line \in Text
    BY <1>1
  <2>2. AllButTheFirst(<<"user", ":">>, t.at, <<":">>, t.line)
    BY <1>3, <2>1, ConcatFour
  <2> QED BY <2>2 DEF AllButTheFirst
<1>5. IsPrefix(<<"user", ":">>, id) /\ StripPrefix(<<"user", ":">>, id) = rest
  BY <1>3, <1>4, PrefixComesOff
<1>6. UserCrontabOf(id) = IF Safe(t.at) THEN UserCrontab(t.at, t.line) ELSE NoTarget
  BY <1>1, <1>2, <1>5 DEF UserCrontabOf
<1>7. ParseCronId(id) = UserCrontabOf(id)
  BY <1>5 DEF ParseCronId
<1>8. ToId(t) = id
  BY DEF ToId
<1> QED BY <1>1, <1>6, <1>7, <1>8 DEF Found, ParseId, UserCrontab

(* The id of a script leads back to it, whatever it is called.             *)
LEMMA ScriptIsFound ==
  ASSUME NEW t, WellPlaced(t), t.source = "cron", t.kind = "script"
  PROVE  Found(t) = t
<1>1. /\ t = Target("cron", "script", t.at, <<>>) /\ t.at \in Text \ {<<>>} /\ IsScript(t.at)
  BY Words DEF WellPlaced, Placed
<1>2. ~IsPrefix(<<"user", ":">>, t.at)
  <2>1. t.at[1] # "user" /\ Len(t.at) \in Nat /\ Len(t.at) >= 2
    BY <1>1 DEF IsScript, RunPartsDirs, Text
  <2>2. SubSeq(t.at, 1, 2)[1] = t.at[1]
    BY <1>1, <2>1 DEF Text
  <2>3. SubSeq(<<"user", ":">>, 1, 2)[1] = "user"
    OBVIOUS
  <2> QED BY <2>1, <2>2, <2>3 DEF IsPrefix
<1>3. ParseCronId(t.at) = RunParts(t.at)
  BY <1>1, <1>2 DEF ParseCronId
<1>4. ToId(t) = t.at
  BY DEF ToId
<1> QED BY <1>1, <1>3, <1>4 DEF Found, ParseId, RunParts

(* The id of a timer leads back to it, in either scope.                    *)
LEMMA TimerIsFound ==
  ASSUME NEW t, WellPlaced(t), t.source = "systemd"
  PROVE  Found(t) = t
<1>1. /\ t = Target("systemd", t.kind, t.at, <<>>) /\ t.at \in Text \ {<<>>}
      /\ EndsWith(t.at, ".timer") /\ ~Has(t.at, "/") /\ t.kind \in {"system", "user"}
  BY Words DEF WellPlaced, Placed
<1>2. CASE t.kind = "user"
  <2> DEFINE id == <<"user", "/">> \o t.at
  <2>1. IsPrefix(<<"user", "/">>, id) /\ StripPrefix(<<"user", "/">>, id) = t.at
    BY <1>1, Words, PrefixComesOff
  <2>2. ParseSystemdId(id) = SystemdId("user", t.at)
    BY <1>1, <2>1 DEF ParseSystemdId
  <2>3. ToId(t) = id
    BY <1>1, <1>2 DEF ToId
  <2> QED BY <1>1, <1>2, <2>2, <2>3 DEF Found, ParseId, SystemdId
<1>3. CASE t.kind = "system"
  <2>1. ~IsPrefix(<<"user", "/">>, t.at)
    <3>1. Len(t.at) >= 2 => SubSeq(t.at, 1, 2)[2] # "/"
      BY <1>1 DEF Has, ToSet, Text
    <3>2. SubSeq(<<"user", "/">>, 1, 2)[2] = "/"
      OBVIOUS
    <3> QED BY <3>1, <3>2 DEF IsPrefix
  <2>2. ParseSystemdId(t.at) = SystemdId("system", t.at)
    BY <1>1, <2>1 DEF ParseSystemdId
  <2>3. ToId(t) = t.at
    <3>1. <<>> \o t.at = t.at
      BY <1>1 DEF Text
    <3> QED BY <1>1, <1>3, <3>1 DEF ToId
  <2> QED BY <1>1, <1>3, <2>2, <2>3 DEF Found, ParseId, SystemdId
<1> QED BY <1>1, <1>2, <1>3

(* The id of a job of anacron or launchd leads back to it, where it has a  *)
(* safe name, and nowhere otherwise.                                       *)
LEMMA NamedJobIsFound ==
  ASSUME NEW t, WellPlaced(t), t.source \in {"anacron", "launchd"}
  PROVE  Found(t) = IF Safe(t.at) THEN t ELSE NoTarget
<1>1. /\ t = Target(t.source, "job", t.at, <<>>) /\ t.at \in Text \ {<<>>}
  BY Words DEF WellPlaced, Placed
<1>2. CASE t.source = "anacron"
  <2> DEFINE id == <<"anacron", ":">> \o t.at
  <2>1. IsPrefix(<<"anacron", ":">>, id) /\ StripPrefix(<<"anacron", ":">>, id) = t.at
    BY <1>1, Words, PrefixComesOff
  <2>2. Unprefixed("anacron", id) = t.at
    BY <2>1 DEF Unprefixed
  <2>3. ToId(t) = id
    BY <1>1, <1>2 DEF ToId
  <2> QED BY <1>1, <1>2, <2>2, <2>3 DEF Found, ParseId
<1>3. CASE t.source = "launchd"
  <2>1. ToId(t) = t.at
    BY <1>1, <1>3 DEF ToId, Target
  <2> QED BY <1>1, <1>3, <2>1 DEF Found, ParseId
<1> QED BY <1>2, <1>3

(* IdsLeadBack of one place.                                               *)
LEMMA IdLeadsBack ==
  ASSUME NEW t, WellPlaced(t)
  PROVE  Found(t) = t \/ (Found(t) = NoTarget /\ Named(t) /\ ~Safe(t.at))
BY LineIsFound, UserLineIsFound, ScriptIsFound, TimerIsFound, NamedJobIsFound
   DEF WellPlaced, Placed, Named

-----------------------------------------------------------------------------
(* Schedules: what is parsed, written and read.                            *)

(* What every conversion takes from a text.                                *)
Counted(text) ==
  /\ text[1] = "number" => text[2] \in Nat
  /\ text[1] = "interval" => text[2] \in Nat /\ text[3] \in DOMAIN PerUnit

Schedule(s, sch) ==
  /\ sch[1] \in {"Cron", "Calendar", "Interval"}
  /\ sch[1] = "Interval" => sch[2] \in Nat /\ (s = "anacron" => sch[2] < Width)
  /\ s = "cron" /\ sch[1] = "Cron" => sch[2][1] \in {"word", "fields"}

(* What a writer leaves in a file.                                         *)
Canonical(s, d) ==
  /\ Held(s, d)
  /\ s = "cron" => IsWord(d, CronAliases) \/ (d[1] = "fields" /\ GoodFields(d[2]))
  /\ s = "anacron" /\ d[1] = "number" => d[2] # 0 /\ d[2] * Day < Width
  /\ s = "launchd" => \/ d[1] = "number" /\ d[2] # 0
                      \/ d[1] = "dicts" /\ (d[2] = {NoKeys} \/ \A e \in d[2] : GoodDict(e))

(* The units of the clock are positive, and a week of seconds fits.        *)
LEMMA Clock ==
  /\ SecondsPerMinute \in Nat \ {0, 1} /\ MinutesPerHour \in Nat \ {0, 1}
  /\ HoursPerDay \in Nat \ {0, 1} /\ DaysPerMonth \in Nat \ {0, 1}
  /\ Hour \in Nat \ {0} /\ Day \in Nat \ {0} /\ Week \in Nat \ {0}
  /\ Width \in Nat /\ Day < Width /\ Week < Width /\ Week = 7 * Day
<1>1. /\ SecondsPerMinute \in Nat \ {0, 1} /\ MinutesPerHour \in Nat \ {0, 1}
      /\ HoursPerDay \in Nat \ {0, 1} /\ DaysPerMonth \in Nat \ {0, 1}
      /\ Width \in Nat /\ Width > Week
  BY ClockAssumption
<1>2. \A m, n \in Nat \ {0} : m * n \in Nat \ {0}
  OBVIOUS
<1>3. Hour \in Nat \ {0}
  BY <1>1, <1>2 DEF Hour
<1>4. Day \in Nat \ {0}
  BY <1>1, <1>2, <1>3 DEF Day
<1> QED BY <1>1, <1>4, <1>3 DEF Week

(* What wraps fits.                                                        *)
LEMMA Remainders ==
  ASSUME NEW n \in Int
  PROVE  n % Width \in 0 .. Width - 1
BY Clock

(* A word in lower case is the same word.                                  *)
LEMMA LowerTwice ==
  ASSUME NEW text, NEW W, IsWord(text, W)
  PROVE  IsWord(Lower(text), W) /\ Lower(text)[1] = "word"
BY DEF IsWord, Lower

(* parse_schedule makes schedules.                                         *)
LEMMA Parsed ==
  ASSUME NEW s \in Four, NEW text, Counted(text), ParseSchedule(s, text) # Refused
  PROVE  Schedule(s, ParseSchedule(s, text))
<1>1. text # Empty
  BY DEF ParseSchedule
<1>2. CASE IsInterval(text)
  <2>1. ParseSchedule(s, text) = <<"Interval", Seconds(text)>>
    BY <1>1, <1>2 DEF ParseSchedule
  <2>2. Seconds(text) \in Nat
    <3>1. \A m, n \in Nat : m * n \in Nat
      OBVIOUS
    <3>2. \A u \in DOMAIN PerUnit : PerUnit[u] \in Nat
      BY Clock DEF PerUnit
    <3> QED BY <1>2, <3>1, <3>2 DEF Counted, IsInterval, Seconds
  <2> QED BY <1>2, <2>1, <2>2 DEF Schedule, IsInterval
<1>3. CASE ~IsInterval(text)
  <2>1. ParseSchedule(s, text) = ParseText(s, text) /\ ParseText(s, text) # Refused
    BY <1>1, <1>3 DEF ParseSchedule
  <2>2. CASE s = "anacron" /\ text[1] = "number"
    <3>1. text[2] \in Nat /\ text[2] * Day \in Int
      BY <2>2, Clock DEF Counted
    <3>2. ParseText(s, text) = <<"Interval", (text[2] * Day) % Width>>
      BY <2>1, <2>2 DEF ParseText, IsWord
    <3> QED BY <2>1, <3>1, <3>2, Remainders, Clock DEF Schedule
  <2>3. CASE ~(s = "anacron" /\ text[1] = "number")
    <3>1. \/ ParseText(s, text) = <<"Cron", Lower(text)>> /\ IsWord(text, CronAliases)
          \/ ParseText(s, text) = <<"Calendar", Lower(text)>>
          \/ ParseText(s, text) = <<"Interval", text[2]>> /\ s = "launchd" /\ text[1] = "number"
          \/ ParseText(s, text) = <<"Calendar", text>>
          \/ ParseText(s, text) = <<"Cron", text>> /\ text[1] = "fields"
      BY <2>1, <2>3 DEF ParseText
    <3> QED BY <2>1, <3>1, LowerTwice DEF Schedule, Counted
  <2> QED BY <2>2, <2>3
<1> QED BY <1>2, <1>3

(* The fields interval_to_cron puts together are within bounds.            *)
LEMMA CronFieldsAreGood ==
  /\ \A n : GoodFields(Fields(Stepped(n), Every, Every, Every))
  /\ \A n : GoodFields(Fields(<<One(0)>>, Stepped(n), Every, Every))
  /\ GoodFields(Midnight(Every, Every))
<1>1. \A b, n : GoodField(Stepped(n), b) /\ GoodField(Every, b)
  BY DEF GoodField, GoodPart, Stepped, Every, Star, Part
<1>2. GoodField(<<One(0)>>, MINUTE) /\ GoodField(<<One(0)>>, HOUR)
  BY Clock DEF GoodField, GoodPart, One, Part, InBounds, MINUTE, HOUR, Bound
<1> QED BY <1>1, <1>2 DEF GoodFields, Fields, Midnight

(* The renderers leave behind what they take again: cron.                  *)
LEMMA CronIsRendered ==
  ASSUME NEW sch, Schedule("cron", sch), RenderCron(sch) # Refused
  PROVE  Canonical("cron", RenderCron(sch))
<1>1. CASE sch[1] = "Interval"
  <2>1. RenderCron(sch) = IntervalToCron(sch[2])
    BY <1>1 DEF RenderCron
  <2>2. \E f : IntervalToCron(sch[2]) = <<"fields", f>> /\ GoodFields(f)
    <3> DEFINE secs == sch[2]
               minutes == secs \div SecondsPerMinute
               hours == minutes \div MinutesPerHour
    <3>1. IntervalToCron(secs) # Refused
      BY <2>1
    <3>2. \/ IntervalToCron(secs) = <<"fields", Fields(Stepped(minutes), Every, Every, Every)>>
          \/ IntervalToCron(secs) = <<"fields", Fields(<<One(0)>>, Stepped(hours), Every, Every)>>
          \/ IntervalToCron(secs) = <<"fields", Midnight(Every, Every)>>
      BY <3>1 DEF IntervalToCron
    <3> QED BY <3>2, CronFieldsAreGood
  <2> QED BY <2>1, <2>2 DEF Canonical, Held
<1>2. CASE sch[1] = "Calendar"
  BY <1>2, LowerTwice DEF RenderCron, Canonical, Held, Schedule, IsWord
<1>3. CASE sch[1] = "Cron"
  BY <1>3 DEF RenderCron, Canonical, Held, Schedule, IsWord
<1> QED BY <1>1, <1>2, <1>3 DEF Schedule

(* The same of systemd.                                                    *)
LEMMA TimerIsRendered ==
  ASSUME NEW sch, Schedule("systemd", sch), RenderTimer(sch) # Refused
  PROVE  Canonical("systemd", RenderTimer(sch))
<1>1. CASE sch[1] = "Interval"
  BY <1>1 DEF RenderTimer, Canonical, Held, Schedule
<1>2. CASE sch[1] = "Calendar"
  BY <1>2 DEF RenderTimer, Canonical, Held, Schedule
<1>3. CASE sch[1] = "Cron"
  BY <1>3 DEF RenderTimer, CronToCalendar, Canonical, Held
<1> QED BY <1>1, <1>2, <1>3 DEF Schedule

(* Whole days divide without a rest.                                       *)
LEMMA WholeDays ==
  ASSUME NEW n \in Nat, n > 0, n % Day = 0
  PROVE  n \div Day \in Nat \ {0} /\ (n \div Day) * Day = n
BY Clock

(* The same of anacron.                                                    *)
LEMMA PeriodIsRendered ==
  ASSUME NEW sch, Schedule("anacron", sch), RenderPeriod(sch) # Refused
  PROVE  Canonical("anacron", RenderPeriod(sch))
<1>1. CASE sch[1] = "Interval"
  <2>1. sch[2] \in Nat /\ sch[2] < Width
    BY <1>1, Clock DEF Schedule
  <2>2. /\ sch[2] > 0 /\ sch[2] % Day = 0
        /\ RenderPeriod(sch) = <<"number", sch[2] \div Day>>
    BY <1>1 DEF RenderPeriod
  <2> QED BY <2>1, <2>2, WholeDays DEF Canonical, Held, IsWord
<1>2. CASE sch[1] = "Calendar"
  BY <1>2, LowerTwice DEF RenderPeriod, Canonical, Held, IsWord
<1>3. CASE sch[1] = "Cron"
  BY <1>3 DEF RenderPeriod
<1> QED BY <1>1, <1>2, <1>3 DEF Schedule

(* A dictionary without a key comes of five stars, and then it is alone.   *)
LEMMA EntriesAreGood ==
  ASSUME NEW f, CronToDicts(f) # Refused
  PROVE  Combos(f) = {NoKeys} \/ \A d \in Combos(f) : GoodDict(d)
<1>1. /\ GoodValues(f.min, MINUTE) /\ GoodValues(f.hour, HOUR)
      /\ GoodValues(f.dom, DOM) /\ GoodValues(f.dow, DOW)
  BY DEF CronToDicts
<1>2. ASSUME NEW field, NEW b, GoodValues(field, b), NEW v \in Values(field)
      PROVE  /\ \A n \in v : InBounds(n, b)
             /\ v = {} => Values(field) = {{}}
  <2>1. CASE field = Every
    BY <2>1, <1>2 DEF Values
  <2>2. CASE field # Every
    <3>1. PICK i \in DOMAIN field : v = {field[i].from}
      BY <2>2, <1>2 DEF Values
    <3>2. InBounds(field[i].from, b)
      BY <2>2, <1>2 DEF GoodValues, GoodValue
    <3> QED BY <3>1, <3>2
  <2> QED BY <2>1, <2>2
<1>3. ASSUME NEW d \in Combos(f)
      PROVE  /\ \A n \in d.min : InBounds(n, MINUTE)
             /\ \A n \in d.hour : InBounds(n, HOUR)
             /\ \A n \in d.dom : InBounds(n, DOM)
             /\ \A n \in d.dow : InBounds(n, WEEKDAY)
             /\ d = NoKeys => Combos(f) = {NoKeys}
  <2>1. /\ d.min \in Values(f.min) /\ d.hour \in Values(f.hour) /\ d.dom \in Values(f.dom)
        /\ d.dow \in Weekdays(f.dow)
        /\ d = [min |-> d.min, hour |-> d.hour, dom |-> d.dom, dow |-> d.dow]
    BY <1>3 DEF Combos
  <2>2. PICK w \in Values(f.dow) : d.dow = {n % 7 : n \in w}
    BY <2>1 DEF Weekdays
  <2>3. \A n \in w : n \in 0 .. 7
    BY <1>1, <1>2, <2>2 DEF InBounds, DOW, Bound
  <2>4. \A n \in d.dow : InBounds(n, WEEKDAY)
    BY <2>2, <2>3 DEF InBounds, WEEKDAY, Bound
  <2>5. ASSUME d = NoKeys PROVE Combos(f) = {NoKeys}
    <3>1. d.min = {} /\ d.hour = {} /\ d.dom = {} /\ w = {}
      BY <2>5, <2>2 DEF NoKeys
    <3>2. /\ Values(f.min) = {{}} /\ Values(f.hour) = {{}} /\ Values(f.dom) = {{}}
          /\ Values(f.dow) = {{}}
      BY <1>1, <1>2, <2>1, <2>2, <3>1
    <3>3. Weekdays(f.dow) = {{}}
      BY <3>2 DEF Weekdays
    <3>4. \A e : e \in Combos(f) <=> e = NoKeys
      BY <3>2, <3>3 DEF Combos, NoKeys
    <3> QED BY <3>4
  <2> QED BY <1>1, <1>2, <2>1, <2>4, <2>5
<1> QED BY <1>3 DEF GoodDict

(* The same of launchd.                                                    *)
LEMMA PlistIsRendered ==
  ASSUME NEW sch, Schedule("launchd", sch), RenderPlist(sch) # Refused
  PROVE  Canonical("launchd", RenderPlist(sch))
<1>1. CASE sch[1] = "Interval"
  BY <1>1 DEF RenderPlist, Canonical, Held, Schedule
<1>2. CASE sch[1] = "Calendar"
  BY <1>2 DEF RenderPlist, Canonical, Held, Schedule
<1>3. CASE sch[1] = "Cron"
  <2>1. RenderPlist(sch) = CronToDicts(sch[2][2])
    BY <1>3 DEF RenderPlist
  <2>2. CronToDicts(sch[2][2]) = <<"dicts", Combos(sch[2][2])>>
    BY <2>1 DEF CronToDicts
  <2> QED BY <2>1, <2>2, EntriesAreGood DEF Canonical, Held
<1> QED BY <1>1, <1>2, <1>3 DEF Schedule

(* The same of every source.                                               *)
LEMMA Rendered ==
  ASSUME NEW s \in Four, NEW sch, Schedule(s, sch), Render(s, sch) # Refused
  PROVE  Canonical(s, Render(s, sch))
BY CronIsRendered, TimerIsRendered, PeriodIsRendered, PlistIsRendered DEF Render, Four

Unshown == <<"Calendar", Empty>>

-----------------------------------------------------------------------------
(* Durations.                                                              *)

(* Division with a remainder, in the form the solver takes it.             *)
LEMMA Division ==
  ASSUME NEW a \in Nat, NEW b \in Nat \ {0}
  PROVE  a \div b \in Nat /\ a % b \in 0 .. b - 1 /\ a - (a % b) = (a \div b) * b
OBVIOUS

(* Quotient and remainder are the only ones.                               *)
LEMMA DivisionIsUnique ==
  ASSUME NEW q \in Nat, NEW b \in Nat \ {0}, NEW r \in 0 .. b - 1
  PROVE  (q * b + r) \div b = q /\ (q * b + r) % b = r
<1> DEFINE a == q * b + r
           p == a \div b
           s == a % b
<1>1. a \in Nat
  OBVIOUS
<1> HIDE DEF a
<1>2. p \in Nat /\ s \in 0 .. b - 1 /\ a - s = p * b
  BY <1>1, Division
<1> HIDE DEF p, s
<1>3. (q - p) * b = s - r
  BY <1>1, <1>2 DEF a
<1>4. q - p < 1
  <2>1. ASSUME q - p >= 1 PROVE FALSE
    <3>1. (q - p) * b >= b
      BY <1>2, <2>1
    <3> QED BY <1>2, <1>3, <3>1
  <2> QED BY <1>2, <2>1
<1>5. q - p > -1
  <2>1. ASSUME p - q >= 1 PROVE FALSE
    <3>1. (p - q) * b >= b
      BY <1>2, <2>1
    <3>2. (p - q) * b = r - s
      BY <1>2, <1>3
    <3> QED BY <1>2, <3>1, <3>2
  <2> QED BY <1>2, <2>1
<1>6. p = q
  BY <1>2, <1>4, <1>5
<1>7. s = r
  BY <1>2, <1>3, <1>6
<1> QED BY <1>6, <1>7 DEF a, p, s

(* No remainder is left of multiples, and of nothing else.                 *)
LEMMA Multiple ==
  ASSUME NEW a \in Nat, NEW b \in Nat \ {0}
  PROVE  a % b = 0 <=> \E q \in Nat : a = q * b
<1>1. ASSUME a % b = 0 PROVE \E q \in Nat : a = q * b
  <2>1. a \div b \in Nat /\ a = (a \div b) * b
    BY <1>1, Division
  <2> QED BY <2>1
<1>2. ASSUME NEW q \in Nat, a = q * b PROVE a % b = 0
  <2>1. q * b + 0 = q * b
    OBVIOUS
  <2> QED BY <1>2, <2>1, DivisionIsUnique
<1> QED BY <1>1, <1>2
Times(q, b, a) == a = q * b

(* The same, from the factors.                                             *)
LEMMA TimesLeaveNothing ==
  ASSUME NEW q \in Nat, NEW b \in Nat \ {0}, NEW a \in Nat, Times(q, b, a)
  PROVE  a % b = 0
BY Multiple DEF Times

(* A remainder by a multiple of b leaves the same by b.                    *)
LEMMA RemainderOfMultiple ==
  ASSUME NEW a \in Nat, NEW b \in Nat \ {0}, NEW c \in Nat \ {0}
  PROVE  c % b = 0 => (a % c) % b = a % b
<1> DEFINE p == a \div c
           r == a % c
           q == r \div b
           s == r % b
<1>0. SUFFICES ASSUME c % b = 0 PROVE s = a % b
  OBVIOUS
<1>1. PICK k \in Nat : c = k * b
  BY <1>0, Multiple
<1>2. p \in Nat /\ r \in Nat /\ a - r = p * c
  BY Division
<1> HIDE DEF p, r
<1>3. q \in Nat /\ s \in 0 .. b - 1 /\ r - s = q * b
  BY <1>2, Division
<1> HIDE DEF q, s
<1>4. p * k + q \in Nat
  BY <1>1, <1>2, <1>3
<1>5. a = (p * k + q) * b + s
  <2>1. p * c = (p * k) * b
    BY <1>1, <1>2
  <2>2. (p * k + q) * b = (p * k) * b + q * b
    BY <1>1, <1>2, <1>3
  <2> QED BY <1>2, <1>3, <2>1, <2>2
<1>6. a % b = s
  BY <1>3, <1>4, <1>5, DivisionIsUnique
<1> QED BY <1>6


(* systemd's units add up to the seconds again.                            *)
LEMMA UnitsAddUp ==
  ASSUME NEW n \in Nat
  PROVE  ParseDuration(Displayed(n)) = IF n >= LongSpan THEN 0 ELSE n
<1>1. CASE n >= LongSpan
  BY <1>1 DEF ParseDuration, Displayed
<1>2. CASE ~(n >= LongSpan)
  <2> DEFINE w == n \div Week
             inWeek == n % Week
             d == inWeek \div Day
             inDay == n % Day
             h == inDay \div Hour
             inHour == n % Hour
             m == inHour \div SecondsPerMinute
             s == n % SecondsPerMinute
  <2>1. Week = 7 * Day /\ Day = HoursPerDay * Hour /\ Hour = MinutesPerHour * SecondsPerMinute
    BY Clock DEF Day, Hour
  <2>2. inWeek \in Nat /\ inDay \in Nat /\ inHour \in Nat /\ s \in Nat
    BY Clock, Division
  <2>0. Week % Day = 0 /\ Day % Hour = 0 /\ Hour % SecondsPerMinute = 0
    <3>1. Times(7, Day, Week) /\ Times(HoursPerDay, Hour, Day)
          /\ Times(MinutesPerHour, SecondsPerMinute, Hour)
      BY <2>1 DEF Times
    <3> QED BY <3>1, Clock, TimesLeaveNothing
  <2>3. inWeek % Day = inDay /\ inDay % Hour = inHour /\ inHour % SecondsPerMinute = s
    <3>2. (n % Week) % Day = n % Day
      BY <2>0, Clock, RemainderOfMultiple
    <3>3. (n % Day) % Hour = n % Hour
      BY <2>0, Clock, RemainderOfMultiple
    <3>4. (n % Hour) % SecondsPerMinute = n % SecondsPerMinute
      BY <2>0, Clock, RemainderOfMultiple
    <3> QED BY <3>2, <3>3, <3>4
  <2>4. /\ n - inWeek = w * Week
        /\ inWeek - inDay = d * Day
        /\ inDay - inHour = h * Hour
        /\ inHour - s = m * SecondsPerMinute
    <3>1. n - inWeek = w * Week
      BY Clock, Division
    <3> HIDE DEF inWeek, inDay, inHour, s
    <3>2. inWeek - inDay = d * Day
      BY <2>2, <2>3, Clock, Division
    <3>3. inDay - inHour = h * Hour
      BY <2>2, <2>3, Clock, Division
    <3>4. inHour - s = m * SecondsPerMinute
      BY <2>2, <2>3, Clock, Division
    <3> QED BY <3>1, <3>2, <3>3, <3>4
  <2>5. ParseDuration(Displayed(n)) = w * Week + d * Day + h * Hour + m * SecondsPerMinute + s
    BY <1>2 DEF ParseDuration, Displayed
  <2> DEFINE a == w * Week
             b == d * Day
             c == h * Hour
             e == m * SecondsPerMinute
  <2>6. a = n - inWeek /\ b = inWeek - inDay /\ c = inDay - inHour /\ e = inHour - s
    BY <2>4
  <2>7. ParseDuration(Displayed(n)) = a + b + c + e + s
    BY <2>5
  <2> HIDE DEF a, b, c, e, inWeek, inDay, inHour, s
  <2>8. a + b + c + e + s = n
    BY <2>2, <2>6
  <2> QED BY <1>2, <2>7, <2>8
<1> QED BY <1>1, <1>2

(* Days that fit come back as the same days.                               *)
LEMMA DaysAndBack ==
  ASSUME NEW k \in Nat, k * Day < Width
  PROVE  /\ (k * Day) % Width = k * Day /\ (k * Day) % Day = 0 /\ k * Day \in Nat
         /\ (k * Day) \div Day = k /\ (k # 0 => k * Day > 0)
<1>1. Day \in Nat \ {0} /\ Width \in Nat \ {0}
  BY Clock
<1>2. k * Day \in Nat /\ (k # 0 => k * Day > 0)
  BY <1>1
<1>3. (k * Day) % Width = k * Day
  BY <1>1, <1>2
<1>4. (k * Day) % Day = 0 /\ (k * Day) \div Day = k
  <2>1. k * Day + 0 = k * Day
    BY <1>1
  <2> QED BY <1>1, <2>1, DivisionIsUnique
<1> QED BY <1>1, <1>2, <1>3, <1>4

(* What the list shows of a file is a schedule again, and what the form    *)
(* shows of that counts.                                                   *)
LEMMA ReadIsASchedule ==
  ASSUME NEW s \in Four, NEW d, Held(s, d)
  PROVE  Schedule(s, Read(s, d)) /\ Counted(ScheduleText(Read(s, d)))
<1>0. ASSUME NEW n \in Nat
      PROVE  Counted(ScheduleText(<<"Interval", n>>))
  BY <1>0 DEF Counted, ScheduleText, PerUnit
<1>1. CASE s = "cron"
  <2>1. Read(s, d) = <<"Cron", d>>
    BY <1>1 DEF Read
  <2> QED BY <1>1, <2>1 DEF Held, Schedule, ScheduleText, Counted
<1>2. CASE s = "systemd"
  <2>1. CASE d[1] = "interval"
    <3> DEFINE secs == ParseDuration(Displayed(d[2]))
    <3>1. secs \in Nat
      BY <1>2, <2>1, UnitsAddUp DEF Held
    <3>2. Read(s, d) = IF secs > 0 THEN <<"Interval", secs>> ELSE Unshown
      BY <1>2, <2>1 DEF Read, Unshown
    <3> HIDE DEF secs
    <3> QED BY <1>0, <1>2, <3>1, <3>2 DEF Schedule, ScheduleText, Counted, Unshown, Empty
  <2>2. CASE d[1] # "interval"
    <3>1. Read(s, d) = <<"Calendar", d>> /\ d[1] = "calendar"
      BY <1>2, <2>2 DEF Read, Held
    <3> QED BY <1>2, <3>1 DEF Schedule, ScheduleText, Counted
  <2> QED BY <2>1, <2>2
<1>3. CASE s = "anacron"
  <2>1. CASE d[1] = "number"
    <3> DEFINE secs == (d[2] * Day) % Width
    <3>1. Read(s, d) = <<"Interval", secs>>
      BY <1>3, <2>1 DEF Read, IsWord
    <3>2. d[2] * Day \in Int
      BY <1>3, <2>1, Clock DEF Held, IsWord
    <3>3. secs \in 0 .. Width - 1
      BY <3>2, Remainders
    <3> HIDE DEF secs
    <3> QED BY <1>0, <1>3, <3>1, <3>3, Clock DEF Schedule
  <2>2. CASE d[1] # "number"
    <3>1. d[1] = "word" /\ Lower(d)[2] \in {"@daily", "@weekly", "@monthly"}
      BY <1>3, <2>2 DEF Held, IsWord, AnacronAliases
    <3>2. Read(s, d) \in {<<"Interval", Day>>, <<"Interval", Week>>, <<"Calendar", d>>}
      BY <1>3, <2>2, <3>1 DEF Read, IsWord
    <3> QED BY <1>0, <1>3, <3>1, <3>2, Clock DEF Schedule, Counted, ScheduleText
  <2> QED BY <2>1, <2>2
<1>4. CASE s = "launchd"
  <2>1. CASE d[1] = "number"
    <3>1. Read(s, d) = <<"Interval", d[2]>> /\ d[2] \in Nat
      BY <1>4, <2>1 DEF Read, Held
    <3> QED BY <1>0, <1>4, <3>1 DEF Schedule
  <2>2. CASE d[1] # "number"
    <3>1. Read(s, d) = <<"Calendar", Format(d[2])>>
      BY <1>4, <2>2 DEF Read, Held
    <3> QED BY <1>4, <3>1 DEF Format, Empty, Schedule, ScheduleText, Counted
  <2> QED BY <2>1, <2>2
<1> QED BY <1>1, <1>2, <1>3, <1>4 DEF Four

(* What shuvjobs wrote, it can write again.                                *)
LEMMA WritesAgain ==
  ASSUME NEW s \in Four, NEW d, Canonical(s, d)
  PROVE  Render(s, Read(s, d)) # Refused \/ Read(s, d) = Unshown
<1>0. Held(s, d)
  BY DEF Canonical
<1>1. CASE s = "cron"
  <2>1. Read(s, d) = <<"Cron", d>>
    BY <1>1 DEF Read
  <2>2. Render(s, <<"Cron", d>>) \in {d, Lower(d)}
    BY <1>1 DEF Canonical, Render, RenderCron, IsWord
  <2>3. d # Refused /\ Lower(d) # Refused
    BY <1>0, <1>1 DEF Held, Refused, Lower
  <2> QED BY <2>1, <2>2, <2>3
<1>2. CASE s = "systemd"
  <2>1. CASE d[1] = "interval"
    <3> DEFINE secs == ParseDuration(Displayed(d[2]))
    <3>1. Read(s, d) = IF secs > 0 THEN <<"Interval", secs>> ELSE Unshown
      BY <1>2, <2>1 DEF Read, Unshown
    <3> HIDE DEF secs
    <3>2. secs > 0 => Render(s, <<"Interval", secs>>) = <<"interval", secs, "s">>
      BY <1>2 DEF Render, RenderTimer
    <3>3. <<"interval", secs, "s">> # Refused
      BY DEF Refused
    <3> QED BY <3>1, <3>2, <3>3
  <2>2. CASE d[1] = "calendar"
    <3>1. Read(s, d) = <<"Calendar", d>>
      BY <1>2, <2>2 DEF Read
    <3>2. Render(s, <<"Calendar", d>>) = d
      BY <1>2, <2>2 DEF Render, RenderTimer, IsWord
    <3>3. d # Refused
      BY <2>2 DEF Refused
    <3> QED BY <3>1, <3>2, <3>3
  <2> QED BY <1>0, <1>2, <2>1, <2>2 DEF Held
<1>3. CASE s = "anacron"
  <2>0. ASSUME NEW k \in Nat \ {0}, k * Day < Width, Read(s, d) = <<"Interval", k * Day>>
        PROVE  Render(s, Read(s, d)) # Refused
    <3> DEFINE n == k * Day
    <3>1. n % Day = 0 /\ n > 0
      BY <2>0, DaysAndBack
    <3>2. Read(s, d) = <<"Interval", n>>
      BY <2>0
    <3> HIDE DEF n
    <3>3. Render(s, <<"Interval", n>>) = <<"number", n \div Day>>
      BY <1>3, <3>1 DEF Render, RenderPeriod
    <3>4. <<"number", n \div Day>> # Refused
      BY DEF Refused
    <3> QED BY <3>2, <3>3, <3>4
  <2>1. CASE d[1] = "number"
    <3>1. Read(s, d) = <<"Interval", (d[2] * Day) % Width>>
      BY <1>3, <2>1 DEF Read, IsWord
    <3>2. d[2] \in Nat \ {0} /\ d[2] * Day < Width
      BY <1>0, <1>3, <2>1 DEF Canonical, Held, IsWord
    <3>3. (d[2] * Day) % Width = d[2] * Day
      BY <3>2, DaysAndBack
    <3> QED BY <2>0, <3>1, <3>2, <3>3
  <2>2. CASE d[1] # "number"
    <3>0. IsWord(d, AnacronAliases) /\ d[1] = "word"
      BY <1>0, <1>3, <2>2 DEF Held, IsWord
    <3>1. CASE Lower(d)[2] = "@daily"
      <4>1. Read(s, d) = <<"Interval", Day>> /\ Day = 1 * Day
        BY <1>3, <3>0, <3>1, Clock DEF Read, IsWord
      <4> QED BY <2>0, <4>1, Clock
    <3>2. CASE Lower(d)[2] = "@weekly"
      <4>1. Read(s, d) = <<"Interval", Week>> /\ Week = 7 * Day
        BY <1>3, <3>0, <3>2, Clock DEF Read, IsWord
      <4> QED BY <2>0, <4>1, Clock
    <3>3. CASE Lower(d)[2] = "@monthly"
      <4>1. Read(s, d) = <<"Calendar", d>>
        BY <1>3, <3>0, <3>3 DEF Read, IsWord
      <4>2. Render(s, <<"Calendar", d>>) = Lower(d)
        BY <1>3, <3>0 DEF Render, RenderPeriod
      <4>3. Lower(d) # Refused
        BY <3>0, LowerTwice DEF Refused
      <4> QED BY <4>1, <4>2, <4>3
    <3> QED BY <3>0, <3>1, <3>2, <3>3 DEF IsWord, AnacronAliases
  <2> QED BY <2>1, <2>2
<1>4. CASE s = "launchd"
  <2>1. CASE d[1] = "number"
    <3>1. Read(s, d) = <<"Interval", d[2]>> /\ d[2] \in Nat \ {0}
      BY <1>0, <1>4, <2>1 DEF Read, Canonical, Held
    <3>2. Render(s, <<"Interval", d[2]>>) = <<"number", d[2]>>
      BY <1>4, <3>1 DEF Render, RenderPlist
    <3>3. <<"number", d[2]>> # Refused
      BY DEF Refused
    <3> QED BY <3>1, <3>2, <3>3
  <2>2. CASE d[1] # "number"
    <3>0. d[1] = "dicts"
      BY <1>0, <1>4, <2>2 DEF Held
    <3>1. Read(s, d) = <<"Calendar", Format(d[2])>>
      BY <1>4, <3>0 DEF Read
    <3>2. CASE d[2] = {NoKeys}
      BY <3>1, <3>2 DEF Format, Unshown
    <3>3. CASE d[2] # {NoKeys}
      <4>1. Read(s, d) = <<"Calendar", <<"dicts", d[2]>>>> /\ \A e \in d[2] : GoodDict(e)
        BY <1>4, <3>0, <3>1, <3>3 DEF Format, Canonical
      <4>2. Render(s, <<"Calendar", <<"dicts", d[2]>>>>) = <<"dicts", d[2]>>
        BY <1>4, <4>1 DEF Render, RenderPlist
      <4>3. <<"dicts", d[2]>> # Refused
        BY DEF Refused
      <4> QED BY <4>1, <4>2, <4>3
    <3> QED BY <3>2, <3>3
  <2> QED BY <2>1, <2>2
<1> QED BY <1>1, <1>2, <1>3, <1>4 DEF Four

-----------------------------------------------------------------------------
(* The rhythm of the clock.                                                *)

(* A multiple of b does not change the remainder by b.                     *)
LEMMA RemainderOfSum ==
  ASSUME NEW p \in Nat, NEW b \in Nat \ {0}, NEW m \in Nat
  PROVE  (p * b + m) % b = m % b
<1> DEFINE q == m \div b
           r == m % b
<1>1. q \in Nat /\ r \in 0 .. b - 1 /\ m - r = q * b
  BY Division
<1> HIDE DEF q, r
<1>2. p * b + m = (p + q) * b + r /\ p + q \in Nat
  <2>1. (p + q) * b = p * b + q * b
    BY <1>1
  <2> DEFINE x == p * b
             y == q * b
             z == (p + q) * b
  <2>2. z = x + y /\ m - r = y /\ x \in Nat /\ y \in Nat /\ z \in Nat
    BY <1>1, <2>1
  <2> HIDE DEF x, y, z
  <2>3. x + m = z + r
    BY <1>1, <2>2
  <2> QED BY <1>1, <2>3 DEF x, z
<1>3. (p * b + m) % b = r
  BY <1>1, <1>2, DivisionIsUnique
<1> QED BY <1>3 DEF r

(* Both sides of a division can be scaled.                                 *)
LEMMA RemainderOfScaled ==
  ASSUME NEW x \in Nat, NEW b \in Nat \ {0}, NEW k \in Nat \ {0}
  PROVE  (x * k) % (b * k) = 0 <=> x % b = 0
<1>1. x * k \in Nat /\ b * k \in Nat \ {0}
  OBVIOUS
<1>2. ASSUME x % b = 0 PROVE (x * k) % (b * k) = 0
  <2>1. PICK q \in Nat : x = q * b
    BY <1>2, Multiple
  <2>2. x * k = q * (b * k)
    BY <2>1
  <2> QED BY <1>1, <2>2, Multiple
<1>3. ASSUME (x * k) % (b * k) = 0 PROVE x % b = 0
  <2>1. PICK q \in Nat : x * k = q * (b * k)
    BY <1>1, <1>3, Multiple
  <2>2. x * k = (q * b) * k
    BY <2>1
  <2>3. \A y, z \in Nat : y * k = z * k => y = z
    OBVIOUS
  <2>4. x = q * b
    BY <2>2, <2>3
  <2> QED BY <2>4, Multiple
<1> QED BY <1>2, <1>3

-----------------------------------------------------------------------------
(* What fields take of their bounds: a field of one part takes what the    *)
(* part does.                                                              *)
LEMMA ValuesOfOnePart ==
  ASSUME NEW b, NEW p PROVE FieldValues(<<p>>, b) = PartValues(p, b)
BY DEF FieldValues

(* A star takes everything.                                                *)
LEMMA ValuesOfStar ==
  ASSUME NEW b PROVE FieldValues(Every, b) = b.min .. b.max
<1>1. PartValues(Star, b) = b.min .. b.max
  BY DEF PartValues, Star, Part, NoStep
<1> QED BY <1>1, ValuesOfOnePart DEF Every

(* A number takes itself.                                                  *)
LEMMA ValuesOfOne ==
  ASSUME NEW b, NEW n \in Int PROVE FieldValues(<<One(n)>>, b) = {n}
<1>1. PartValues(One(n), b) = n .. n
  BY DEF PartValues, One, Part, NoStep
<1>2. n .. n = {n}
  OBVIOUS
<1> QED BY <1>1, <1>2, ValuesOfOnePart

(* A step takes every so many.                                             *)
LEMMA ValuesOfStepped ==
  ASSUME NEW b, NEW k, k # 0
  PROVE  FieldValues(Stepped(k), b) = {n \in b.min .. b.max : (n - b.min) % k = 0}
<1>1. PartValues(Part("*", 0, 0, k), b) = {n \in b.min .. b.max : (n - b.min) % k = 0}
  BY DEF PartValues, Part, NoStep
<1> QED BY <1>1, ValuesOfOnePart DEF Stepped

(* A star takes every day of the week.                                     *)
LEMMA DaysOfStar == 0 .. 6 \subseteq DowValues(Every)
<1>1. FieldValues(Every, DOW) = 0 .. 7
  BY ValuesOfStar DEF DOW, Bound
<1>2. ASSUME NEW n \in 0 .. 6 PROVE n \in {m % 7 : m \in 0 .. 7}
  <2>1. n % 7 = n /\ n \in 0 .. 7
    OBVIOUS
  <2> QED BY <2>1
<1> QED BY <1>1, <1>2 DEF DowValues

(* Every day, when only the time is given.                                 *)
LEMMA TimeAlone ==
  ASSUME NEW min, NEW hour, NEW t \in Instants
  PROVE  CronFires(Fields(min, hour, Every, Every), t)
           <=> t.min \in FieldValues(min, MINUTE) /\ t.hour \in FieldValues(hour, HOUR)
<1>1. t.dom \in FieldValues(Every, DOM) /\ t.dow \in DowValues(Every)
  BY ValuesOfStar, DaysOfStar DEF Instants
<1> DEFINE f == Fields(min, hour, Every, Every)
<1>2. f.min = min /\ f.hour = hour /\ f.dom = Every /\ f.dow = Every
  BY DEF Fields
<1> HIDE DEF f
<1>3. CronFires(f, t) <=> TimeMatches(t, f)
  BY <1>1, <1>2 DEF CronFires
<1>4. CronFires(f, t) <=> t.min \in FieldValues(min, MINUTE) /\ t.hour \in FieldValues(hour, HOUR)
  BY <1>2, <1>3 DEF TimeMatches
<1> QED BY <1>4 DEF f

(* The minutes of a day, counted from midnight.                            *)
LEMMA MinutesThatDivide ==
  ASSUME NEW t \in Instants, NEW k \in Nat \ {0}, MinutesPerHour % k = 0
  PROVE  (t.hour * MinutesPerHour + t.min) % k = 0 <=> t.min % k = 0
<1>1. t.hour \in Nat /\ t.min \in Nat
  BY Clock DEF Instants, HOUR, MINUTE, Bound
<1>2. PICK c \in Nat : MinutesPerHour = c * k
  <2>1. MinutesPerHour \in Nat
    BY Clock
  <2> QED BY <2>1, Multiple
<1>3. t.hour * MinutesPerHour + t.min = (t.hour * c) * k + t.min /\ t.hour * c \in Nat
  BY <1>1, <1>2
<1>4. ((t.hour * c) * k + t.min) % k = t.min % k
  BY <1>1, <1>3, RemainderOfSum
<1> QED BY <1>3, <1>4

(* The same for hours.                                                     *)
LEMMA HoursThatDivide ==
  ASSUME NEW t \in Instants, NEW k \in Nat \ {0}
  PROVE  (t.hour * MinutesPerHour + t.min) % (k * MinutesPerHour) = 0
           <=> t.min = 0 /\ t.hour % k = 0
<1> DEFINE M == MinutesPerHour
           x == t.hour * M + t.min
<1>1. t.hour \in Nat /\ t.min \in 0 .. M - 1 /\ M \in Nat \ {0} /\ k * M \in Nat \ {0}
  BY Clock DEF Instants, HOUR, MINUTE, Bound
<1> HIDE DEF M
<1>2. ASSUME t.min = 0 PROVE x % (k * M) = 0 <=> t.hour % k = 0
  <2>1. x = t.hour * M
    BY <1>1, <1>2
  <2> QED BY <1>1, <2>1, RemainderOfScaled
<1>3. ASSUME x % (k * M) = 0 PROVE t.min = 0
  <2>0. x \in Nat
    BY <1>1
  <2>1. PICK q \in Nat : x = q * (k * M)
    BY <1>1, <1>3, <2>0, Multiple
  <2>2. x = (q * k) * M /\ q * k \in Nat
    BY <1>1, <2>1
  <2>3. x % M = 0
    BY <1>1, <2>0, <2>2, Multiple
  <2>4. x % M = t.min
    BY <1>1, DivisionIsUnique
  <2> QED BY <2>3, <2>4
<1>4. x % (k * M) = 0 <=> t.min = 0 /\ t.hour % k = 0
  BY <1>2, <1>3
<1> QED BY <1>4 DEF M

-----------------------------------------------------------------------------
(* A rhythm that cron is given is one of the clock.                        *)
LEMMA RhythmIsTheClocks ==
  ASSUME NEW n \in Nat \ {0}, NEW F, NEW k \in Nat \ {0}, n = k * SecondsPerMinute,
         \A t \in Instants :
           CronFires(F, t) <=> (t.hour * MinutesPerHour + t.min) % k = 0
  PROVE  CronMeaning(F) = ByTheClock(n)
<1>1. ASSUME NEW t \in Instants
      PROVE  CronFires(F, t)
               <=> ((t.hour * MinutesPerHour + t.min) * SecondsPerMinute) % n = 0
  <2> DEFINE x == t.hour * MinutesPerHour + t.min
  <2>1. x \in Nat
    BY Clock DEF Instants, HOUR, MINUTE, Bound
  <2>2. CronFires(F, t) <=> x % k = 0
    OBVIOUS
  <2> HIDE DEF x
  <2>3. (x * SecondsPerMinute) % (k * SecondsPerMinute) = 0 <=> x % k = 0
    BY <2>1, Clock, RemainderOfScaled
  <2> QED BY <2>2, <2>3 DEF x
<1>2. {t \in Instants : CronFires(F, t)}
        = {t \in Instants : ((t.hour * MinutesPerHour + t.min) * SecondsPerMinute) % n = 0}
  BY <1>1
<1> QED BY <1>2 DEF CronMeaning, ByTheClock, At

(* Every k minutes, when k divides the hour.                               *)
LEMMA MinutesAreTheClocks ==
  ASSUME NEW n \in Nat \ {0}, NEW k \in Nat \ {0}, n = k * SecondsPerMinute,
         MinutesPerHour % k = 0
  PROVE  CronMeaning(Fields(Stepped(k), Every, Every, Every)) = ByTheClock(n)
<1> DEFINE F == Fields(Stepped(k), Every, Every, Every)
<1>1. ASSUME NEW t \in Instants
      PROVE  CronFires(F, t) <=> (t.hour * MinutesPerHour + t.min) % k = 0
  <2>1. t.min \in 0 .. MinutesPerHour - 1 /\ t.hour \in FieldValues(Every, HOUR)
    BY ValuesOfStar DEF Instants, MINUTE, Bound
  <2>2. t.min \in FieldValues(Stepped(k), MINUTE) <=> t.min % k = 0
    BY <2>1, ValuesOfStepped, Clock DEF MINUTE, Bound
  <2>3. CronFires(F, t) <=> t.min % k = 0
    BY <2>1, <2>2, TimeAlone
  <2> QED BY <2>3, MinutesThatDivide
<1> HIDE DEF F
<1>2. CronMeaning(F) = ByTheClock(n)
  BY <1>1, RhythmIsTheClocks
<1> QED BY <1>2 DEF F

(* Every k hours.                                                          *)
LEMMA HoursAreTheClocks ==
  ASSUME NEW n \in Nat \ {0}, NEW k \in Nat \ {0}, n = k * Hour
  PROVE  CronMeaning(Fields(<<One(0)>>, Stepped(k), Every, Every)) = ByTheClock(n)
<1> DEFINE F == Fields(<<One(0)>>, Stepped(k), Every, Every)
           m == k * MinutesPerHour
<1>0. m \in Nat \ {0} /\ n = m * SecondsPerMinute
  BY Clock DEF Hour
<1>1. ASSUME NEW t \in Instants
      PROVE  CronFires(F, t) <=> (t.hour * MinutesPerHour + t.min) % m = 0
  <2>1. t.hour \in 0 .. HoursPerDay - 1
    BY DEF Instants, HOUR, Bound
  <2>2. t.hour \in FieldValues(Stepped(k), HOUR) <=> t.hour % k = 0
    BY <2>1, ValuesOfStepped, Clock DEF HOUR, Bound
  <2>3. t.min \in FieldValues(<<One(0)>>, MINUTE) <=> t.min = 0
    BY ValuesOfOne
  <2>4. CronFires(F, t) <=> t.min = 0 /\ t.hour % k = 0
    BY <2>2, <2>3, TimeAlone
  <2> QED BY <2>4, HoursThatDivide
<1> HIDE DEF F, m
<1>2. CronMeaning(F) = ByTheClock(n)
  BY <1>0, <1>1, RhythmIsTheClocks
<1> QED BY <1>2 DEF F

(* Midnight is every day.                                                  *)
LEMMA MidnightIsTheClocks ==
  CronMeaning(Midnight(Every, Every)) = ByTheClock(Day)
<1> DEFINE F == Fields(<<One(0)>>, <<One(0)>>, Every, Every)
           m == HoursPerDay * MinutesPerHour
<1>0. m \in Nat \ {0} /\ Day = m * SecondsPerMinute
  BY Clock DEF Day, Hour
<1>1. ASSUME NEW t \in Instants
      PROVE  CronFires(F, t) <=> (t.hour * MinutesPerHour + t.min) % m = 0
  <2>1. t.hour \in 0 .. HoursPerDay - 1
    BY DEF Instants, HOUR, Bound
  <2>2. t.hour % HoursPerDay = t.hour
    BY <2>1, Clock
  <2>3. /\ t.min \in FieldValues(<<One(0)>>, MINUTE) <=> t.min = 0
        /\ t.hour \in FieldValues(<<One(0)>>, HOUR) <=> t.hour = 0
    BY ValuesOfOne
  <2>4. CronFires(F, t) <=> t.min = 0 /\ t.hour % HoursPerDay = 0
    BY <2>2, <2>3, TimeAlone
  <2> QED BY <2>4, Clock, HoursThatDivide
<1> HIDE DEF F, m
<1>2. CronMeaning(F) = ByTheClock(Day)
  BY <1>0, <1>1, Clock, RhythmIsTheClocks
<1> QED BY <1>2 DEF F, Midnight

(* interval_to_cron takes a rhythm of the clock that divides the day, and  *)
(* no other.                                                               *)
LEMMA IntervalMeansTheSame ==
  ASSUME NEW n \in Nat, IntervalToCron(n) # Refused
  PROVE  \E f : /\ IntervalToCron(n) = <<"fields", f>>
                /\ n # 0 /\ Day % n = 0 /\ CronMeaning(f) = ByTheClock(n)
<1> DEFINE M == SecondsPerMinute
           k == n \div M
           h == k \div MinutesPerHour
<1>3. Day = HoursPerDay * Hour /\ Hour = MinutesPerHour * M
  BY DEF Day, Hour
<1>0. ASSUME NEW q \in Nat, n = q * Hour
      PROVE  n % M = 0 /\ k = q * MinutesPerHour /\ h = q
  <2>1. n = (q * MinutesPerHour) * M + 0 /\ q * MinutesPerHour \in Nat
    BY <1>3, <1>0, Clock
  <2>2. k = q * MinutesPerHour /\ n % M = 0
    BY <2>1, Clock, DivisionIsUnique
  <2>3. k = q * MinutesPerHour + 0
    BY <2>2, Clock
  <2> QED BY <2>2, <2>3, Clock, DivisionIsUnique
<1>6. n = Day => n % M = 0 /\ h = HoursPerDay /\ k >= MinutesPerHour
  <2> SUFFICES ASSUME n = Day PROVE n % M = 0 /\ h = HoursPerDay /\ k >= MinutesPerHour
    OBVIOUS
  <2>1. n % M = 0 /\ k = HoursPerDay * MinutesPerHour /\ h = HoursPerDay
    BY <1>0, <1>3, Clock
  <2>2. HoursPerDay * MinutesPerHour >= MinutesPerHour
    BY Clock
  <2> QED BY <2>1, <2>2
<1>7. n % Hour = 0 /\ n # 0 => h \in Nat \ {0} /\ n = h * Hour /\ k >= MinutesPerHour /\ n % M = 0
  <2> SUFFICES ASSUME n % Hour = 0, n # 0 PROVE h \in Nat \ {0} /\ n = h * Hour /\ k >= MinutesPerHour /\ n % M = 0
    OBVIOUS
  <2>1. PICK q \in Nat : n = q * Hour
    BY Clock, Multiple
  <2>2. h = q /\ k = q * MinutesPerHour /\ n % M = 0
    BY <1>0, <2>1
  <2>3. q # 0
    BY <2>1, Clock
  <2>4. q * MinutesPerHour >= MinutesPerHour
    BY <2>3, Clock
  <2> QED BY <2>1, <2>2, <2>3, <2>4
<1> HIDE DEF h
<1>1. n # 0 /\ n % M = 0
  BY <1>6, <1>7, Clock DEF IntervalToCron, h
<1>2. k \in Nat \ {0} /\ n = k * M
  <2>0. M \in Nat \ {0}
    BY Clock
  <2>1. \A b \in Nat \ {0} : n % b = 0 => n \div b \in Nat /\ n = (n \div b) * b
    <3> SUFFICES ASSUME NEW b \in Nat \ {0}, n % b = 0
                 PROVE  n \div b \in Nat /\ n = (n \div b) * b
      OBVIOUS
    <3>1. n \div b \in Nat
      BY Division
    <3>2. PICK q \in Nat : n = q * b + 0
      BY Multiple
    <3>3. n \div b = q
      BY <3>2, DivisionIsUnique
    <3> QED BY <3>1, <3>2, <3>3
  <2> HIDE DEF M
  <2>2. k \in Nat /\ n = k * M
    BY <1>1, <2>0, <2>1
  <2> HIDE DEF k
  <2> QED BY <1>1, <2>0, <2>1, <2>2
<1>4. CASE k < MinutesPerHour /\ MinutesPerHour % k = 0
  <2>1. IntervalToCron(n) = <<"fields", Fields(Stepped(k), Every, Every, Every)>>
    BY <1>1, <1>4, <1>6, <1>7, Clock DEF IntervalToCron
  <2>2. Day % n = 0
    <3>1. PICK c \in Nat : MinutesPerHour = c * k
      BY <1>2, <1>4, Clock, Multiple
    <3>2. Day = (HoursPerDay * c) * n /\ HoursPerDay * c \in Nat
      BY <1>2, <1>3, <3>1, Clock
    <3> QED BY <1>1, <3>2, Clock, Multiple
  <2> QED BY <1>1, <1>2, <1>4, <2>1, <2>2, MinutesAreTheClocks
<1>5. CASE ~(k < MinutesPerHour /\ MinutesPerHour % k = 0)
  <2>1. CASE n % Hour = 0 /\ h < HoursPerDay /\ HoursPerDay % h = 0
    <3>1. IntervalToCron(n) = <<"fields", Fields(<<One(0)>>, Stepped(h), Every, Every)>>
      BY <1>1, <1>5, <1>6, <2>1, Clock DEF IntervalToCron, h
    <3>2. h \in Nat \ {0} /\ n = h * Hour
      BY <1>1, <1>7, <2>1
    <3>3. Day % n = 0
      <4>1. PICK c \in Nat : HoursPerDay = c * h
        BY <2>1, <3>2, Clock, Multiple
      <4>2. Day = c * n
        BY <1>3, <3>2, <4>1, Clock
      <4> QED BY <1>1, <4>2, Clock, Multiple
    <3> QED BY <1>1, <3>1, <3>2, <3>3, HoursAreTheClocks
  <2>2. CASE ~(n % Hour = 0 /\ h < HoursPerDay /\ HoursPerDay % h = 0)
    <3>1. n = Day /\ IntervalToCron(n) = <<"fields", Midnight(Every, Every)>>
      BY <1>1, <1>5, <2>2, Clock DEF IntervalToCron, h
    <3>2. Day % Day = 0
      BY Clock
    <3> QED BY <1>1, <3>1, <3>2, MidnightIsTheClocks
  <2> QED BY <2>1, <2>2
<1> QED BY <1>4, <1>5

-----------------------------------------------------------------------------
(* Timers and dictionaries that fire like cron.                            *)

(* A field is never empty.                                                 *)
LEMMA FieldHasAPart ==
  ASSUME NEW field \in Seq(Parts) \ {<<>>}
  PROVE  \E i : i \in DOMAIN field
<1>1. Len(field) \in Nat /\ Len(field) # 0 /\ DOMAIN field = 1 .. Len(field)
  OBVIOUS
<1>2. 1 \in 1 .. Len(field)
  BY <1>1
<1> QED BY <1>1, <1>2

(* A field takes what one of its parts takes.                              *)
LEMMA ValuesOfParts ==
  ASSUME NEW field, NEW b, NEW x
  PROVE  x \in FieldValues(field, b) <=> \E i \in DOMAIN field : x \in PartValues(field[i], b)
BY DEF FieldValues

(* The same of the days of the week, where 7 is 0.                         *)
LEMMA DaysOfParts ==
  ASSUME NEW field, NEW x
  PROVE  x \in DowValues(field)
           <=> \E i \in DOMAIN field : \E n \in PartValues(field[i], DOW) : x = n % 7
BY ValuesOfParts DEF DowValues

FieldsText == Seq(Parts) \ {<<>>}

(* One part of the days of the week, where a timer takes it.               *)
LEMMA DayOfPart ==
  ASSUME NEW p \in Parts, GoodDay(p), p.from = p.to \/ 7 \notin {p.from, p.to}, NEW x \in 0 .. 6
  PROVE  (\E n \in PartValues(p, DOW) : x = n % 7) <=> x \in (p.from % 7) .. (p.to % 7)
<1>1. p.from \in 0 .. 7 /\ p.to \in 0 .. 7 /\ p.body # "*" /\ p.step = NoStep
  BY DEF GoodDay, InBounds, DOW, Bound
<1>2. PartValues(p, DOW) = p.from .. p.to
  BY <1>1 DEF PartValues
<1>3. CASE p.from = p.to
  BY <1>1, <1>2, <1>3
<1>4. CASE p.from # p.to
  <2>1. p.from \in 0 .. 6 /\ p.to \in 0 .. 6
    BY <1>1, <1>4
  <2>2. p.from % 7 = p.from /\ p.to % 7 = p.to /\ \A n \in 0 .. 6 : n % 7 = n
    BY <2>1
  <2> QED BY <1>2, <2>1, <2>2
<1> QED BY <1>3, <1>4

(* A timer that cron_to_oncalendar makes fires when cron would.            *)
LEMMA TimerFiresLikeCron ==
  ASSUME NEW f, {f.min, f.hour, f.dom, f.dow} \subseteq FieldsText,
         CronToCalendar(f) # Refused, ~OddWeek(<<"fields", f>>), NEW t \in Instants
  PROVE  CronFires(f, t)
           <=> CalendarFires(Calendar(f.min, f.hour, f.dom, DayNames(f.dow)), t)
<1> DEFINE c == Calendar(f.min, f.hour, f.dom, DayNames(f.dow))
<1>1. OneKindOfDay(f) /\ GoodDays(f.dow)
  BY DEF CronToCalendar
<1>2. c.min = f.min /\ c.hour = f.hour /\ c.dom = f.dom /\ c.days = DayNames(f.dow)
  BY DEF Calendar
<1>3. t.dow \in 0 .. 6 /\ t.dom \in FieldValues(Every, DOM)
  BY ValuesOfStar DEF Instants
<1>4. TimeMatches(t, c) <=> TimeMatches(t, f)
  BY <1>2 DEF TimeMatches
<1> HIDE DEF c
<1>5. CASE f.dow = Every
  <2>1. c.days = <<>>
    BY <1>2, <1>5 DEF DayNames
  <2>2. t.dow \in DowValues(f.dow)
    BY <1>3, <1>5, DaysOfStar
  <2> QED BY <1>2, <1>4, <1>5, <2>1, <2>2 DEF CronFires, CalendarFires, c
<1>6. CASE f.dow # Every
  <2>1. f.dom = Every /\ f.dow \in Seq(Parts) /\ f.dow # <<>>
    BY <1>1, <1>6 DEF OneKindOfDay, FieldsText
  <2>2. c.days = [i \in DOMAIN f.dow |-> <<f.dow[i].from % 7, f.dow[i].to % 7>>]
    BY <1>2, <1>6 DEF DayNames
  <2>3. DOMAIN c.days = DOMAIN f.dow /\ c.days # <<>>
    BY <2>1, <2>2
  <2>4. ASSUME NEW i \in DOMAIN f.dow
        PROVE  (\E n \in PartValues(f.dow[i], DOW) : t.dow = n % 7)
                 <=> t.dow \in c.days[i][1] .. c.days[i][2]
    <3>1. f.dow[i] \in Parts
      BY <2>1
    <3>2. GoodDay(f.dow[i])
      BY <1>1, <1>6 DEF GoodDays
    <3>3. f.dow[i].from = f.dow[i].to \/ 7 \notin {f.dow[i].from, f.dow[i].to}
      BY DEF OddWeek
    <3>4. c.days[i] = <<f.dow[i].from % 7, f.dow[i].to % 7>>
      BY <2>2
    <3> QED BY <1>3, <3>1, <3>2, <3>3, <3>4, DayOfPart
  <2>5. t.dow \in DowValues(f.dow) <=> \E i \in DOMAIN c.days : t.dow \in c.days[i][1] .. c.days[i][2]
    BY <2>3, <2>4, DaysOfParts
  <2> QED BY <1>2, <1>3, <1>4, <1>6, <2>1, <2>3, <2>5 DEF CronFires, CalendarFires, c
<1> QED BY <1>5, <1>6 DEF c

-----------------------------------------------------------------------------
(* The dictionaries of calendar_values between them.                       *)
LEMMA KeyOfOne ==
  ASSUME NEW n PROVE KeyField({n}) = <<One(n)>>
<1>1. (CHOOSE m \in {n} : TRUE) = n
  OBVIOUS
<1> QED BY <1>1 DEF KeyField

(* A number is no star.                                                    *)
LEMMA OneIsNotStar ==
  ASSUME NEW n PROVE <<One(n)>> # Every
BY DEF One, Every, Star, Part

(* A part that a dictionary can hold takes the number it names.            *)
LEMMA GoodOnes ==
  ASSUME NEW field \in FieldsText, NEW b, GoodValues(field, b), field # Every,
         NEW i \in DOMAIN field, b \in {MINUTE, HOUR, DOM, DOW}
  PROVE  /\ field[i].from \in Int /\ InBounds(field[i].from, b)
         /\ PartValues(field[i], b) = {field[i].from}
<1>1. field[i] \in Parts
  BY DEF FieldsText
<1>2. GoodValue(field[i], b)
  BY DEF GoodValues
<1>3. field[i].from = field[i].to /\ field[i].from \in Int /\ field[i].body = "one"
      /\ field[i].step = NoStep /\ InBounds(field[i].from, b)
  BY <1>1, <1>2 DEF Parts, GoodValue
<1> QED BY <1>3 DEF PartValues

(* The values of a key take between them what the field takes.             *)
LEMMA KeysTakeTheValues ==
  ASSUME NEW field \in FieldsText, NEW b \in {MINUTE, HOUR, DOM, DOW}, GoodValues(field, b)
  PROVE  /\ \A x \in b.min .. b.max :
              x \in FieldValues(field, b) <=> \E v \in Values(field) : x \in FieldValues(KeyField(v), b)
         /\ \A v \in Values(field) : KeyField(v) = Every <=> field = Every
         /\ Values(field) # {}
<1>1. CASE field = Every
  <2>1. Values(field) = {{}} /\ KeyField({}) = Every
    BY <1>1 DEF Values, KeyField
  <2> QED BY <1>1, <2>1
<1>2. CASE field # Every
  <2>1. Values(field) = {{field[i].from} : i \in DOMAIN field}
    BY <1>2 DEF Values
  <2>2. ASSUME NEW i \in DOMAIN field
        PROVE  /\ PartValues(field[i], b) = {field[i].from}
               /\ KeyField({field[i].from}) # Every
               /\ FieldValues(KeyField({field[i].from}), b) = {field[i].from}
    BY <1>2, GoodOnes, KeyOfOne, OneIsNotStar, ValuesOfOne
  <2>3. \A v : v \in Values(field) <=> \E i \in DOMAIN field : v = {field[i].from}
    BY <2>1
  <2>4. ASSUME NEW x
        PROVE  x \in FieldValues(field, b) <=> \E i \in DOMAIN field : x = field[i].from
    <3>1. x \in FieldValues(field, b) <=> \E i \in DOMAIN field : x \in PartValues(field[i], b)
      BY ValuesOfParts
    <3>2. \A i \in DOMAIN field : x \in PartValues(field[i], b) <=> x = field[i].from
      BY <2>2
    <3> QED BY <3>1, <3>2
  <2>5. ASSUME NEW x
        PROVE  (\E v \in Values(field) : x \in FieldValues(KeyField(v), b))
                 <=> \E i \in DOMAIN field : x = field[i].from
    <3>1. \A i \in DOMAIN field :
            x \in FieldValues(KeyField({field[i].from}), b) <=> x = field[i].from
      BY <2>2
    <3>2. ASSUME NEW i \in DOMAIN field, x = field[i].from
          PROVE  \E v \in Values(field) : x \in FieldValues(KeyField(v), b)
      BY <2>3, <3>1, <3>2
    <3>3. ASSUME NEW v \in Values(field), x \in FieldValues(KeyField(v), b)
          PROVE  \E i \in DOMAIN field : x = field[i].from
      <4>1. PICK i \in DOMAIN field : v = {field[i].from}
        BY <2>3, <3>3
      <4> QED BY <3>1, <3>3, <4>1
    <3> QED BY <3>2, <3>3
  <2>6. Values(field) # {}
    BY <2>3, FieldHasAPart DEF FieldsText
  <2>7. \A v \in Values(field) : KeyField(v) # Every
    BY <2>2, <2>3
  <2> QED BY <1>2, <2>4, <2>5, <2>6, <2>7
<1> QED BY <1>1, <1>2

(* The same of the days of the week.                                       *)
LEMMA KeysTakeTheDays ==
  ASSUME NEW field \in FieldsText, GoodValues(field, DOW)
  PROVE  /\ \A x \in 0 .. 6 :
              x \in DowValues(field) <=> \E v \in Weekdays(field) : x \in DowValues(KeyField(v))
         /\ \A v \in Weekdays(field) : KeyField(v) = Every <=> field = Every
         /\ Weekdays(field) # {}
<1>1. CASE field = Every
  <2>1. Values(field) = {{}} /\ KeyField({}) = Every
    BY <1>1 DEF Values, KeyField
  <2>2. Weekdays(field) = {{}}
    BY <2>1 DEF Weekdays
  <2> QED BY <1>1, <2>1, <2>2
<1>2. CASE field # Every
  <2>1. Values(field) = {{field[i].from} : i \in DOMAIN field}
    BY <1>2 DEF Values
  <2>2. Weekdays(field) = {{field[i].from % 7} : i \in DOMAIN field}
    <3>1. \A n : {m % 7 : m \in {n}} = {n % 7}
      OBVIOUS
    <3>2. \A v : v \in Weekdays(field) <=> \E i \in DOMAIN field : v = {m % 7 : m \in {field[i].from}}
      BY <2>1 DEF Weekdays
    <3>3. \A v : v \in Weekdays(field) <=> \E i \in DOMAIN field : v = {field[i].from % 7}
      BY <3>1, <3>2
    <3> QED BY <3>3
  <2>3. ASSUME NEW i \in DOMAIN field
        PROVE  /\ PartValues(field[i], DOW) = {field[i].from}
               /\ KeyField({field[i].from % 7}) # Every
               /\ DowValues(KeyField({field[i].from % 7})) = {field[i].from % 7}
    <3>1. field[i].from \in 0 .. 7 /\ PartValues(field[i], DOW) = {field[i].from}
      BY <1>2, GoodOnes DEF InBounds, DOW, Bound
    <3> DEFINE n == field[i].from % 7
    <3>2. n \in 0 .. 6 /\ n % 7 = n
      BY <3>1
    <3> HIDE DEF n
    <3>3. KeyField({n}) = <<One(n)>> /\ FieldValues(<<One(n)>>, DOW) = {n}
      BY <3>2, KeyOfOne, ValuesOfOne
    <3>4. DowValues(KeyField({n})) = {n}
      BY <3>2, <3>3 DEF DowValues
    <3> QED BY <3>1, <3>3, <3>4, OneIsNotStar DEF n
  <2>4. \A v : v \in Weekdays(field) <=> \E i \in DOMAIN field : v = {field[i].from % 7}
    BY <2>2
  <2>5. ASSUME NEW x
        PROVE  x \in DowValues(field) <=> \E i \in DOMAIN field : x = field[i].from % 7
    <3>1. x \in DowValues(field)
            <=> \E i \in DOMAIN field : \E n \in PartValues(field[i], DOW) : x = n % 7
      BY DaysOfParts
    <3>2. \A i \in DOMAIN field :
            (\E n \in PartValues(field[i], DOW) : x = n % 7) <=> x = field[i].from % 7
      BY <2>3
    <3> QED BY <3>1, <3>2
  <2>6. ASSUME NEW x
        PROVE  (\E v \in Weekdays(field) : x \in DowValues(KeyField(v)))
                 <=> \E i \in DOMAIN field : x = field[i].from % 7
    <3>1. \A i \in DOMAIN field :
            x \in DowValues(KeyField({field[i].from % 7})) <=> x = field[i].from % 7
      BY <2>3
    <3>2. ASSUME NEW i \in DOMAIN field, x = field[i].from % 7
          PROVE  \E v \in Weekdays(field) : x \in DowValues(KeyField(v))
      BY <2>4, <3>1, <3>2
    <3>3. ASSUME NEW v \in Weekdays(field), x \in DowValues(KeyField(v))
          PROVE  \E i \in DOMAIN field : x = field[i].from % 7
      <4>1. PICK i \in DOMAIN field : v = {field[i].from % 7}
        BY <2>4, <3>3
      <4> QED BY <3>1, <3>3, <4>1
    <3> QED BY <3>2, <3>3
  <2>7. Weekdays(field) # {}
    BY <2>4, FieldHasAPart DEF FieldsText
  <2>8. \A v \in Weekdays(field) : KeyField(v) # Every
    BY <2>3, <2>4
  <2> QED BY <1>2, <2>5, <2>6, <2>7, <2>8
<1> QED BY <1>1, <1>2

(* The dictionaries fire when cron would.                                  *)
LEMMA PlistFiresLikeCron ==
  ASSUME NEW f, {f.min, f.hour, f.dom, f.dow} \subseteq FieldsText,
         CronToDicts(f) # Refused, NEW t \in Instants
  PROVE  CronFires(f, t) <=> \E d \in Combos(f) : CronFires(DictToCron(d), t)
<1>1. /\ GoodValues(f.min, MINUTE) /\ GoodValues(f.hour, HOUR)
      /\ GoodValues(f.dom, DOM) /\ GoodValues(f.dow, DOW)
  BY DEF CronToDicts
<1>2. /\ t.min \in MINUTE.min .. MINUTE.max /\ t.hour \in HOUR.min .. HOUR.max
      /\ t.dom \in DOM.min .. DOM.max /\ t.dow \in 0 .. 6
  BY DEF Instants
<1> DEFINE OnMin(v) == t.min \in FieldValues(KeyField(v), MINUTE)
           OnHour(v) == t.hour \in FieldValues(KeyField(v), HOUR)
           OnDom(v) == t.dom \in FieldValues(KeyField(v), DOM)
           OnDow(v) == t.dow \in DowValues(KeyField(v))
           either == f.dom # Every /\ f.dow # Every
<1>3. /\ t.min \in FieldValues(f.min, MINUTE) <=> \E v \in Values(f.min) : OnMin(v)
      /\ t.hour \in FieldValues(f.hour, HOUR) <=> \E v \in Values(f.hour) : OnHour(v)
      /\ t.dom \in FieldValues(f.dom, DOM) <=> \E v \in Values(f.dom) : OnDom(v)
      /\ t.dow \in DowValues(f.dow) <=> \E v \in Weekdays(f.dow) : OnDow(v)
  BY <1>1, <1>2, KeysTakeTheValues, KeysTakeTheDays
<1>4. /\ \A v \in Values(f.dom) : KeyField(v) = Every <=> f.dom = Every
      /\ \A v \in Weekdays(f.dow) : KeyField(v) = Every <=> f.dow = Every
      /\ Values(f.dom) # {} /\ Weekdays(f.dow) # {}
  BY <1>1, KeysTakeTheValues, KeysTakeTheDays
<1>5. CronFires(f, t)
        <=> /\ t.min \in FieldValues(f.min, MINUTE) /\ t.hour \in FieldValues(f.hour, HOUR)
            /\ IF either
               THEN t.dom \in FieldValues(f.dom, DOM) \/ t.dow \in DowValues(f.dow)
               ELSE t.dom \in FieldValues(f.dom, DOM) /\ t.dow \in DowValues(f.dow)
  BY DEF CronFires, TimeMatches
<1>6. ASSUME NEW d \in Combos(f)
      PROVE  CronFires(DictToCron(d), t)
               <=> /\ OnMin(d.min) /\ OnHour(d.hour)
                   /\ IF either THEN OnDom(d.dom) \/ OnDow(d.dow) ELSE OnDom(d.dom) /\ OnDow(d.dow)
  <2>1. d.dom \in Values(f.dom) /\ d.dow \in Weekdays(f.dow)
    BY <1>6 DEF Combos
  <2>2. (KeyField(d.dom) # Every /\ KeyField(d.dow) # Every) <=> either
    BY <1>4, <2>1
  <2> QED BY <2>2 DEF CronFires, TimeMatches, DictToCron, Fields
<1>7. \A v \in Values(f.min), w \in Values(f.hour), x \in Values(f.dom), y \in Weekdays(f.dow) :
        \E d \in Combos(f) : d.min = v /\ d.hour = w /\ d.dom = x /\ d.dow = y
  <2> SUFFICES ASSUME NEW v \in Values(f.min), NEW w \in Values(f.hour),
                      NEW x \in Values(f.dom), NEW y \in Weekdays(f.dow)
               PROVE  \E d \in Combos(f) : d.min = v /\ d.hour = w /\ d.dom = x /\ d.dow = y
    OBVIOUS
  <2>1. [min |-> v, hour |-> w, dom |-> x, dow |-> y] \in Combos(f)
    BY DEF Combos
  <2> QED BY <2>1
<1>8. \A d \in Combos(f) : /\ d.min \in Values(f.min) /\ d.hour \in Values(f.hour)
                           /\ d.dom \in Values(f.dom) /\ d.dow \in Weekdays(f.dow)
  BY DEF Combos
<1> HIDE DEF OnMin, OnHour, OnDom, OnDow, either
<1>9. (\E d \in Combos(f) : CronFires(DictToCron(d), t))
        <=> \E v \in Values(f.min), w \in Values(f.hour), x \in Values(f.dom), y \in Weekdays(f.dow) :
              OnMin(v) /\ OnHour(w) /\ IF either THEN OnDom(x) \/ OnDow(y) ELSE OnDom(x) /\ OnDow(y)
  <2>1. ASSUME NEW d \in Combos(f), CronFires(DictToCron(d), t)
        PROVE  \E v \in Values(f.min), w \in Values(f.hour), x \in Values(f.dom), y \in Weekdays(f.dow) :
                 OnMin(v) /\ OnHour(w) /\ IF either THEN OnDom(x) \/ OnDow(y) ELSE OnDom(x) /\ OnDow(y)
    BY <1>6, <1>8, <2>1
  <2>2. ASSUME NEW v \in Values(f.min), NEW w \in Values(f.hour),
               NEW x \in Values(f.dom), NEW y \in Weekdays(f.dow),
               OnMin(v) /\ OnHour(w) /\ IF either THEN OnDom(x) \/ OnDow(y) ELSE OnDom(x) /\ OnDow(y)
        PROVE  \E d \in Combos(f) : CronFires(DictToCron(d), t)
    <3>1. PICK d \in Combos(f) : d.min = v /\ d.hour = w /\ d.dom = x /\ d.dow = y
      BY <1>7
    <3> QED BY <1>6, <2>2, <3>1
  <2> QED BY <2>1, <2>2
<1>10. PICK x0 \in Values(f.dom), y0 \in Weekdays(f.dow) : TRUE
  BY <1>4
<1> QED BY <1>3, <1>5, <1>9, <1>10

-----------------------------------------------------------------------------
(* What is typed means what is written.                                    *)

(* What MeaningIsKept says of a text and what a file holds for it.         *)
Agree(s, text, d) ==
  \/ SameMeaning(Meaning(s, text), Meaning(s, d))
  \/ s = "systemd" /\ OddWeek(text)
  \/ s = "anacron" /\ Wraps(text)

(* Lower case once is lower case for good.                                 *)
LEMMA LowerIsLower ==
  ASSUME NEW text PROVE Lower(Lower(text)) = Lower(text)
BY DEF Lower

(* The case of a word means nothing.                                       *)
LEMMA MeaningOfWord ==
  ASSUME NEW s, NEW text, text[1] = "word"
  PROVE  Lower(text)[1] = "word" /\ Meaning(s, text) = Meaning(s, Lower(text))
<1>1. Lower(text)[1] = "word"
  BY DEF Lower
<1>2. Meaning(s, text) = WordMeaning(s, Lower(text)[2])
  BY DEF Meaning
<1>3. Meaning(s, Lower(text)) = WordMeaning(s, Lower(Lower(text))[2])
  BY <1>1 DEF Meaning
<1> QED BY <1>1, <1>2, <1>3, LowerIsLower

(* What a number and an interval in seconds mean.                          *)
LEMMA MeaningOfNumber ==
  ASSUME NEW s, NEW n \in Nat
  PROVE  /\ \A text : text[1] = "number" /\ text[2] = n =>
              Meaning(s, text) = <<"every", IF s = "anacron" THEN n * Day ELSE n>>
         /\ Meaning(s, <<"interval", n, "s">>) = <<"every", n>>
<1>1. n * 1 = n
  OBVIOUS
<1>2. PerUnit["s"] = 1
  BY DEF PerUnit
<1> QED BY <1>1, <1>2 DEF Meaning

(* What an interval means.                                                 *)
LEMMA MeaningOfInterval ==
  ASSUME NEW s, NEW text, IsInterval(text)
  PROVE  Meaning(s, text) = <<"every", Seconds(text)>>
BY DEF IsInterval, Seconds, Meaning

(* What means the same as the same means the same.                         *)
LEMMA SameMeaningChains ==
  ASSUME NEW a, NEW b, NEW c, SameMeaning(a, b), SameMeaning(b, c)
  PROVE  SameMeaning(a, c)
<1>1. \A n : ByTheClock(n)[1] = "at"
  BY DEF ByTheClock, At
<1> QED BY <1>1 DEF SameMeaning

-----------------------------------------------------------------------------
(* What is typed means what is written for it.                             *)
FieldsCanBeRead(s, text) ==
  s # "cron" /\ text[1] = "fields" =>
    {text[2].min, text[2].hour, text[2].dom, text[2].dow} \subseteq FieldsText

Typed(s, text) ==
  /\ Counted(text) /\ FieldsCanBeRead(s, text)
  /\ ParseSchedule(s, text) # Refused /\ Render(s, ParseSchedule(s, text)) # Refused

(* An interval that fits is so many seconds.                               *)
LEMMA TypedInterval ==
  ASSUME NEW s \in Four, NEW text, Typed(s, text), IsInterval(text)
  PROVE  /\ ParseSchedule(s, text) = <<"Interval", Seconds(text)>> /\ Seconds(text) \in Nat
         /\ Meaning(s, text) = <<"every", Seconds(text)>>
<1>1. text # Empty
  BY DEF IsInterval, Empty
<1>2. ParseSchedule(s, text) = <<"Interval", Seconds(text)>>
  BY <1>1 DEF ParseSchedule
<1>3. Schedule(s, ParseSchedule(s, text))
  BY Parsed DEF Typed
<1> QED BY <1>2, <1>3, MeaningOfInterval DEF Schedule

(* Any other text goes to its source.                                      *)
LEMMA TypedText ==
  ASSUME NEW s \in Four, NEW text, Typed(s, text), ~IsInterval(text)
  PROVE  ParseSchedule(s, text) = ParseText(s, text) /\ ParseText(s, text) # Refused /\ text # Empty
BY DEF Typed, ParseSchedule

(* A line of a crontab runs when it was asked to.                          *)
LEMMA TypedForCron ==
  ASSUME NEW text, Typed("cron", text)
  PROVE  Agree("cron", text, Render("cron", ParseSchedule("cron", text)))
<1> DEFINE sch == ParseSchedule("cron", text)
<1>0. "cron" \in Four
  BY DEF Four
<1>1. CASE IsInterval(text)
  <2> DEFINE n == Seconds(text)
  <2>1. sch = <<"Interval", n>> /\ n \in Nat /\ Meaning("cron", text) = <<"every", n>>
    BY <1>0, <1>1, TypedInterval
  <2>2. Render("cron", sch) = IntervalToCron(n) /\ IntervalToCron(n) # Refused
    BY <2>1 DEF Render, RenderCron, Typed
  <2> HIDE DEF n, sch
  <2>3. PICK f : /\ IntervalToCron(n) = <<"fields", f>>
                 /\ n # 0 /\ Day % n = 0 /\ CronMeaning(f) = ByTheClock(n)
    BY <2>1, <2>2, IntervalMeansTheSame
  <2>4. Meaning("cron", <<"fields", f>>) = CronMeaning(f)
    BY DEF Meaning
  <2>5. SameMeaning(Meaning("cron", text), Meaning("cron", Render("cron", sch)))
    BY <2>1, <2>2, <2>3, <2>4 DEF SameMeaning
  <2> QED BY <2>5 DEF Agree, sch
<1>2. CASE ~IsInterval(text)
  <2>1. sch = ParseText("cron", text) /\ sch # Refused
    BY <1>0, <1>2, TypedText
  <2>2. CASE IsWord(text, CronAliases)
    <3>0. text[1] = "word"
      BY <2>2 DEF IsWord
    <3>1. sch = <<"Cron", Lower(text)>>
      BY <2>1, <2>2, <3>0 DEF ParseText
    <3>2. IsWord(Lower(text), CronAliases) /\ Lower(text)[1] = "word"
      BY <2>2, LowerTwice
    <3>3. Render("cron", sch) = Lower(text)
      BY <3>1, <3>2 DEF Render, RenderCron
    <3> QED BY <2>2, <3>3, MeaningOfWord DEF IsWord, Agree, SameMeaning
  <2>3. CASE ~IsWord(text, CronAliases)
    <3>1. sch = <<"Cron", text>> /\ text[1] = "fields"
      BY <2>1, <2>3 DEF ParseText
    <3>2. Render("cron", sch) = text
      BY <3>1 DEF Render, RenderCron, Typed
    <3> QED BY <3>2 DEF Agree, SameMeaning
  <2> QED BY <2>2, <2>3
<1> QED BY <1>1, <1>2

(* So does a timer, but for ranges that touch 7.                           *)
LEMMA TypedForSystemd ==
  ASSUME NEW text, Typed("systemd", text)
  PROVE  Agree("systemd", text, Render("systemd", ParseSchedule("systemd", text)))
<1> DEFINE sch == ParseSchedule("systemd", text)
<1>0. "systemd" \in Four
  BY DEF Four
<1>1. CASE IsInterval(text)
  <2> DEFINE n == Seconds(text)
  <2>1. sch = <<"Interval", n>> /\ n \in Nat /\ Meaning("systemd", text) = <<"every", n>>
    BY <1>0, <1>1, TypedInterval
  <2>2. Render("systemd", sch) = <<"interval", n, "s">>
    BY <2>1 DEF Render, RenderTimer, Typed
  <2> HIDE DEF n, sch
  <2> QED BY <2>1, <2>2, MeaningOfNumber DEF Agree, SameMeaning, sch
<1>2. CASE ~IsInterval(text)
  <2>1. sch = ParseText("systemd", text) /\ sch # Refused
    BY <1>0, <1>2, TypedText
  <2>2. CASE text[1] = "fields"
    <3> DEFINE f == text[2]
               c == Calendar(f.min, f.hour, f.dom, DayNames(f.dow))
    <3>1. sch = <<"Cron", text>>
      BY <2>1, <2>2 DEF ParseText
    <3>2. Render("systemd", sch) = CronToCalendar(f) /\ CronToCalendar(f) # Refused
      BY <3>1 DEF Render, RenderTimer, Typed
    <3>3. CronToCalendar(f) = <<"calendar", c>>
      BY <3>2 DEF CronToCalendar
    <3>4. {f.min, f.hour, f.dom, f.dow} \subseteq FieldsText
      BY <2>2 DEF Typed, FieldsCanBeRead
    <3>5. OddWeek(text) <=> OddWeek(<<"fields", f>>)
      BY <2>2 DEF OddWeek
    <3>6. ~OddWeek(text) => \A t \in Instants : CronFires(f, t) <=> CalendarFires(c, t)
      BY <3>2, <3>4, <3>5, TimerFiresLikeCron
    <3>7. /\ Meaning("systemd", text) = At({t \in Instants : CronFires(f, t)})
          /\ Meaning("systemd", <<"calendar", c>>) = At({t \in Instants : CalendarFires(c, t)})
      BY <2>2 DEF Meaning, CronMeaning
    <3> HIDE DEF f, c
    <3>8. ~OddWeek(text) =>
            {t \in Instants : CronFires(f, t)} = {t \in Instants : CalendarFires(c, t)}
      BY <3>6
    <3>9. ~OddWeek(text) => Meaning("systemd", text) = Meaning("systemd", <<"calendar", c>>)
      BY <3>7, <3>8
    <3> QED BY <3>2, <3>3, <3>9 DEF Agree, SameMeaning
  <2>3. CASE text[1] # "fields"
    <3>1. sch = <<"Calendar", text>>
      BY <2>1, <2>3 DEF ParseText
    <3>2. CASE IsWord(text, DOMAIN CalendarAlias)
      <4> DEFINE w == Lower(text)[2]
      <4>2. w # "@reboot" /\ text[1] = "word"
        BY <3>2 DEF IsWord, CalendarAlias
      <4>1. Render("systemd", sch) = <<"calendar", Shorthand(CalendarAlias[w])>>
        BY <3>1, <3>2, <4>2 DEF Render, RenderTimer
      <4>3. Meaning("systemd", text) = WordMeaning("systemd", w)
        BY <4>2 DEF Meaning
      <4>4. WordMeaning("systemd", w)
              = At({t \in Instants : CalendarFires(Shorthand(CalendarAlias[w]), t)})
        BY <4>2 DEF WordMeaning
      <4> HIDE DEF w
      <4>5. \A c : Meaning("systemd", <<"calendar", c>>) = At({t \in Instants : CalendarFires(c, t)})
        BY DEF Meaning
      <4> QED BY <4>1, <4>3, <4>4, <4>5 DEF Agree, SameMeaning
    <3>3. CASE ~IsWord(text, DOMAIN CalendarAlias)
      <4>1. Render("systemd", sch) = text
        BY <3>1, <3>3 DEF Render, RenderTimer, Typed
      <4> QED BY <4>1 DEF Agree, SameMeaning
    <3> QED BY <3>2, <3>3
  <2> QED BY <2>2, <2>3
<1> QED BY <1>1, <1>2

(* Days that fit are written as they were, whole days as days.             *)
LEMMA DaysAreWritten ==
  ASSUME NEW n \in Nat
  PROVE  /\ RenderPeriod(<<"Interval", n>>) # Refused => n > 0 /\ n % Day = 0
         /\ n > 0 /\ n % Day = 0 =>
              /\ RenderPeriod(<<"Interval", n>>) = <<"number", n \div Day>>
              /\ Meaning("anacron", <<"number", n \div Day>>) = <<"every", n>>
<1>1. RenderPeriod(<<"Interval", n>>) # Refused => n > 0 /\ n % Day = 0
  BY DEF RenderPeriod
<1>2. ASSUME n > 0, n % Day = 0
      PROVE  /\ RenderPeriod(<<"Interval", n>>) = <<"number", n \div Day>>
             /\ Meaning("anacron", <<"number", n \div Day>>) = <<"every", n>>
  <2>1. RenderPeriod(<<"Interval", n>>) = <<"number", n \div Day>>
    BY <1>2 DEF RenderPeriod
  <2>2. n \div Day \in Nat \ {0} /\ (n \div Day) * Day = n
    BY <1>2, WholeDays
  <2>3. Meaning("anacron", <<"number", n \div Day>>) = <<"every", (n \div Day) * Day>>
    BY <2>2, MeaningOfNumber
  <2> QED BY <2>1, <2>2, <2>3
<1> QED BY <1>1, <1>2

(* So does a job of anacron, but for days whose seconds wrap.              *)
LEMMA TypedForAnacron ==
  ASSUME NEW text, Typed("anacron", text)
  PROVE  Agree("anacron", text, Render("anacron", ParseSchedule("anacron", text)))
<1> DEFINE sch == ParseSchedule("anacron", text)
<1>0. "anacron" \in Four
  BY DEF Four
<1>r. Render("anacron", sch) = RenderPeriod(sch) /\ RenderPeriod(sch) # Refused
  BY DEF Render, Typed
<1>1. CASE IsInterval(text)
  <2> DEFINE n == Seconds(text)
  <2>1. sch = <<"Interval", n>> /\ n \in Nat /\ Meaning("anacron", text) = <<"every", n>>
    BY <1>0, <1>1, TypedInterval
  <2> HIDE DEF n, sch
  <2>2. Meaning("anacron", Render("anacron", sch)) = <<"every", n>>
    BY <1>r, <2>1, DaysAreWritten
  <2> QED BY <2>1, <2>2 DEF Agree, SameMeaning, sch
<1>2. CASE ~IsInterval(text)
  <2>1. sch = ParseText("anacron", text) /\ sch # Refused
    BY <1>0, <1>2, TypedText
  <2>2. CASE IsWord(text, AnacronAliases)
    <3>0. text[1] = "word"
      BY <2>2 DEF IsWord
    <3>1. sch = <<"Calendar", Lower(text)>>
      BY <2>1, <2>2, <3>0 DEF ParseText
    <3>2. IsWord(Lower(text), AnacronAliases)
      BY <2>2, LowerTwice
    <3>3. Render("anacron", sch) = Lower(text)
      BY <1>r, <3>1, <3>2, LowerIsLower DEF RenderPeriod
    <3> QED BY <2>2, <3>3, MeaningOfWord DEF IsWord, Agree, SameMeaning
  <2>3. CASE ~IsWord(text, AnacronAliases)
    <3> DEFINE n == text[2]
    <3>1. text[1] = "number" /\ n > 0 /\ sch = <<"Interval", (n * Day) % Width>>
      BY <2>1, <2>3 DEF ParseText
    <3>2. n \in Nat
      BY <3>1 DEF Typed, Counted
    <3>3. CASE n * Day < Width
      <4> DEFINE m == n * Day
      <4>1. sch = <<"Interval", m>> /\ m \in Nat
        BY <3>1, <3>2, <3>3, DaysAndBack
      <4>2. Meaning("anacron", text) = <<"every", m>>
        BY <3>1, <3>2, MeaningOfNumber
      <4> HIDE DEF m, sch, n
      <4>3. Meaning("anacron", Render("anacron", sch)) = <<"every", m>>
        BY <1>r, <4>1, DaysAreWritten
      <4> QED BY <4>2, <4>3 DEF Agree, SameMeaning, sch
    <3>4. CASE ~(n * Day < Width)
      <4>1. n * Day \in Nat /\ Width \in Nat
        BY <3>2, Clock
      <4>2. Wraps(text)
        BY <3>1, <3>4, <4>1 DEF Wraps
      <4> QED BY <4>2 DEF Agree
    <3> QED BY <3>3, <3>4
  <2> QED BY <2>2, <2>3
<1> QED BY <1>1, <1>2

(* So does an agent or a daemon.                                           *)
LEMMA TypedForLaunchd ==
  ASSUME NEW text, Typed("launchd", text)
  PROVE  Agree("launchd", text, Render("launchd", ParseSchedule("launchd", text)))
<1> DEFINE sch == ParseSchedule("launchd", text)
<1>0. "launchd" \in Four
  BY DEF Four
<1>r. Render("launchd", sch) = RenderPlist(sch) /\ RenderPlist(sch) # Refused
  BY DEF Render, Typed
<1>3. ASSUME NEW n \in Nat, sch = <<"Interval", n>>
      PROVE  Meaning("launchd", Render("launchd", sch)) = <<"every", n>>
  <2>1. Render("launchd", sch) = <<"number", n>>
    BY <1>r, <1>3 DEF RenderPlist
  <2>2. \A x : x[1] = "number" /\ x[2] = n => Meaning("launchd", x) = <<"every", n>>
    BY MeaningOfNumber
  <2> QED BY <2>1, <2>2
<1>1. CASE IsInterval(text)
  <2> DEFINE n == Seconds(text)
  <2>1. sch = <<"Interval", n>> /\ n \in Nat /\ Meaning("launchd", text) = <<"every", n>>
    BY <1>0, <1>1, TypedInterval
  <2> HIDE DEF n, sch
  <2> QED BY <1>3, <2>1 DEF Agree, SameMeaning, sch
<1>2. CASE ~IsInterval(text)
  <2>1. sch = ParseText("launchd", text) /\ sch # Refused
    BY <1>0, <1>2, TypedText
  <2>2. CASE text[1] = "number"
    <3>1. sch = <<"Interval", text[2]>> /\ text[2] \in Nat
      BY <2>1, <2>2 DEF ParseText, Typed, Counted
    <3>2. Meaning("launchd", text) = <<"every", text[2]>>
      BY <2>2, <3>1, MeaningOfNumber
    <3> QED BY <1>3, <3>1, <3>2 DEF Agree, SameMeaning
  <2>3. CASE text[1] = "dicts"
    <3>1. sch = <<"Calendar", text>>
      BY <2>1, <2>3 DEF ParseText
    <3>2. Render("launchd", sch) = text
      BY <1>r, <3>1 DEF RenderPlist
    <3> QED BY <3>2 DEF Agree, SameMeaning
  <2>4. CASE text[1] \notin {"number", "dicts"}
    <3> DEFINE f == text[2]
    <3>1. sch = <<"Cron", text>> /\ text[1] = "fields"
      BY <2>1, <2>4 DEF ParseText
    <3>2. Render("launchd", sch) = CronToDicts(f) /\ CronToDicts(f) # Refused
      BY <1>r, <3>1 DEF RenderPlist
    <3>3. CronToDicts(f) = <<"dicts", Combos(f)>>
      BY <3>2 DEF CronToDicts
    <3>4. {f.min, f.hour, f.dom, f.dow} \subseteq FieldsText
      BY <3>1 DEF Typed, FieldsCanBeRead
    <3>5. \A t \in Instants : CronFires(f, t) <=> \E d \in Combos(f) : CronFires(DictToCron(d), t)
      BY <3>2, <3>4, PlistFiresLikeCron
    <3>6. \A ds : Meaning("launchd", <<"dicts", ds>>)
                    = At({t \in Instants : \E d \in ds : CronFires(DictToCron(d), t)})
      BY DEF Meaning
    <3>7. Meaning("launchd", text) = At({t \in Instants : CronFires(f, t)})
      BY <3>1 DEF Meaning, CronMeaning
    <3> HIDE DEF f
    <3>8. {t \in Instants : CronFires(f, t)}
            = {t \in Instants : \E d \in Combos(f) : CronFires(DictToCron(d), t)}
      BY <3>5
    <3>9. Meaning("launchd", text) = Meaning("launchd", <<"dicts", Combos(f)>>)
      BY <3>6, <3>7, <3>8
    <3> QED BY <3>2, <3>3, <3>9 DEF Agree, SameMeaning
  <2> QED BY <2>2, <2>3, <2>4
<1> QED BY <1>1, <1>2

(* What is written means what was typed.                                   *)
LEMMA TypedMeansTheSame ==
  ASSUME NEW s \in Four, NEW text, Typed(s, text)
  PROVE  Agree(s, text, Render(s, ParseSchedule(s, text)))
BY TypedForCron, TypedForSystemd, TypedForAnacron, TypedForLaunchd DEF Four

-----------------------------------------------------------------------------
(* What is read means what is written again.                               *)

(* The list and the form show what the file means.                         *)
ShownAlike(s, d, schedule) ==
  /\ Meaning(s, ScheduleText(schedule)) = Meaning(s, d)
  /\ Render(s, schedule) # Refused => Meaning(s, Render(s, schedule)) = Meaning(s, d)

(* Seconds are shown and written again as the same seconds.                *)
LEMMA SecondsAlike ==
  ASSUME NEW s \in Four \ {"cron"}, NEW d, NEW n \in Nat, Meaning(s, d) = <<"every", n>>
  PROVE  ShownAlike(s, d, <<"Interval", n>>)
<1> DEFINE sch == <<"Interval", n>>
<1>1. ScheduleText(sch) = <<"interval", n, "s">>
  BY DEF ScheduleText
<1>2. Meaning(s, ScheduleText(sch)) = <<"every", n>>
  BY <1>1, MeaningOfNumber
<1>3. ASSUME Render(s, sch) # Refused
      PROVE  Meaning(s, Render(s, sch)) = <<"every", n>>
  <2>1. CASE s = "systemd"
    <3>1. Render(s, sch) = <<"interval", n, "s">>
      BY <1>3, <2>1 DEF Render, RenderTimer
    <3> QED BY <3>1, MeaningOfNumber
  <2>2. CASE s = "anacron"
    <3>1. Render(s, sch) = RenderPeriod(sch)
      BY <2>2 DEF Render
    <3> QED BY <1>3, <2>2, <3>1, DaysAreWritten
  <2>3. CASE s = "launchd"
    <3>1. Render(s, sch) = <<"number", n>>
      BY <1>3, <2>3 DEF Render, RenderPlist
    <3>2. \A text : text[1] = "number" /\ text[2] = n => Meaning("launchd", text) = <<"every", n>>
      BY MeaningOfNumber
    <3> QED BY <2>3, <3>1, <3>2
  <2> QED BY <2>1, <2>2, <2>3 DEF Four
<1> QED BY <1>2, <1>3 DEF ShownAlike

(* What a reader makes of a file is shown, and written again, with its     *)
(* meaning.                                                                *)
LEMMA ReadMeansTheSame ==
  ASSUME NEW s \in Four, NEW d, Held(s, d), Read(s, d) # Unshown, ~(s = "anacron" /\ Wraps(d))
  PROVE  ShownAlike(s, d, Read(s, d))
<1>1. CASE s = "cron"
  <2>1. Read(s, d) = <<"Cron", d>> /\ ScheduleText(<<"Cron", d>>) = d
    BY <1>1 DEF Read, ScheduleText
  <2>2. Render(s, <<"Cron", d>>) \in {d, Refused}
    BY <1>1 DEF Held, Render, RenderCron
  <2> QED BY <2>1, <2>2 DEF ShownAlike
<1>2. CASE s = "systemd"
  <2>1. CASE d[1] = "interval"
    <3>1. d[2] \in Nat /\ d[3] = "s"
      BY <1>2, <2>1 DEF Held
    <3>2. Read(s, d) = <<"Interval", d[2]>>
      BY <1>2, <2>1, <3>1, UnitsAddUp DEF Read, Unshown
    <3>3. Meaning(s, d) = <<"every", d[2] * PerUnit[d[3]]>> /\ PerUnit["s"] = 1
      BY <2>1 DEF Meaning, PerUnit
    <3>4. d[2] * 1 = d[2]
      BY <3>1
    <3>5. Meaning(s, d) = <<"every", d[2]>>
      BY <3>1, <3>3, <3>4
    <3> QED BY <1>2, <3>1, <3>2, <3>5, SecondsAlike
  <2>2. CASE d[1] # "interval"
    <3>1. Read(s, d) = <<"Calendar", d>> /\ d[1] = "calendar" /\ ScheduleText(<<"Calendar", d>>) = d
      BY <1>2, <2>2 DEF Read, Held, ScheduleText
    <3>2. Render(s, <<"Calendar", d>>) = d
      BY <1>2, <3>1 DEF Render, RenderTimer, IsWord
    <3> QED BY <3>1, <3>2 DEF ShownAlike
  <2> QED BY <2>1, <2>2
<1>3. CASE s = "anacron"
  <2>1. CASE d[1] = "number"
    <3> DEFINE n == d[2] * Day
    <3>1. d[2] \in Nat
      BY <1>3, <2>1 DEF Held, IsWord
    <3>2. n < Width
      BY <1>3, <2>1, <3>1, Clock DEF Wraps
    <3>3. Read(s, d) = <<"Interval", n>> /\ n \in Nat
      BY <1>3, <2>1, <3>1, <3>2, DaysAndBack DEF Read, IsWord
    <3>4. Meaning(s, d) = <<"every", n>>
      BY <1>3, <2>1, <3>1, MeaningOfNumber
    <3> HIDE DEF n
    <3> QED BY <1>3, <3>3, <3>4, SecondsAlike
  <2>2. CASE d[1] # "number"
    <3>0. IsWord(d, AnacronAliases) /\ d[1] = "word"
      BY <1>3, <2>2 DEF Held, IsWord
    <3>1. Meaning(s, d) = WordMeaning(s, Lower(d)[2])
      BY <3>0 DEF Meaning
    <3>2. CASE Lower(d)[2] = "@daily"
      <4>1. Read(s, d) = <<"Interval", Day>>
        BY <1>3, <3>0, <3>2 DEF Read, IsWord
      <4>2. Meaning(s, d) = <<"every", Day>>
        BY <1>3, <3>1, <3>2 DEF WordMeaning
      <4> QED BY <1>3, <4>1, <4>2, Clock, SecondsAlike
    <3>3. CASE Lower(d)[2] = "@weekly"
      <4>1. Read(s, d) = <<"Interval", Week>>
        BY <1>3, <3>0, <3>3 DEF Read, IsWord
      <4>2. Meaning(s, d) = <<"every", Week>>
        BY <1>3, <3>1, <3>3 DEF WordMeaning
      <4> QED BY <1>3, <4>1, <4>2, Clock, SecondsAlike
    <3>4. CASE Lower(d)[2] = "@monthly"
      <4>1. Read(s, d) = <<"Calendar", d>> /\ ScheduleText(<<"Calendar", d>>) = d
        BY <1>3, <3>0, <3>4 DEF Read, IsWord, ScheduleText
      <4>2. Render(s, <<"Calendar", d>>) = Lower(d)
        BY <1>3, <3>0 DEF Render, RenderPeriod
      <4> QED BY <3>0, <4>1, <4>2, MeaningOfWord DEF ShownAlike
    <3> QED BY <3>0, <3>2, <3>3, <3>4 DEF IsWord, AnacronAliases
  <2> QED BY <2>1, <2>2
<1>4. CASE s = "launchd"
  <2>1. CASE d[1] = "number"
    <3>1. Read(s, d) = <<"Interval", d[2]>> /\ d[2] \in Nat
      BY <1>4, <2>1 DEF Read, Held
    <3>2. \A text : text[1] = "number" /\ text[2] = d[2] =>
            Meaning("launchd", text) = <<"every", d[2]>>
      BY <3>1, MeaningOfNumber
    <3> QED BY <1>4, <2>1, <3>1, <3>2, SecondsAlike
  <2>2. CASE d[1] # "number"
    <3>0. d[1] = "dicts"
      BY <1>4, <2>2 DEF Held
    <3>1. d[2] # {NoKeys}
      BY <1>4, <3>0 DEF Read, Format, Unshown
    <3> DEFINE e == <<"dicts", d[2]>>
    <3>2. Read(s, d) = <<"Calendar", e>> /\ ScheduleText(<<"Calendar", e>>) = e
      BY <1>4, <3>0, <3>1 DEF Read, Format, ScheduleText
    <3>3. Render(s, <<"Calendar", e>>) \in {e, Refused}
      BY <1>4 DEF Render, RenderPlist
    <3>4. Meaning(s, e) = Meaning(s, d)
      BY <3>0 DEF Meaning
    <3> QED BY <3>2, <3>3, <3>4 DEF ShownAlike
  <2> QED BY <2>1, <2>2
<1> QED BY <1>1, <1>2, <1>3, <1>4 DEF Four

(* What becomes of a schedule that an edit takes for text.                 *)
KeptMeaning(s, text, schedule) ==
  Render(s, schedule) # Refused => Agree(s, text, Render(s, schedule))

(* A schedule that cannot be shown is not taken.                           *)
LEMMA UnshownIsRefused ==
  ASSUME NEW s \in Four
  PROVE  Render(s, Unshown) = Refused /\ ParseSchedule(s, ScheduleText(Unshown)) = Refused
<1>1. Unshown[1] = "Calendar" /\ Unshown[2] = Empty /\ Empty[1] = "empty"
  BY DEF Unshown, Empty
<1>2. ScheduleText(Unshown) = Empty
  BY <1>1 DEF ScheduleText
<1> QED BY <1>1, <1>2
        DEF Four, Render, RenderCron, RenderTimer, RenderPeriod, RenderPlist, IsWord, ParseSchedule

(* An edit that leaves the schedule alone, by the command line.            *)
LEMMA ShownKeepsTheMeaning ==
  ASSUME NEW s \in Four, NEW d, Held(s, d), NEW text, Agree(s, text, d),
         s = "anacron" /\ Wraps(d) => Wraps(text)
  PROVE  KeptMeaning(s, text, Read(s, d))
<1> DEFINE r == Render(s, Read(s, d))
<1> SUFFICES ASSUME r # Refused PROVE Agree(s, text, r)
  BY DEF KeptMeaning
<1>1. Read(s, d) # Unshown
  BY UnshownIsRefused
<1>2. CASE s = "anacron" /\ Wraps(d)
  BY <1>2 DEF Agree
<1>3. CASE ~(s = "anacron" /\ Wraps(d))
  <2>1. Meaning(s, r) = Meaning(s, d)
    BY <1>1, <1>3, ReadMeansTheSame DEF ShownAlike
  <2> QED BY <2>1 DEF Agree
<1> QED BY <1>2, <1>3

(* The same, by the form.                                                  *)
LEMMA FormKeepsTheMeaning ==
  ASSUME NEW s \in Four, NEW d, Held(s, d), NEW text, Agree(s, text, d),
         s = "anacron" /\ Wraps(d) => Wraps(text),
         ParseSchedule(s, ScheduleText(Read(s, d))) # Refused
  PROVE  KeptMeaning(s, text, ParseSchedule(s, ScheduleText(Read(s, d))))
<1> DEFINE shown == ScheduleText(Read(s, d))
           r == Render(s, ParseSchedule(s, shown))
<1> SUFFICES ASSUME r # Refused PROVE Agree(s, text, r)
  BY DEF KeptMeaning
<1>1. Read(s, d) # Unshown
  BY UnshownIsRefused
<1>2. CASE s = "anacron" /\ Wraps(d)
  BY <1>2 DEF Agree
<1>3. CASE ~(s = "anacron" /\ Wraps(d))
  <2>1. Meaning(s, shown) = Meaning(s, d)
    BY <1>1, <1>3, ReadMeansTheSame DEF ShownAlike
  <2>2. s # "cron" => shown[1] \notin {"fields", "number"}
    <3>1. CASE Read(s, d)[1] = "Interval"
      BY <3>1 DEF ScheduleText
    <3>2. CASE Read(s, d)[1] # "Interval" /\ s # "cron"
      <4>1. shown = Read(s, d)[2]
        BY <3>2 DEF ScheduleText
      <4>2. CASE s = "systemd"
        BY <3>2, <4>1, <4>2, <1>1 DEF Read, Held, Unshown
      <4>3. CASE s = "anacron"
        <5>1. d[1] = "word"
          BY <3>2, <4>3 DEF Read, Held, IsWord
        <5>2. Lower(d)[2] \in {"@daily", "@weekly", "@monthly"}
          BY <4>3, <5>1 DEF Held, IsWord, AnacronAliases
        <5>3. Read(s, d)[2] = d
          BY <3>2, <4>3, <5>1, <5>2 DEF Read, IsWord
        <5> QED BY <4>1, <5>1, <5>3
      <4>4. CASE s = "launchd"
        BY <3>2, <4>1, <4>4 DEF Read, Held, Format, Empty
      <4> QED BY <3>2, <4>2, <4>3, <4>4 DEF Four
    <3> QED BY <3>1, <3>2
  <2>3. Counted(shown)
    BY ReadIsASchedule
  <2> HIDE DEF shown
  <2>4. Typed(s, shown)
    BY <2>2, <2>3 DEF Typed, FieldsCanBeRead, shown
  <2>5. Agree(s, shown, r)
    BY <2>4, TypedMeansTheSame
  <2>6. SameMeaning(Meaning(s, shown), Meaning(s, r))
    BY <2>2, <2>5 DEF Agree, OddWeek, Wraps, Four
  <2> HIDE DEF r
  <2> QED BY <2>1, <2>6, SameMeaningChains DEF Agree
<1> QED BY <1>2, <1>3

(* What a writer of /etc/anacrontab puts there fits.                       *)
LEMMA WrittenDaysFit ==
  ASSUME NEW d, Canonical("anacron", d)
  PROVE  ~Wraps(d)
<1> SUFFICES ASSUME d[1] = "number" PROVE ~(d[2] * Day >= Width)
  BY DEF Wraps
<1>1. d[2] \in Nat /\ d[2] * Day < Width
  BY DEF Canonical, Held, IsWord
<1>2. d[2] * Day \in Nat /\ Width \in Nat
  BY <1>1, Clock
<1> QED BY <1>1, <1>2

(* Of several rules the list shows one, or one that it takes for a rhythm. *)
LEMMA FirstIsOne ==
  ASSUME NEW n \in Nat, NEW S, S \subseteq 1..n, S # {}
  PROVE  Min(S) \in S
<1> DEFINE R == {ss \in Nat \X Nat : ss[1] < ss[2]}
<1>1. IsWellFoundedOn(R, Nat)
  BY NatLessThanWellFounded DEF OpToRel
<1>2. S \subseteq Nat
  OBVIOUS
<1> HIDE DEF R
<1>3. PICK m \in S : \A k \in S : <<k, m>> \notin R
  BY <1>1, <1>2, WFMin
<1>4. \A k \in S : m <= k
  <2> SUFFICES ASSUME NEW k \in S PROVE ~(k < m)
    BY <1>2
  <2>1. k \in Nat /\ m \in Nat
    BY <1>2
  <2> QED BY <1>3, <2>1 DEF R
<1> QED BY <1>4 DEF Min

(* What the list shows of several rules is one of them, as a rhythm.       *)
LEMMA ChosenIsOne ==
  ASSUME NEW s, NEW rules, HeldRules(s, rules)
  PROVE  \E i \in DOMAIN rules : Chosen(s, rules) = AsRhythm(rules[i])
<1> DEFINE dates   == {i \in DOMAIN rules : rules[i][1] = "calendar"}
           rhythms == {i \in DOMAIN rules : Told(AsRhythm(rules[i]))}
           numbers == {i \in DOMAIN rules : rules[i][1] = "number"}
           first   == CASE s = "systemd" /\ dates # {}                   -> Min(dates)
                        [] s = "systemd" /\ dates = {} /\ rhythms # {} -> Min(rhythms)
                        [] s = "launchd" /\ numbers # {}                 -> Min(numbers)
                        [] OTHER                                         -> 1
<1>1. Len(rules) \in Nat \ {0} /\ DOMAIN rules = 1..Len(rules)
  BY DEF HeldRules
<1>2. 1 \in DOMAIN rules
  BY <1>1
<1>3. \A S \in SUBSET (DOMAIN rules) : S # {} => Min(S) \in DOMAIN rules
  BY <1>1, FirstIsOne
<1>4. dates \in SUBSET (DOMAIN rules) /\ rhythms \in SUBSET (DOMAIN rules) /\ numbers \in SUBSET (DOMAIN rules)
  OBVIOUS
<1>5. Chosen(s, rules) = AsRhythm(rules[first])
  BY DEF Chosen
<1> HIDE DEF dates, rhythms, numbers
<1>6. first \in DOMAIN rules
  BY <1>2, <1>3, <1>4
<1> HIDE DEF first
<1> QED BY <1>5, <1>6

(* So a file can hold it.                                                  *)
LEMMA ChosenIsHeld ==
  ASSUME NEW s, NEW rules, HeldRules(s, rules)
  PROVE  Held(s, Chosen(s, rules))
BY ChosenIsOne DEF HeldRules

(* What a file can hold of ours is shown as it is.                         *)
LEMMA HeldAsItIs ==
  ASSUME NEW s, NEW d, Held(s, d)
  PROVE  /\ AsRhythm(d) = d /\ HeldRules(s, <<d>>) /\ Chosen(s, <<d>>) = d
         /\ d[1] # "after"
<1>1. d[1] # "after"
  BY DEF Held, IsWord
<1>2. AsRhythm(d) = d
  BY <1>1 DEF AsRhythm
<1>3. HeldRules(s, <<d>>)
  BY <1>2 DEF HeldRules
<1>4. \A i \in DOMAIN <<d>> : <<d>>[i] = d
  OBVIOUS
<1> QED BY <1>1, <1>2, <1>3, <1>4, ChosenIsOne

-----------------------------------------------------------------------------
(* The invariant of the edits.                                             *)

(* The name an edit passes on is one the writer takes.                     *)
NameIsTaken(t) ==
  (DeriveName(t) = NoName \/ Safe(DeriveName(t))) /\ SameName(t, DeriveName(t))

(* A job that could be created has a name an edit can pass on, and an id   *)
(* that leads back.                                                        *)
LEMMA NewNameIsTaken ==
  ASSUME NEW t \in NewTargets, NEW c, Creatable(t, c)
  PROVE  NameIsTaken(t) /\ Found(t) = t
<1>1. WellPlaced(t) /\ MayBeNew(t)
  BY TargetsAssumption
<1>2. /\ t = Target(t.source, t.kind, t.at, t.line) /\ Placed(t)
      /\ t.at \in Text \ {<<>>}
  BY <1>1, Words DEF WellPlaced
<1>3. NewName(t) # NoName => Safe(NewName(t)) /\ (t.source = "systemd" => ~EndsWith(NewName(t), ".timer"))
  BY DEF Creatable, ValidName
<1>4. CASE t.source = "systemd"
  <2> DEFINE n == Len(t.at)
             S == {0} \cup {i \in DOMAIN t.at : t.at[i] # ".timer"}
  <2>0. t.kind \in {"system", "user"}
    BY <1>2, <1>4 DEF Placed
  <2>1. n \in Nat \ {0} /\ DOMAIN t.at = 1..n /\ t.at[n] = ".timer"
    BY <1>2, <1>4 DEF Placed, EndsWith, Last, Text
  <2>2. Stem(t.at) = SubSeq(t.at, 1, n - 1) /\ NewName(t) = Stem(t.at)
    BY <1>4, <2>0 DEF Stem, Front, NewName
  <2>3. n > 1 => t.at[n - 1] # ".timer"
    <3> SUFFICES ASSUME n > 1 PROVE t.at[n - 1] # ".timer"
      OBVIOUS
    <3> DEFINE u == SubSeq(t.at, 1, n - 1)
    <3>1. Len(u) = n - 1 /\ u[n - 1] = t.at[n - 1] /\ u # <<>>
      <4>1. \A x \in Text, k \in Nat \ {0} : k <= Len(x) =>
              Len(SubSeq(x, 1, k)) = k /\ SubSeq(x, 1, k)[k] = x[k] /\ SubSeq(x, 1, k) # <<>>
        BY DEF Text
      <4>2. n - 1 \in Nat \ {0} /\ n - 1 <= Len(t.at)
        BY <2>1
      <4> QED BY <1>2, <4>1, <4>2
    <3>2. ~EndsWith(u, ".timer")
      BY <1>3, <1>4, <2>2, <3>1 DEF NoName
    <3> QED BY <3>1, <3>2 DEF EndsWith, Last
  <2>4. n - 1 \in S /\ \A i \in S : n - 1 >= i
    <3>1. n - 1 \in S
      <4>1. CASE n = 1
        BY <4>1
      <4>2. CASE n > 1
        <5>1. n - 1 \in DOMAIN t.at
          BY <2>1, <4>2
        <5> QED BY <2>3, <4>2, <5>1
      <4> HIDE DEF S, n
      <4>3. n = 1 \/ n > 1
        BY <2>1
      <4> QED BY <4>1, <4>2, <4>3
    <3>2. \A i \in S : i <= n /\ i # n /\ i \in Nat
      BY <2>1
    <3> HIDE DEF S, n
    <3> QED BY <2>1, <3>1, <3>2
  <2>5. Max(S) = n - 1
    <3>1. \A m \in S : (\A i \in S : m >= i) => m = n - 1
      BY <2>1, <2>4
    <3> QED BY <2>4, <3>1 DEF Max
  <2>6. TrimTimer(t.at) = Stem(t.at)
    BY <2>2, <2>5 DEF TrimTimer
  <2>7. DeriveName(t) = NewName(t) /\ SameName(t, DeriveName(t))
    BY <1>4, <2>0, <2>2, <2>6 DEF DeriveName, SameName
  <2>8. Found(t) = t
    BY <1>1, <1>4, TimerIsFound
  <2> QED BY <1>3, <2>7, <2>8 DEF NameIsTaken
<1>5. CASE t.source = "cron"
  <2>1. t.kind \in {"line", "user"}
    BY <1>1, <1>2, <1>5 DEF Placed, MayBeNew
  <2>2. SameName(t, DeriveName(t))
    BY <1>5 DEF SameName
  <2>3. CASE t.kind = "line"
    <3>1. DeriveName(t) = NewName(t)
      BY <1>5, <2>3 DEF DeriveName, NewName
    <3> QED BY <1>1, <1>3, <1>5, <2>2, <2>3, <3>1, LineIsFound DEF NameIsTaken
  <2>4. CASE t.kind = "user"
    <3>1. DeriveName(t) = NoName
      BY <1>5, <2>4 DEF DeriveName
    <3>2. Safe(t.at)
      BY <1>1, <1>5, <2>4 DEF MayBeNew
    <3> QED BY <1>1, <1>5, <2>2, <2>4, <3>1, <3>2, UserLineIsFound DEF NameIsTaken
  <2> QED BY <2>1, <2>3, <2>4
<1>6. CASE t.source \in {"anacron", "launchd"}
  <2>1. t.kind = "job"
    BY <1>2, <1>6 DEF Placed
  <2>2. DeriveName(t) = t.at /\ NewName(t) = t.at
    BY <1>6, <2>1 DEF DeriveName, NewName
  <2>3. Safe(t.at)
    BY <1>2, <1>3, <2>2 DEF NoName
  <2>4. SameName(t, DeriveName(t))
    BY <1>6, <2>2 DEF SameName
  <2> QED BY <1>1, <1>6, <2>2, <2>3, <2>4, NamedJobIsFound DEF NameIsTaken
<1> QED BY <1>2, <1>4, <1>5, <1>6 DEF Placed

-----------------------------------------------------------------------------
JobIsPlaced ==
  pc # "none" => /\ WellPlaced(target) /\ source \in Sources
                 /\ HeldRules(source, disk) /\ command \in Commands

JobOfOursIsFine ==
  ours => /\ pc # "none" /\ target \in NewTargets /\ Creatable(target, command)
          /\ disk = <<disk[1]>> /\ Canonical(source, disk[1])

(* Days that wrap in the file wrapped in what was asked for.               *)
Stands(s, text, d) == Agree(s, text, d) /\ (s = "anacron" /\ Wraps(d) => Wraps(text))

(* Several rules, or one that fires once, were found on the machine.       *)
AskedFor(rules) ==
  /\ Len(rules) \in Nat \ {0} /\ DOMAIN rules = 1..Len(rules)
  /\ Len(rules) > 1 \/ rules[1][1] = "after" => HeldRules(source, rules)

OneStands(rules, d) == \E i \in DOMAIN rules : Stands(source, AsRhythm(rules[i]), d)
MeaningIsAgreed ==
  pc # "none" =>
    /\ AskedFor(wanted)
    /\ \/ wanted = disk
       \/ disk = <<disk[1]>> /\ Held(source, disk[1]) /\ OneStands(wanted, disk[1])

OneIsMeant(rules, schedule) ==
  \E i \in DOMAIN rules : KeptMeaning(source, AsRhythm(rules[i]), schedule)
PlanIsFine ==
  pc = "planned" =>
    /\ Schedule(source, spec.schedule) /\ spec.command \in Commands
    /\ AskedFor(spec.asked) /\ OneIsMeant(spec.asked, spec.schedule)
    /\ ours /\ kept /\ face = "cli" => spec = Merge(Shown, wanted)

EInv == JobIsPlaced /\ JobOfOursIsFine /\ MeaningIsAgreed /\ PlanIsFine /\ UnchangedEditIsAccepted

(* A sequence of one has the one.                                          *)
LEMMA Alone ==
  ASSUME NEW d
  PROVE  Len(<<d>>) = 1 /\ DOMAIN <<d>> = 1..1 /\ <<d>>[1] = d /\ <<d>> = <<<<d>>[1]>>
OBVIOUS

(* What is asked for in one text.                                          *)
LEMMA OneText ==
  ASSUME NEW text, text[1] # "after"
  PROVE  AskedFor(<<text>>) /\ \A i \in DOMAIN <<text>> : AsRhythm(<<text>>[i]) = text
<1>1. Len(<<text>>) = 1 /\ DOMAIN <<text>> = 1..1 /\ <<text>>[1] = text
  BY Alone
<1>2. AsRhythm(text) = text
  BY DEF AsRhythm
<1> QED BY <1>1, <1>2 DEF AskedFor

(* What is shown stands for a rule that was asked for.                     *)
LEMMA ShownStands ==
  ASSUME JobIsPlaced, MeaningIsAgreed, pc # "none"
  PROVE  /\ Held(source, Chosen(source, disk))
         /\ OneStands(wanted, Chosen(source, disk))
<1>1. HeldRules(source, disk)
  BY DEF JobIsPlaced
<1>2. Held(source, Chosen(source, disk))
  BY <1>1, ChosenIsHeld
<1>3. CASE wanted = disk
  <2>1. PICK i \in DOMAIN disk : Chosen(source, disk) = AsRhythm(disk[i])
    BY <1>1, ChosenIsOne
  <2>2. Stands(source, AsRhythm(wanted[i]), Chosen(source, disk))
    BY <1>3, <2>1 DEF Stands, Agree, SameMeaning
  <2> QED BY <1>2, <1>3, <2>1, <2>2 DEF OneStands
<1>4. CASE disk = <<disk[1]>> /\ Held(source, disk[1]) /\ OneStands(wanted, disk[1])
  <2>1. Chosen(source, <<disk[1]>>) = disk[1]
    BY <1>4, HeldAsItIs
  <2>2. Chosen(source, disk) = disk[1]
    BY <1>4, <2>1
  <2> QED BY <1>4, <2>2
<1> QED BY <1>3, <1>4 DEF MeaningIsAgreed

(* A command that was taken is taken again, as it is shown and as it is    *)
(* wrapped.                                                                *)
LEMMA CommandIsTaken ==
  ASSUME NEW c \in Commands, ValidCommand(c), NEW s
  PROVE  /\ c # NoCommand /\ Written(s, c) \in Commands /\ ValidCommand(Written(s, c))
         /\ Written(s, c) # NoCommand
<1>1. Wrapped(c) = c \/ (c.shells < MostShells /\ Wrapped(c) = [c EXCEPT !.shells = c.shells + 1])
  BY DEF Wrapped
<1>2. c.shells \in 0..2 /\ MostShells = 2
  BY DEF Commands, MostShells
<1>3. Wrapped(c) \in Commands
  BY <1>1, <1>2 DEF Commands
<1>4. ValidCommand(Wrapped(c))
  <2>1. CASE Wrapped(c) = c
    BY <2>1
  <2>2. CASE c.shells < MostShells /\ Wrapped(c) = [c EXCEPT !.shells = c.shells + 1]
    <3>1. Wrapped(c).shells = c.shells + 1
      BY <2>2 DEF Commands
    <3> QED BY <1>2, <3>1 DEF ValidCommand
  <2> QED BY <1>1, <2>1, <2>2
<1>5. ~ValidCommand(NoCommand)
  BY DEF ValidCommand, NoCommand
<1> QED BY <1>3, <1>4, <1>5 DEF Written

(* The same of the command as the list shows it.                           *)
LEMMA ShownIsTaken ==
  ASSUME command \in Commands
  PROVE  ShownCommand \in Commands /\ (ValidCommand(command) => ValidCommand(ShownCommand))
<1>1. ShownCommand = command \/ ShownCommand = [command EXCEPT !.text = "run"]
  BY DEF ShownCommand
<1>2. [command EXCEPT !.text = "run"] \in Commands /\ [command EXCEPT !.text = "run"].text = "run"
  BY DEF Commands
<1> QED BY <1>1, <1>2 DEF ValidCommand

(* What can be created with one command can be with another.               *)
LEMMA CreatableAgain ==
  ASSUME NEW t, NEW c, Creatable(t, c), NEW d, d # NoCommand, ValidCommand(d)
  PROVE  Creatable(t, d)
BY DEF Creatable, ValidSpec, JobSpec

(* The invariant holds at first.                                           *)
LEMMA EInitInv == EInit => EInv
<1> SUFFICES ASSUME EInit PROVE EInv
  OBVIOUS
<1>1. CASE pc = "none" /\ Fresh(NoTarget, <<>>, NoCommand, FALSE)
  BY <1>1
     DEF Fresh, EInv, JobIsPlaced, JobOfOursIsFine, MeaningIsAgreed, PlanIsFine, UnchangedEditIsAccepted
<1>2. CASE pc = "listed" /\ \E j \in TheirJobs : /\ j.target.source \in Sources
                                                 /\ Fresh(j.target, j.disk, j.command, FALSE)
  <2>1. PICK j \in TheirJobs : j.target.source \in Sources /\ Fresh(j.target, j.disk, j.command, FALSE)
    BY <1>2
  <2>2. WellPlaced(j.target) /\ HeldRules(j.target.source, j.disk) /\ j.command \in Commands
    BY TargetsAssumption, JobsAssumption
  <2>3. /\ target = j.target /\ disk = j.disk /\ ours = FALSE /\ wanted = disk /\ outcome = "none"
        /\ command = j.command
    BY <2>1 DEF Fresh
  <2>4. HeldRules(source, disk)
    BY <2>2, <2>3 DEF source
  <2>5. AskedFor(wanted)
    BY <2>3, <2>4 DEF AskedFor, HeldRules
  <2> QED BY <1>2, <2>1, <2>2, <2>3, <2>4, <2>5
          DEF source, EInv, JobIsPlaced, JobOfOursIsFine, MeaningIsAgreed, PlanIsFine,
              UnchangedEditIsAccepted
<1> QED BY <1>1, <1>2 DEF EInit

(* A text that is taken is typed.                                          *)
LEMMA FormedIsCounted ==
  ASSUME NEW s, NEW text, Formed(text)
  PROVE  Counted(text) /\ FieldsCanBeRead(s, text) /\ text[1] # "after"
BY DEF Formed, Counted, FieldsCanBeRead, FieldsText

(* What a writer writes, it holds.                                         *)
LEMMA WrittenIsHeld ==
  ASSUME NEW s \in Four, NEW sch, Schedule(s, sch), Render(s, sch) # Refused
  PROVE  /\ Canonical(s, Render(s, sch)) /\ Held(s, Render(s, sch))
         /\ HeldRules(s, <<Render(s, sch)>>)
         /\ s = "anacron" => ~Wraps(Render(s, sch))
<1>1. Canonical(s, Render(s, sch))
  BY Rendered
<1>2. Held(s, Render(s, sch))
  BY <1>1 DEF Canonical
<1> QED BY <1>1, <1>2, WrittenDaysFit, HeldAsItIs

(* A new job keeps it.                                                     *)
LEMMA AddInv ==
  ASSUME EInv, NEW t \in NewTargets, NEW c \in TypedCommands, NEW text \in Texts(t.source),
         Add(t, text, c)
  PROVE  EInv'
<1> DEFINE written == Render(t.source, ParseSchedule(t.source, text))
           fits == /\ ParseSchedule(t.source, text) # Refused
                   /\ Creatable(t, c) /\ written # Refused
<1>1. pc = "none" /\ t.source \in Sources /\ ~ours
  BY DEF Add, EInv, JobOfOursIsFine
<1>2. CASE fits
  <2>1. /\ target' = t /\ disk' = <<written>> /\ command' = Written(t.source, c) /\ ours' = TRUE
        /\ wanted' = <<text>> /\ pc' = "listed" /\ outcome' = "accepted"
    BY <1>2 DEF Add
  <2>2. t.source \in Four /\ Counted(text) /\ FieldsCanBeRead(t.source, text) /\ text[1] # "after"
    <3>1. t.source \in Four
      BY <1>1, SourcesAssumption DEF Four
    <3>2. Formed(text)
      BY <1>1, TextsAssumption
    <3> QED BY <3>1, <3>2, FormedIsCounted
  <2>3. Schedule(t.source, ParseSchedule(t.source, text))
    BY <1>2, <2>2, Parsed
  <2>4. /\ Canonical(t.source, written) /\ Held(t.source, written)
        /\ HeldRules(t.source, <<written>>)
        /\ t.source = "anacron" => ~Wraps(written)
    BY <1>2, <2>2, <2>3, WrittenIsHeld
  <2>5. Agree(t.source, text, written)
    BY <1>2, <2>2, TypedMeansTheSame DEF Typed
  <2>6. WellPlaced(t)
    BY TargetsAssumption
  <2>7. command' \in Commands /\ Creatable(t, command')
    <3>1. c \in Commands /\ ValidCommand(c)
      BY <1>2 DEF TypedCommands, Creatable
    <3> QED BY <1>2, <2>1, <3>1, CommandIsTaken, CreatableAgain
  <2> HIDE DEF written
  <2>8. disk'[1] = written /\ disk' = <<disk'[1]>>
    BY <2>1, Alone
  <2>9. source' = t.source
    BY <2>1 DEF source
  <2>10. JobIsPlaced'
    BY <1>1, <2>1, <2>4, <2>6, <2>7, <2>9 DEF JobIsPlaced
  <2>11. JobOfOursIsFine'
    BY <2>1, <2>4, <2>7, <2>8, <2>9 DEF JobOfOursIsFine
  <2>12. MeaningIsAgreed'
    <3>1. Stands(t.source, text, written)
      BY <2>4, <2>5 DEF Stands
    <3>2. 1 \in DOMAIN <<text>> /\ AsRhythm(<<text>>[1]) = text
      <4>1. 1 \in DOMAIN <<text>>
        OBVIOUS
      <4> QED BY <2>2, <4>1, OneText
    <3>3. OneStands(wanted, disk[1])'
      BY <2>1, <2>8, <2>9, <3>1, <3>2 DEF OneStands
    <3>4. AskedFor(wanted)'
      <4>1. Len(<<text>>) = 1 /\ DOMAIN <<text>> = 1..1 /\ <<text>>[1] = text
        BY Alone
      <4> QED BY <2>1, <2>2, <4>1 DEF AskedFor
    <3> QED BY <2>4, <2>8, <2>9, <3>3, <3>4 DEF MeaningIsAgreed
  <2> QED BY <2>1, <2>10, <2>11, <2>12 DEF EInv, PlanIsFine, UnchangedEditIsAccepted
<1>3. CASE ~fits
  <2>1. UNCHANGED <<place, pc, spec, face, kept>>
    BY <1>3 DEF Add
  <2> QED BY <1>1, <2>1
          DEF place, source, EInv, JobIsPlaced, JobOfOursIsFine, MeaningIsAgreed, PlanIsFine,
              UnchangedEditIsAccepted
<1> QED BY <1>2, <1>3

(* What is the same for both edits.                                        *)
LEMMA SubmitInv ==
  ASSUME EInv, pc = "listed", UNCHANGED place, NEW s, Submit(s),
         s.schedule # Refused => /\ Schedule(source, s.schedule) /\ s.command \in Commands
                                 /\ AskedFor(s.asked) /\ OneIsMeant(s.asked, s.schedule),
         ours /\ kept' /\ face' = "cli" =>
           /\ s = Merge(Shown, wanted) /\ s.schedule # Refused /\ ValidSpec(s)
  PROVE  EInv'
<1>1. /\ target' = target /\ disk' = disk /\ command' = command /\ ours' = ours
      /\ wanted' = wanted
  BY DEF place
<1>2. source' = source
  BY <1>1 DEF source
<1>3. JobIsPlaced' /\ JobOfOursIsFine'
  BY <1>1, <1>2 DEF Submit, EInv, JobIsPlaced, JobOfOursIsFine
<1>4. MeaningIsAgreed'
  BY <1>1, <1>2 DEF Submit, EInv, MeaningIsAgreed, AskedFor, OneStands
<1>5. PlanIsFine'
  <2>1. CASE pc' = "planned"
    <3>1. spec' = s /\ s.schedule # Refused
      BY <2>1 DEF Submit
    <3>2. Shown' = Shown /\ Merge(Shown, wanted)' = Merge(Shown, wanted)
      BY <1>1, <1>2 DEF Shown, Merge, ShownCommand
    <3>3. AskedFor(s.asked)' <=> AskedFor(s.asked)
      BY <3>1, <1>2 DEF AskedFor
    <3> QED BY <1>1, <1>2, <3>1, <3>2 DEF PlanIsFine, AskedFor, OneIsMeant
  <2> QED BY <2>1 DEF PlanIsFine
<1>6. UnchangedEditIsAccepted'
  BY <1>1 DEF Submit, UnchangedEditIsAccepted
<1> QED BY <1>3, <1>4, <1>5, <1>6 DEF EInv

(* An edit that leaves the schedule alone keeps it.                        *)
LEMMA EditInv ==
  ASSUME EInv, NEW f \in {"cli", "form"}, Edit(f)
  PROVE  EInv'
<1> DEFINE s == IF f = "cli" THEN Merge(Shown, wanted) ELSE ToSpec(ScheduleText(Shown), wanted)
           d == Chosen(source, disk)
<1>1. pc = "listed" /\ face' = f /\ kept' = TRUE /\ UNCHANGED place /\ Submit(s)
  BY DEF Edit
<1>2. source \in Four /\ AskedFor(wanted) /\ command \in Commands
  BY <1>1, SourcesAssumption DEF EInv, JobIsPlaced, MeaningIsAgreed, Four
<1>2a. Held(source, d) /\ Shown = Read(source, d)
  BY <1>1, ShownStands DEF EInv, Shown
<1>2b. PICK i \in DOMAIN wanted : Stands(source, AsRhythm(wanted[i]), d)
  BY <1>1, ShownStands DEF EInv, OneStands
<1> HIDE DEF d
<1>3. Schedule(source, Shown) /\ Shown # Refused /\ Counted(ScheduleText(Shown))
  BY <1>2, <1>2a, ReadIsASchedule DEF Schedule, Refused
<1>4. s.schedule # Refused =>
        /\ Schedule(source, s.schedule) /\ s.command \in Commands
        /\ AskedFor(s.asked) /\ OneIsMeant(s.asked, s.schedule)
  <2>1. CASE f = "cli"
    <3>1. s.schedule = Shown /\ s.asked = wanted /\ s.command = ShownCommand
      BY <2>1 DEF Merge, JobSpec
    <3>2. KeptMeaning(source, AsRhythm(wanted[i]), Shown)
      BY <1>2, <1>2a, <1>2b, ShownKeepsTheMeaning DEF Stands
    <3> QED BY <1>2, <1>3, <3>1, <3>2, ShownIsTaken DEF OneIsMeant
  <2>2. CASE f = "form"
    <3>1. /\ s.schedule = ParseSchedule(source, ScheduleText(Shown)) /\ s.asked = wanted
          /\ s.command = ShownCommand
      BY <2>2 DEF ToSpec, JobSpec
    <3>2. s.schedule # Refused => Schedule(source, s.schedule)
      BY <1>2, <1>3, <3>1, Parsed
    <3>3. s.schedule # Refused => KeptMeaning(source, AsRhythm(wanted[i]), s.schedule)
      BY <1>2, <1>2a, <1>2b, <3>1, FormKeepsTheMeaning DEF Stands
    <3> QED BY <1>2, <3>1, <3>2, <3>3, ShownIsTaken DEF OneIsMeant
  <2> QED BY <2>1, <2>2
<1>5. ours /\ f = "cli" => s = Merge(Shown, wanted) /\ s.schedule # Refused /\ ValidSpec(s)
  <2> SUFFICES ASSUME ours, f = "cli"
               PROVE  s = Merge(Shown, wanted) /\ s.schedule # Refused /\ ValidSpec(s)
    OBVIOUS
  <2>1. target \in NewTargets /\ Creatable(target, command)
    BY DEF EInv, JobOfOursIsFine
  <2>2. NameIsTaken(target) /\ ValidCommand(command)
    BY <2>1, NewNameIsTaken DEF Creatable
  <2>3. ShownCommand # NoCommand
    BY <1>2, <2>2, ShownIsTaken, CommandIsTaken
  <2> QED BY <1>3, <2>2, <2>3 DEF Merge, JobSpec, ValidSpec, NameIsTaken
<1> HIDE DEF s
<1> QED BY <1>1, <1>4, <1>5, SubmitInv

(* An edit of the schedule keeps it.                                       *)
LEMMA RescheduleInv ==
  ASSUME EInv, NEW f \in {"cli", "form"}, NEW text \in Retyped(source), Reschedule(f, text)
  PROVE  EInv'
<1> DEFINE s == IF f = "cli" THEN Merge(ParseSchedule(source, text), <<text>>) ELSE ToSpec(text, <<text>>)
<1>1. pc = "listed" /\ face' = f /\ kept' = FALSE /\ UNCHANGED place /\ Submit(s)
  BY DEF Reschedule
<1>2. /\ source \in Four /\ Counted(text) /\ FieldsCanBeRead(source, text) /\ text[1] # "after"
      /\ command \in Commands
  <2>1. source \in Sources /\ command \in Commands
    BY <1>1 DEF EInv, JobIsPlaced
  <2>2. Formed(text)
    BY <2>1, TextsAssumption
  <2> QED BY <2>1, <2>2, SourcesAssumption, FormedIsCounted DEF Four
<1>3. s.schedule = ParseSchedule(source, text) /\ s.asked = <<text>> /\ s.command = ShownCommand
  BY DEF Merge, ToSpec, JobSpec
<1>4. s.schedule # Refused =>
        /\ Schedule(source, s.schedule) /\ s.command \in Commands
        /\ AskedFor(s.asked) /\ OneIsMeant(s.asked, s.schedule)
  <2>1. s.schedule # Refused => Schedule(source, s.schedule) /\ KeptMeaning(source, text, s.schedule)
    BY <1>2, <1>3, Parsed, TypedMeansTheSame DEF Typed, KeptMeaning
  <2>2. AskedFor(<<text>>) /\ 1 \in DOMAIN <<text>> /\ AsRhythm(<<text>>[1]) = text
    BY <1>2, OneText, Alone
  <2> QED BY <1>2, <1>3, <2>1, <2>2, ShownIsTaken DEF OneIsMeant
<1> HIDE DEF s
<1> QED BY <1>1, <1>4, SubmitInv

(* The update keeps it.                                                    *)
LEMMA UpdateInv ==
  ASSUME EInv, Update
  PROVE  EInv'
<1> DEFINE found == ParseId(source, ToId(target))
           written == Render(source, spec.schedule)
           fits == /\ found # NoTarget /\ found.kind # "script" /\ ValidCommand(spec.command)
                   /\ SameName(found, spec.name) /\ written # Refused
<1>1. /\ pc = "planned" /\ pc' = "listed" /\ UNCHANGED <<ours, face, kept>>
  BY DEF Update
<1>2. WellPlaced(target) /\ source \in Sources /\ source \in Four /\ found = Found(target)
  BY <1>1, SourcesAssumption DEF EInv, JobIsPlaced, Four, Found, source
<1>3. fits => found = target
  BY <1>2, IdLeadsBack
<1>4. /\ Schedule(source, spec.schedule) /\ spec.command \in Commands
      /\ AskedFor(spec.asked) /\ OneIsMeant(spec.asked, spec.schedule) /\ command \in Commands
  BY <1>1 DEF EInv, PlanIsFine, JobIsPlaced
<1>4a. ours => /\ target \in NewTargets /\ Creatable(target, command)
               /\ disk = <<disk[1]>> /\ Canonical(source, disk[1])
  BY DEF EInv, JobOfOursIsFine
<1> HIDE DEF found, written
<1>5. CASE fits
  <2>1. /\ target' = target /\ disk' = <<written>> /\ wanted' = spec.asked /\ outcome' = "accepted"
        /\ command' \in {command, Written(source, spec.command)}
        /\ ours => command' = command \/ ValidCommand(spec.command)
    BY <1>3, <1>5 DEF Update, found, written
  <2>2. /\ Canonical(source, written) /\ Held(source, written) /\ HeldRules(source, <<written>>)
        /\ source = "anacron" => ~Wraps(written)
    BY <1>2, <1>4, <1>5, WrittenIsHeld DEF written
  <2>3. OneStands(spec.asked, written)
    <3>1. PICK i \in DOMAIN spec.asked : KeptMeaning(source, AsRhythm(spec.asked[i]), spec.schedule)
      BY <1>4 DEF OneIsMeant
    <3>2. Stands(source, AsRhythm(spec.asked[i]), written)
      BY <1>5, <2>2, <3>1 DEF KeptMeaning, written, Stands
    <3> QED BY <3>2 DEF OneStands
  <2>4. source' = source
    BY <2>1 DEF source
  <2>5. disk'[1] = written /\ disk' = <<disk'[1]>>
    BY <2>1, Alone
  <2>6. command' \in Commands /\ (ours => Creatable(target, command'))
    BY <1>4, <1>4a, <1>5, <2>1, CommandIsTaken, CreatableAgain
  <2>7. JobIsPlaced'
    BY <1>2, <2>1, <2>2, <2>4, <2>6 DEF JobIsPlaced
  <2>8. JobOfOursIsFine'
    BY <1>1, <1>4a, <2>1, <2>2, <2>4, <2>5, <2>6 DEF JobOfOursIsFine
  <2>9. MeaningIsAgreed'
    BY <1>4, <2>1, <2>2, <2>3, <2>4, <2>5 DEF MeaningIsAgreed, AskedFor, OneStands
  <2> QED BY <1>1, <2>1, <2>7, <2>8, <2>9 DEF EInv, PlanIsFine, UnchangedEditIsAccepted
<1>6. CASE ~fits
  <2>1. target' = target /\ disk' = disk /\ wanted' = wanted /\ command' = command
    BY <1>6 DEF Update, found, written
  <2>2. ASSUME ours, kept, face = "cli" PROVE Shown = Unshown
    <3>1. spec = Merge(Shown, wanted)
      BY <1>1, <2>2 DEF EInv, PlanIsFine
    <3>2. spec.schedule = Shown /\ spec.command = ShownCommand /\ spec.name = DeriveName(target)
      BY <3>1 DEF Merge, JobSpec
    <3>3. NameIsTaken(target) /\ found = target
      BY <1>2, <1>4a, <2>2, NewNameIsTaken
    <3>4. target # NoTarget /\ target.kind # "script"
      BY <1>2, <1>4a, <2>2, TargetsAssumption DEF WellPlaced, MayBeNew, NoTarget, Target
    <3>5. ValidCommand(spec.command)
      BY <1>4, <1>4a, <2>2, <3>2, ShownIsTaken DEF Creatable
    <3>6. Render(source, Shown) = Refused
      BY <1>6, <3>2, <3>3, <3>4, <3>5 DEF NameIsTaken, written
    <3>7. Shown = Read(source, disk[1])
      <4>1. Held(source, disk[1])
        BY <1>4a, <2>2 DEF Canonical
      <4>2. Chosen(source, <<disk[1]>>) = disk[1]
        BY <4>1, HeldAsItIs
      <4> QED BY <1>4a, <2>2, <4>2 DEF Shown
    <3> QED BY <1>2, <1>4a, <2>2, <3>6, <3>7, WritesAgain
  <2>3. UnchangedEditIsAccepted'
    BY <1>1, <2>1, <2>2 DEF UnchangedEditIsAccepted, Shown, source, Unshown
  <2>4. source' = source
    BY <2>1 DEF source
  <2>5. JobIsPlaced' /\ JobOfOursIsFine'
    BY <1>1, <1>4a, <2>1, <2>4 DEF EInv, JobIsPlaced, JobOfOursIsFine
  <2>6. MeaningIsAgreed'
    BY <1>1, <2>1, <2>4 DEF EInv, MeaningIsAgreed, AskedFor, OneStands
  <2> QED BY <1>1, <2>3, <2>5, <2>6 DEF EInv, PlanIsFine
<1> QED BY <1>5, <1>6

(* Every step keeps it.                                                    *)
LEMMA EStepInv == EInv /\ [ENext]_evars => EInv'
<1> SUFFICES ASSUME EInv, [ENext]_evars PROVE EInv'
  OBVIOUS
<1>1. CASE UNCHANGED evars
  BY <1>1 DEF evars, source, Merge, Shown, ShownCommand, EInv, JobIsPlaced, JobOfOursIsFine,
              MeaningIsAgreed, AskedFor, OneStands, OneIsMeant, PlanIsFine, UnchangedEditIsAccepted
<1>2. CASE \E t \in NewTargets, c \in TypedCommands : \E text \in Texts(t.source) : Add(t, text, c)
  BY <1>2, AddInv
<1>3. CASE \E f \in {"cli", "form"} : Edit(f)
  BY <1>3, EditInv
<1>4. CASE \E f \in {"cli", "form"} : \E text \in Retyped(source) : Reschedule(f, text)
  BY <1>4, RescheduleInv
<1>5. CASE Update
  BY <1>5, UpdateInv
<1> QED BY <1>1, <1>2, <1>3, <1>4, <1>5 DEF ENext

(* The inductive invariant: places, ids, names and schedules are such that *)
(* every edit has one to work on.                                          *)
THEOREM EInvHolds == EditingSpec => []EInv
<1> QED BY EInitInv, EStepInv, PTL DEF EditingSpec

(* The types of the job, its place and the edit in progress.               *)
THEOREM EditingTypeCorrect == EditingSpec => []ETypeOK
<1>0. NoCommand \in Commands
  BY DEF NoCommand, Commands, MostShells
<1>1. EInit => ETypeOK
  <2> SUFFICES ASSUME EInit PROVE ETypeOK
    OBVIOUS
  <2>1. ASSUME NEW t \in {j.target : j \in TheirJobs} \cup {NoTarget}, NEW d, NEW c \in Commands,
               Fresh(t, d, c, FALSE), pc \in {"none", "listed"}
        PROVE  ETypeOK
    BY <1>0, <2>1 DEF Fresh, ETypeOK, NoSpec, JobSpec
  <2>2. CASE Fresh(NoTarget, <<>>, NoCommand, FALSE) /\ pc = "none"
    BY <1>0, <2>1, <2>2
  <2>3. CASE pc = "listed" /\ \E j \in TheirJobs : Fresh(j.target, j.disk, j.command, FALSE)
    <3>1. PICK j \in TheirJobs : Fresh(j.target, j.disk, j.command, FALSE)
      BY <2>3
    <3>2. j.target \in {k.target : k \in TheirJobs} /\ j.command \in Commands
      BY JobsAssumption
    <3> QED BY <2>1, <2>3, <3>1, <3>2
  <2> QED BY <2>2, <2>3 DEF EInit
<1>2. EInv /\ ETypeOK /\ [ENext]_evars => ETypeOK'
  <2> SUFFICES ASSUME EInv, ETypeOK, [ENext]_evars PROVE ETypeOK'
    OBVIOUS
  <2>1. ASSUME UNCHANGED place, NEW s, s.command \in Commands, Submit(s),
               face' \in {"cli", "form"}, kept' \in BOOLEAN
        PROVE  ETypeOK'
    <3>1. /\ pc' \in {"none", "listed", "planned"} /\ spec'.command \in Commands
          /\ outcome' \in {"none", "accepted", "refused"}
      BY <2>1 DEF Submit, ETypeOK
    <3> QED BY <2>1, <3>1 DEF place, ETypeOK
  <2>1a. ShownCommand \in Commands
    BY ShownIsTaken DEF ETypeOK
  <2>2. CASE UNCHANGED evars
    BY <2>2 DEF evars, ETypeOK
  <2>3. CASE \E t \in NewTargets, c \in TypedCommands : \E text \in Texts(t.source) : Add(t, text, c)
    <3>1. PICK t \in NewTargets, c \in TypedCommands : \E text \in Texts(t.source) : Add(t, text, c)
      BY <2>3
    <3>2. /\ UNCHANGED <<spec, face, kept>> /\ outcome' \in {"accepted", "refused"}
          /\ \/ UNCHANGED <<place, pc>>
             \/ /\ target' = t /\ command' = Written(t.source, c) /\ Creatable(t, c)
                /\ ours' = TRUE /\ pc' = "listed"
      BY <3>1 DEF Add
    <3>3. Creatable(t, c) => Written(t.source, c) \in Commands
      BY CommandIsTaken DEF Creatable, TypedCommands
    <3> QED BY <3>2, <3>3 DEF place, ETypeOK
  <2>4. CASE \E f \in {"cli", "form"} : Edit(f)
    <3>1. PICK f \in {"cli", "form"} : Edit(f)
      BY <2>4
    <3> DEFINE s == IF f = "cli" THEN Merge(Shown, wanted) ELSE ToSpec(ScheduleText(Shown), wanted)
    <3>2. s.command = ShownCommand
      BY DEF Merge, ToSpec, JobSpec
    <3>3. UNCHANGED place /\ Submit(s) /\ face' = f /\ kept' = TRUE
      BY <3>1 DEF Edit
    <3> HIDE DEF s
    <3> QED BY <2>1, <2>1a, <3>2, <3>3
  <2>5. CASE \E f \in {"cli", "form"} : \E text \in Retyped(source) : Reschedule(f, text)
    <3>1. PICK f \in {"cli", "form"}, text \in Retyped(source) : Reschedule(f, text)
      BY <2>5
    <3> DEFINE s == IF f = "cli" THEN Merge(ParseSchedule(source, text), <<text>>)
                    ELSE ToSpec(text, <<text>>)
    <3>2. s.command = ShownCommand
      BY DEF Merge, ToSpec, JobSpec
    <3>3. UNCHANGED place /\ Submit(s) /\ face' = f /\ kept' = FALSE
      BY <3>1 DEF Reschedule
    <3> HIDE DEF s
    <3> QED BY <2>1, <2>1a, <3>2, <3>3
  <2>6. CASE Update
    <3>1. target' \in {target, ParseId(source, ToId(target))}
      BY <2>6 DEF Update
    <3>2. target' # target => target' = ParseId(source, ToId(target)) /\ target' # NoTarget
      BY <2>6 DEF Update
    <3>3. WellPlaced(target) /\ source \in Four
      BY <2>6, SourcesAssumption DEF Update, EInv, JobIsPlaced, Four
    <3>4. target' = target
      BY <3>2, <3>3, IdLeadsBack DEF Found, source
    <3>5. /\ pc' = "listed" /\ spec' = NoSpec /\ outcome' \in {"accepted", "refused"}
          /\ UNCHANGED <<ours, face, kept>>
      BY <2>6 DEF Update
    <3>6. command' \in Commands
      <4>1. command' = command \/ (command' = Written(source, spec.command) /\ ValidCommand(spec.command))
        BY <2>6 DEF Update
      <4> QED BY <4>1, CommandIsTaken DEF ETypeOK
    <3>7. spec'.command \in Commands
      BY <1>0, <3>5 DEF NoSpec, JobSpec
    <3> QED BY <3>4, <3>5, <3>6, <3>7 DEF ETypeOK
  <2> QED BY <2>2, <2>3, <2>4, <2>5, <2>6 DEF ENext
<1> QED BY <1>1, <1>2, EInvHolds, PTL DEF EditingSpec

(* IdsLeadBack: the id that a list shows leads an edit to the job it       *)
(* belongs to (TaskId::to_id and the parsers of ids.rs), whatever the      *)
(* names, paths, users and numbers; the id of a line of a system file, of  *)
(* a script or of a timer always does, and only one made of the name of a  *)
(* user or of a job of anacron or launchd, with characters no name of ours *)
(* has, leads nowhere.                                                     *)
THEOREM IdsLeadBackHolds == EditingSpec => []IdsLeadBack
<1>1. EInv => IdsLeadBack
  BY IdLeadsBack DEF EInv, JobIsPlaced, IdsLeadBack, Found, Named, source
<1> QED BY EInvHolds, <1>1, PTL

(* UnchangedEditIsAccepted: what add wrote, merge_edit can show, pass on   *)
(* and write again, whatever the texts and the clock, but for a schedule   *)
(* the list cannot show.                                                   *)
THEOREM UnchangedEditIsAcceptedHolds == EditingSpec => []UnchangedEditIsAccepted
<1>1. EInv => UnchangedEditIsAccepted
  BY DEF EInv
<1> QED BY EInvHolds, <1>1, PTL

(* MeaningIsKept: from what was typed to what the file holds and back, any *)
(* number of times, by the command line or the form, the job runs at the   *)
(* times that were asked for last, but for the ranges with 7 of a timer    *)
(* and the days that wrap of anacron; and a job found with several rules,  *)
(* or with one that fires once, that is edited runs at the times of one of *)
(* them, taken for a rhythm.                                               *)
THEOREM MeaningIsKeptHolds == EditingSpec => []MeaningIsKept
<1>1. EInv => MeaningIsKept
  <2> SUFFICES ASSUME EInv, pc = "listed"
               PROVE  \/ WantedIsKept
                      \/ OneIsShown /\ \E i \in DOMAIN wanted : SameRules(<<AsRhythm(wanted[i])>>, disk)
    BY DEF MeaningIsKept
  <2>1. CASE wanted = disk
    BY <2>1 DEF WantedIsKept, SameRules, SameMeaning
  <2>2. CASE disk = <<disk[1]>> /\ OneStands(wanted, disk[1])
    <3>1. PICK i \in DOMAIN wanted : Agree(source, AsRhythm(wanted[i]), disk[1])
      BY <2>2 DEF OneStands, Stands
    <3>2. AskedFor(wanted) /\ DOMAIN disk = 1..1
      BY <2>2, Alone DEF EInv, MeaningIsAgreed
    <3>3. CASE OneIsShown
      <4>1. HeldRules(source, wanted)
        BY <3>2, <3>3 DEF AskedFor, OneIsShown
      <4>2. Held(source, AsRhythm(wanted[i]))
        BY <4>1 DEF HeldRules
      <4>3. ~(source = "systemd" /\ OddWeek(AsRhythm(wanted[i])))
        BY <4>2 DEF Held, OddWeek
      <4>4. source # "anacron"
        <5> SUFFICES ASSUME source = "anacron" PROVE FALSE
          OBVIOUS
        <5>1. Len(wanted) = 1 /\ 1 \in DOMAIN wanted
          BY <4>1 DEF HeldRules
        <5>2. wanted[1][1] = "after" /\ Held(source, AsRhythm(wanted[1]))
          BY <3>3, <4>1, <5>1 DEF OneIsShown, HeldRules
        <5>3. AsRhythm(wanted[1])[1] = "interval"
          BY <5>2 DEF AsRhythm
        <5> QED BY <5>2, <5>3 DEF Held, IsWord
      <4>5. SameMeaning(Meaning(source, AsRhythm(wanted[i])), Meaning(source, disk[1]))
        BY <3>1, <4>3, <4>4 DEF Agree
      <4>6. SameRules(<<AsRhythm(wanted[i])>>, disk)
        BY <3>2, <4>5, Alone DEF SameRules
      <4> QED BY <3>3, <4>6
    <3>4. CASE ~OneIsShown
      <4>1. DOMAIN wanted = 1..1 /\ wanted[1][1] # "after"
        BY <3>2, <3>4 DEF AskedFor, OneIsShown
      <4>2. i = 1 /\ AsRhythm(wanted[1]) = wanted[1]
        BY <4>1 DEF AsRhythm
      <4>3. Agree(source, wanted[1], disk[1])
        BY <3>1, <4>2
      <4> QED BY <3>2, <4>1, <4>3 DEF Agree, WantedIsKept, SameRules
    <3> QED BY <3>3, <3>4
  <2> QED BY <2>1, <2>2 DEF EInv, MeaningIsAgreed
<1> QED BY EInvHolds, <1>1, PTL
=============================================================================
