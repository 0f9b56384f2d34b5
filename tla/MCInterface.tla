----------------------------- MODULE MCInterface -----------------------------
(***************************************************************************)
(* An interface: the event loop with its worker; and a job that is listed  *)
(* and edited over and over, by form or command line.  Of an edit the loop *)
(* knows no more than that it is one, so either runs without the other.    *)
(***************************************************************************)
EXTENDS TuiApp, Editing

(* Some of everything a cron field may hold.                               *)
MCMinutes == {Every, <<One(1)>>, <<Part("*", 0, 0, 2)>>, <<One(1), One(3)>>, <<Span(1, 2)>>,
              <<One(9)>>}
MCDows == {Every, <<One(0)>>, <<One(7)>>, <<One(1), One(7)>>, <<Span(1, 5)>>, <<Span(5, 7)>>,
           <<Span(0, 7)>>, <<Span(7, 3)>>, <<Part("*", 0, 0, 2)>>}
MCFields ==
  [min : MCMinutes, hour : {Every, <<One(0)>>}, dom : {Every}, dow : {Every}]
    \cup [min : {<<One(1)>>}, hour : {Every}, dom : {Every, <<One(1)>>}, dow : MCDows]

MCDicts ==
  SUBSET {NoKeys, [NoKeys EXCEPT !.min = {0}], [NoKeys EXCEPT !.dow = {7}],
          [NoKeys EXCEPT !.dom = {1}, !.dow = {1}]} \ {{}}

MCWords == {"@reboot", "@hourly", "@daily", "@DAILY", "@weekly", "@monthly", "@midnight"}

MCTexts(s) ==
  {Empty} \cup {<<"word", w>> : w \in MCWords}
    \cup {<<"interval", n, u>> : n \in {0, 1, 2, 3}, u \in {"s", "m", "h", "d"}}
    \cup {<<"interval", 7, "d">>, <<"interval", 40, "d">>}
    \cup {<<"fields", f>> : f \in MCFields}
    \cup (IF s \in {"anacron", "launchd"} THEN {<<"number", n>> : n \in {0, 1, 7, 66}} ELSE {})
    \cup (IF s = "launchd" THEN {<<"dicts", ds>> : ds \in MCDicts} ELSE {})
    \cup (IF s = "systemd"
          THEN {<<"calendar", Calendar(Every, <<One(0)>>, d, <<<<1, 5>>>>)>> : d \in {Every, <<One(1)>>}}
          ELSE {})

MCRetyped(s) ==
  {Empty, <<"interval", 2, "d">>, <<"interval", 2, "m">>, <<"word", "@weekly">>, <<"number", 7>>}
    \cup {<<"fields", Fields(<<One(1)>>, Every, dom, dow)>> :
            dom \in {Every, <<One(1)>>}, dow \in {Every, <<One(7)>>, <<Span(0, 7)>>}}

MCNewTargets ==
  {SystemFile(<<"/etc/crontab">>, <<"2">>),
   SystemFile(<<"/etc/cron.d", "/", "backup">>, <<"2">>),
   UserCrontab(<<"alice">>, <<"2">>)}
  \cup {SystemdId(scope, <<"backup", ".timer">>) : scope \in {"system", "user"}}
  \cup {Target(s, "job", <<"backup">>, <<>>) : s \in {"anacron", "launchd"}}

Runs == [text |-> "run", shells |-> 0]
Theirs(t, rules, c) == [target |-> t, disk |-> rules, command |-> c]
MCTheirJobs ==
  {Theirs(SystemFile(path, <<"7">>), <<<<"word", w>>>>, [text |-> c, shells |-> 0]) :
     path \in {<<"/etc/cron.d", "/", "odd", ":", "2">>, <<"/etc/crontab">>},
     w \in {"@midnight", "@DAILY", "@reboot"}, c \in {"run", "comment"}}
  \cup {Theirs(UserCrontab(user, <<"7">>), <<<<"word", "@daily">>>>, Runs) :
          user \in {<<"alice">>, <<"domain", ":", "alice">>}}
  \cup {Theirs(RunParts(<<"/etc/cron.daily", "/", "backup">> \o rest), <<<<"word", "@daily">>>>, Runs) :
          rest \in {<<>>, <<":", "2">>, <<".", "sh">>}}
  \cup {Theirs(SystemdId(scope, unit), <<d>>, [text |-> c, shells |-> 0]) :
          scope \in {"system", "user"}, c \in {"run", "none"},
          unit \in {<<"clean", ".timer">>, <<"clean", "@", "1", ".timer">>,
                    <<"clean", ".timer", ".timer">>},
          d \in {<<"interval", 130, "s">>, <<"interval", 600, "s">>, <<"interval", 0, "s">>,
                 <<"calendar", Shorthand("weekly")>>}}
  \cup {Theirs(SystemdId("system", <<"clean", ".timer">>), rules, [text |-> "chain", shells |-> 1]) :
          rules \in {<<<<"after", 3, "s">>>>,
                     <<<<"after", 3, "s">>, <<"interval", 130, "s">>>>,
                     <<<<"interval", 600, "s">>, <<"after", 3, "s">>>>,
                     <<<<"interval", 130, "s">>, <<"calendar", Shorthand("weekly")>>,
                       <<"calendar", Shorthand("daily")>>>>}}
  \cup {Theirs(Target("anacron", "job", name, <<>>), <<d>>, Runs) :
          name \in {<<"clean">>, <<"a", ":", "b">>, <<"anacron", ":", "b">>},
          d \in {<<"number", 2>>, <<"word", "@DAILY">>, <<"word", "@monthly">>}}
  \cup {Theirs(Target("launchd", "job", label, <<>>), <<<<"dicts", ds>>>> \o more, Runs) :
          label \in {<<"com", ".", "x">>, <<"my", " ", "job">>}, ds \in MCDicts,
          more \in {<<>>, <<<<"number", 7>>>>}}

VARIABLE part

NoLoop ==
  /\ at = "exited" /\ mode = "Normal" /\ busy = None /\ form = NoForm /\ pending = None
  /\ quit = TRUE /\ worker = TRUE /\ dryRun = FALSE /\ due = FALSE /\ refreshError = FALSE
  /\ requests = <<>> /\ replies = <<>> /\ thread = "idle" /\ job = Refresh /\ torn = FALSE
  /\ owed = FALSE /\ answer = None /\ asked = None
NoJob == pc = "none" /\ Fresh(NoTarget, <<>>, NoCommand, FALSE)

IInit ==
  \/ part = "loop" /\ Init /\ NoJob
  \/ part = "job" /\ EInit /\ NoLoop

INext ==
  \/ part = "loop" /\ Next /\ UNCHANGED <<part, evars>>
  \/ part = "job" /\ ENext /\ UNCHANGED <<part, vars>>

ISpec == IInit /\ [][INext]_<<part, vars, evars>> /\ Fairness
=============================================================================
