------------------------------ MODULE MCSession -------------------------------
(***************************************************************************)
(* What processes do to a host: an apply, with its backups, next to other  *)
(* processes; a listing; or operations on one file.  Listing and files     *)
(* share the connection; none of the three leaves anything for another.    *)
(***************************************************************************)
EXTENDS ApplySession, Collector, HostFiles, TLC

CONSTANTS tab, twin, stamp, tabs, stamps

(* A file, one whose path is flattened to the same name, and a stamp.      *)
FlatNames == [p \in Paths |-> IF p = stamp THEN stamps ELSE tabs]
Bounds == [p \in Paths |-> IF p = tab THEN 2 ELSE 1]
Alike == Permutations(Sessions)

MCUnits == {<<"system", "t">>, <<"system", "u">>, <<"user", "t">>}
MCCanonical == [x \in MCUnits |-> IF x = <<"system", "u">> THEN <<"system", "t">> ELSE x]

Empty == [x \in {} |-> "yes"]
Timers == [has |-> {"systemctl"},
           crontab |-> Empty, dropins |-> Empty, scripts |-> Empty, users |-> Empty,
           jobs |-> Empty, lines |-> Empty, plists |-> Empty]
Tables == [has |-> {"cron", "atq", "anacron"},
           crontab |-> [c |-> "yes"], dropins |-> [d |-> "no"],
           scripts |-> [r |-> "yes", s |-> "no"], users |-> [root |-> "yes", joe |-> "yes"],
           jobs |-> [j |-> "yes"], lines |-> [a |-> "no"], plists |-> Empty]
Mac == [has |-> {"launchctl", "atq"},
        crontab |-> Empty, dropins |-> Empty, scripts |-> Empty, users |-> Empty,
        jobs |-> Empty, lines |-> Empty,
        plists |-> [p |-> "loaded", q |-> "disabled"]]
MCMachines == {Timers, Tables, Mac}

NoListing ==
    /\ remote = TRUE /\ machine = Mac
    /\ file = [u \in Units |-> "absent"] /\ active = {}
    /\ src = 0 /\ call = 1 /\ found = <<>> /\ present = FALSE /\ status = <<>>
    /\ end = "none" /\ listing = <<>> /\ history = NoHistory

NoFiles ==
    /\ site = "none" /\ user = FALSE /\ root = "unasked" /\ content = Absent
    /\ op = Idle /\ temp = Absent /\ adrift = Absent /\ reply = Silence /\ seen = "none"

NoApply ==
    /\ disk = [p \in Paths |-> 0] /\ latest = disk /\ clock = 0
    /\ store = [key \in Names \X Seconds |-> Nothing]
    /\ pc = [s \in Sessions |-> "idle"]
    /\ files = [s \in Sessions |-> {}] /\ todo = files
    /\ before = [s \in Sessions |-> [p \in Paths |-> 0]] /\ first = before
    /\ log = {} /\ lost = {}

(* Who applies: all processes, to one file only; or one process, to all of *)
(* them, in less time and with fewer versions.  Or nobody does.            *)
VARIABLE scene

Together ==
    /\ scene = "together"
    /\ \A p \in Paths \ {tab} : latest[p] = 0 /\ \A s \in Sessions : p \notin files[s]
Alone ==
    /\ scene \in Sessions /\ clock <= 1 /\ latest[tab] <= 1
    /\ \A s \in Sessions \ {scene} : pc[s] = "idle"

SInit ==
    \/ scene \in {"together"} \cup Sessions /\ Init /\ (Together \/ Alone) /\ NoFiles /\ NoListing
    \/ scene = "listing" /\ CInit /\ NoFiles /\ NoApply
    \/ scene = "files" /\ FInit /\ NoListing /\ NoApply

SNext ==
    \/ Next /\ UNCHANGED <<scene, cvars, fvars>> /\ (Together \/ Alone)'
    \/ scene = "listing" /\ CNext /\ UNCHANGED <<scene, vars, fvars>>
    \/ scene = "files" /\ FNext /\ UNCHANGED <<scene, vars, cvars>>

SSpec == SInit /\ [][SNext]_<<scene, vars, cvars, fvars>>

=============================================================================
