------------------------------ MODULE Collector ------------------------------
(***************************************************************************)
(* One collection of the jobs of a machine: RemoteCollector::collect over  *)
(* SSH, or collect_local.  A collection is a long row of commands; between *)
(* any two of them the machine may change, any of them may be missing,     *)
(* fail, or (over SSH) be lost with the link.  An action is one command    *)
(* with its answer, or the answers of one parallel fan-out.                *)
(*                                                                         *)
(* A job is its id; of what is shown about it only `enabled` is kept.  The *)
(* sources are asked in the order of RemoteCollector; collect_local asks   *)
(* launchd last, which nothing can tell.                                   *)
(***************************************************************************)
EXTENDS Naturals, Sequences, FiniteSets, SequencesExt

CONSTANTS Units,       \* <<scope, name>> of the timer units there may be
          Canonical,   \* [Units -> Units]: an alias is mapped to its unit
          Chunk,       \* SHOW_CHUNK_SIZE
          Machines,    \* what is installed and there (see Machine)
          MaxFaults,   \* answers that are not "ok", per collection
          MaxChanges   \* changes of a timer by others, per collection

Sources == <<"systemd", "cron", "launchd", "at", "anacron">>
Scope(u) == u[1]
UnitsOf(s) == {u \in Units : Scope(u) = s}
Aliases == {u \in Units : Canonical[u] # u}

ASSUME CollectorAssumption ==
    /\ IsFiniteSet(Units) /\ \A u \in Units : Scope(u) \in {"system", "user"}
    /\ Canonical \in [Units -> Units \ Aliases]
    /\ Chunk \in Nat \ {0}

\* A machine has the tools in `has` out of Tools, and jobs: crontab, dropins,
\* scripts, users, jobs and lines map a job to "yes" (on) or "no", plists
\* to "loaded", "disabled" (its key, not loaded) or "plain".
Tools == {"systemctl", "cron", "launchctl", "atq", "anacron"}

\* The id of a script is its path, which no line of a crontab has.
ASSUME MachinesAssumption ==
    \A m \in Machines :
        /\ m.has \subseteq Tools
        /\ \A f \in {m.crontab, m.dropins, m.scripts, m.users, m.jobs, m.lines, m.plists} :
              IsFiniteSet(DOMAIN f)
        /\ \A f \in {m.crontab, m.dropins, m.users} : DOMAIN f \cap DOMAIN m.scripts = {}

VARIABLES
    remote,     \* over SSH, or on this machine
    machine,    \* one of Machines
    file,       \* [Units -> state of the unit file]
    active,     \* the units the manager has loaded and running
    src, call,  \* position: the source, and the command within it
    found,      \* [source -> rows found so far]
    present,    \* cron: any_present
    status,     \* [source -> what became of it]
    end,        \* "running", "listed", "error"
    listing,    \* what the caller gets
    history     \* for the properties only

cvars == <<remote, machine, file, active, src, call, found, present, status,
           end, listing, history>>

States == {"absent", "enabled", "disabled", "static"}
Row(id, on) == [id |-> id, on |-> on]
Said(b) == IF b THEN "yes" ELSE "no"

\* state_enabled: static units (and other states without an enablement of
\* their own) count as enabled while they are active.
StateEnabled(state, running) ==
    CASE state \in {"enabled", "alias"} -> "yes"
      [] state = "disabled"             -> "no"
      [] OTHER                          -> Said(running)

FileState(u) == IF u \in Aliases /\ file[Canonical[u]] # "absent"
                THEN "alias" ELSE file[u]

\* What the manager itself would say of a unit.
Truth(u, f, a) == StateEnabled(f[Canonical[u]], Canonical[u] \in a)

Installed == {u \in Units : FileState(u) # "absent"}

-----------------------------------------------------------------------------
(* The answers *)

Answers == {"ok", "missing", "failed"} \cup (IF remote THEN {"lost"} ELSE {})

Faults(as) == Cardinality({i \in DOMAIN as : as[i] # "ok"})

\* One command, or several in parallel (parallel_map: all are issued, and
\* waited for, whatever the others answer).
Answered(as) ==
    /\ as \in [DOMAIN as -> Answers]
    /\ history.faults + Faults(as) <= MaxFaults
    /\ history' = [history EXCEPT !.faults = @ + Faults(as),
                                  !.lost = @ \/ \E i \in DOMAIN as : as[i] = "lost",
                                  !.failed = @ \cup
                                     {<<Sources[src], call>> : i \in {j \in DOMAIN as : as[j] # "ok"}}]

Lost(as) == \E i \in DOMAIN as : as[i] = "lost"

GoTo(c) == call' = c /\ UNCHANGED <<src, status>>

\* A source has its result; the next one starts, also after a lost link.
Finish(s) == /\ status' = [status EXCEPT ![Sources[src]] = s]
             /\ src' = src + 1
             /\ call' = 1

Keep == UNCHANGED <<found, present>>
Add(rows) == found' = [found EXCEPT ![Sources[src]] = @ \o rows]

\* Mutant of Optional: a lost link is one more answer that is none.
OptionalLossy(as, ok, none) == IF as[1] = "ok" THEN ok ELSE none

\* optional_remote_output: an answer that is not "ok" is no answer, except
\* that a lost link is the end of the source.
Optional(as, ok, none) ==
    CASE Lost(as)      -> Finish("lost") /\ Keep
      [] as[1] = "ok"  -> ok
      [] OTHER         -> none

\* What is not installed is missing, which is no fault.
Ask(tool, as) == IF tool \in machine.has
                 THEN Answered(as)
                 ELSE (\A i \in DOMAIN as : as[i] = "missing") /\ UNCHANGED history

\* Is the tool there?  (On this machine `atq -V` only has to start.)
Gate(tool, next) ==
    \E a \in Answers :
        /\ Ask(tool, <<a>>)
        /\ IF tool = "atq" /\ ~remote /\ a = "failed"
           THEN GoTo(next) /\ Keep
           ELSE Optional(<<a>>, GoTo(next) /\ Keep, Finish("unavailable") /\ Keep)

\* A listing the source cannot do without: a missing command is no source
\* over SSH, and for launchd; any other failure is reported.
Must(rows, next) ==
    \E a \in Answers :
        /\ Answered(<<a>>)
        /\ CASE a = "ok"   -> Add(rows) /\ GoTo(next) /\ UNCHANGED present
             [] a = "lost" -> Finish("lost") /\ Keep
             [] OTHER      ->
                  /\ Finish(IF a = "missing" /\ (remote \/ Sources[src] = "launchd")
                            THEN "unavailable" ELSE "warned")
                  /\ Keep

May(rows, next) ==
    \E a \in Answers :
        /\ Answered(<<a>>)
        /\ Optional(<<a>>, Add(rows) /\ GoTo(next) /\ UNCHANGED present, GoTo(next) /\ Keep)

-----------------------------------------------------------------------------
(* systemd: two listings for each manager, then `show` in chunks *)

Sorted(S) == SetToSeq(S)

ListTimers(scope) ==
    LET ids == Sorted(active \cap UnitsOf(scope))
    IN  [i \in DOMAIN ids |-> Row(ids[i], "unknown")]

\* Mutant of Merge: what is listed already is not left out.
MergeAll(rows, scope) ==
    LET files == Sorted(Installed \cap UnitsOf(scope))
    IN  [i \in DOMAIN files |-> Row(files[i], StateEnabled(FileState(files[i]), FALSE))]

\* merge_unit_file_tasks: only what no listing has named yet.
Merge(rows, scope) ==
    LET extra == Sorted((Installed \cap UnitsOf(scope)) \ {rows[i].id : i \in DOMAIN rows})
    IN  [i \in DOMAIN extra |-> Row(extra[i], StateEnabled(FileState(extra[i]), FALSE))]

Listed == {found.systemd[i].id : i \in DOMAIN found.systemd}

\* show_unit_groups and show_jobs: the ids of a scope, sorted, without
\* duplicates, cut into chunks.
Chunks(scope) ==
    LET ids == Sorted(Listed \cap UnitsOf(scope))
        ChunkOf(i) == (i - 1) \div Chunk
    IN  {{ids[i] : i \in {j \in DOMAIN ids : ChunkOf(j) = ChunkOf(k)}} : k \in DOMAIN ids}
ShowJobs == Chunks("system") \cup Chunks("user")

\* The block for a unit, which bears the Id of the unit itself.
Block(u) == [id |-> Canonical[u],
             on |-> StateEnabled(file[Canonical[u]], Canonical[u] \in active)]

\* The reply to one chunk: a block per unit, which may be missing (`gap`).
Reply(chunk, gap) == {Block(u) : u \in chunk \ gap}

\* run_show_batch: a chunk that fails leaves its units without a block.
Batch(as, gap) == UNION {Reply(c, gap) : c \in {d \in DOMAIN as : as[d] = "ok"}}

\* Mutant of ApplyShow: the blocks answer the units in the order asked.
ApplyShowByPosition(rows, as, gap) ==
    LET asked == Sorted(UNION DOMAIN as)
        told  == SelectSeq(asked, LAMBDA u : u \notin gap /\ \E c \in DOMAIN as : u \in c /\ as[c] = "ok")
        PlaceOf(u) == {k \in DOMAIN told : asked[k] = u}
    IN  [i \in DOMAIN rows |->
            IF PlaceOf(rows[i].id) = {} THEN rows[i]
            ELSE [rows[i] EXCEPT !.on = Block(told[CHOOSE k \in PlaceOf(rows[i].id) : TRUE]).on]]

\* apply_show: blocks are looked up by Id, never by position.
ApplyShow(rows, as, gap) ==
    LET Of(u) == {b \in Batch(as, gap) : b.id = u}
    IN  [i \in DOMAIN rows |->
            IF Of(rows[i].id) = {} THEN rows[i]
            ELSE [rows[i] EXCEPT !.on = (CHOOSE b \in Of(rows[i].id) : TRUE).on]]

\* All of them are waited for, over SSH eight at a time.
ShowAll ==
    \E as \in [ShowJobs -> Answers], gap \in {{}} \cup {{u} : u \in Listed} :
        \* a missing block counts as one more answer that failed, to no chunk
        /\ Answered([c \in DOMAIN as \cup {{} : u \in gap} |->
                        IF c = {} THEN "failed" ELSE as[c]])
        /\ IF Lost(as)
           THEN Finish("lost") /\ Keep
           ELSE /\ found' = [found EXCEPT !.systemd = ApplyShow(@, as, gap)]
                /\ Finish("listed")
                /\ UNCHANGED present

Systemd ==
    \/ call = 1 /\ Gate("systemctl", 2)
    \/ call = 2 /\ Must(ListTimers("system"), 3)
    \/ call = 3 /\ May(ListTimers("user"), 4)
    \/ call = 4 /\ May(Merge(found.systemd, "system"), 5)
    \/ call = 5 /\ May(Merge(found.systemd, "user"), 6)
    \/ call = 6 /\ ShowAll

-----------------------------------------------------------------------------
(* The other sources *)

RowsOf(f) == LET ids == Sorted(DOMAIN f)
             IN  [i \in DOMAIN ids |-> Row(ids[i], f[ids[i]])]
Unknown(f) == [x \in DOMAIN f |-> "unknown"]

\* The rows of the jobs in f that were answered for.
Told(f, as) == RowsOf([x \in {y \in DOMAIN f : as[y] = "ok"} |-> f[x]])

\* A fan-out over the jobs in f; unless they are listed already, those that
\* answer are.
Fan(tool, f, listed, next) ==
    \E as \in [DOMAIN f -> Answers] :
        /\ Ask(tool, as)
        /\ IF Lost(as)
           THEN Finish("lost") /\ Keep
           ELSE /\ IF listed THEN UNCHANGED found ELSE Add(Told(f, as))
                /\ UNCHANGED present
                /\ next

CrontabRows == RowsOf(machine.crontab)
ScriptRows(known) == RowsOf(IF known THEN machine.scripts ELSE Unknown(machine.scripts))
AtRows == RowsOf(Unknown(machine.jobs))
AnacronRows == RowsOf(machine.lines)

CronEnd == Finish(IF present THEN "listed" ELSE "unavailable") /\ Keep

CronStep(rows, next, none) ==
    \E a \in Answers :
        /\ Ask("cron", <<a>>)
        /\ Optional(<<a>>, Add(rows) /\ present' = TRUE /\ GoTo(next), none)

Cron ==
    \/ call = 1 /\ CronStep(CrontabRows, 2, GoTo(2) /\ Keep)
    \/ call = 2 /\ CronStep(<<>>, 3, GoTo(4) /\ Keep)
    \/ call = 3 /\ Fan("cron", machine.dropins, FALSE, GoTo(4))
    \* The scripts of run-parts, then `find` for their execute bits: without
    \* an answer to that nothing is known of them.
    \/ call = 4 /\ CronStep(<<>>, IF DOMAIN machine.scripts = {} THEN 6 ELSE 5,
                            GoTo(6) /\ Keep)
    \/ call = 5 /\ \E a \in Answers :
            /\ Ask("cron", <<a>>)
            /\ Optional(<<a>>, Add(ScriptRows(TRUE)) /\ GoTo(6) /\ UNCHANGED present,
                        Add(ScriptRows(FALSE)) /\ GoTo(6) /\ UNCHANGED present)
    \/ call = 6 /\ CronStep(<<>>, 7, CronEnd)
    \/ call = 7 /\ CronStep(<<>>, 8, CronEnd)
    \* Without a user name every crontab is asked for with -u.
    \/ call = 8 /\ CronStep(<<>>, 9, GoTo(9) /\ Keep)
    \/ call = 9 /\ Fan("cron", machine.users, FALSE, Finish("listed"))

LaunchdRow(state) == CASE state = "loaded"   -> "yes"
                       [] state = "disabled" -> "no"
                       [] OTHER              -> "unknown"

PlistRows == [p \in DOMAIN machine.plists |-> LaunchdRow(machine.plists[p])]

\* This machine is asked for the list at once.
Launchd ==
    \/ /\ call = 1
       /\ IF remote \/ "launchctl" \notin machine.has
          THEN Gate("launchctl", 2)
          ELSE GoTo(2) /\ Keep /\ UNCHANGED history
    \/ call = 2 /\ Must(<<>>, 3)
    \/ call = 3 /\ \E a \in Answers :
            /\ Answered(<<a>>)
            /\ Optional(<<a>>, GoTo(4) /\ Keep, Finish("listed") /\ Keep)
    \/ call = 4 /\ Fan("launchctl", PlistRows, FALSE, Finish("listed"))

At ==
    \/ call = 1 /\ Gate("atq", 2)
    \/ call = 2 /\ Must(AtRows, 3)
    \* `at -c` gives the command; without it the row stays, without one.
    \/ call = 3 /\ Fan("atq", machine.jobs, TRUE, Finish("listed"))

\* Over SSH an anacrontab that cannot be read is none at all.
Unread(a) == Finish(IF ~remote /\ a = "failed" THEN "warned" ELSE "unavailable") /\ Keep

Anacron ==
    \/ call = 1 /\ \E a \in Answers :
            /\ Ask("anacron", <<a>>)
            /\ Optional(<<a>>, Add(AnacronRows) /\ GoTo(2) /\ UNCHANGED present, Unread(a))
    \/ call = 2 /\ Fan("anacron", machine.lines, TRUE, Finish("listed"))

-----------------------------------------------------------------------------
(* The collection *)

NoHistory == [faults |-> 0, lost |-> FALSE, failed |-> {}, changes |-> 0,
              truth |-> {}, static |-> {}, stayed |-> {}]

CInit ==
    /\ remote \in BOOLEAN
    /\ machine \in Machines
    /\ file \in {f \in [Units -> States] : \A u \in Aliases : f[u] = "absent"}
    /\ active \in SUBSET (Units \ Aliases)
    /\ \A u \in active : file[u] # "absent"
    /\ "systemctl" \notin machine.has => \A u \in Units : file[u] = "absent"
    /\ src = 0 /\ call = 1
    /\ found = [s \in ToSet(Sources) |-> <<>>]
    /\ present = (~remote /\ "cron" \in machine.has) \* looked for beforehand
    /\ status = [s \in ToSet(Sources) |-> "none"]
    /\ end = "running" /\ listing = <<>>
    /\ history = [NoHistory EXCEPT
          !.truth = {<<u, Truth(u, file, active)>> : u \in Units},
          !.static = {u \in Units : file[u] = "static"},
          !.stayed = Installed]

\* `true` and `date +%z` first: an outage is one error, not five.
Greet ==
    /\ end = "running" /\ src = 0
    /\ \/ /\ ~remote
          /\ src' = 1
          /\ UNCHANGED <<call, end, history>>
       \/ /\ remote
          /\ \E a \in Answers :
                /\ history.faults + Faults(<<a>>) <= MaxFaults
                /\ history' = [history EXCEPT !.faults = @ + Faults(<<a>>),
                                              !.lost = @ \/ a = "lost"]
                /\ IF a # "ok"
                   THEN end' = "error" /\ UNCHANGED <<src, call>>
                   ELSE /\ IF call = 1 THEN call' = 2 /\ src' = 0 ELSE call' = 1 /\ src' = 1
                        /\ UNCHANGED end
    /\ UNCHANGED <<remote, machine, file, active, found, present, status, listing>>

Ask5 ==
    /\ end = "running" /\ src \in 1..5
    /\ CASE src = 1 -> Systemd
         [] src = 2 -> Cron
         [] src = 3 -> Launchd
         [] src = 4 -> At
         [] src = 5 -> Anacron
    /\ UNCHANGED <<remote, machine, file, active, end, listing>>

\* What a source gives to the listing.
Shown(s) == IF status[s] # "listed" THEN <<>>
            ELSE [k \in DOMAIN found[s] |->
                     [src |-> s, id |-> found[s][k].id, on |-> found[s][k].on]]

\* Only now are the results looked at: one lost source and there is no
\* listing at all; a source that is not there is passed over, one that
\* failed leaves a warning.
Report ==
    /\ end = "running" /\ src = 6
    /\ IF \E s \in DOMAIN status : status[s] = "lost"
       THEN end' = "error" /\ UNCHANGED listing
       ELSE /\ end' = "listed"
            /\ listing' = Shown("systemd") \o Shown("cron") \o Shown("at")
                             \o Shown("anacron") \o Shown("launchd")
    /\ UNCHANGED <<remote, machine, file, active, src, call, found, present, status, history>>

\* Somebody installs, removes, enables, disables, starts or stops a timer.
OtherHand ==
    /\ end = "running" /\ src = 1 \* afterwards nothing looks at timers
    /\ history.changes < MaxChanges
    /\ \E u \in Units \ Aliases :
          \/ \E s \in States \ {file[u]} :
                file' = [file EXCEPT ![u] = s] /\ UNCHANGED active
          \/ /\ active' = IF u \in active THEN active \ {u} ELSE active \cup {u}
             /\ u \notin active => file[u] # "absent"
             /\ UNCHANGED file
    /\ history' = [history EXCEPT
          !.changes = @ + 1,
          !.truth = @ \cup {<<u, Truth(u, file', active')>> : u \in Units},
          !.static = @ \cup {u \in Units : file'[u] = "static"},
          !.stayed = {u \in @ : file'[Canonical[u]] # "absent"}]
    /\ UNCHANGED <<remote, machine, src, call, found, present, status, end, listing>>

Collected == end # "running" /\ UNCHANGED cvars

CNext == Greet \/ Ask5 \/ Report \/ OtherHand \/ Collected

CSpec == CInit /\ [][CNext]_cvars

-----------------------------------------------------------------------------
(* Properties *)

Count(s, x) == Cardinality({i \in DOMAIN listing : listing[i].src = s /\ listing[i].id = x})

\* A listing is never one that stops where the link did: if any command
\* of the collection was lost with the link, there is an error and no
\* listing (RemoteCollector::collect).
LostIsNoListing == end = "listed" => ~history.lost

\* A timer whose file is there from the beginning to the end is listed, and
\* once, however others start and stop it between the two inventories, as
\* long as these answer (merge_unit_file_tasks); nothing is listed twice.
LastingTimersAreListedOnce ==
    end = "listed" /\ status["systemd"] = "listed" =>
        \A u \in Units :
            /\ Count("systemd", u) <= 1
            /\ u \in history.stayed /\ (\A c \in 2..5 : <<"systemd", c>> \notin history.failed)
               => Count("systemd", u) = 1

\* What a listing says of `enabled` was true of that very job at some time
\* of the collection: replies are never mixed up, and where nobody answered
\* the listing says nothing.  Not so for an alias, which counts as enabled
\* whatever its unit is, and for a static timer of which only the
\* inventory of files answered.  Timers, scripts and anacron's jobs are
\* judged; the rows of crontab lines, at and launchd come from one text
\* each, and are not.
EnabledIsTrue ==
    end = "listed" => \A i \in DOMAIN listing :
        LET row == listing[i] IN
        row.on # "unknown" =>
            CASE row.src = "systemd" ->
                   \/ <<row.id, row.on>> \in history.truth
                   \/ row.id \in Aliases /\ row.on = "yes"
                   \/ row.id \in history.static /\ row.on = "no" /\ <<"systemd", 6>> \in history.failed
              [] row.src = "cron" /\ row.id \in DOMAIN machine.scripts ->
                   row.on = machine.scripts[row.id]
              [] row.src = "anacron" -> row.on = machine.lines[row.id]
              [] OTHER -> TRUE

=============================================================================
