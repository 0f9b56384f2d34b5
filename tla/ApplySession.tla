---------------------------- MODULE ApplySession ----------------------------
(***************************************************************************)
(* Session::apply (ops.rs): plan the mutation, copy every file the plan    *)
(* overwrites or removes into the operator's state directory, then plan    *)
(* once more, carry that second plan out, and put the files back when a    *)
(* step of it fails.  Several shuvjobs processes and other programs work   *)
(* on the same files meanwhile.                                            *)
(*                                                                         *)
(* The contents of a file are its version number, 0 when there is no such  *)
(* file: every write makes a version nobody has seen before.               *)
(***************************************************************************)
EXTENDS Naturals, FiniteSets

CONSTANTS
  Sessions,     (* shuvjobs processes                                      *)
  Paths,        (* files on the managed host                               *)
  Stamps,       (* those a plan removes without having read them: the      *)
                (* time stamps of anacron (drop_spool)                     *)
  Names,        (* file names in the backup directory                      *)
  Flat,         (* sanitize_component: the name a path is flattened to     *)
  MaxVersion,   (* bound on the versions of each file                      *)
  MaxClock      (* bound on the clock, in seconds                          *)

ASSUME SessionAssumption ==
  /\ Stamps \subseteq Paths /\ Flat \in [Paths -> Names]
  /\ MaxVersion \in [Paths -> Nat] /\ MaxClock \in Nat

Seconds == 0 .. MaxClock
Nothing == [path |-> "none"]

VARIABLES
  disk,     (* version of every file                                       *)
  latest,   (* highest version each file has had                           *)
  clock,
  store,    (* backup_path to contents                                     *)
  pc,       (* how far each process is in apply                            *)
  files,    (* the files its mutation writes or removes                    *)
  before,   (* what its latest plan holds of them: `before`                *)
  first,    (* history: what there was of them when it planned first       *)
  todo,     (* files still to be backed up, written, or put back           *)
  log,      (* history: every backup that was made, and when               *)
  lost      (* history: what was there when a process planned first, and   *)
            (* the process has overwritten or removed                      *)

vars == <<disk, latest, clock, store, pc, files, before, first, todo, log, lost>>

Copies == [path: Paths, version: Nat]
Copy(p, v) == [path |-> p, version |-> v]

TypeOK ==
  /\ disk \in [Paths -> Nat] /\ latest \in [Paths -> Nat]
  /\ clock \in Seconds
  /\ store \in [Names \X Seconds -> Copies \cup {Nothing}]
  /\ pc \in [Sessions -> {"idle", "backup", "replan", "write", "undo"}]
  /\ files \in [Sessions -> SUBSET Paths]
  /\ before \in [Sessions -> [Paths -> Nat]] /\ first \in [Sessions -> [Paths -> Nat]]
  /\ todo \in [Sessions -> SUBSET Paths]
  /\ log \subseteq [copy: Copies, at: Seconds]
  /\ lost \subseteq Copies

Init ==
  /\ disk \in [Paths -> 0 .. 1] /\ latest = disk
  /\ clock = 0
  /\ store = [key \in Names \X Seconds |-> Nothing]
  /\ pc = [s \in Sessions |-> "idle"]
  /\ files = [s \in Sessions |-> {}] /\ todo = files
  /\ before = [s \in Sessions |-> [p \in Paths |-> 0]] /\ first = before
  /\ log = {} /\ lost = {}

Goto(s, to) == pc' = [pc EXCEPT ![s] = to]

(* What a plan reads of the files.                                         *)
ReadNow == [p \in Paths |-> IF p \in Stamps THEN 0 ELSE disk[p]]

-----------------------------------------------------------------------------
(* The dry dispatch; its backup_targets are the files it found something   *)
(* in.                                                                     *)
Plan(s) ==
  /\ pc[s] = "idle"
  /\ \E chosen \in SUBSET Paths \ {{}} :
       /\ files' = [files EXCEPT ![s] = chosen]
       /\ todo' = [todo EXCEPT ![s] = {p \in chosen : ReadNow[p] # 0}]
       /\ first' = [first EXCEPT ![s] = [p \in Paths |-> IF p \in chosen THEN disk[p] ELSE 0]]
  /\ before' = [before EXCEPT ![s] = ReadNow]
  /\ Goto(s, "backup")
  /\ UNCHANGED <<disk, latest, clock, store, log, lost>>

Logs(s, p) == log' = log \cup {[copy |-> Copy(p, before[s][p]), at |-> clock]}

(* Mutant of BackUp: the name has no time stamp.                           *)
BackUpUnstamped(s, p) ==
  /\ pc[s] = "backup" /\ p \in todo[s]
  /\ store' = [store EXCEPT ![<<Flat[p], 0>>] = Copy(p, before[s][p])]
  /\ Logs(s, p)
  /\ todo' = [todo EXCEPT ![s] = @ \ {p}]
  /\ UNCHANGED <<disk, latest, clock, pc, files, before, first, lost>>

(* write_backup for one of backup_targets.  The name ends in the second,   *)
(* and a backup of that name is written over.                              *)
BackUp(s, p) ==
  /\ pc[s] = "backup" /\ p \in todo[s]
  /\ store' = [store EXCEPT ![<<Flat[p], clock>>] = Copy(p, before[s][p])]
  /\ Logs(s, p)
  /\ todo' = [todo EXCEPT ![s] = @ \ {p}]
  /\ UNCHANGED <<disk, latest, clock, pc, files, before, first, lost>>

(* Mutant of BackedUp: a file that could not be copied is passed over.     *)
BackedUpInPart(s) ==
  /\ pc[s] = "backup"
  /\ Goto(s, "replan")
  /\ UNCHANGED <<disk, latest, clock, store, files, before, first, todo, log, lost>>

BackedUp(s) ==
  /\ pc[s] = "backup" /\ todo[s] = {}
  /\ Goto(s, "replan")
  /\ UNCHANGED <<disk, latest, clock, store, files, before, first, todo, log, lost>>

(* The second dispatch reads the files again and goes on to execute.  What *)
(* systemd or a crontab says now can lead it to other files.               *)
Replan(s) ==
  /\ pc[s] = "replan"
  /\ before' = [before EXCEPT ![s] = ReadNow]
  /\ \E chosen \in SUBSET Paths \ {{}} :
       /\ files' = [files EXCEPT ![s] = chosen]
       /\ todo' = [todo EXCEPT ![s] = chosen]
  /\ Goto(s, "write")
  /\ UNCHANGED <<disk, latest, clock, store, first, log, lost>>

(* A file is written, put back or removed without a look at what is there  *)
(* now.                                                                    *)
Destroy(s, p) ==
  /\ lost' = IF disk[p] # 0 /\ disk[p] = first[s][p] /\ disk'[p] # disk[p]
               THEN lost \cup {Copy(p, disk[p])} ELSE lost
  /\ todo' = [todo EXCEPT ![s] = @ \ {p}]
  /\ UNCHANGED <<clock, store, pc, files, before, first, log>>

(* A change of the plan.  A file that was not read is removed, whether or  *)
(* not there is one.                                                       *)
Write(s, p) ==
  /\ pc[s] = "write" /\ p \in todo[s]
  /\ \/ /\ p \notin Stamps /\ latest[p] < MaxVersion[p]
        /\ latest' = [latest EXCEPT ![p] = @ + 1]
        /\ disk' = [disk EXCEPT ![p] = latest[p] + 1]
     \/ /\ p \in Stamps \/ before[s][p] # 0
        /\ disk' = [disk EXCEPT ![p] = 0]
        /\ UNCHANGED latest
  /\ Destroy(s, p)

(* A step of the plan fails: what was carried out is undone, but for the   *)
(* files that were not read.                                               *)
Fail(s) ==
  /\ pc[s] = "write"
  /\ todo' = [todo EXCEPT ![s] = files[s] \ (@ \cup Stamps)]
  /\ Goto(s, "undo")
  /\ UNCHANGED <<disk, latest, clock, store, files, before, first, log, lost>>

(* roll_back of one file.                                                  *)
Undo(s, p) ==
  /\ pc[s] = "undo" /\ p \in todo[s]
  /\ disk' = [disk EXCEPT ![p] = before[s][p]]
  /\ UNCHANGED latest
  /\ Destroy(s, p)

(* The apply is over, or an error of any of its steps, a backup that could *)
(* not be written among them, or a kill ends the process.                  *)
End(s) ==
  /\ pc[s] # "idle"
  /\ Goto(s, "idle")
  /\ files' = [files EXCEPT ![s] = {}] /\ todo' = [todo EXCEPT ![s] = {}]
  /\ before' = [before EXCEPT ![s] = [p \in Paths |-> 0]]
  /\ first' = [first EXCEPT ![s] = [p \in Paths |-> 0]]
  /\ UNCHANGED <<disk, latest, clock, store, log, lost>>

-----------------------------------------------------------------------------
Tick ==
  /\ clock < MaxClock /\ clock' = clock + 1
  /\ UNCHANGED <<disk, latest, store, pc, files, before, first, todo, log, lost>>

OtherProgram(p) ==
  /\ latest[p] < MaxVersion[p]
  /\ latest' = [latest EXCEPT ![p] = @ + 1]
  /\ disk' = [disk EXCEPT ![p] = latest[p] + 1]
  /\ UNCHANGED <<clock, store, pc, files, before, first, todo, log, lost>>

Next ==
  \/ \E s \in Sessions : \/ Plan(s) \/ BackedUp(s) \/ Replan(s) \/ Fail(s) \/ End(s)
                        \/ \E p \in Paths : BackUp(s, p) \/ Write(s, p) \/ Undo(s, p)
  \/ Tick
  \/ \E p \in Paths : OtherProgram(p)

Spec == Init /\ [][Next]_vars

-----------------------------------------------------------------------------
InStore(copy) == \E key \in Names \X Seconds : store[key] = copy

(* Another backup was made in the same second to the same name: of the     *)
(* same file by another process, or of a file whose path is flattened      *)
(* alike.  One of the two is gone.                                         *)
Crowded(copy) ==
  \E e, o \in log :
    /\ e.copy = copy /\ o.copy # copy
    /\ o.at = e.at /\ Flat[o.copy.path] = Flat[copy.path]

(* "Before an apply overwrites or removes a file, its previous contents    *)
(* are copied": what a process had in front of it when it first planned,   *)
(* and destroyed, can be found in the store for good, whatever runs and    *)
(* other programs did in between, but for the stamps of anacron, which are *)
(* never copied, and for two backups that fall into the same second and    *)
(* name.                                                                   *)
DestroyedIsBackedUp ==
  \A copy \in lost : copy.path \in Stamps \/ InStore(copy) \/ Crowded(copy)

(* And the copy is made before: the moment a process overwrites or removes *)
(* what its first plan had read, or its undo does, the copy is there; only *)
(* contents that appeared after that plan, and files that only the second  *)
(* plan is about, can go without one.                                      *)
Destroys(s, p) == p \in todo[s] \ todo'[s] /\ disk'[p] # disk[p]
ReadIsBackedUp ==
  [][\A s \in Sessions, p \in Paths \ Stamps :
       Destroys(s, p) /\ disk[p] # 0 /\ disk[p] = first[s][p]
         => InStore(Copy(p, disk[p])) \/ Crowded(Copy(p, disk[p]))]_vars

(* README.md:189, as it is written, says it of every file an apply         *)
(* removes, the stamps included: drop_spool plans their removal without    *)
(* having read them, and backup_targets passes them over.                  *)
StampsAreBackedUp == \A copy \in lost : InStore(copy) \/ Crowded(copy)
=============================================================================
