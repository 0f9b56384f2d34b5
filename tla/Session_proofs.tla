----------------------------- MODULE Session_proofs ----------------------------
(***************************************************************************)
(* What is proved of a process around its writers: the backups it makes    *)
(* before it applies (ApplySession), the file operations of the host it    *)
(* works on (HostFiles) and the collection of a listing (Collector).  The  *)
(* three have no state in common, and each part stands on its own.         *)
(***************************************************************************)
EXTENDS ApplySession, HostFiles, Collector, FiniteSetTheorems, SequenceTheorems, TLAPS

-----------------------------------------------------------------------------
(* The backups: an apply copies what it is about to destroy, for any       *)
(* number of files, versions, seconds, processes and runs, whatever names  *)
(* the files are flattened to.                                             *)

(* A copy of these contents was made.                                      *)
Logged(p, v) == \E e \in log : e.copy = Copy(p, v)

(* It is where it was put, or another backup took its place.               *)
Survives(e) ==
  \/ store[<<Flat[e.copy.path], e.at>>] = e.copy
  \/ \E o \in log : o.at = e.at /\ Flat[o.copy.path] = Flat[e.copy.path] /\ o.copy # e.copy

StoreIsLog == \A e \in log : Survives(e)

(* What the first plan read of the files it is about is copied, as far as  *)
(* the backup has come.                                                    *)
ReadIsLogged ==
  \A s \in Sessions :
    /\ pc[s] = "backup" => \A p \in todo[s] : before[s][p] = first[s][p]
    /\ \A p \in Paths \ Stamps :
         first[s][p] # 0 /\ (pc[s] = "backup" => p \notin todo[s]) => Logged(p, first[s][p])

LostIsLogged == \A copy \in lost : copy.path \in Stamps \/ Logged(copy.path, copy.version)

IInv == TypeOK /\ StoreIsLog /\ ReadIsLogged /\ LostIsLogged
-----------------------------------------------------------------------------
(* Types                                                                   *)

LEMMA InitTypeOK == Init => TypeOK
<1> SUFFICES ASSUME Init PROVE TypeOK OBVIOUS
<1>1. 0 \in Seconds BY SessionAssumption DEF Seconds
<1>2. disk \in [Paths -> Nat] BY DEF Init
<1> QED BY <1>1, <1>2 DEF Init, TypeOK, Nothing

(* What is destroyed is a copy.                                            *)
LEMMA DestroyTypeOK ==
  ASSUME TypeOK, NEW s \in Sessions, NEW p \in Paths, Destroy(s, p),
         disk' \in [Paths -> Nat], latest' \in [Paths -> Nat]
  PROVE  TypeOK'
<1>1. Copy(p, disk[p]) \in Copies BY DEF TypeOK, Copy, Copies
<1>2. lost' \subseteq Copies BY <1>1 DEF Destroy, TypeOK
<1> QED BY <1>2 DEF Destroy, TypeOK

LEMMA NextTypeOK == TypeOK /\ [Next]_vars => TypeOK'
<1> SUFFICES ASSUME TypeOK, [Next]_vars PROVE TypeOK' OBVIOUS
<1> USE DEF TypeOK, Goto
<1>a. ReadNow \in [Paths -> Nat] BY DEF ReadNow
<1>1. ASSUME NEW s \in Sessions, Plan(s) PROVE TypeOK'
  <2>1. PICK chosen \in SUBSET Paths \ {{}} :
          /\ files' = [files EXCEPT ![s] = chosen]
          /\ todo' = [todo EXCEPT ![s] = {p \in chosen : ReadNow[p] # 0}]
          /\ first' = [first EXCEPT ![s] =
                         [p \in Paths |-> IF p \in chosen THEN disk[p] ELSE 0]]
    BY <1>1 DEF Plan
  <2>2. {p \in chosen : ReadNow[p] # 0} \in SUBSET Paths OBVIOUS
  <2>3. files' \in [Sessions -> SUBSET Paths] /\ todo' \in [Sessions -> SUBSET Paths]
    BY <2>1, <2>2
  <2>4. [p \in Paths |-> IF p \in chosen THEN disk[p] ELSE 0] \in [Paths -> Nat] OBVIOUS
  <2>5. first' \in [Sessions -> [Paths -> Nat]] BY <2>1, <2>4
  <2> QED BY <1>1, <1>a, <2>3, <2>5 DEF Plan
<1>2. ASSUME NEW s \in Sessions, NEW p \in Paths, BackUp(s, p) PROVE TypeOK'
  <2>1. Copy(p, before[s][p]) \in Copies BY DEF Copy, Copies
  <2>2. store' \in [Names \X Seconds -> Copies \cup {Nothing}] BY <1>2, <2>1 DEF BackUp
  <2>3. log' \subseteq [copy : Copies, at : Seconds] BY <1>2, <2>1 DEF BackUp, Logs
  <2> QED BY <1>2, <2>2, <2>3 DEF BackUp
<1>3. ASSUME NEW s \in Sessions, Replan(s) PROVE TypeOK'
  <2>1. files' \in [Sessions -> SUBSET Paths] /\ todo' \in [Sessions -> SUBSET Paths]
    BY <1>3 DEF Replan
  <2> QED BY <1>3, <1>a, <2>1 DEF Replan
<1>4. ASSUME NEW s \in Sessions, BackedUp(s) \/ Fail(s) PROVE TypeOK'
  BY <1>4 DEF BackedUp, Fail
<1>5. ASSUME NEW s \in Sessions, End(s) PROVE TypeOK'
  <2>1. [p \in Paths |-> 0] \in [Paths -> Nat] OBVIOUS
  <2> QED BY <1>5, <2>1 DEF End
<1>6. ASSUME NEW s \in Sessions, NEW p \in Paths, Write(s, p) PROVE TypeOK'
  <2>1. disk' \in [Paths -> Nat] /\ latest' \in [Paths -> Nat]
    <3>1. latest[p] + 1 \in Nat OBVIOUS
    <3>2. CASE latest' = [latest EXCEPT ![p] = @ + 1] /\ disk' = [disk EXCEPT ![p] = latest[p] + 1]
      BY <3>1, <3>2
    <3>3. CASE disk' = [disk EXCEPT ![p] = 0] /\ UNCHANGED latest BY <3>3
    <3> QED BY <1>6, <3>2, <3>3 DEF Write
  <2> QED BY <1>6, <2>1, DestroyTypeOK DEF Write
<1>7. ASSUME NEW s \in Sessions, NEW p \in Paths, Undo(s, p) PROVE TypeOK'
  <2>1. disk' \in [Paths -> Nat] /\ latest' \in [Paths -> Nat] BY <1>7 DEF Undo
  <2> QED BY <1>7, <2>1, DestroyTypeOK DEF Undo
<1>8. CASE Tick
  BY <1>8, SessionAssumption DEF Tick, Seconds
<1>9. ASSUME NEW p \in Paths, OtherProgram(p) PROVE TypeOK'
  BY <1>9 DEF OtherProgram
<1>10. CASE UNCHANGED vars BY <1>10 DEF vars
<1> QED BY <1>1, <1>2, <1>3, <1>4, <1>5, <1>6, <1>7, <1>8, <1>9, <1>10 DEF Next

-----------------------------------------------------------------------------
(* The invariant                                                           *)

LEMMA InitIInv == Init => IInv
<1> SUFFICES ASSUME Init PROVE IInv OBVIOUS
<1>1. TypeOK BY InitTypeOK
<1>2. \A s \in Sessions : pc[s] = "idle" /\ \A p \in Paths : first[s][p] = 0 BY DEF Init
<1>3. ReadIsLogged BY <1>2 DEF ReadIsLogged
<1>4. StoreIsLog /\ LostIsLogged BY DEF Init, StoreIsLog, LostIsLogged
<1> QED BY <1>1, <1>3, <1>4 DEF IInv

(* A backup puts its copy where it belongs, and whatever stood there has   *)
(* another one in its place.                                               *)
LEMMA BackUpSurvives ==
  ASSUME TypeOK, StoreIsLog, NEW s \in Sessions, NEW p \in Paths, BackUp(s, p)
  PROVE  StoreIsLog'
<1> DEFINE c == Copy(p, before[s][p])
           key == <<Flat[p], clock>>
           new == [copy |-> c, at |-> clock]
<1>0. /\ c \in Copies /\ c.path = p /\ key \in Names \X Seconds /\ clock \in Seconds
      /\ new.copy = c /\ new.at = clock
  BY SessionAssumption DEF TypeOK, Copy, Copies
<1>1. /\ log' = log \cup {new} /\ clock' = clock
      /\ store' = [store EXCEPT ![key] = c]
  BY DEF BackUp, Logs
<1>2. store'[key] = c /\ \A k \in Names \X Seconds : k # key => store'[k] = store[k]
  BY <1>0, <1>1 DEF TypeOK
<1> SUFFICES ASSUME NEW e \in log' PROVE Survives(e)' BY DEF StoreIsLog
<1>3. e.copy \in Copies /\ e.at \in Seconds BY <1>0, <1>1 DEF TypeOK
<1>4. <<Flat[e.copy.path], e.at>> \in Names \X Seconds BY <1>3, SessionAssumption DEF Copies
<1> HIDE DEF c, new
<1>5. CASE <<Flat[e.copy.path], e.at>> = key
  <2>1. Flat[e.copy.path] = Flat[p] /\ e.at = clock BY <1>5
  <2>2. CASE e.copy = c BY <1>2, <1>5, <2>2 DEF Survives
  <2>3. CASE e.copy # c
    <3>1. new \in log' /\ new.at = e.at /\ Flat[new.copy.path] = Flat[e.copy.path]
          /\ new.copy # e.copy
      BY <1>0, <1>1, <2>1, <2>3
    <3> QED BY <3>1 DEF Survives
  <2> QED BY <2>2, <2>3
<1>6. CASE <<Flat[e.copy.path], e.at>> # key
  <2>1. e \in log BY <1>0, <1>1, <1>6
  <2>2. Survives(e) BY <2>1 DEF StoreIsLog
  <2> QED BY <1>1, <1>2, <1>4, <1>6, <2>2 DEF Survives
<1> QED BY <1>5, <1>6

(* What destroys a file leaves the copies alone, and what it destroys has  *)
(* been copied.                                                            *)
LEMMA DestroyIInv ==
  ASSUME IInv, TypeOK', NEW s \in Sessions, NEW p \in Paths, pc[s] \in {"write", "undo"},
         Destroy(s, p)
  PROVE  IInv'
<1>0. /\ UNCHANGED <<clock, store, pc, files, before, first, log>>
      /\ \A t \in Sessions : t # s => todo'[t] = todo[t]
      /\ lost' = lost \/ (/\ disk[p] # 0 /\ disk[p] = first[s][p]
                          /\ lost' = lost \cup {Copy(p, disk[p])})
  BY DEF Destroy, IInv, TypeOK
<1>1. \A q, v : Logged(q, v)' <=> Logged(q, v) BY <1>0 DEF Logged
<1>2. \A e : Survives(e)' <=> Survives(e) BY <1>0 DEF Survives
<1>3. StoreIsLog' BY <1>0, <1>2 DEF StoreIsLog, IInv
<1>4. ReadIsLogged'
  <2> SUFFICES ASSUME NEW t \in Sessions
               PROVE /\ pc'[t] = "backup" => \A q \in todo'[t] : before'[t][q] = first'[t][q]
                     /\ \A q \in Paths \ Stamps :
                          first'[t][q] # 0 /\ (pc'[t] = "backup" => q \notin todo'[t])
                            => Logged(q, first[t][q])'
    BY DEF ReadIsLogged
  <2>1. CASE t = s BY <1>0, <1>1, <2>1 DEF ReadIsLogged, IInv
  <2>2. CASE t # s BY <1>0, <1>1, <2>2 DEF ReadIsLogged, IInv
  <2> QED BY <2>1, <2>2
<1>5. LostIsLogged'
  <2> SUFFICES ASSUME NEW copy \in lost'
               PROVE  copy.path \in Stamps \/ Logged(copy.path, copy.version)'
    BY DEF LostIsLogged
  <2>1. CASE copy \in lost BY <1>1, <2>1 DEF LostIsLogged, IInv
  <2>2. CASE copy \notin lost
    <3>1. copy = Copy(p, disk[p]) /\ disk[p] # 0 /\ disk[p] = first[s][p] BY <1>0, <2>2
    <3>2. copy.path = p /\ copy.version = disk[p] BY <3>1 DEF Copy
    <3>3. p \in Stamps \/ Logged(p, first[s][p]) BY <3>1 DEF ReadIsLogged, IInv
    <3> QED BY <1>1, <3>1, <3>2, <3>3
  <2> QED BY <2>1, <2>2
<1> QED BY <1>3, <1>4, <1>5 DEF IInv

LEMMA NextIInv == IInv /\ [Next]_vars => IInv'
<1> SUFFICES ASSUME IInv, [Next]_vars PROVE IInv' OBVIOUS
<1>a. TypeOK' BY NextTypeOK DEF IInv
<1>1. ASSUME NEW s \in Sessions, Plan(s) PROVE IInv'
  <2>0. /\ pc' = [pc EXCEPT ![s] = "backup"] /\ before'[s] = ReadNow
        /\ \A t \in Sessions : t # s => /\ todo'[t] = todo[t] /\ pc'[t] = pc[t]
                                        /\ before'[t] = before[t] /\ first'[t] = first[t]
        /\ UNCHANGED <<store, log, lost>>
    BY <1>1 DEF Plan, Goto, IInv, TypeOK
  <2>1. \A q, v : Logged(q, v)' <=> Logged(q, v) BY <2>0 DEF Logged
  <2>2. StoreIsLog' /\ LostIsLogged'
    BY <2>0, <2>1 DEF StoreIsLog, Survives, LostIsLogged, IInv
  <2>3. PICK chosen \in SUBSET Paths :
          /\ todo'[s] = {p \in chosen : ReadNow[p] # 0}
          /\ first'[s] = [p \in Paths |-> IF p \in chosen THEN disk[p] ELSE 0]
    <3>1. PICK chosen \in SUBSET Paths \ {{}} :
            /\ todo' = [todo EXCEPT ![s] = {p \in chosen : ReadNow[p] # 0}]
            /\ first' = [first EXCEPT ![s] =
                           [p \in Paths |-> IF p \in chosen THEN disk[p] ELSE 0]]
      BY <1>1 DEF Plan
    <3> QED BY <3>1 DEF IInv, TypeOK
  <2>4. \A p \in Paths : ReadNow[p] = IF p \in Stamps THEN 0 ELSE disk[p] BY DEF ReadNow
  <2>5. \A p \in todo'[s] : before'[s][p] = first'[s][p] BY <2>0, <2>3, <2>4
  <2>6. \A p \in Paths \ Stamps : first'[s][p] # 0 => p \in todo'[s] BY <2>3, <2>4
  <2>7. pc'[s] = "backup" BY <2>0 DEF IInv, TypeOK
  <2>8. ReadIsLogged'
    <3> SUFFICES ASSUME NEW t \in Sessions
                 PROVE /\ pc'[t] = "backup" => \A p \in todo'[t] : before'[t][p] = first'[t][p]
                       /\ \A p \in Paths \ Stamps :
                            first'[t][p] # 0 /\ (pc'[t] = "backup" => p \notin todo'[t])
                              => Logged(p, first[t][p])'
      BY DEF ReadIsLogged
    <3>1. CASE t = s BY <2>5, <2>6, <2>7, <3>1
    <3>2. CASE t # s BY <2>0, <2>1, <3>2 DEF ReadIsLogged, IInv
    <3> QED BY <3>1, <3>2
  <2> QED BY <1>a, <2>2, <2>8 DEF IInv
<1>2. ASSUME NEW s \in Sessions, NEW p \in Paths, BackUp(s, p) PROVE IInv'
  <2>0. /\ pc[s] = "backup" /\ p \in todo[s] /\ todo'[s] = todo[s] \ {p}
        /\ log' = log \cup {[copy |-> Copy(p, before[s][p]), at |-> clock]}
        /\ \A t \in Sessions : t # s => todo'[t] = todo[t]
        /\ UNCHANGED <<pc, before, first, lost>>
    BY <1>2 DEF BackUp, Logs, IInv, TypeOK
  <2>1. \A q, v : Logged(q, v) => Logged(q, v)' BY <2>0 DEF Logged
  <2>2. Logged(p, first[s][p])'
    <3>1. before[s][p] = first[s][p] BY <2>0 DEF ReadIsLogged, IInv
    <3>2. [copy |-> Copy(p, before[s][p]), at |-> clock].copy = Copy(p, first'[s][p])
      BY <2>0, <3>1
    <3> QED BY <2>0, <3>2 DEF Logged
  <2>3. StoreIsLog' BY <1>2, BackUpSurvives DEF IInv
  <2>4. ReadIsLogged' BY <2>0, <2>1, <2>2 DEF ReadIsLogged, IInv
  <2>5. LostIsLogged' BY <2>0, <2>1 DEF LostIsLogged, IInv
  <2> QED BY <1>a, <2>3, <2>4, <2>5 DEF IInv
<1>3. ASSUME NEW s \in Sessions, BackedUp(s) \/ Replan(s) \/ Fail(s) \/ End(s) PROVE IInv'
  <2>0. /\ \/ pc[s] = "backup" /\ todo[s] = {}
           \/ pc[s] \in {"replan", "write"}
           \/ \A p \in Paths : first'[s][p] = 0
        /\ pc'[s] # "backup" /\ UNCHANGED <<store, log, lost>>
        /\ first'[s] = first[s] \/ \A p \in Paths : first'[s][p] = 0
        /\ \A t \in Sessions : t # s => /\ todo'[t] = todo[t] /\ pc'[t] = pc[t]
                                        /\ before'[t] = before[t] /\ first'[t] = first[t]
    BY <1>3 DEF BackedUp, Replan, Fail, End, Goto, IInv, TypeOK
  <2>1. \A q, v : Logged(q, v)' <=> Logged(q, v) BY <2>0 DEF Logged
  <2>2. StoreIsLog' /\ LostIsLogged'
    BY <2>0, <2>1 DEF StoreIsLog, Survives, LostIsLogged, IInv
  <2>3. ReadIsLogged' BY <2>0, <2>1 DEF ReadIsLogged, IInv
  <2> QED BY <1>a, <2>2, <2>3 DEF IInv
<1>4. ASSUME NEW s \in Sessions, NEW p \in Paths, Write(s, p) \/ Undo(s, p) PROVE IInv'
  BY <1>4, <1>a, DestroyIInv DEF Write, Undo
<1>5. CASE Tick \/ (\E p \in Paths : OtherProgram(p)) \/ UNCHANGED vars
  <2>0. UNCHANGED <<store, pc, before, first, todo, log, lost>>
    BY <1>5 DEF Tick, OtherProgram, vars
  <2>1. \A q, v : Logged(q, v)' <=> Logged(q, v) BY <2>0 DEF Logged
  <2>2. StoreIsLog' /\ LostIsLogged' /\ ReadIsLogged'
    BY <2>0, <2>1 DEF StoreIsLog, Survives, LostIsLogged, ReadIsLogged, IInv
  <2> QED BY <1>a, <2>2 DEF IInv
<1> QED BY <1>1, <1>2, <1>3, <1>4, <1>5 DEF Next

(* What was copied is in the store, unless another backup took its place.  *)
LEMMA LoggedIsKept ==
  ASSUME IInv, NEW p \in Paths, NEW v, Logged(p, v)
  PROVE  InStore(Copy(p, v)) \/ Crowded(Copy(p, v))
<1>1. PICK e \in log : e.copy = Copy(p, v) BY DEF Logged
<1>2. e.at \in Seconds /\ Copy(p, v).path = p BY DEF IInv, TypeOK, Copy
<1>3. Survives(e) BY DEF IInv, StoreIsLog
<1>4. CASE store[<<Flat[e.copy.path], e.at>>] = e.copy
  <2>1. <<Flat[p], e.at>> \in Names \X Seconds BY <1>2, SessionAssumption
  <2> QED BY <1>1, <1>2, <1>4, <2>1 DEF InStore
<1>5. CASE \E o \in log : o.at = e.at /\ Flat[o.copy.path] = Flat[e.copy.path] /\ o.copy # e.copy
  BY <1>1, <1>5 DEF Crowded
<1> QED BY <1>3, <1>4, <1>5 DEF Survives

(* Session::apply, "Before an apply overwrites or removes a file, its      *)
(* previous contents are copied": what a process had in front of it when   *)
(* it planned, and destroyed, stays in the store, for any number of files, *)
(* processes and runs and whatever other programs write, but for stamps of *)
(* anacron and for backups that fall into the same second and name.        *)
THEOREM NothingIsLostForGood == Spec => []DestroyedIsBackedUp
<1>1. IInv => DestroyedIsBackedUp
  <2> SUFFICES ASSUME IInv, NEW copy \in lost, copy.path \notin Stamps
               PROVE  InStore(copy) \/ Crowded(copy)
    BY DEF DestroyedIsBackedUp
  <2>1. Logged(copy.path, copy.version) BY DEF IInv, LostIsLogged
  <2>2. copy \in Copies BY DEF IInv, TypeOK
  <2>3. copy.path \in Paths /\ copy = Copy(copy.path, copy.version) BY <2>2 DEF Copies, Copy
  <2> QED BY <2>1, <2>3, LoggedIsKept
<1>2. IInv /\ [Next]_vars => IInv' BY NextIInv
<1> QED BY <1>1, <1>2, InitIInv, PTL DEF Spec

(* The two plans of Session::apply: what the first plan read is in the     *)
(* store by the time the process, or its undo, destroys it.                *)
THEOREM ReadIsBackedUpHolds == Spec => ReadIsBackedUp
<1> DEFINE Safe == \A s \in Sessions, p \in Paths \ Stamps :
                     Destroys(s, p) /\ disk[p] # 0 /\ disk[p] = first[s][p]
                       => InStore(Copy(p, disk[p])) \/ Crowded(Copy(p, disk[p]))
<1>1. IInv /\ [Next]_vars => [Safe]_vars
  <2> SUFFICES ASSUME IInv, [Next]_vars, NEW s \in Sessions, NEW p \in Paths \ Stamps,
                      Destroys(s, p), disk[p] # 0, disk[p] = first[s][p]
               PROVE  InStore(Copy(p, disk[p])) \/ Crowded(Copy(p, disk[p]))
    OBVIOUS
  <2>0. p \in todo[s] \ todo'[s] /\ disk'[p] # disk[p] BY DEF Destroys
  <2>1. PICK t \in Sessions, q \in Paths : Write(t, q) \/ Undo(t, q)
    <3>1. ASSUME NEW t \in Sessions, Plan(t) \/ BackedUp(t) \/ Replan(t) \/ Fail(t) \/ End(t)
          PROVE  FALSE
      BY <2>0, <3>1 DEF Plan, BackedUp, Replan, Fail, End
    <3>2. ASSUME NEW t \in Sessions, NEW q \in Paths, BackUp(t, q) PROVE FALSE
      BY <2>0, <3>2 DEF BackUp
    <3>3. CASE Tick \/ (\E q \in Paths : OtherProgram(q)) \/ UNCHANGED vars
      BY <2>0, <3>3 DEF Tick, OtherProgram, vars
    <3> QED BY <3>1, <3>2, <3>3 DEF Next
  <2>2. t = s BY <2>0, <2>1 DEF Write, Undo, Destroy, IInv, TypeOK
  <2>3. pc[s] # "backup" BY <2>1, <2>2 DEF Write, Undo
  <2>4. Logged(p, first[s][p]) BY <2>3 DEF IInv, ReadIsLogged
  <2> QED BY <2>4, LoggedIsKept
<1>2. IInv /\ [Next]_vars => IInv' BY NextIInv
<1> HIDE DEF Safe
<1>3. Spec => [][Safe]_vars BY <1>1, <1>2, InitIInv, PTL DEF Spec
<1> QED BY <1>3 DEF Safe, ReadIsBackedUp

-----------------------------------------------------------------------------
(* The files of a host, however many operations on them, however often the *)
(* link breaks or the process dies, and whatever the others write: a write *)
(* is whole unless the script that does it lost its input, what needs root *)
(* is done by root or not at all, and absence is reported of what is       *)
(* absent.                                                                 *)

Files == [text : Texts \cup {"none"}, whole : BOOLEAN]
Stages == {"idle", "ask", "policy", "run", "act", "stream", "move"}

Opers == [kind : Kinds \cup {"none"}, text : Texts \cup {"none"},
          priv : {"User", "Root"}, at : Stages]
Seens == [files : SUBSET Files, ops : Nat, breaks : Nat, writes : Nat,
          cut : BOOLEAN, unsure : BOOLEAN, as : {"none", "root", "user", "nobody"}]

Types ==
    /\ site \in Sites
    /\ root \in {"unasked", "yes", "no"}
    /\ content \in Files /\ temp \in Files /\ adrift \in Files
    /\ op \in Opers
    /\ seen \in Seens

(* The cached answer is right, unless the probe failed.                    *)
Probe ==
    /\ root = "yes" => site.uid0 \/ Misled
    /\ root = "no" => ~site.uid0 \/ seen.unsure

(* How far each kind of operation can be, and what is settled by then.     *)
Staged ==
    /\ op.at \in {"policy", "run"} => op.kind \in {"read", "exists", "write", "remove"}
    /\ op.at = "act" => op.kind \in {"read", "remove"}
    /\ op.at \in {"stream", "move"} => op.kind = "write" /\ seen.as = RunsAs
    /\ op.at = "ask" => op.priv = "User"
    /\ op.at \in {"run", "act", "stream", "move"} => root # "unasked"
    /\ op.at \in {"act", "stream", "move"} => Rendered(op.priv) # "refused" /\ RunsAs # "nobody"
    /\ op.at # "idle" => reply = Silence

(* A part of a text is beside the path while it is streamed, and adrift or *)
(* at the path only after a script lost what fed it.                       *)
Parts ==
    /\ ~temp.whole => op.at = "stream"
    /\ op.at = "move" => temp = Whole(op.text)
    /\ ~adrift.whole => seen.cut
    /\ ~content.whole => seen.cut

HInv == Types /\ Probe /\ Staged /\ Parts /\ WritesAreWhole /\ RootMeansRoot

-----------------------------------------------------------------------------
(* Who runs a command, and what it answers                                 *)

LEMMA RunsAsSomebody ==
  ASSUME Types, Probe, Rendered(op.priv) # "refused"
  PROVE  /\ RunsAs \in {"root", "user", "nobody"}
         /\ op.priv = "Root" => RunsAs # "user" \/ Misled
         /\ RunsAs = "nobody" => ~site.sudoers /\ ~site.uid0
<1>1. op.priv \in {"User", "Root"} /\ root \in {"unasked", "yes", "no"} BY DEF Types, Opers
<1>2. /\ site.flag \in BOOLEAN /\ site.sudoers \in BOOLEAN /\ site.uid0 \in BOOLEAN
      /\ site.uid0 => site.sudoers = site.flag
  BY DEF Types, Sites
<1>3. root = "yes" => site.uid0 \/ Misled BY DEF Probe
<1> QED BY <1>1, <1>2, <1>3 DEF RunsAs, Rendered

(* Neither root nor --sudo is refused.                                     *)
LEMMA RefusedIsNotRoot ==
  ASSUME Types, Probe, root # "unasked", Rendered(op.priv) = "refused"
  PROVE  ~site.sudoers /\ (~site.uid0 \/ seen.unsure)
<1>1. root = "no" /\ ~site.flag BY DEF Types, Rendered
<1>2. ~site.sudoers BY <1>1 DEF Types, Sites
<1> QED BY <1>1, <1>2 DEF Probe

(* std::fs is denied nothing that it does as root.                         *)
LEMMA RootIsPermitted ==
  ASSUME Types, Probe, ~Misled, op.priv = "Root", Direct
  PROVE  RunsAs = "root" /\ Permitted
<1>1. root = "yes" BY DEF Direct
<1>2. site.uid0 BY <1>1 DEF Probe
<1> QED BY <1>1, <1>2 DEF RunsAs, Rendered, Permitted

LEMMA DeniedByScript ==
  ASSUME Types, Probe, ~Misled, op.priv = "Root", ~Permitted
  PROVE  Denied = "failed"
BY RootIsPermitted DEF Denied

LEMMA AnswersOf ==
  ASSUME Types, Probe, Rendered(op.priv) # "refused", op.kind \in {"read", "exists", "remove"}
  PROVE  /\ Answer \in {"needs root", "absent", "failed", "text", "present", "removed"}
         /\ Answer \in {"text", "removed", "present"} => RunsAs # "nobody"
         /\ Answer = "absent" => RunsAs # "nobody" \/ op.kind = "exists"
         /\ Answer = "needs root" /\ op.priv = "Root" => RunsAs = "nobody" \/ Misled
         /\ Answer = "removed" => op.kind = "remove"
<1>1. /\ ReadReply \in {"needs root", "absent", "failed", "text"}
      /\ ReadReply \in {"text", "absent"} => RunsAs # "nobody"
      /\ ReadReply = "needs root" /\ op.priv = "Root" => RunsAs = "nobody" \/ Misled
  <2>1. Denied \in {"needs root", "failed"} BY DEF Denied
  <2> QED BY <2>1, DeniedByScript DEF ReadReply
<1>2. /\ ExistsReply \in {"needs root", "absent", "present"}
      /\ ExistsReply = "present" => RunsAs # "nobody"
      /\ ExistsReply = "needs root" => RunsAs = "nobody"
  BY DEF ExistsReply
<1>3. CASE op.kind = "read"
  <2>1. Answer = ReadReply BY <1>3 DEF Answer
  <2> QED BY <1>1, <1>3, <2>1
<1>4. CASE op.kind = "exists"
  <2>1. Answer = ExistsReply BY <1>4 DEF Answer
  <2> QED BY <1>2, <1>4, <2>1
<1>5. CASE op.kind = "remove"
  <2>1. Answer = RemoveReply BY <1>5 DEF Answer
  <2>2. \/ Answer = "removed" /\ ReadReply = "text"
        \/ Answer = ReadReply /\ ReadReply # "text"
    BY <2>1 DEF RemoveReply
  <2> QED BY <1>1, <1>5, <2>2
<1> QED BY <1>3, <1>4, <1>5

-----------------------------------------------------------------------------
(* The invariant                                                           *)

(* A new process is sure of the user, or was told by $USER.                *)
LEMMA DetectedFacts ==
  ASSUME NEW d \in Detected
  PROVE  /\ d.root \in {"unasked", "yes", "no"} /\ d.unsure \in BOOLEAN
         /\ d.root = "yes" => site.uid0 \/ (d.unsure /\ site.named)
         /\ d.root = "no" => ~site.uid0 \/ d.unsure
<1>1. CASE site.ssh
  <2>1. d = [root |-> "unasked", unsure |-> FALSE] BY <1>1 DEF Detected
  <2> QED BY <2>1
<1>2. CASE ~site.ssh /\ d = [root |-> Uid, unsure |-> FALSE]
  <2>1. d.root = Uid /\ d.unsure = FALSE BY <1>2
  <2> QED BY <2>1 DEF Uid
<1>3. CASE ~site.ssh /\ d = [root |-> IF site.named THEN "yes" ELSE "no", unsure |-> TRUE]
  <2>1. d.root = (IF site.named THEN "yes" ELSE "no") /\ d.unsure = TRUE BY <1>3
  <2> QED BY <2>1
<1> QED BY <1>1, <1>2, <1>3 DEF Detected

LEMMA HInvInit == FInit => HInv
<1> SUFFICES ASSUME FInit PROVE HInv OBVIOUS
<1>1. Absent \in Files /\ \A t \in Texts : Whole(t) \in Files BY DEF Absent, Whole, Files
<1>2. content \in Files /\ content.whole
  <2>1. content = Absent \/ \E t \in Texts : content = Whole(t) BY DEF FInit
  <2>2. Absent.whole /\ \A t \in Texts : Whole(t).whole BY DEF Absent, Whole
  <2> QED BY <1>1, <2>1, <2>2
<1>3. site \in Sites /\ site.uid0 \in BOOLEAN BY DEF FInit, Sites
<1>d. PICK d \in Detected :
        /\ root = d.root
        /\ seen = [files |-> {content}, ops |-> 0, breaks |-> 0, writes |-> 0,
                   cut |-> FALSE, unsure |-> d.unsure, as |-> "none"]
  BY DEF FInit
<1>e. seen \in Seens BY <1>2, <1>d, DetectedFacts DEF Seens
<1>4. Types
  BY <1>1, <1>2, <1>3, <1>d, <1>e, DetectedFacts DEF FInit, Types, Opers, Idle, Stages, Kinds
<1>5. Probe
  <2>1. seen.unsure = d.unsure BY <1>d
  <2> QED BY <1>d, <2>1, DetectedFacts DEF Probe, Misled
<1>6. Staged BY DEF FInit, Staged, Idle
<1>7. Parts BY <1>2 DEF FInit, Parts, Idle, Absent
<1>8. WritesAreWhole /\ RootMeansRoot
  BY <1>2 DEF FInit, WritesAreWhole, RootMeansRoot, Misled, Silence
<1> QED BY <1>4, <1>5, <1>6, <1>7, <1>8 DEF HInv

(* Every step keeps it: one case for each action.                          *)
LEMMA HInvNext == HInv /\ [FNext]_fvars => HInv'
<1> SUFFICES ASSUME HInv, [FNext]_fvars PROVE HInv' OBVIOUS
<1> USE DEF HInv
<1>0. Absent \in Files /\ \A t \in Texts \cup {"none"} : Whole(t) \in Files /\ Part(t) \in Files
  BY DEF Absent, Whole, Part, Files
<1> USE DEF Opers, Seens
<1>a. op \in Opers /\ seen \in Seens BY DEF Types
<1>1. CASE Call
  <2>1. Types'
    <3>1. op' \in Opers BY <1>1 DEF Call, Stages
    <3>2. content \in Files /\ seen.ops + 1 \in Nat BY <1>a DEF Types
    <3>3. seen' = [seen EXCEPT !.ops = seen.ops + 1, !.files = {content}, !.as = "none"]
      BY <1>1 DEF Call
    <3>4. seen' \in Seens BY <1>a, <3>2, <3>3
    <3> QED BY <1>1, <3>1, <3>4 DEF Call, Types
  <2>2. Probe' BY <1>1, <1>a DEF Call, Probe, Misled
  <2>3. op'.at \in {"ask", "policy"} /\ (op'.at = "ask" => op'.priv = "User")
        /\ (op'.at = "policy" => op'.kind \in {"read", "exists", "write", "remove"})
        /\ reply' = Silence
    BY <1>1 DEF Call, Kinds
  <2>4. Staged' BY <2>3 DEF Staged
  <2>5. Parts'
    BY <1>1, <1>a, <2>3 DEF Call, Parts, Idle
  <2>6. WritesAreWhole' /\ RootMeansRoot'
    BY <1>1, <1>a DEF Call, WritesAreWhole, RootMeansRoot, Misled, Silence
  <2> QED BY <2>1, <2>2, <2>4, <2>5, <2>6
<1>2. CASE WhoAmI
  <2>1. Types' BY <1>2, <1>a DEF WhoAmI, Ends, Break, Types, Idle, Stages, MayBreak
  <2>2. Probe' BY <1>2, <1>a DEF WhoAmI, Break, Probe, Misled
  <2>3. Staged' BY <1>2 DEF WhoAmI, Ends, Idle, Staged
  <2>4. Parts' BY <1>2, <1>a DEF WhoAmI, Ends, Break, Idle, Parts
  <2>5. op.priv = "User" BY <1>2 DEF WhoAmI, Staged
  <2>6. WritesAreWhole' BY <1>2, <1>a DEF WhoAmI, Ends, Break, Says, WritesAreWhole
  <2>7. RootMeansRoot'
    <3>1. reply'.priv = "User" BY <1>2, <2>5 DEF WhoAmI, Ends, Says
    <3> QED BY <3>1 DEF RootMeansRoot, Misled
  <2> QED BY <2>1, <2>2, <2>3, <2>4, <2>6, <2>7
<1>3. CASE Policy
  <2>0. site.uid0 \in BOOLEAN BY DEF Types, Sites
  <2>1. Types'
    <3>1. op' \in Opers BY <1>3, <1>a DEF Policy, Stages
    <3>2. root' \in {"unasked", "yes", "no"} BY <1>3, <2>0 DEF Policy, Types, Uid
    <3>3. seen' \in Seens
      <4>1. seen.breaks + 1 \in Nat BY <1>a
      <4>2. seen' = seen \/ seen' = [seen EXCEPT !.breaks = seen.breaks + 1, !.unsure = TRUE]
        BY <1>3 DEF Policy
      <4> QED BY <1>a, <4>1, <4>2
    <3> QED BY <1>3, <3>1, <3>2, <3>3 DEF Policy, Types
  <2>2. Probe'
    <3>1. CASE root' = Uid /\ seen' = seen BY <1>3, <2>0, <3>1 DEF Policy, Probe, Uid, Misled
    <3>2. CASE root' = root /\ seen' = seen BY <1>3, <3>2 DEF Policy, Probe, Misled
    <3>3. CASE root' = "no" /\ seen'.unsure BY <3>3 DEF Probe
    <3> QED BY <1>3, <1>a, <3>1, <3>2, <3>3 DEF Policy
  <2>3. op'.at = "run" /\ op'.kind = op.kind /\ root' # "unasked"
        /\ reply' = Silence
    BY <1>3, <1>a DEF Policy, Uid, Staged
  <2>4. Staged' BY <1>3, <2>3 DEF Policy, Staged
  <2>5. Parts' BY <1>3, <1>a, <2>3 DEF Policy, Parts
  <2>6. WritesAreWhole' /\ RootMeansRoot'
    BY <1>3, <1>a DEF Policy, WritesAreWhole, RootMeansRoot, Misled
  <2> QED BY <2>1, <2>2, <2>4, <2>5, <2>6
<1>4. CASE Refuse
  <2>1. Types' BY <1>4, <1>a DEF Refuse, Ends, Types, Idle, Stages
  <2>2. Probe' BY <1>4 DEF Refuse, Probe, Misled
  <2>3. Staged' BY <1>4 DEF Refuse, Ends, Idle, Staged
  <2>4. Parts' BY <1>4 DEF Refuse, Ends, Idle, Parts
  <2>5. ~site.sudoers /\ (~site.uid0 \/ seen.unsure)
    BY <1>4, RefusedIsNotRoot DEF Refuse, Staged
  <2>6. WritesAreWhole' BY <1>4 DEF Refuse, Ends, Says, WritesAreWhole
  <2>7. RootMeansRoot' BY <1>4, <2>5 DEF Refuse, Ends, Says, RootMeansRoot, Misled
  <2> QED BY <2>1, <2>2, <2>3, <2>4, <2>6, <2>7
<1>5. CASE Test
  <2>0. /\ Rendered(op.priv) # "refused" /\ RunsAs # "nobody"
        /\ op'.at = "act" /\ op'.kind = op.kind /\ op'.priv = op.priv
        /\ op.kind \in {"read", "remove"} /\ root # "unasked"
        /\ reply' = Silence
    BY <1>5, <1>a, AnswersOf DEF Test, Staged
  <2>1. Types' BY <1>5, <1>a DEF Test, Types, Stages
  <2>2. Probe' BY <1>5 DEF Test, Probe, Misled
  <2>3. Rendered(op.priv)' = Rendered(op.priv) /\ RunsAs' = RunsAs
    BY <1>5, <2>0 DEF Test, Rendered, RunsAs
  <2>4. Staged' BY <1>5, <2>0, <2>3 DEF Test, Staged
  <2>5. Parts' BY <1>5, <2>0 DEF Test, Parts
  <2>6. WritesAreWhole' /\ RootMeansRoot' BY <1>5 DEF Test, WritesAreWhole, RootMeansRoot, Misled
  <2> QED BY <2>1, <2>2, <2>4, <2>5, <2>6
<1>6. CASE Act
  <2>0. /\ RunsAs \in {"root", "user"} /\ (op.priv = "Root" => RunsAs = "root" \/ Misled)
        /\ content' \in Files /\ (content'.whole \/ content' = content)
    BY <1>0, <1>6, RunsAsSomebody DEF Act, Staged, Types, Absent
  <2>1. Types' BY <1>6, <1>a, <2>0 DEF Act, Ends, Types, Idle, Stages
  <2>2. Probe' BY <1>6, <1>a DEF Act, Probe, Misled
  <2>3. Staged' BY <1>6 DEF Act, Ends, Idle, Staged
  <2>4. Parts' BY <1>6, <1>a, <2>0 DEF Act, Ends, Idle, Parts
  <2>5. WritesAreWhole' BY <1>6, <1>a, <2>0 DEF Act, Ends, Says, WritesAreWhole
  <2>6. RootMeansRoot' BY <1>6, <1>a, <2>0 DEF Act, Ends, Says, RootMeansRoot, Misled
  <2> QED BY <2>1, <2>2, <2>3, <2>4, <2>5, <2>6
<1>7. CASE Run
  <2>0. /\ RunsAs \in {"root", "user", "nobody"}
        /\ op.priv = "Root" => RunsAs # "user" \/ Misled
        /\ RunsAs = "nobody" => ~site.sudoers /\ ~site.uid0
        /\ op.kind \in {"read", "exists", "remove"}
    BY <1>7, RunsAsSomebody DEF Run, Staged
  <2>1. /\ Answer \in {"needs root", "absent", "failed", "text", "present", "removed"}
        /\ Answer \in {"text", "removed", "present"} => RunsAs # "nobody"
        /\ Answer = "absent" => RunsAs # "nobody" \/ op.kind = "exists"
        /\ Answer = "needs root" /\ op.priv = "Root" => RunsAs = "nobody" \/ Misled
    BY <1>7, <2>0, AnswersOf DEF Run
  <2>2. content' \in Files /\ (content'.whole \/ content' = content)
    BY <1>0, <1>7 DEF Run, Types, Absent
  <2>3. Types' BY <1>7, <1>a, <2>0, <2>2 DEF Run, Ends, Types, Idle, Stages
  <2>4. Probe' BY <1>7, <1>a DEF Run, Probe, Misled
  <2>5. Staged' BY <1>7 DEF Run, Ends, Idle, Staged
  <2>6. Parts' BY <1>7, <1>a, <2>2 DEF Run, Ends, Idle, Parts
  <2>7. WritesAreWhole' BY <1>7, <1>a, <2>1, <2>2 DEF Run, Ends, Says, WritesAreWhole
  <2>8. RootMeansRoot'
    <3>1. /\ reply'.priv = op.priv /\ reply'.says = Answer /\ reply'.kind = op.kind
          /\ seen'.as = RunsAs /\ seen'.unsure = seen.unsure /\ site' = site
      BY <1>7, <1>a DEF Run, Ends, Says
    <3> QED BY <2>0, <2>1, <3>1 DEF RootMeansRoot, Misled
  <2> QED BY <2>3, <2>4, <2>5, <2>6, <2>7, <2>8
<1>8. CASE MakeTemp
  <2>0. /\ RunsAs \in {"root", "user", "nobody"}
        /\ op.priv = "Root" => RunsAs # "user" \/ Misled
        /\ RunsAs = "nobody" => ~site.sudoers /\ ~site.uid0
        /\ Rendered(op.priv) # "refused" /\ root # "unasked" /\ op.kind = "write"
    BY <1>8, RunsAsSomebody DEF MakeTemp, Staged
  <2>1. CASE RunsAs = "nobody" \/ ~Permitted
    <3>0. /\ op' = Idle /\ temp' = temp
          /\ reply' = Says(IF RunsAs = "nobody" THEN "needs root" ELSE Denied)
          /\ seen' = [seen EXCEPT !.as = RunsAs]
          /\ UNCHANGED <<site, user, root, content, adrift>>
      BY <1>8, <2>1 DEF MakeTemp, Ends
    <3>1. Types' BY <1>a, <2>0, <3>0 DEF Types, Idle, Stages
    <3>2. Probe' BY <1>a, <3>0 DEF Probe, Misled
    <3>3. Staged' BY <3>0 DEF Idle, Staged
    <3>4. op.at = "run" BY <1>8 DEF MakeTemp
    <3>5. Parts' BY <1>a, <3>0, <3>4 DEF Idle, Parts
    <3>6. Denied \in {"needs root", "failed"} BY DEF Denied
    <3>7. WritesAreWhole' BY <1>a, <3>0, <3>6 DEF Says, WritesAreWhole
    <3>8. op.priv = "Root" /\ RunsAs # "nobody" => Denied = "failed" \/ Misled
      BY <2>1, DeniedByScript
    <3>9. RootMeansRoot' BY <1>a, <2>0, <3>0, <3>8 DEF Says, RootMeansRoot, Misled
    <3> QED BY <3>1, <3>2, <3>3, <3>5, <3>7, <3>9
  <2>2. CASE ~(RunsAs = "nobody" \/ ~Permitted)
    <3>0. /\ op' = [op EXCEPT !.at = "stream"] /\ temp' = Part(op.text) /\ reply' = reply
          /\ seen' = [seen EXCEPT !.as = RunsAs]
          /\ UNCHANGED <<site, user, root, content, adrift>>
      BY <1>8, <2>2 DEF MakeTemp
    <3>1. Types' BY <1>0, <1>a, <2>0, <3>0 DEF Types, Stages
    <3>2. Probe' BY <1>a, <3>0 DEF Probe, Misled
    <3>3. op'.priv = op.priv /\ op'.kind = op.kind /\ op'.at = "stream" /\ seen'.as = RunsAs
      BY <1>a, <3>0
    <3>4. Rendered(op.priv)' = Rendered(op.priv) /\ RunsAs' = RunsAs
      BY <3>0, <3>3 DEF Rendered, RunsAs
    <3>5. reply' = Silence BY <1>8, <3>0 DEF MakeTemp, Staged
    <3>6. Staged' BY <2>0, <2>2, <3>0, <3>3, <3>4, <3>5 DEF Staged
    <3>7. Parts' BY <1>a, <3>0, <3>3 DEF Parts
    <3>8. WritesAreWhole' BY <1>a, <3>0 DEF WritesAreWhole
    <3>9. RootMeansRoot' BY <3>5 DEF RootMeansRoot, Misled, Silence
    <3> QED BY <3>1, <3>2, <3>6, <3>7, <3>8, <3>9
  <2> QED BY <2>1, <2>2
<1>9. CASE Stream
  <2>0. /\ op'.priv = op.priv /\ op'.kind = op.kind /\ op'.text = op.text /\ op'.at = "move"
        /\ temp' = Whole(op.text) /\ reply' = Silence
    BY <1>9, <1>a DEF Stream, Staged
  <2>1. Types' BY <1>0, <1>9, <1>a DEF Stream, Types, Stages
  <2>2. Probe' BY <1>9 DEF Stream, Probe, Misled
  <2>3. Rendered(op.priv)' = Rendered(op.priv) /\ RunsAs' = RunsAs
    BY <1>9, <2>0 DEF Stream, Rendered, RunsAs
  <2>4. Staged' BY <1>9, <2>0, <2>3 DEF Stream, Staged
  <2>5. Parts' BY <1>9, <2>0 DEF Stream, Parts, Whole
  <2>6. WritesAreWhole' BY <1>9 DEF Stream, WritesAreWhole
  <2>7. RootMeansRoot' BY <1>9 DEF Stream, RootMeansRoot, Misled
  <2> QED BY <2>1, <2>2, <2>4, <2>5, <2>6, <2>7
<1>10. CASE StreamFails
  <2>1. Types' BY <1>0, <1>10, <1>a DEF StreamFails, Ends, Types, Idle, Stages
  <2>2. Probe' BY <1>10 DEF StreamFails, Probe, Misled
  <2>3. Staged' BY <1>10 DEF StreamFails, Ends, Idle, Staged
  <2>4. Parts' BY <1>10 DEF StreamFails, Ends, Idle, Parts, Absent
  <2>5. WritesAreWhole' BY <1>10 DEF StreamFails, Ends, Says, WritesAreWhole
  <2>6. RootMeansRoot' BY <1>10 DEF StreamFails, Ends, Says, RootMeansRoot, Misled
  <2> QED BY <2>1, <2>2, <2>3, <2>4, <2>5, <2>6
<1>11. CASE Move
  <2>0. /\ content' = Whole(op.text) /\ content' \in Files /\ content'.whole
        /\ RunsAs \in {"root", "user"} /\ (op.priv = "Root" => RunsAs = "root" \/ Misled)
        /\ seen'.as = RunsAs /\ seen'.cut = seen.cut /\ content' \in seen'.files
        /\ reply' = Says("written") /\ op' = Idle /\ temp' = Absent
    BY <1>11, <1>a, RunsAsSomebody DEF Move, Ends, Staged, Parts, Types, Whole
  <2>1. Types' BY <1>0, <1>11, <1>a, <2>0 DEF Move, Types, Idle, Stages
  <2>2. Probe' BY <1>11, <1>a DEF Move, Probe, Misled
  <2>3. Staged' BY <2>0 DEF Idle, Staged
  <2>4. Parts' BY <1>11, <2>0 DEF Move, Idle, Parts, Absent
  <2>5. WritesAreWhole' BY <2>0 DEF Says, WritesAreWhole
  <2>7. site' = site /\ seen'.unsure = seen.unsure BY <1>11, <1>a DEF Move
  <2>6. RootMeansRoot' BY <2>0, <2>7 DEF Says, RootMeansRoot, Misled
  <2> QED BY <2>1, <2>2, <2>3, <2>4, <2>5, <2>6
<1>12. CASE LinkBreaks
  <2>a. content' = content \/ content' = Absent BY <1>12 DEF LinkBreaks
  <2>b. Absent.whole BY DEF Absent
  <2>c. seen'.cut = (seen.cut \/ ~temp.whole) BY <1>12, <1>a DEF LinkBreaks
  <2>0. /\ content' \in Files /\ (content' = content \/ content'.whole)
        /\ adrift' = temp /\ temp' = Absent
        /\ op' = Idle /\ reply' = Says("transport")
        /\ seen'.cut = (seen.cut \/ ~temp.whole)
    BY <1>0, <1>12, <2>a, <2>b, <2>c DEF LinkBreaks, Ends, Types
  <2>1. temp.whole \in BOOLEAN BY DEF Types, Files
  <2>d. op' \in Opers BY <2>0 DEF Idle, Stages
  <2>e. seen' \in Seens
    <3>1. seen.breaks + 1 \in Nat /\ (seen.cut \/ ~temp.whole) \in BOOLEAN BY <1>a, <2>1
    <3>2. seen' = [seen EXCEPT !.breaks = seen.breaks + 1, !.cut = seen.cut \/ ~temp.whole]
      BY <1>12 DEF LinkBreaks
    <3> QED BY <1>a, <3>1, <3>2
  <2>2. Types' BY <1>0, <1>12, <2>0, <2>d, <2>e DEF LinkBreaks, Types
  <2>3. Probe' BY <1>12, <1>a DEF LinkBreaks, Probe, Misled
  <2>4. Staged' BY <2>0 DEF Idle, Staged
  <2>5. Parts' BY <2>0 DEF Idle, Parts, Absent
  <2>6. WritesAreWhole' BY <2>0 DEF Says, WritesAreWhole
  <2>7. RootMeansRoot' BY <2>0 DEF Says, RootMeansRoot, Misled
  <2> QED BY <2>2, <2>3, <2>4, <2>5, <2>6, <2>7
<1>13. CASE Drift
  <2>0. /\ content' \in Files /\ (~content'.whole => seen.cut)
        /\ adrift' = Absent /\ seen'.cut = seen.cut /\ seen'.as = seen.as
        /\ seen'.unsure = seen.unsure
        /\ seen.files \subseteq seen'.files
    BY <1>13, <1>a DEF Drift, Types, Parts
  <2>1. Types' BY <1>0, <1>13, <1>a, <2>0 DEF Drift, Types
  <2>2. Probe' BY <1>13, <2>0 DEF Drift, Probe, Misled
  <2>3. Rendered(op.priv)' = Rendered(op.priv) /\ RunsAs' = RunsAs
    BY <1>13 DEF Drift, Rendered, RunsAs
  <2>4. Staged' BY <1>13, <2>0, <2>3 DEF Drift, Staged
  <2>5. Parts' BY <1>13, <2>0 DEF Drift, Parts, Absent
  <2>6. WritesAreWhole' BY <1>13, <2>0 DEF Drift, WritesAreWhole
  <2>7. RootMeansRoot' BY <1>13, <2>0 DEF Drift, RootMeansRoot, Misled
  <2> QED BY <2>1, <2>2, <2>4, <2>5, <2>6, <2>7
<1>14. CASE OtherWrites
  <2>0. /\ content' \in Files /\ content'.whole
        /\ seen'.cut = seen.cut /\ seen'.as = seen.as /\ seen'.unsure = seen.unsure
        /\ seen.files \subseteq seen'.files
    BY <1>0, <1>14, <1>a DEF OtherWrites, Absent, Whole
  <2>1. Types'
    <3>1. seen.writes + 1 \in Nat BY <1>a
    <3>2. seen' = [seen EXCEPT !.files = seen.files \cup {content'}, !.writes = seen.writes + 1]
      BY <1>14 DEF OtherWrites
    <3>3. seen' \in Seens BY <1>a, <2>0, <3>1, <3>2
    <3> QED BY <1>14, <2>0, <3>3 DEF OtherWrites, Types
  <2>2. Probe' BY <1>14, <2>0 DEF OtherWrites, Probe, Misled
  <2>3. Rendered(op.priv)' = Rendered(op.priv) /\ RunsAs' = RunsAs
    BY <1>14 DEF OtherWrites, Rendered, RunsAs
  <2>4. Staged' BY <1>14, <2>0, <2>3 DEF OtherWrites, Staged
  <2>5. Parts' BY <1>14, <2>0 DEF OtherWrites, Parts
  <2>6. WritesAreWhole' BY <1>14, <2>0 DEF OtherWrites, WritesAreWhole
  <2>7. RootMeansRoot' BY <1>14, <2>0 DEF OtherWrites, RootMeansRoot, Misled
  <2> QED BY <2>1, <2>2, <2>4, <2>5, <2>6, <2>7
<1>15. CASE UNCHANGED fvars
  <2>1. Types' /\ Probe' /\ Parts' BY <1>15 DEF fvars, Types, Probe, Misled, Parts
  <2>2. Rendered(op.priv)' = Rendered(op.priv) /\ RunsAs' = RunsAs
    BY <1>15 DEF fvars, Rendered, RunsAs
  <2>3. Staged' BY <1>15, <2>2 DEF fvars, Staged
  <2>4. WritesAreWhole' /\ RootMeansRoot'
    BY <1>15 DEF fvars, WritesAreWhole, RootMeansRoot, Misled
  <2> QED BY <2>1, <2>3, <2>4
<1>16. CASE ProcessDies
  <2>1. PICK d \in Detected :
          /\ root' = d.root
          /\ seen' = [seen EXCEPT !.breaks = seen.breaks + 1, !.unsure = d.unsure,
                                  !.cut = seen.cut \/ (~Direct /\ ~temp.whole)]
    BY <1>16 DEF ProcessDies
  <2>2. /\ content' \in Files /\ (content' = content \/ content'.whole)
        /\ adrift' \in Files /\ (~adrift'.whole => ~Direct /\ ~temp.whole)
        /\ temp' = Absent /\ op' = Idle /\ reply' = Silence /\ site' = site
    <3>1. content' = content \/ content' = Absent BY <1>16 DEF ProcessDies
    <3>2. Absent.whole BY DEF Absent
    <3>3. adrift' = (IF Direct THEN Absent ELSE temp) /\ temp' = Absent /\ op' = Idle
          /\ reply' = Silence /\ site' = site
      BY <1>16 DEF ProcessDies
    <3> HIDE DEF Direct
    <3> QED BY <1>0, <3>1, <3>2, <3>3 DEF Types
  <2>3. seen'.cut = (seen.cut \/ (~Direct /\ ~temp.whole)) /\ seen'.unsure = d.unsure
    BY <1>a, <2>1
  <2>4. seen' \in Seens
    <3>1. temp.whole \in BOOLEAN BY DEF Types, Files
    <3>2. seen.breaks + 1 \in Nat /\ (seen.cut \/ (~Direct /\ ~temp.whole)) \in BOOLEAN
      BY <1>a, <3>1
    <3> QED BY <1>a, <2>1, <3>2, DetectedFacts
  <2>5. op' \in Opers BY <2>2 DEF Idle, Stages
  <2>6. Types' BY <1>0, <2>1, <2>2, <2>4, <2>5, DetectedFacts DEF Types
  <2>7. Probe' BY <2>1, <2>2, <2>3, DetectedFacts DEF Probe, Misled
  <2>8. Staged' BY <2>2 DEF Idle, Staged
  <2>9. Parts' BY <2>2, <2>3 DEF Idle, Parts, Absent
  <2>10. WritesAreWhole' BY <2>2, <2>3 DEF Silence, WritesAreWhole
  <2>11. RootMeansRoot' BY <2>2 DEF Silence, RootMeansRoot
  <2> QED BY <2>6, <2>7, <2>8, <2>9, <2>10, <2>11
<1> QED BY <1>1, <1>2, <1>3, <1>4, <1>5, <1>6, <1>7, <1>8, <1>9, <1>10,
           <1>11, <1>12, <1>13, <1>14, <1>15, <1>16 DEF FNext, Rest

LEMMA HInvHolds == FSpec => []HInv
BY HInvInit, HInvNext, PTL DEF FSpec

(* Host::write_file: whatever breaks, the file is whole unless a script    *)
(* that was writing it lost its link or the process that fed it, and what  *)
(* is reported as written was in place at some time of the call.           *)
THEOREM FilesAreWhole == FSpec => []WritesAreWhole
<1>1. HInv => WritesAreWhole BY DEF HInv
<1> QED BY <1>1, HInvHolds, PTL

(* argv_for and RemoteCollector::policy: what needs root is carried out by *)
(* root or not at all, and is refused only to somebody who is not root and *)
(* may not become root; except after a probe that failed.                  *)
THEOREM RootIsNeverFaked == FSpec => []RootMeansRoot
<1>1. HInv => RootMeansRoot BY DEF HInv
<1> QED BY <1>1, HInvHolds, PTL

-----------------------------------------------------------------------------
(* Absence                                                                 *)

(* An answer of absence is given of a path that is absent, or by somebody  *)
(* who may not look, or by a shell that sudo refused to start.             *)
LEMMA AbsentAnswer ==
  ASSUME Types, Probe, Rendered(op.priv) # "refused",
         op.kind \in {"read", "exists", "remove"}, Answer = "absent"
  PROVE  \/ content = Absent
         \/ site.closed /\ RunsAs = "user"
         \/ site.ssh /\ op.kind = "exists" /\ RunsAs = "nobody"
<1>1. RunsAs \in {"root", "user", "nobody"} BY RunsAsSomebody
<1>2. Found = Absent => content = Absent \/ (site.closed /\ RunsAs # "root")
  BY DEF Found, Sees
<1>3. Denied # "absent" BY DEF Denied
<1>4. ReadReply = "absent" => Found = Absent /\ RunsAs # "nobody"
  BY <1>3 DEF ReadReply
<1>5. CASE op.kind = "exists"
  <2>1. ExistsReply = "absent" BY <1>5 DEF Answer
  <2>2. (RunsAs = "nobody" /\ site.ssh) \/ (RunsAs # "nobody" /\ Found = Absent)
    BY <2>1 DEF ExistsReply
  <2> QED BY <1>1, <1>2, <1>5, <2>2
<1>6. CASE op.kind # "exists"
  <2>1. Answer = ReadReply \/ Answer = RemoveReply BY <1>6 DEF Answer
  <2>2. ReadReply = "absent" BY <2>1 DEF RemoveReply
  <2> QED BY <1>1, <1>2, <1>4, <2>2
<1> QED BY <1>5, <1>6

(* Only Run answers with absence; from then on the history of the call     *)
(* only grows, until the next call.                                        *)
LEMMA AbsentStep == HInv /\ AbsentIsAbsent /\ [FNext]_fvars => AbsentIsAbsent'
<1> SUFFICES ASSUME HInv, AbsentIsAbsent, [FNext]_fvars PROVE AbsentIsAbsent' OBVIOUS
<1>a. Types /\ Probe /\ Staged /\ seen \in Seens BY DEF HInv, Types
<1>1. CASE Run
  <2>1. Rendered(op.priv) # "refused" /\ op.kind \in {"read", "exists", "remove"}
    BY <1>1, <1>a DEF Run, Staged
  <2>2. /\ reply'.says = Answer /\ reply'.kind = op.kind /\ site' = site
        /\ seen'.as = RunsAs /\ content' \in seen'.files
        /\ Answer # "removed" => content' = content
    BY <1>1, <1>a DEF Run, Ends, Says, Seens
  <2> QED BY <1>a, <2>1, <2>2, AbsentAnswer DEF AbsentIsAbsent
<1>2. CASE \/ Call \/ WhoAmI \/ Policy \/ Refuse \/ Test \/ Act \/ MakeTemp
           \/ Stream \/ StreamFails \/ Move \/ LinkBreaks \/ ProcessDies
  <2>1. Call \/ Policy \/ Test \/ Stream \/ ProcessDies => reply' = Silence
    BY <1>a DEF Call, Policy, Test, Stream, ProcessDies, Staged
  <2>2. WhoAmI \/ Refuse \/ Act \/ StreamFails \/ Move \/ LinkBreaks => reply'.says # "absent"
    <3>1. \A r : r # "absent" => Says(r).says # "absent" BY DEF Says
    <3>2. WhoAmI => reply' = Says("known") \/ reply' = Says("transport") BY DEF WhoAmI, Ends
    <3>3. Act => \E r \in {"failed", "text", "removed"} : reply' = Says(r)
      <4>1. CASE op.kind = "read" /\ content = Absent BY <4>1 DEF Act, Ends
      <4>2. CASE op.kind = "read" /\ content # Absent BY <4>2 DEF Act, Ends
      <4>3. CASE op.kind # "read" BY <4>3 DEF Act, Ends
      <4> QED BY <4>1, <4>2, <4>3
    <3>4. Refuse \/ StreamFails \/ Move \/ LinkBreaks =>
            \E r \in {"needs root", "failed", "written", "transport"} : reply' = Says(r)
      BY DEF Refuse, StreamFails, Move, LinkBreaks, Ends
    <3> QED BY <3>1, <3>2, <3>3, <3>4
  <2>3. MakeTemp => reply' = Silence \/ reply'.says # "absent"
    <3>1. Denied # "absent" BY DEF Denied
    <3>2. \A r : r # "absent" => Says(r).says # "absent" BY DEF Says
    <3>3. MakeTemp => reply = Silence BY <1>a DEF MakeTemp, Staged
    <3>4. MakeTemp => reply' = reply \/ reply' = Says("needs root") \/ reply' = Says(Denied)
      BY DEF MakeTemp, Ends
    <3> QED BY <3>1, <3>2, <3>3, <3>4
  <2>4. Silence.says # "absent" BY DEF Silence
  <2> QED BY <1>2, <2>1, <2>2, <2>3, <2>4 DEF AbsentIsAbsent
<1>3. CASE Drift \/ OtherWrites \/ UNCHANGED fvars
  <2>1. UNCHANGED <<reply, site>> /\ seen'.as = seen.as /\ seen.files \subseteq seen'.files
    BY <1>3, <1>a DEF Drift, OtherWrites, fvars, Seens
  <2> QED BY <2>1 DEF AbsentIsAbsent
<1> QED BY <1>1, <1>2, <1>3 DEF FNext, Rest

(* Host::read_file, exists and remove_file: "absent" is said only of a     *)
(* path that was absent at some time of the call, except by a script in a  *)
(* directory it may not look into, and by `exists` over SSH when sudo      *)
(* refuses to run at all.                                                  *)
THEOREM AbsenceIsTrue == FSpec => []AbsentIsAbsent
<1>1. FInit => AbsentIsAbsent BY DEF FInit, AbsentIsAbsent, Silence
<1> QED BY <1>1, AbsentStep, HInvHolds, PTL DEF FSpec

-----------------------------------------------------------------------------
(* A collection over a link that breaks                                    *)

SourceNames == {"systemd", "cron", "launchd", "at", "anacron"}

(* A loss is remembered in the status of the source that suffered it, and  *)
(* no later source writes there; before the first source it is the end.    *)
Remembered ==
  /\ "lost" \in DOMAIN history
  /\ src \in 0 .. 6 /\ end \in {"running", "listed", "error"}
  /\ DOMAIN status = SourceNames
  /\ history.lost =>
       \/ end = "error"
       \/ end = "running" /\ \E i \in 1 .. 5 : i < src /\ status[Sources[i]] = "lost"

(* What one command of a source can come to.                               *)
Goes == UNCHANGED <<src, status>> \/ \E s : Finish(s)
Hears == Goes /\ (history'.lost => history.lost)
Loses == Finish("lost")
Heard == "lost" \in DOMAIN history' /\ (Hears \/ Loses)

LEMMA SourcesAreDistinct ==
  /\ DOMAIN Sources = 1 .. 5
  /\ \A i \in 1 .. 5 : Sources[i] \in SourceNames
  /\ \A i, j \in 1 .. 5 : Sources[i] = Sources[j] => i = j
  /\ \A s \in SourceNames : \E i \in 1 .. 5 : Sources[i] = s
BY DEF Sources, SourceNames

LEMMA AnsweredFacts ==
  ASSUME "lost" \in DOMAIN history, NEW as, Answered(as)
  PROVE  /\ "lost" \in DOMAIN history'
         /\ ~Lost(as) => (history'.lost => history.lost)
BY DEF Answered, Lost

LEMMA AskFacts ==
  ASSUME "lost" \in DOMAIN history, NEW tool, NEW as, Ask(tool, as)
  PROVE  /\ "lost" \in DOMAIN history'
         /\ ~Lost(as) => (history'.lost => history.lost)
BY AnsweredFacts DEF Ask

LEMMA OneAnswer ==
  ASSUME NEW a
  PROVE  <<a>>[1] = a /\ (Lost(<<a>>) <=> a = "lost")
BY DEF Lost

(* The forms a step of a source has.                                       *)
LEMMA GateIsHeard ==
  ASSUME "lost" \in DOMAIN history, NEW tool, NEW c, Gate(tool, c)
  PROVE  Heard
<1>1. PICK a \in Answers :
        /\ Ask(tool, <<a>>)
        /\ IF tool = "atq" /\ ~remote /\ a = "failed"
           THEN GoTo(c) /\ Keep
           ELSE Optional(<<a>>, GoTo(c) /\ Keep, Finish("unavailable") /\ Keep)
  BY DEF Gate
<1>2. Lost(<<a>>) <=> a = "lost" BY DEF Lost
<1>3. "lost" \in DOMAIN history' /\ (~Lost(<<a>>) => (history'.lost => history.lost))
  BY <1>1, AskFacts
<1> QED BY <1>1, <1>2, <1>3 DEF Optional, GoTo, Heard, Hears, Loses, Goes

LEMMA MustIsHeard ==
  ASSUME "lost" \in DOMAIN history, NEW rows, NEW c, Must(rows, c)
  PROVE  Heard
<1>1. PICK a \in Answers :
        /\ Answered(<<a>>)
        /\ CASE a = "ok"   -> Add(rows) /\ GoTo(c) /\ UNCHANGED present
             [] a = "lost" -> Finish("lost") /\ Keep
             [] OTHER      ->
                  /\ Finish(IF a = "missing" /\ (remote \/ Sources[src] = "launchd")
                            THEN "unavailable" ELSE "warned")
                  /\ Keep
  BY DEF Must
<1>2. Lost(<<a>>) <=> a = "lost" BY DEF Lost
<1>3. "lost" \in DOMAIN history' /\ (~Lost(<<a>>) => (history'.lost => history.lost))
  BY <1>1, AnsweredFacts
<1> QED BY <1>1, <1>2, <1>3 DEF GoTo, Heard, Hears, Loses, Goes

LEMMA MayIsHeard ==
  ASSUME "lost" \in DOMAIN history, NEW rows, NEW c, May(rows, c)
  PROVE  Heard
<1>1. PICK a \in Answers :
        /\ Answered(<<a>>)
        /\ Optional(<<a>>, Add(rows) /\ GoTo(c) /\ UNCHANGED present, GoTo(c) /\ Keep)
  BY DEF May
<1>2. Lost(<<a>>) <=> a = "lost" BY DEF Lost
<1>3. "lost" \in DOMAIN history' /\ (~Lost(<<a>>) => (history'.lost => history.lost))
  BY <1>1, AnsweredFacts
<1> QED BY <1>1, <1>2, <1>3 DEF Optional, GoTo, Heard, Hears, Loses, Goes

(* A fan-out: whatever it does next, it goes on to it only when no answer  *)
(* was lost.                                                               *)
LEMMA FanFacts ==
  ASSUME "lost" \in DOMAIN history, NEW tool, NEW f, NEW listed,
         \E as \in [DOMAIN f -> Answers] :
           Ask(tool, as) /\ (IF Lost(as) THEN Finish("lost") ELSE Goes)
  PROVE  Heard
<1>1. PICK as \in [DOMAIN f -> Answers] :
           Ask(tool, as) /\ (IF Lost(as) THEN Finish("lost") ELSE Goes)
  OBVIOUS
<1>2. "lost" \in DOMAIN history' /\ (~Lost(as) => (history'.lost => history.lost))
  BY <1>1, AskFacts
<1> QED BY <1>1, <1>2 DEF Heard, Hears, Loses

LEMMA CronStepFacts ==
  ASSUME "lost" \in DOMAIN history,
         \E a \in Answers : Ask("cron", <<a>>) /\ (Finish("lost") \/ (~Lost(<<a>>) /\ Goes))
  PROVE  Heard
<1>1. PICK a \in Answers :
        Ask("cron", <<a>>) /\ (Finish("lost") \/ (~Lost(<<a>>) /\ Goes))
  OBVIOUS
<1>2. "lost" \in DOMAIN history' /\ (~Lost(<<a>>) => (history'.lost => history.lost))
  BY <1>1, AskFacts
<1> QED BY <1>1, <1>2 DEF Heard, Hears, Loses

LEMMA SystemdIsHeard ==
  ASSUME "lost" \in DOMAIN history, Systemd
  PROVE  Heard
<1>1. CASE ShowAll
  <2>1. PICK as \in [ShowJobs -> Answers], gap \in {{}} \cup {{u} : u \in Listed} :
        /\ Answered([c \in DOMAIN as \cup {{} : u \in gap} |->
                        IF c = {} THEN "failed" ELSE as[c]])
        /\ IF Lost(as) THEN Finish("lost") ELSE Finish("listed")
    BY <1>1 DEF ShowAll
  <2>2. CASE Lost(as)
    BY <2>1, <2>2, AnsweredFacts DEF Heard, Loses
  <2>3. CASE ~Lost(as)
    <3> DEFINE bs == [c \in DOMAIN as \cup {{} : u \in gap} |-> IF c = {} THEN "failed" ELSE as[c]]
    <3>1. Answered(bs) BY <2>1
    <3>3. ~Lost(bs) BY <2>3 DEF Lost
    <3>4. "lost" \in DOMAIN history' /\ (history'.lost => history.lost)
      <4> HIDE DEF bs
      <4> QED BY <3>1, <3>3, AnsweredFacts
    <3> QED BY <2>1, <2>3, <3>4 DEF Heard, Hears, Goes
  <2> QED BY <2>2, <2>3
<1> QED BY <1>1, GateIsHeard, MustIsHeard, MayIsHeard DEF Systemd

LEMMA CronIsHeard ==
  ASSUME "lost" \in DOMAIN history, Cron
  PROVE  Heard
<1>1. Fan("cron", machine.dropins, FALSE, GoTo(4)) => Heard
  BY FanFacts DEF Fan, GoTo, Goes
<1>2. Fan("cron", machine.users, FALSE, Finish("listed")) => Heard
  BY FanFacts DEF Fan, Goes
<1>3. ASSUME NEW c, NEW d, NEW rows, CronStep(rows, c, GoTo(d) /\ Keep) PROVE Heard
  <2>1. PICK a \in Answers :
          /\ Ask("cron", <<a>>)
          /\ Optional(<<a>>, Add(rows) /\ present' = TRUE /\ GoTo(c), GoTo(d) /\ Keep)
    BY <1>3 DEF CronStep
  <2>2. Finish("lost") \/ (~Lost(<<a>>) /\ Goes)
    BY <2>1, OneAnswer DEF Optional, GoTo, Goes
  <2> QED BY <2>1, <2>2, CronStepFacts
<1>4. ASSUME NEW c, NEW rows, CronStep(rows, c, CronEnd) PROVE Heard
  <2>1. PICK a \in Answers :
          /\ Ask("cron", <<a>>)
          /\ Optional(<<a>>, Add(rows) /\ present' = TRUE /\ GoTo(c), CronEnd)
    BY <1>4 DEF CronStep
  <2>2. Finish("lost") \/ (~Lost(<<a>>) /\ Goes)
    BY <2>1, OneAnswer DEF Optional, GoTo, CronEnd, Goes
  <2> QED BY <2>1, <2>2, CronStepFacts
<1>5. ASSUME NEW a \in Answers, Ask("cron", <<a>>),
             Optional(<<a>>, Add(ScriptRows(TRUE)) /\ GoTo(6) /\ UNCHANGED present,
                             Add(ScriptRows(FALSE)) /\ GoTo(6) /\ UNCHANGED present)
      PROVE  Heard
  <2>1. Finish("lost") \/ (~Lost(<<a>>) /\ Goes)
    BY <1>5, OneAnswer DEF Optional, GoTo, Goes
  <2> QED BY <1>5, <2>1, CronStepFacts
<1> QED BY <1>1, <1>2, <1>3, <1>4, <1>5 DEF Cron

LEMMA LaunchdIsHeard ==
  ASSUME "lost" \in DOMAIN history, Launchd
  PROVE  Heard
<1>1. Fan("launchctl", PlistRows, FALSE, Finish("listed")) => Heard
  BY FanFacts DEF Fan, Goes
<1>2. ASSUME NEW a \in Answers, Answered(<<a>>),
             Optional(<<a>>, GoTo(4) /\ Keep, Finish("listed") /\ Keep)
      PROVE  Heard
  <2>1. "lost" \in DOMAIN history' /\ (~Lost(<<a>>) => (history'.lost => history.lost))
    BY <1>2, AnsweredFacts
  <2> QED BY <1>2, <2>1, OneAnswer DEF Optional, GoTo, Heard, Hears, Loses, Goes
<1>3. GoTo(2) /\ Keep /\ UNCHANGED history => Heard BY DEF GoTo, Heard, Hears, Goes
<1> QED BY <1>1, <1>2, <1>3, GateIsHeard, MustIsHeard DEF Launchd

LEMMA AtIsHeard ==
  ASSUME "lost" \in DOMAIN history, At
  PROVE  Heard
<1>1. Fan("atq", machine.jobs, TRUE, Finish("listed")) => Heard BY FanFacts DEF Fan, Goes
<1> QED BY <1>1, GateIsHeard, MustIsHeard DEF At

LEMMA AnacronIsHeard ==
  ASSUME "lost" \in DOMAIN history, Anacron
  PROVE  Heard
<1>1. Fan("anacron", machine.lines, TRUE, Finish("listed")) => Heard BY FanFacts DEF Fan, Goes
<1>2. ASSUME NEW a \in Answers, Ask("anacron", <<a>>),
             Optional(<<a>>, Add(AnacronRows) /\ GoTo(2) /\ UNCHANGED present, Unread(a))
      PROVE  Heard
  <2>1. "lost" \in DOMAIN history' /\ (~Lost(<<a>>) => (history'.lost => history.lost))
    BY <1>2, AskFacts
  <2> QED BY <1>2, <2>1, OneAnswer DEF Optional, GoTo, Unread, Heard, Hears, Loses, Goes
<1> QED BY <1>1, <1>2 DEF Anacron

LEMMA InitRemembered == CInit => Remembered
BY DEF CInit, Remembered, NoHistory, SourceNames, Sources, ToSet

LEMMA NextRemembered == Remembered /\ [CNext]_cvars => Remembered'
<1> SUFFICES ASSUME Remembered, [CNext]_cvars PROVE Remembered' OBVIOUS
<1>1. CASE Greet
  <2>1. CASE ~remote
    <3>1. src = 0 /\ end = "running" /\ src' = 1 /\ UNCHANGED <<end, history, status>>
      BY <1>1, <2>1 DEF Greet
    <3> QED BY <3>1 DEF Remembered
  <2>2. CASE remote
    <3>1. PICK a \in Answers :
            /\ history' = [history EXCEPT !.faults = @ + Faults(<<a>>), !.lost = @ \/ a = "lost"]
            /\ IF a # "ok"
               THEN end' = "error" /\ UNCHANGED <<src, call>>
               ELSE /\ IF call = 1 THEN call' = 2 /\ src' = 0 ELSE call' = 1 /\ src' = 1
                    /\ UNCHANGED end
      BY <1>1, <2>2 DEF Greet
    <3>2. /\ "lost" \in DOMAIN history' /\ (a = "ok" => (history'.lost => history.lost))
          /\ src = 0 /\ end = "running" /\ UNCHANGED status
      BY <1>1, <3>1 DEF Greet, Remembered
    <3>3. CASE a = "ok" BY <3>1, <3>2, <3>3 DEF Remembered
    <3>4. CASE a # "ok" BY <3>1, <3>2, <3>4 DEF Remembered
    <3> QED BY <3>3, <3>4
  <2> QED BY <1>1, <2>1, <2>2 DEF Greet
<1>2. CASE Ask5
  <2>0. end = "running" /\ end' = "running" /\ src \in 1 .. 5 /\ "lost" \in DOMAIN history
    BY <1>2 DEF Ask5, Remembered
  <2>a. Systemd \/ Cron \/ Launchd \/ At \/ Anacron
    <3>1. CASE src = 1 BY <1>2, <3>1 DEF Ask5
    <3>2. CASE src = 2 BY <1>2, <3>2 DEF Ask5
    <3>3. CASE src = 3 BY <1>2, <3>3 DEF Ask5
    <3>4. CASE src = 4 BY <1>2, <3>4 DEF Ask5
    <3>5. CASE src = 5 BY <1>2, <3>5 DEF Ask5
    <3> QED BY <2>0, <3>1, <3>2, <3>3, <3>4, <3>5
  <2>1. Heard /\ end = "running" /\ end' = "running" /\ src \in 1 .. 5
    BY <2>0, <2>a, SystemdIsHeard, CronIsHeard, LaunchdIsHeard, AtIsHeard, AnacronIsHeard
  <2>2. /\ Sources[src] \in SourceNames /\ DOMAIN status = SourceNames
        /\ \A i \in 1 .. 5 : i < src => Sources[i] \in SourceNames /\ Sources[i] # Sources[src]
    BY <2>1, SourcesAreDistinct DEF Remembered
  <2>3. CASE Loses
    <3>1. src' = src + 1 /\ DOMAIN status' = SourceNames /\ status'[Sources[src]] = "lost"
      BY <2>2, <2>3 DEF Loses, Finish
    <3> QED BY <2>1, <2>2, <3>1 DEF Heard, Remembered
  <2>4. CASE Hears
    <3>1. CASE UNCHANGED <<src, status>> BY <2>1, <2>4, <3>1 DEF Heard, Hears, Remembered
    <3>2. CASE \E s : Finish(s)
      <4>1. PICK s : Finish(s) BY <3>2
      <4>2. /\ src' = src + 1 /\ DOMAIN status' = SourceNames
            /\ \A i \in 1 .. 5 : i < src => status'[Sources[i]] = status[Sources[i]]
        BY <2>2, <4>1 DEF Finish
      <4> QED BY <2>1, <2>4, <4>2 DEF Heard, Hears, Remembered
    <3> QED BY <2>4, <3>1, <3>2 DEF Hears, Goes
  <2> QED BY <2>1, <2>3, <2>4 DEF Heard
<1>3. CASE Report
  BY <1>3, SourcesAreDistinct DEF Report, Remembered
<1>4. CASE OtherHand
  <2>1. history'.lost = history.lost /\ "lost" \in DOMAIN history'
    BY <1>4 DEF OtherHand, Remembered
  <2> QED BY <1>4, <2>1 DEF OtherHand, Remembered
<1>5. CASE Collected \/ UNCHANGED cvars BY <1>5 DEF Collected, cvars, Remembered
<1> QED BY <1>1, <1>2, <1>3, <1>4, <1>5 DEF CNext

(* RemoteCollector::collect: however many machines, jobs and faults, there *)
(* is no listing once the link was lost, in whichever command that was.    *)
THEOREM LostLeavesNoListing == CSpec => []LostIsNoListing
<1>1. Remembered => LostIsNoListing BY DEF Remembered, LostIsNoListing
<1> QED BY <1>1, InitRemembered, NextRemembered, PTL DEF CSpec

-----------------------------------------------------------------------------
(* What a listing says of the jobs                                         *)

LEMMA SortedFacts ==
  ASSUME NEW S, IsFiniteSet(S)
  PROVE  /\ Sorted(S) \in Seq(S)
         /\ \A i, j \in DOMAIN Sorted(S) : Sorted(S)[i] = Sorted(S)[j] => i = j
         /\ \A i \in DOMAIN Sorted(S) : Sorted(S)[i] \in S
         /\ \A x \in S : \E i \in DOMAIN Sorted(S) : Sorted(S)[i] = x
         /\ Cardinality(S) \in Nat /\ DOMAIN Sorted(S) = 1 .. Cardinality(S)
<1> DEFINE N == Cardinality(S)
<1>1. N \in Nat /\ IsFiniteSet(1 .. N) /\ Cardinality(1 .. N) = N
  BY FS_CardinalityType, FS_Interval
<1>2. PICK f : f \in Bijection(1 .. N, S)
  BY FS_CardinalityType DEF ExistsBijection
<1>3. f \in [1 .. N -> S] /\ IsInjective(f)
  BY <1>2 DEF Bijection, Injection, IsInjective
<1>4. Sorted(S) \in [1 .. N -> S] /\ IsInjective(Sorted(S))
  BY <1>3 DEF Sorted, SetToSeq
<1>5. Sorted(S) \in Injection(1 .. N, S) BY <1>4 DEF Injection
<1>6. Sorted(S) \in Surjection(1 .. N, S) BY <1>1, <1>5, FS_Injection
<1>7. Sorted(S) \in Seq(S) BY <1>1, <1>4
<1> QED BY <1>1, <1>4, <1>6, <1>7 DEF IsInjective, Surjection

(* Two sequences of rows after each other.                                 *)
LEMMA Joined ==
  ASSUME NEW R, NEW s \in Seq(R), NEW t \in Seq(R)
  PROVE  /\ s \o t \in Seq(R) /\ DOMAIN s = 1 .. Len(s) /\ DOMAIN t = 1 .. Len(t)
         /\ Len(s) \in Nat /\ Len(t) \in Nat
         /\ DOMAIN (s \o t) = 1 .. Len(s) + Len(t)
         /\ \A i \in DOMAIN s : i \in DOMAIN (s \o t) /\ (s \o t)[i] = s[i]
         /\ \A i \in DOMAIN t : Len(s) + i \in DOMAIN (s \o t) /\ (s \o t)[Len(s) + i] = t[i]
         /\ \A i \in DOMAIN (s \o t) :
              \/ i \in DOMAIN s /\ (s \o t)[i] = s[i]
              \/ i > Len(s) /\ i - Len(s) \in DOMAIN t /\ (s \o t)[i] = t[i - Len(s)]
<1>1. Len(s) \in Nat /\ Len(t) \in Nat /\ DOMAIN s = 1 .. Len(s) /\ DOMAIN t = 1 .. Len(t)
  BY LenProperties
<1>2. /\ s \o t \in Seq(R) /\ Len(s \o t) = Len(s) + Len(t)
      /\ \A i \in 1 .. Len(s) + Len(t) :
            (s \o t)[i] = IF i <= Len(s) THEN s[i] ELSE t[i - Len(s)]
  BY ConcatProperties
<1>3. DOMAIN (s \o t) = 1 .. Len(s) + Len(t) BY <1>2, LenProperties
<1> DEFINE st == s \o t
<1>4. st = s \o t OBVIOUS
<1> HIDE DEF st
<1>5. ASSUME NEW i \in DOMAIN s PROVE i \in DOMAIN st /\ st[i] = s[i]
  <2>1. i \in 1 .. Len(s) + Len(t) /\ i <= Len(s) BY <1>1
  <2> QED BY <1>2, <1>3, <1>4, <2>1
<1>6. ASSUME NEW i \in DOMAIN t PROVE Len(s) + i \in DOMAIN st /\ st[Len(s) + i] = t[i]
  <2>1. /\ Len(s) + i \in 1 .. Len(s) + Len(t) /\ ~(Len(s) + i <= Len(s))
        /\ (Len(s) + i) - Len(s) = i
    BY <1>1
  <2> QED BY <1>2, <1>3, <1>4, <2>1
<1>7. ASSUME NEW i \in DOMAIN st
      PROVE  \/ i \in DOMAIN s /\ st[i] = s[i]
             \/ i > Len(s) /\ i - Len(s) \in DOMAIN t /\ st[i] = t[i - Len(s)]
  <2>1. i \in 1 .. Len(s) + Len(t) BY <1>3, <1>4
  <2>2. CASE i <= Len(s) BY <1>1, <1>2, <1>4, <2>1, <2>2
  <2>3. CASE ~(i <= Len(s))
    <3>1. i > Len(s) /\ i - Len(s) \in 1 .. Len(t) BY <1>1, <2>1, <2>3
    <3>2. st[i] = t[i - Len(s)] BY <1>2, <1>4, <2>1, <2>3
    <3> QED BY <1>1, <3>1, <3>2
  <2> QED BY <2>2, <2>3
<1> QED BY <1>1, <1>2, <1>3, <1>4, <1>5, <1>6, <1>7

UnitRows == [id : Units, on : {"yes", "no", "unknown"}]
RowsFrom(f) == {Row(x, f[x]) : x \in DOMAIN f}
CronRows ==
  UNION {RowsFrom(f) : f \in {machine.crontab, machine.dropins, machine.scripts,
                              Unknown(machine.scripts), machine.users}}
RowsAt(s) == CASE s = "systemd" -> UnitRows
               [] s = "cron"    -> CronRows
               [] s = "launchd" -> RowsFrom(PlistRows)
               [] s = "at"      -> RowsFrom(Unknown(machine.jobs))
               [] s = "anacron" -> RowsFrom(machine.lines)

(* Every source keeps to the rows it can have.                             *)
Typed ==
  /\ machine \in Machines
  /\ file \in [Units -> States] /\ \A u \in Aliases : file[u] = "absent"
  /\ active \subseteq Units \ Aliases
  /\ DOMAIN found = SourceNames /\ \A s \in SourceNames : found[s] \in Seq(RowsAt(s))
  /\ DOMAIN history = {"faults", "lost", "failed", "changes", "truth", "static", "stayed"}
  /\ src = 0 => call \in 1 .. 2
  /\ src = 1 => call \in 1 .. 6

(* The history knows what the manager would say now, and of the timers     *)
(* that stayed each is still there.                                        *)
Truths ==
  /\ \A u \in Units : <<u, Truth(u, file, active)>> \in history.truth
  /\ \A u \in Units : file[u] = "static" => u \in history.static
  /\ history.static \subseteq Units \ Aliases
  /\ history.stayed \subseteq Installed

(* What a row says was true, or the inventory of files says it of an alias *)
(* or of a static timer; after `show` of the last only where `show` failed.*)
Believed(row, h) ==
  \/ row.on = "unknown"
  \/ <<row.id, row.on>> \in h.truth
  \/ row.id \in Aliases /\ row.on = "yes"
  \/ row.id \in h.static /\ row.on = "no"
Sure(row, h) ==
  /\ Believed(row, h)
  /\ \/ <<"systemd", 6>> \in h.failed
     \/ row.on = "unknown"
     \/ <<row.id, row.on>> \in h.truth
     \/ row.id \in Aliases /\ row.on = "yes"

Past(c) == (src = 1 /\ call > c) \/ status.systemd = "listed"
Inventoried(c, scope) ==
  Past(c) /\ <<"systemd", c>> \notin history.failed
    => \A u \in history.stayed : Scope(u) = scope => u \in Listed

(* The rows of systemd as they come in: each unit once, and from the two   *)
(* listings of files on every timer that stayed.                           *)
SystemdRows ==
  /\ \A i, j \in DOMAIN found.systemd : found.systemd[i].id = found.systemd[j].id => i = j
  /\ \A i \in DOMAIN found.systemd : Believed(found.systemd[i], history)
  /\ status.systemd = "listed" => \A i \in DOMAIN found.systemd : Sure(found.systemd[i], history)
  /\ src \in 0 .. 1 => status.systemd # "listed"
  /\ src = 0 \/ (src = 1 /\ call \in 1 .. 2) => found.systemd = <<>>
  /\ src = 1 /\ call = 3 => \A u \in Listed : Scope(u) = "system"
  /\ Inventoried(4, "system")
  /\ Inventoried(5, "user")

(* The listing is what the sources that answered show.                     *)
ListingIsShown ==
  end = "listed" => listing = Shown("systemd") \o Shown("cron") \o Shown("at")
                                \o Shown("anacron") \o Shown("launchd")

Gathered == Typed /\ Truths /\ SystemdRows
CInv == Remembered /\ Gathered /\ ListingIsShown

LEMMA ASequence ==
  ASSUME NEW R, NEW n \in Nat, NEW s \in [1 .. n -> R]
  PROVE  s \in Seq(R)
OBVIOUS

LEMMA RowsOfFacts ==
  ASSUME NEW f, IsFiniteSet(DOMAIN f)
  PROVE  RowsOf(f) \in Seq(RowsFrom(f))
<1> DEFINE ids == Sorted(DOMAIN f)
<1>1. /\ Cardinality(DOMAIN f) \in Nat /\ DOMAIN ids = 1 .. Cardinality(DOMAIN f)
      /\ \A i \in DOMAIN ids : ids[i] \in DOMAIN f
  BY SortedFacts
<1>2. RowsOf(f) = [i \in DOMAIN ids |-> Row(ids[i], f[ids[i]])] BY DEF RowsOf
<1> HIDE DEF ids
<1>3. \A i \in 1 .. Cardinality(DOMAIN f) : Row(ids[i], f[ids[i]]) \in RowsFrom(f)
  BY <1>1 DEF RowsFrom
<1>4. RowsOf(f) \in [1 .. Cardinality(DOMAIN f) -> RowsFrom(f)] BY <1>1, <1>2, <1>3
<1> QED BY <1>1, <1>4

LEMMA TimersFacts ==
  ASSUME Typed, NEW scope \in {"system", "user"}
  PROVE  /\ ListTimers(scope) \in Seq(UnitRows)
         /\ \A i, j \in DOMAIN ListTimers(scope) :
              ListTimers(scope)[i].id = ListTimers(scope)[j].id => i = j
         /\ \A i \in DOMAIN ListTimers(scope) :
              /\ Scope(ListTimers(scope)[i].id) = scope
              /\ ListTimers(scope)[i].on = "unknown"
<1> DEFINE S == active \cap UnitsOf(scope)
           ids == Sorted(S)
           rows == ListTimers(scope)
<1>1. IsFiniteSet(S) BY CollectorAssumption, FS_Subset DEF UnitsOf
<1>2. /\ \A i, j \in DOMAIN ids : ids[i] = ids[j] => i = j
      /\ \A i \in DOMAIN ids : ids[i] \in S
      /\ Cardinality(S) \in Nat /\ DOMAIN ids = 1 .. Cardinality(S)
  BY <1>1, SortedFacts
<1>3. rows = [i \in DOMAIN ids |-> Row(ids[i], "unknown")] BY DEF ListTimers
<1> HIDE DEF ids, rows
<1>4. \A i \in DOMAIN ids : /\ rows[i] \in UnitRows /\ Scope(rows[i].id) = scope
                            /\ rows[i].on = "unknown" /\ rows[i].id = ids[i]
  BY <1>2, <1>3 DEF Row, UnitRows, UnitsOf
<1>5. DOMAIN rows = DOMAIN ids BY <1>3
<1>6. rows \in [1 .. Cardinality(S) -> UnitRows] BY <1>2, <1>3, <1>4
<1>7. rows \in Seq(UnitRows) BY <1>2, <1>6, ASequence
<1> QED BY <1>2, <1>4, <1>5, <1>7 DEF rows

(* state_enabled of what an inventory of files says of a unit.             *)
LEMMA InventoryIsBelieved ==
  ASSUME Typed, Truths, NEW u \in Installed
  PROVE  Believed(Row(u, StateEnabled(FileState(u), FALSE)), history)
         /\ StateEnabled(FileState(u), FALSE) \in {"yes", "no"}
<1>0. u \in Units /\ FileState(u) # "absent" /\ Canonical[u] \in Units BY CollectorAssumption DEF Installed
<1>1. CASE u \in Aliases
  <2>1. FileState(u) = "alias" BY <1>0, <1>1 DEF FileState, Typed
  <2> QED BY <1>1, <2>1 DEF StateEnabled, Believed, Row
<1>2. CASE u \notin Aliases
  <2>1. Canonical[u] = u /\ FileState(u) = file[u] BY <1>0, <1>2 DEF Aliases, FileState
  <2>2. file[u] \in {"enabled", "disabled", "static"} BY <1>0, <2>1 DEF Typed, States
  <2>3. <<u, StateEnabled(file[u], u \in active)>> \in history.truth
    BY <1>0, <2>1 DEF Truths, Truth
  <2>4. CASE file[u] = "static" BY <1>0, <2>1, <2>4 DEF StateEnabled, Said, Believed, Row, Truths
  <2>5. CASE file[u] \in {"enabled", "disabled"}
    <3>1. StateEnabled(file[u], u \in active) = StateEnabled(file[u], FALSE)
          /\ StateEnabled(file[u], FALSE) \in {"yes", "no"}
      BY <2>5 DEF StateEnabled
    <3> QED BY <2>1, <2>3, <3>1 DEF Believed, Row
  <2> QED BY <2>2, <2>4, <2>5
<1> QED BY <1>1, <1>2

LEMMA MergeFacts ==
  ASSUME Typed, Truths, NEW scope \in {"system", "user"}
  PROVE  LET rows == Merge(found.systemd, scope)
         IN  /\ rows \in Seq(UnitRows)
             /\ \A i, j \in DOMAIN rows : rows[i].id = rows[j].id => i = j
             /\ \A i \in DOMAIN rows : rows[i].id \notin Listed /\ Believed(rows[i], history)
             /\ \A u \in Installed : Scope(u) = scope =>
                   u \in Listed \/ \E i \in DOMAIN rows : rows[i].id = u
<1> DEFINE S == (Installed \cap UnitsOf(scope)) \ Listed
           ids == Sorted(S)
           rows == Merge(found.systemd, scope)
<1>1. IsFiniteSet(S) BY CollectorAssumption, FS_Subset DEF UnitsOf
<1>2. /\ \A i, j \in DOMAIN ids : ids[i] = ids[j] => i = j
      /\ \A i \in DOMAIN ids : ids[i] \in S
      /\ \A x \in S : \E i \in DOMAIN ids : ids[i] = x
      /\ Cardinality(S) \in Nat /\ DOMAIN ids = 1 .. Cardinality(S)
  BY <1>1, SortedFacts
<1>3. rows = [i \in DOMAIN ids |-> Row(ids[i], StateEnabled(FileState(ids[i]), FALSE))]
  BY DEF Merge, Listed
<1> HIDE DEF ids, rows
<1>4. ASSUME NEW i \in DOMAIN ids
      PROVE  rows[i] \in UnitRows /\ Believed(rows[i], history) /\ rows[i].id = ids[i]
  <2>1. ids[i] \in Installed /\ ids[i] \in Units BY <1>2 DEF UnitsOf
  <2>2. rows[i] = Row(ids[i], StateEnabled(FileState(ids[i]), FALSE)) BY <1>3
  <2>3. Believed(rows[i], history) /\ StateEnabled(FileState(ids[i]), FALSE) \in {"yes", "no"}
    BY <2>1, <2>2, InventoryIsBelieved
  <2> DEFINE on == StateEnabled(FileState(ids[i]), FALSE)
  <2>4. on \in {"yes", "no"} BY <2>3
  <2> HIDE DEF on
  <2>5. rows[i] = [id |-> ids[i], on |-> on] BY <2>2 DEF Row, on
  <2> QED BY <2>1, <2>3, <2>4, <2>5 DEF UnitRows
<1>5. DOMAIN rows = DOMAIN ids BY <1>3
<1>6. rows \in [1 .. Cardinality(S) -> UnitRows] BY <1>2, <1>3, <1>4, <1>5
<1>7. rows \in Seq(UnitRows) BY <1>2, <1>6, ASequence
<1>8. \A u \in Installed : Scope(u) = scope => u \in Listed \/ \E i \in DOMAIN rows : rows[i].id = u
  <2> SUFFICES ASSUME NEW u \in Installed, Scope(u) = scope, u \notin Listed
               PROVE  \E i \in DOMAIN rows : rows[i].id = u
    OBVIOUS
  <2>1. u \in S BY DEF UnitsOf, Installed
  <2> QED BY <1>2, <1>4, <1>5, <2>1
<1>9. \A i, j \in DOMAIN rows : rows[i].id = rows[j].id => i = j BY <1>2, <1>4, <1>5
<1>10. \A i \in DOMAIN rows : rows[i].id \notin Listed /\ Believed(rows[i], history) BY <1>2, <1>4, <1>5
<1> QED BY <1>7, <1>8, <1>9, <1>10 DEF rows

(* What an answer leaves in the history.                                   *)
Noted ==
  /\ DOMAIN history' = DOMAIN history
  /\ history'.truth = history.truth
  /\ history'.static = history.static
  /\ history'.stayed = history.stayed
  /\ \A x \in history.failed : x \in history'.failed

LEMMA AnsweredNotes ==
  ASSUME Typed, NEW as, Answered(as)
  PROVE  /\ Noted
         /\ \A j \in DOMAIN as : as[j] # "ok" => <<Sources[src], call>> \in history'.failed
<1> DEFINE missed == {<<Sources[src], call>> : i \in {j \in DOMAIN as : as[j] # "ok"}}
<1>1. history' = [history EXCEPT !.faults = @ + Faults(as),
                                 !.lost = @ \/ \E i \in DOMAIN as : as[i] = "lost",
                                 !.failed = @ \cup missed]
  BY DEF Answered
<1>2. \A j \in DOMAIN as : as[j] # "ok" => <<Sources[src], call>> \in missed OBVIOUS
<1> HIDE DEF missed
<1>3. /\ DOMAIN history' = DOMAIN history /\ history'.truth = history.truth
      /\ history'.static = history.static /\ history'.stayed = history.stayed
      /\ history'.failed = history.failed \cup missed
  BY <1>1 DEF Typed
<1> QED BY <1>2, <1>3 DEF Noted

LEMMA AskNotes ==
  ASSUME Typed, NEW tool, NEW as, Ask(tool, as)
  PROVE  Noted
BY AnsweredNotes DEF Ask, Noted

(* The chunks of `show` cover what is listed, and nothing else.            *)
LEMMA Covered ==
  ASSUME Typed
  PROVE  /\ \A c \in ShowJobs : c \subseteq Listed /\ c # {}
         /\ \A u \in Listed : \E c \in ShowJobs : u \in c
         /\ Listed \subseteq Units
<1>1. Listed \subseteq Units
  <2>1. found.systemd \in Seq(UnitRows) BY DEF Typed, SourceNames, RowsAt
  <2>2. \A i \in DOMAIN found.systemd : found.systemd[i] \in UnitRows
    BY <2>1, LenProperties, ElementOfSeq
  <2> QED BY <2>2 DEF Listed, UnitRows
<1>2. ASSUME NEW scope
      PROVE  /\ \A c \in Chunks(scope) : c \subseteq Listed /\ c # {}
             /\ \A u \in Listed : Scope(u) = scope => \E c \in Chunks(scope) : u \in c
  <2> DEFINE S == Listed \cap UnitsOf(scope)
             ids == Sorted(S)
             ChunkOf(i) == (i - 1) \div Chunk
             Piece(k) == {ids[i] : i \in {j \in DOMAIN ids : ChunkOf(j) = ChunkOf(k)}}
  <2>1. IsFiniteSet(S) BY CollectorAssumption, FS_Subset DEF UnitsOf
  <2>2. /\ \A i \in DOMAIN ids : ids[i] \in S
        /\ \A x \in S : \E i \in DOMAIN ids : ids[i] = x
    BY <2>1, SortedFacts
  <2>3. Chunks(scope) = {Piece(k) : k \in DOMAIN ids} BY DEF Chunks
  <2> HIDE DEF ids, ChunkOf
  <2>4. \A k \in DOMAIN ids : ids[k] \in Piece(k) /\ Piece(k) \subseteq Listed BY <2>2
  <2>5. \A u \in Listed : Scope(u) = scope => u \in S BY <1>1 DEF UnitsOf
  <2> HIDE DEF Piece
  <2>6. \A c \in Chunks(scope) : c \subseteq Listed /\ c # {} BY <2>3, <2>4
  <2>7. ASSUME NEW u \in Listed, Scope(u) = scope PROVE \E c \in Chunks(scope) : u \in c
    <3>1. PICK k \in DOMAIN ids : ids[k] = u BY <2>2, <2>5, <2>7
    <3>2. u \in Piece(k) /\ Piece(k) \in Chunks(scope) BY <2>3, <2>4, <3>1
    <3> QED BY <3>2
  <2> QED BY <2>6, <2>7
<1>3. \A u \in Units : Scope(u) \in {"system", "user"} BY CollectorAssumption
<1> QED BY <1>1, <1>2, <1>3 DEF ShowJobs

(* apply_show: the rows stay, and what a block says of one is the truth;   *)
(* a timer whose block did not come is in the history as a failure.        *)
LEMMA ApplyShowFacts ==
  ASSUME Typed, Truths, SystemdRows,
         NEW as \in [ShowJobs -> Answers], NEW gap \in {{}} \cup {{u} : u \in Listed},
         Noted,
         \A c \in DOMAIN as : as[c] # "ok" => <<"systemd", 6>> \in history'.failed,
         \A u \in gap : <<"systemd", 6>> \in history'.failed
  PROVE  LET rows == ApplyShow(found.systemd, as, gap)
         IN  /\ rows \in Seq(UnitRows)
             /\ DOMAIN rows = DOMAIN found.systemd
             /\ \A i \in DOMAIN rows : rows[i].id = found.systemd[i].id /\ Sure(rows[i], history')
<1> DEFINE old == found.systemd
           rows == ApplyShow(found.systemd, as, gap)
           Of(u) == {b \in Batch(as, gap) : b.id = u}
<1>1. old \in Seq(UnitRows) BY DEF Typed, SourceNames, RowsAt
<1>2. /\ Len(old) \in Nat /\ DOMAIN old = 1 .. Len(old)
      /\ \A i \in DOMAIN old : old[i] \in UnitRows
  BY <1>1, LenProperties, ElementOfSeq
<1>3. rows = [i \in DOMAIN old |->
                IF Of(old[i].id) = {} THEN old[i]
                ELSE [old[i] EXCEPT !.on = (CHOOSE b \in Of(old[i].id) : TRUE).on]]
  BY DEF ApplyShow
<1>4. DOMAIN as = ShowJobs OBVIOUS
<1>5. \A i \in DOMAIN old : Believed(old[i], history) /\ old[i].id \in Listed BY DEF SystemdRows, Listed
<1> HIDE DEF old, rows
<1>6. ASSUME NEW i \in DOMAIN old
      PROVE  rows[i] \in UnitRows /\ rows[i].id = old[i].id /\ Sure(rows[i], history')
  <2> DEFINE u == old[i].id
  <2>0. /\ u \in Units /\ u \in Listed /\ Believed(old[i], history)
        /\ old[i] \in UnitRows /\ old[i] = [id |-> u, on |-> old[i].on]
    BY <1>2, <1>5 DEF UnitRows
  <2>1. CASE Of(u) = {}
    <3>1. rows[i] = old[i] BY <1>3, <2>1
    <3>2. CASE <<"systemd", 6>> \in history'.failed
      BY <2>0, <3>1, <3>2 DEF Sure, Believed, Noted
    <3>3. CASE <<"systemd", 6>> \notin history'.failed
      <4>1. PICK c \in ShowJobs : u \in c BY <2>0, Covered
      <4>2. as[c] = "ok" /\ u \notin gap BY <1>4, <3>3
      <4>3. Block(u) \in Batch(as, gap)
        <5>1. Block(u) \in Reply(c, gap) BY <4>1, <4>2 DEF Reply
        <5>2. c \in {d \in DOMAIN as : as[d] = "ok"} BY <1>4, <4>1, <4>2
        <5> QED BY <5>1, <5>2 DEF Batch
      <4>4. Block(u).id # u BY <2>1, <4>3
      <4>5. u \in Aliases BY <2>0, <4>4 DEF Block, Aliases
      <4> QED BY <2>0, <3>1, <4>5 DEF Sure, Believed, Noted, Truths
    <3> QED BY <3>2, <3>3
  <2>2. CASE Of(u) # {}
    <3> DEFINE b == CHOOSE x \in Of(u) : TRUE
    <3>1. b \in Of(u) BY <2>2
    <3>2. rows[i] = [old[i] EXCEPT !.on = b.on] BY <1>3, <2>2
    <3>3. b \in Batch(as, gap) /\ b.id = u BY <3>1
    <3> HIDE DEF b
    <3>4. PICK x \in Listed : b = Block(x)
      <4>1. PICK c \in DOMAIN as : b \in Reply(c, gap) BY <3>3 DEF Batch
      <4>2. c \subseteq Listed BY <1>4, Covered
      <4> QED BY <4>1, <4>2 DEF Reply
    <3>5. x \in Units /\ Canonical[x] = u /\ u \notin Aliases /\ Canonical[u] = u
      BY <2>0, <3>3, <3>4, Covered, CollectorAssumption DEF Block, Aliases
    <3>6. b.on = Truth(u, file, active) BY <3>4, <3>5 DEF Block, Truth
    <3>7. b.on \in {"yes", "no"} BY <3>6 DEF Truth, StateEnabled, Said
    <3>8. <<u, b.on>> \in history.truth BY <2>0, <3>6 DEF Truths
    <3>9. rows[i] = [id |-> u, on |-> b.on] BY <2>0, <3>2
    <3> QED BY <2>0, <3>7, <3>8, <3>9 DEF UnitRows, Sure, Believed, Noted
  <2> QED BY <2>1, <2>2
<1>7. DOMAIN rows = DOMAIN old BY <1>3
<1>8. rows \in [1 .. Len(old) -> UnitRows] BY <1>2, <1>3, <1>6, <1>7
<1>9. rows \in Seq(UnitRows) BY <1>2, <1>8, ASequence
<1> QED BY <1>6, <1>7, <1>9 DEF old, rows

LEMMA TruthsStay ==
  ASSUME Truths, Noted, UNCHANGED <<file, active>>
  PROVE  Truths'
BY DEF Truths, Noted, Truth, Installed, FileState

LEMMA RowsStay ==
  ASSUME machine' = machine, NEW s
  PROVE  RowsAt(s)' = RowsAt(s)
BY DEF RowsAt, CronRows, PlistRows

(* A source whose rows grow.                                               *)
Grown(s, rows) ==
  /\ DOMAIN found' = SourceNames
  /\ \A t \in SourceNames \ {s} : found'[t] = found[t]
  /\ found'[s] = found[s] \o rows

LEMMA FoundGrows ==
  ASSUME Typed, machine' = machine, NEW s \in SourceNames, NEW rows \in Seq(RowsAt(s)),
         Grown(s, rows)
  PROVE  \A t \in SourceNames : found'[t] \in Seq(RowsAt(t)')
<1>1. /\ DOMAIN found' = SourceNames
      /\ \A t \in SourceNames \ {s} : found'[t] = found[t]
      /\ found'[s] = found[s] \o rows
  BY DEF Grown
<1>2. found[s] \o rows \in Seq(RowsAt(s)) BY Joined DEF Typed
<1>3. ASSUME NEW t \in SourceNames PROVE found'[t] \in Seq(RowsAt(t)')
  BY <1>1, <1>2, RowsStay DEF Typed
<1> QED BY <1>1, <1>3

LEMMA FoundStays ==
  ASSUME Typed, machine' = machine, UNCHANGED found
  PROVE  /\ DOMAIN found' = SourceNames
         /\ \A t \in SourceNames : found'[t] \in Seq(RowsAt(t)')
BY RowsStay DEF Typed

(* The end of systemd without a result.                                    *)
LEMMA SystemdEnds ==
  ASSUME Gathered, Noted, UNCHANGED <<machine, file, active, found>>,
         src = 1, src' = 2, status'.systemd # "listed"
  PROVE  Gathered'
<1>1. Truths' BY TruthsStay DEF Gathered
<1>2. Typed' BY FoundStays DEF Gathered, Typed, Noted
<1>3. SystemdRows' BY DEF Gathered, SystemdRows, Believed, Inventoried, Past, Noted, Listed
<1> QED BY <1>1, <1>2, <1>3 DEF Gathered

(* One more listing of systemd: rows on units not listed before.           *)
LEMMA SystemdGrows ==
  ASSUME Gathered, Noted, UNCHANGED <<machine, file, active, status>>,
         src = 1, src' = 1, call \in 1 .. 5, call' = call + 1,
         NEW rows \in Seq(UnitRows), Grown("systemd", rows),
         \A i, j \in DOMAIN rows : rows[i].id = rows[j].id => i = j,
         \A i \in DOMAIN rows : rows[i].id \notin Listed /\ Believed(rows[i], history),
         call = 1 => rows = <<>>,
         call = 2 => \A i \in DOMAIN rows : Scope(rows[i].id) = "system",
         call \in 4 .. 5 /\ <<"systemd", call>> \notin history'.failed
           => \A u \in Installed : Scope(u) = (IF call = 4 THEN "system" ELSE "user") =>
                 u \in Listed \/ \E i \in DOMAIN rows : rows[i].id = u
  PROVE  Gathered'
<1> DEFINE old == found.systemd
           new == found'.systemd
<1>0. /\ "systemd" \in SourceNames /\ RowsAt("systemd") = UnitRows
      /\ old \in Seq(UnitRows) /\ Typed /\ Truths /\ SystemdRows
  BY DEF Gathered, Typed, SourceNames, RowsAt
<1>1. Truths' BY <1>0, TruthsStay
<1>2. /\ DOMAIN found' = SourceNames
      /\ \A t \in SourceNames : found'[t] \in Seq(RowsAt(t)')
      /\ new = old \o rows
  BY <1>0, FoundGrows DEF Grown
<1>3. Typed' BY <1>0, <1>2 DEF Typed, Noted
<1> HIDE DEF old, new
<1>4. /\ DOMAIN old = 1 .. Len(old) /\ DOMAIN rows = 1 .. Len(rows)
      /\ Len(old) \in Nat /\ Len(rows) \in Nat
      /\ \A i \in DOMAIN old : i \in DOMAIN new /\ new[i] = old[i]
      /\ \A i \in DOMAIN rows : Len(old) + i \in DOMAIN new /\ new[Len(old) + i] = rows[i]
      /\ \A i \in DOMAIN new :
           \/ i \in DOMAIN old /\ new[i] = old[i]
           \/ i > Len(old) /\ i - Len(old) \in DOMAIN rows /\ new[i] = rows[i - Len(old)]
      /\ DOMAIN new = 1 .. Len(old) + Len(rows)
  <2>1. old \in Seq(UnitRows) /\ rows \in Seq(UnitRows) BY <1>0
  <2>2. new = old \o rows BY <1>2
  <2> QED BY <2>1, <2>2, Joined
<1>5. /\ Listed = {old[i].id : i \in DOMAIN old}
      /\ Listed' = {new[i].id : i \in DOMAIN new}
  BY DEF Listed, old, new
<1>6. /\ \A i, j \in DOMAIN old : old[i].id = old[j].id => i = j
      /\ \A i \in DOMAIN old : Believed(old[i], history)
      /\ status.systemd # "listed"
      /\ call \in 1 .. 2 => old = <<>>
      /\ call = 3 => \A u \in Listed : Scope(u) = "system"
      /\ Inventoried(4, "system") /\ Inventoried(5, "user")
  BY <1>0 DEF SystemdRows, old
<1>7. \A u \in Listed : u \in Listed' BY <1>4, <1>5
<1>8. \A i \in DOMAIN rows : rows[i].id \in Listed' BY <1>4, <1>5
<1>9. ASSUME NEW i \in DOMAIN new, NEW j \in DOMAIN new, new[i].id = new[j].id PROVE i = j
  <2>1. ASSUME NEW k \in DOMAIN new, k \notin DOMAIN old PROVE new[k].id \notin Listed
    BY <1>4, <2>1
  <2>2. ASSUME NEW k \in DOMAIN old PROVE new[k].id \in Listed BY <1>4, <1>5
  <2>3. CASE i \in DOMAIN old BY <1>4, <1>6, <1>9, <2>1, <2>2, <2>3
  <2>4. CASE i \notin DOMAIN old
    <3>1. j \notin DOMAIN old BY <1>9, <2>1, <2>2, <2>4
    <3>2. /\ i - Len(old) \in DOMAIN rows /\ new[i] = rows[i - Len(old)]
          /\ j - Len(old) \in DOMAIN rows /\ new[j] = rows[j - Len(old)]
      BY <1>4, <2>4, <3>1
    <3>3. i - Len(old) = j - Len(old) BY <1>9, <3>2
    <3>4. i \in Int /\ j \in Int BY <1>4
    <3> QED BY <1>4, <3>3, <3>4
  <2> QED BY <2>3, <2>4
<1>10. \A i \in DOMAIN new : Believed(new[i], history') BY <1>4, <1>6 DEF Believed, Noted
<1>11. call' \in 1 .. 2 => new = <<>>
  <2>1. CASE call = 1
    <3>1. old = <<>> /\ rows = <<>> BY <1>6, <2>1
    <3> QED BY <1>2, <3>1 DEF old, new
  <2> QED BY <2>1
<1>12. call' = 3 => \A u \in Listed' : Scope(u) = "system"
  <2> SUFFICES ASSUME call = 2, NEW i \in DOMAIN new PROVE Scope(new[i].id) = "system"
    BY <1>5
  <2>1. DOMAIN old = {} BY <1>6
  <2> QED BY <1>4, <2>1
<1>13. Inventoried(4, "system")'
  <2> SUFFICES ASSUME call \in 4 .. 5, <<"systemd", 4>> \notin history'.failed,
                      NEW u \in history.stayed, Scope(u) = "system"
               PROVE  u \in Listed'
    BY <1>6 DEF Inventoried, Past, Noted
  <2>1. CASE call = 4 BY <1>0, <1>7, <1>8, <2>1 DEF Truths
  <2>2. CASE call = 5 BY <1>6, <1>7, <2>2 DEF Inventoried, Past, Noted
  <2> QED BY <2>1, <2>2
<1>14. Inventoried(5, "user")'
  <2> SUFFICES ASSUME call = 5, <<"systemd", 5>> \notin history'.failed,
                      NEW u \in history.stayed, Scope(u) = "user"
               PROVE  u \in Listed'
    BY <1>6 DEF Inventoried, Past, Noted
  <2> QED BY <1>0, <1>7, <1>8 DEF Truths
<1>15. SystemdRows'
  BY <1>6, <1>9, <1>10, <1>11, <1>12, <1>13, <1>14 DEF SystemdRows, new
<1> QED BY <1>1, <1>3, <1>15 DEF Gathered

(* What one command of systemd comes to, short of `show`.                  *)
SystemdStops == src' = 2 /\ UNCHANGED found /\ status'.systemd # "listed"
SystemdPasses == src' = 1 /\ call' = call + 1 /\ UNCHANGED <<found, status>>
SystemdGains(rows) ==
  /\ src' = 1 /\ call' = call + 1 /\ UNCHANGED status
  /\ Grown("systemd", rows)

LEMMA SystemdFinishes ==
  ASSUME Remembered, src = 1, NEW s, Finish(s)
  PROVE  src' = 2 /\ status'.systemd = s
BY DEF Finish, Sources, Remembered, SourceNames

LEMMA SystemdGate ==
  ASSUME Remembered, Typed, src = 1, call = 1, Gate("systemctl", 2)
  PROVE  Noted /\ (SystemdStops \/ SystemdPasses)
<1>1. PICK a \in Answers :
        /\ Ask("systemctl", <<a>>)
        /\ Optional(<<a>>, GoTo(2) /\ Keep, Finish("unavailable") /\ Keep)
  BY DEF Gate
<1>2. (Finish("lost") \/ Finish("unavailable") \/ GoTo(2)) /\ UNCHANGED found
  BY <1>1, OneAnswer DEF Optional, Keep
<1>3. Noted BY <1>1, AskNotes
<1> QED BY <1>2, <1>3, SystemdFinishes DEF SystemdStops, SystemdPasses, GoTo

LEMMA SystemdMust ==
  ASSUME Remembered, Typed, src = 1, NEW rows, call \in 1 .. 5, Must(rows, call + 1)
  PROVE  Noted /\ (SystemdStops \/ SystemdGains(rows))
<1>1. PICK a \in Answers :
        /\ Answered(<<a>>)
        /\ \/ Add(rows) /\ GoTo(call + 1)
           \/ (\E s \in {"lost", "unavailable", "warned"} : Finish(s)) /\ UNCHANGED found
  <2>1. PICK a \in Answers :
        /\ Answered(<<a>>)
        /\ CASE a = "ok"   -> Add(rows) /\ GoTo(call + 1) /\ UNCHANGED present
             [] a = "lost" -> Finish("lost") /\ Keep
             [] OTHER      ->
                  /\ Finish(IF a = "missing" /\ (remote \/ Sources[src] = "launchd")
                            THEN "unavailable" ELSE "warned")
                  /\ Keep
    BY DEF Must
  <2> QED BY <2>1 DEF Keep
<1>2. Noted BY <1>1, AnsweredNotes
<1>3. Add(rows) => Grown("systemd", rows) BY DEF Add, Sources, Grown, Typed, SourceNames
<1> QED BY <1>1, <1>2, <1>3, SystemdFinishes DEF SystemdStops, SystemdGains, GoTo

LEMMA SystemdMay ==
  ASSUME Remembered, Typed, src = 1, NEW rows, call \in 1 .. 5, May(rows, call + 1)
  PROVE  /\ Noted
         /\ \/ SystemdStops
            \/ SystemdGains(rows)
            \/ SystemdPasses /\ <<"systemd", call>> \in history'.failed
<1>1. PICK a \in Answers :
        /\ Answered(<<a>>)
        /\ Optional(<<a>>, Add(rows) /\ GoTo(call + 1) /\ UNCHANGED present,
                           GoTo(call + 1) /\ Keep)
  BY DEF May
<1>2. \/ Finish("lost") /\ UNCHANGED found
      \/ Add(rows) /\ GoTo(call + 1)
      \/ GoTo(call + 1) /\ UNCHANGED found /\ a # "ok"
  BY <1>1, OneAnswer DEF Optional, Keep
<1>3. Noted /\ (a # "ok" => <<Sources[src], call>> \in history'.failed)
  <2>1. 1 \in DOMAIN <<a>> /\ <<a>>[1] = a OBVIOUS
  <2> QED BY <1>1, <2>1, AnsweredNotes
<1>4. Sources[src] = "systemd" BY DEF Sources
<1>5. Add(rows) => Grown("systemd", rows) BY DEF Add, Sources, Grown, Typed, SourceNames
<1> QED BY <1>2, <1>3, <1>4, <1>5, SystemdFinishes DEF SystemdStops, SystemdGains, SystemdPasses, GoTo

LEMMA SystemdPassing ==
  ASSUME Gathered, Noted, UNCHANGED <<machine, file, active>>, src = 1, call \in 1 .. 5,
         SystemdPasses, call \in 4 .. 5 => <<"systemd", call>> \in history'.failed
  PROVE  Gathered'
<1>1. found.systemd \in Seq(UnitRows) BY DEF Gathered, Typed, SourceNames, RowsAt
<1>2. found.systemd \o <<>> = found.systemd BY <1>1, ConcatEmptySeq
<1>3. Grown("systemd", <<>>) BY <1>2 DEF Gathered, Typed, Grown, SystemdPasses
<1>4. <<>> \in Seq(UnitRows) /\ DOMAIN <<>> = {} OBVIOUS
<1> DEFINE rows == <<>>
<1>5. /\ rows \in Seq(UnitRows) /\ DOMAIN rows = {} /\ rows = <<>>
      /\ Grown("systemd", rows)
  BY <1>3, <1>4
<1> HIDE DEF rows
<1> QED BY <1>5, SystemdGrows DEF SystemdPasses

LEMMA ShowIsGathered ==
  ASSUME Remembered, Gathered, UNCHANGED <<machine, file, active>>, src = 1, call = 6, ShowAll
  PROVE  Gathered'
<1>0. Typed /\ Truths /\ SystemdRows BY DEF Gathered
<1>1. PICK as \in [ShowJobs -> Answers], gap \in {{}} \cup {{u} : u \in Listed} :
        /\ Answered([c \in DOMAIN as \cup {{} : u \in gap} |->
                        IF c = {} THEN "failed" ELSE as[c]])
        /\ IF Lost(as)
           THEN Finish("lost") /\ Keep
           ELSE /\ found' = [found EXCEPT !.systemd = ApplyShow(@, as, gap)]
                /\ Finish("listed")
                /\ UNCHANGED present
  BY DEF ShowAll
<1> DEFINE bs == [c \in DOMAIN as \cup {{} : u \in gap} |-> IF c = {} THEN "failed" ELSE as[c]]
<1>2. Answered(bs) BY <1>1
<1>3. /\ \A c \in DOMAIN as : c \in DOMAIN bs /\ bs[c] = as[c]
      /\ \A u \in gap : {} \in DOMAIN bs /\ bs[{}] = "failed"
  <2>1. DOMAIN as = ShowJobs OBVIOUS
  <2>2. \A c \in DOMAIN as : c # {} BY <1>0, <2>1, Covered
  <2> QED BY <2>2
<1> HIDE DEF bs
<1>4. /\ Noted
      /\ \A j \in DOMAIN bs : bs[j] # "ok" => <<"systemd", 6>> \in history'.failed
  BY <1>0, <1>2, AnsweredNotes DEF Sources
<1>5. /\ \A c \in DOMAIN as : as[c] # "ok" => <<"systemd", 6>> \in history'.failed
      /\ \A u \in gap : <<"systemd", 6>> \in history'.failed
  <2>1. ASSUME NEW c \in DOMAIN as, as[c] # "ok" PROVE <<"systemd", 6>> \in history'.failed
    BY <1>3, <1>4, <2>1
  <2>2. ASSUME NEW u \in gap PROVE <<"systemd", 6>> \in history'.failed
    BY <1>3, <1>4
  <2> QED BY <2>1, <2>2
<1>6. CASE Lost(as)
  <2>1. Finish("lost") /\ UNCHANGED found BY <1>1, <1>6 DEF Keep
  <2> QED BY <1>4, <2>1, SystemdFinishes, SystemdEnds
<1>7. CASE ~Lost(as)
  <2> DEFINE rows == ApplyShow(found.systemd, as, gap)
  <2>1. /\ rows \in Seq(UnitRows) /\ DOMAIN rows = DOMAIN found.systemd
        /\ \A i \in DOMAIN rows : rows[i].id = found.systemd[i].id /\ Sure(rows[i], history')
    BY <1>0, <1>4, <1>5, ApplyShowFacts
  <2>2. found' = [found EXCEPT !["systemd"] = rows] /\ Finish("listed") BY <1>1, <1>7
  <2> HIDE DEF rows
  <2>3. src' = 2 /\ status'.systemd = "listed" BY <2>2, SystemdFinishes
  <2>4. /\ DOMAIN found' = SourceNames /\ found'.systemd = rows
        /\ \A t \in SourceNames \ {"systemd"} : found'[t] = found[t]
    BY <1>0, <2>2 DEF Typed, SourceNames
  <2>5. \A t \in SourceNames : found'[t] \in Seq(RowsAt(t)')
    <3>1. RowsAt("systemd") = UnitRows BY DEF RowsAt
    <3> QED BY <1>0, <2>1, <2>4, <3>1, RowsStay DEF Typed
  <2>6. Typed' BY <1>0, <1>4, <2>3, <2>4, <2>5 DEF Typed, Noted
  <2>7. Truths' BY <1>0, <1>4, TruthsStay
  <2>8. /\ Inventoried(4, "system") /\ Inventoried(5, "user")
        /\ \A i, j \in DOMAIN found.systemd : found.systemd[i].id = found.systemd[j].id => i = j
    BY <1>0 DEF SystemdRows
  <2>9. Listed' = Listed BY <2>1, <2>4 DEF Listed
  <2>10. Inventoried(4, "system")' /\ Inventoried(5, "user")'
    BY <1>4, <2>8, <2>9 DEF Inventoried, Past, Noted
  <2>11. \A i \in DOMAIN rows : Believed(rows[i], history') BY <2>1 DEF Sure
  <2>12. SystemdRows' BY <2>1, <2>3, <2>4, <2>8, <2>10, <2>11 DEF SystemdRows
  <2> QED BY <2>6, <2>7, <2>12 DEF Gathered
<1> QED BY <1>6, <1>7

LEMMA SystemdIsGathered ==
  ASSUME Remembered, Gathered, UNCHANGED <<machine, file, active>>, src = 1, Systemd
  PROVE  Gathered'
<1>0. Typed /\ Truths /\ SystemdRows BY DEF Gathered
<1>1. CASE call = 1 /\ Gate("systemctl", 2)
  <2>1. Noted /\ (SystemdStops \/ SystemdPasses) BY <1>0, <1>1, SystemdGate
  <2>2. call \in 1 .. 5 /\ call \notin 4 .. 5 BY <1>1
  <2>3. CASE SystemdStops BY <2>1, <2>3, SystemdEnds DEF SystemdStops
  <2>4. CASE SystemdPasses BY <2>1, <2>2, <2>4, SystemdPassing
  <2> QED BY <2>1, <2>3, <2>4
<1>2. CASE call = 2 /\ Must(ListTimers("system"), 3)
  <2> DEFINE rows == ListTimers("system")
  <2>1. /\ rows \in Seq(UnitRows)
        /\ \A i, j \in DOMAIN rows : rows[i].id = rows[j].id => i = j
        /\ \A i \in DOMAIN rows : Scope(rows[i].id) = "system" /\ rows[i].on = "unknown"
    BY <1>0, TimersFacts
  <2>2. Listed = {} BY <1>0, <1>2 DEF SystemdRows, Listed
  <2>3. Must(rows, 3) BY <1>2
  <2> HIDE DEF rows
  <2>4. Must(rows, call + 1) BY <1>2, <2>3
  <2>5. Noted /\ (SystemdStops \/ SystemdGains(rows)) BY <1>0, <1>2, <2>4, SystemdMust
  <2>6. CASE SystemdStops BY <2>5, <2>6, SystemdEnds DEF SystemdStops
  <2>7. CASE SystemdGains(rows)
    <3>1. \A i \in DOMAIN rows : rows[i].id \notin Listed /\ Believed(rows[i], history)
      BY <2>1, <2>2 DEF Believed
    <3> QED BY <1>2, <2>1, <2>5, <2>7, <3>1, SystemdGrows DEF SystemdGains
  <2> QED BY <2>5, <2>6, <2>7
<1>3. CASE call = 3 /\ May(ListTimers("user"), 4)
  <2> DEFINE rows == ListTimers("user")
  <2>1. /\ rows \in Seq(UnitRows)
        /\ \A i, j \in DOMAIN rows : rows[i].id = rows[j].id => i = j
        /\ \A i \in DOMAIN rows : Scope(rows[i].id) = "user" /\ rows[i].on = "unknown"
    BY <1>0, TimersFacts
  <2>2. \A u \in Listed : Scope(u) = "system" BY <1>0, <1>3 DEF SystemdRows
  <2>3. May(rows, 4) BY <1>3
  <2> HIDE DEF rows
  <2>4. May(rows, call + 1) BY <1>3, <2>3
  <2>5. Noted /\ (SystemdStops \/ SystemdGains(rows) \/ SystemdPasses)
    BY <1>0, <1>3, <2>4, SystemdMay
  <2>6. CASE SystemdStops BY <2>5, <2>6, SystemdEnds DEF SystemdStops
  <2>7. CASE SystemdGains(rows)
    <3>1. \A i \in DOMAIN rows : rows[i].id \notin Listed /\ Believed(rows[i], history)
      BY <2>1, <2>2 DEF Believed
    <3> QED BY <1>3, <2>1, <2>5, <2>7, <3>1, SystemdGrows DEF SystemdGains
  <2>8. CASE SystemdPasses BY <1>3, <2>5, <2>8, SystemdPassing
  <2> QED BY <2>5, <2>6, <2>7, <2>8
<1>4. ASSUME NEW scope \in {"system", "user"}, call \in 4 .. 5,
             scope = (IF call = 4 THEN "system" ELSE "user"),
             May(Merge(found.systemd, scope), call + 1)
      PROVE  Gathered'
  <2> DEFINE rows == Merge(found.systemd, scope)
  <2>1. /\ rows \in Seq(UnitRows)
        /\ \A i, j \in DOMAIN rows : rows[i].id = rows[j].id => i = j
        /\ \A i \in DOMAIN rows : rows[i].id \notin Listed /\ Believed(rows[i], history)
        /\ \A u \in Installed : Scope(u) = scope => u \in Listed \/ \E i \in DOMAIN rows : rows[i].id = u
    BY <1>0, MergeFacts
  <2>4. May(rows, call + 1) BY <1>4
  <2> HIDE DEF rows
  <2>5. /\ Noted
        /\ \/ SystemdStops
           \/ SystemdGains(rows)
           \/ SystemdPasses /\ <<"systemd", call>> \in history'.failed
    BY <1>0, <1>4, <2>4, SystemdMay
  <2>6. CASE SystemdStops BY <2>5, <2>6, SystemdEnds DEF SystemdStops
  <2>7. CASE SystemdGains(rows)
    BY <1>4, <2>1, <2>5, <2>7, SystemdGrows DEF SystemdGains
  <2>8. CASE SystemdPasses /\ <<"systemd", call>> \in history'.failed
    BY <1>4, <2>5, <2>8, SystemdPassing
  <2> QED BY <2>5, <2>6, <2>7, <2>8
<1>5. CASE call = 4 /\ May(Merge(found.systemd, "system"), 5)
  <2>1. May(Merge(found.systemd, "system"), call + 1) BY <1>5
  <2> QED BY <1>4, <1>5, <2>1
<1>6. CASE call = 5 /\ May(Merge(found.systemd, "user"), 6)
  <2>1. May(Merge(found.systemd, "user"), call + 1) BY <1>6
  <2> QED BY <1>4, <1>6, <2>1
<1>7. CASE call = 6 /\ ShowAll BY <1>7, ShowIsGathered
<1> QED BY <1>1, <1>2, <1>3, <1>5, <1>6, <1>7 DEF Systemd

(* The other sources: a step adds rows of its source, or none.             *)
Appends == UNCHANGED found \/ \E rows \in Seq(RowsAt(Sources[src])) : Add(rows)

LEMMA MachineIsFinite ==
  ASSUME Typed
  PROVE  /\ IsFiniteSet(DOMAIN machine.crontab) /\ IsFiniteSet(DOMAIN machine.dropins)
         /\ IsFiniteSet(DOMAIN machine.scripts) /\ IsFiniteSet(DOMAIN machine.users)
         /\ IsFiniteSet(DOMAIN machine.jobs) /\ IsFiniteSet(DOMAIN machine.lines)
         /\ IsFiniteSet(DOMAIN PlistRows)
<1>1. DOMAIN PlistRows = DOMAIN machine.plists BY DEF PlistRows
<1> QED BY <1>1, MachinesAssumption DEF Typed

LEMMA RowsOfSource ==
  ASSUME NEW f, NEW R, IsFiniteSet(DOMAIN f), RowsFrom(f) \subseteq R
  PROVE  RowsOf(f) \in Seq(R)
BY RowsOfFacts, SeqMonotonic

LEMMA ToldFacts ==
  ASSUME NEW f, NEW as, NEW R, IsFiniteSet(DOMAIN f), RowsFrom(f) \subseteq R
  PROVE  Told(f, as) \in Seq(R)
<1> DEFINE S == {y \in DOMAIN f : as[y] = "ok"}
           g == [x \in S |-> f[x]]
<1>1. IsFiniteSet(DOMAIN g) BY FS_Subset
<1>2. RowsFrom(g) \subseteq R BY DEF RowsFrom
<1>3. Told(f, as) = RowsOf(g) BY DEF Told
<1> HIDE DEF g
<1> QED BY <1>1, <1>2, <1>3, RowsOfSource

LEMMA FanAppends ==
  ASSUME Typed, NEW tool, NEW f, NEW listed,
         listed \/ (IsFiniteSet(DOMAIN f) /\ RowsFrom(f) \subseteq RowsAt(Sources[src])),
         \E as \in [DOMAIN f -> Answers] :
           Ask(tool, as) /\ (UNCHANGED found \/ (~listed /\ Add(Told(f, as))))
  PROVE  Noted /\ Appends
BY AskNotes, ToldFacts DEF Appends

LEMMA StepAppends ==
  ASSUME Typed, NEW tool, NEW rows \in Seq(RowsAt(Sources[src])),
         \E a \in Answers : Ask(tool, <<a>>) /\ (UNCHANGED found \/ Add(rows))
  PROVE  Noted /\ Appends
BY AskNotes DEF Appends

LEMMA GateAppends ==
  ASSUME Typed, NEW tool, NEW c, Gate(tool, c)
  PROVE  Noted /\ Appends
<1>1. PICK a \in Answers :
        /\ Ask(tool, <<a>>)
        /\ IF tool = "atq" /\ ~remote /\ a = "failed"
           THEN GoTo(c) /\ Keep
           ELSE Optional(<<a>>, GoTo(c) /\ Keep, Finish("unavailable") /\ Keep)
  BY DEF Gate
<1>2. UNCHANGED found BY <1>1, OneAnswer DEF Optional, Keep
<1> QED BY <1>1, <1>2, AskNotes DEF Appends

LEMMA MustAppends ==
  ASSUME Typed, NEW rows \in Seq(RowsAt(Sources[src])), NEW c, Must(rows, c)
  PROVE  Noted /\ Appends
<1>1. PICK a \in Answers : Answered(<<a>>) /\ (Add(rows) \/ UNCHANGED found)
  BY DEF Must, Keep
<1> QED BY <1>1, AnsweredNotes DEF Appends

LEMMA CronAppends ==
  ASSUME Typed, src = 2, Cron
  PROVE  Noted /\ Appends
<1>0. Sources[src] = "cron" /\ RowsAt("cron") = CronRows BY DEF Sources, RowsAt
<1>1. ASSUME NEW f \in {machine.crontab, machine.dropins, machine.scripts,
                        Unknown(machine.scripts), machine.users}
      PROVE  RowsFrom(f) \subseteq CronRows
  BY DEF CronRows
<1>2. /\ CrontabRows \in Seq(CronRows) /\ ScriptRows(TRUE) \in Seq(CronRows)
      /\ ScriptRows(FALSE) \in Seq(CronRows) /\ <<>> \in Seq(CronRows)
  <2>1. IsFiniteSet(DOMAIN Unknown(machine.scripts))
    <3>1. DOMAIN Unknown(machine.scripts) = DOMAIN machine.scripts BY DEF Unknown
    <3> QED BY <3>1, MachineIsFinite
  <2>2. CrontabRows \in Seq(CronRows) BY <1>1, MachineIsFinite, RowsOfSource DEF CrontabRows
  <2>3. ScriptRows(TRUE) \in Seq(CronRows) BY <1>1, MachineIsFinite, RowsOfSource DEF ScriptRows
  <2>4. ScriptRows(FALSE) \in Seq(CronRows) BY <1>1, <2>1, RowsOfSource DEF ScriptRows
  <2>5. <<>> \in Seq(CronRows) OBVIOUS
  <2> QED BY <2>2, <2>3, <2>4, <2>5
<1>3. ASSUME Fan("cron", machine.dropins, FALSE, GoTo(4)) PROVE Noted /\ Appends
  BY <1>0, <1>1, <1>3, MachineIsFinite, FanAppends DEF Fan, Keep
<1>4. ASSUME Fan("cron", machine.users, FALSE, Finish("listed")) PROVE Noted /\ Appends
  BY <1>0, <1>1, <1>4, MachineIsFinite, FanAppends DEF Fan, Keep
<1>5. ASSUME NEW c, NEW d, NEW rows \in Seq(CronRows), CronStep(rows, c, GoTo(d) /\ Keep)
      PROVE  Noted /\ Appends
  <2>1. PICK a \in Answers :
          /\ Ask("cron", <<a>>)
          /\ Optional(<<a>>, Add(rows) /\ present' = TRUE /\ GoTo(c), GoTo(d) /\ Keep)
    BY <1>5 DEF CronStep
  <2>2. UNCHANGED found \/ Add(rows) BY <2>1, OneAnswer DEF Optional, Keep
  <2> QED BY <1>0, <2>1, <2>2, StepAppends
<1>6. ASSUME NEW c, CronStep(<<>>, c, CronEnd) PROVE Noted /\ Appends
  <2>1. PICK a \in Answers :
          /\ Ask("cron", <<a>>)
          /\ Optional(<<a>>, Add(<<>>) /\ present' = TRUE /\ GoTo(c), CronEnd)
    BY <1>6 DEF CronStep
  <2>2. UNCHANGED found \/ Add(<<>>) BY <2>1, OneAnswer DEF Optional, Keep, CronEnd
  <2> QED BY <1>0, <1>2, <2>1, <2>2, StepAppends
<1>7. ASSUME NEW a \in Answers, Ask("cron", <<a>>),
             Optional(<<a>>, Add(ScriptRows(TRUE)) /\ GoTo(6) /\ UNCHANGED present,
                             Add(ScriptRows(FALSE)) /\ GoTo(6) /\ UNCHANGED present)
      PROVE  Noted /\ Appends
  <2>1. UNCHANGED found \/ Add(ScriptRows(TRUE)) \/ Add(ScriptRows(FALSE))
    BY <1>7, OneAnswer DEF Optional, Keep
  <2> QED BY <1>0, <1>2, <1>7, <2>1, StepAppends
<1> QED BY <1>2, <1>3, <1>4, <1>5, <1>6, <1>7 DEF Cron

LEMMA LaunchdAppends ==
  ASSUME Typed, src = 3, Launchd
  PROVE  Noted /\ Appends
<1>0. Sources[src] = "launchd" /\ RowsAt("launchd") = RowsFrom(PlistRows) BY DEF Sources, RowsAt
<1>1. ASSUME Fan("launchctl", PlistRows, FALSE, Finish("listed")) PROVE Noted /\ Appends
  BY <1>0, <1>1, MachineIsFinite, FanAppends DEF Fan, Keep
<1>2. ASSUME NEW a \in Answers, Answered(<<a>>),
             Optional(<<a>>, GoTo(4) /\ Keep, Finish("listed") /\ Keep)
      PROVE  Noted /\ Appends
  <2>1. UNCHANGED found BY <1>2, OneAnswer DEF Optional, Keep
  <2> QED BY <1>2, <2>1, AnsweredNotes DEF Appends
<1>3. GoTo(2) /\ Keep /\ UNCHANGED history => Noted /\ Appends BY DEF Keep, Noted, Appends
<1>4. <<>> \in Seq(RowsAt(Sources[src])) OBVIOUS
<1> QED BY <1>1, <1>2, <1>3, <1>4, GateAppends, MustAppends DEF Launchd

LEMMA AtAppends ==
  ASSUME Typed, src = 4, At
  PROVE  Noted /\ Appends
<1>0. /\ Sources[src] = "at" /\ RowsAt("at") = RowsFrom(Unknown(machine.jobs))
  BY DEF Sources, RowsAt
<1>1. Fan("atq", machine.jobs, TRUE, Finish("listed")) => Noted /\ Appends
  BY FanAppends DEF Fan, Keep
<1>2. AtRows \in Seq(RowsAt(Sources[src]))
  <2>1. DOMAIN Unknown(machine.jobs) = DOMAIN machine.jobs BY DEF Unknown
  <2> QED BY <1>0, <2>1, MachineIsFinite, RowsOfSource DEF AtRows
<1> QED BY <1>1, <1>2, GateAppends, MustAppends DEF At

LEMMA AnacronAppends ==
  ASSUME Typed, src = 5, Anacron
  PROVE  Noted /\ Appends
<1>0. Sources[src] = "anacron" /\ RowsAt("anacron") = RowsFrom(machine.lines)
  BY DEF Sources, RowsAt
<1>1. Fan("anacron", machine.lines, TRUE, Finish("listed")) => Noted /\ Appends
  BY FanAppends DEF Fan, Keep
<1>2. AnacronRows \in Seq(RowsAt(Sources[src]))
  BY <1>0, MachineIsFinite, RowsOfSource DEF AnacronRows
<1>3. ASSUME NEW a \in Answers, Ask("anacron", <<a>>),
             Optional(<<a>>, Add(AnacronRows) /\ GoTo(2) /\ UNCHANGED present, Unread(a))
      PROVE  Noted /\ Appends
  <2>1. UNCHANGED found \/ Add(AnacronRows) BY <1>3, OneAnswer DEF Optional, Keep, Unread
  <2> QED BY <1>2, <1>3, <2>1, StepAppends
<1> QED BY <1>1, <1>3 DEF Anacron

LEMMA OthersAreGathered ==
  ASSUME Remembered, Gathered, UNCHANGED <<machine, file, active>>, src \in 2 .. 5,
         Noted, Appends, Goes \/ Loses
  PROVE  Gathered'
<1>0. Typed /\ Truths /\ SystemdRows BY DEF Gathered
<1>1. /\ Sources[src] \in SourceNames /\ Sources[src] # "systemd" /\ "systemd" \in SourceNames
  BY DEF Sources, SourceNames
<1>2. /\ src' \in 2 .. 6 /\ status'.systemd = status.systemd
  BY <1>1 DEF Goes, Loses, Finish, Remembered
<1>3. /\ DOMAIN found' = SourceNames /\ found'.systemd = found.systemd
      /\ \A s \in SourceNames : found'[s] \in Seq(RowsAt(s)')
  <2>1. CASE UNCHANGED found BY <1>0, <2>1, FoundStays
  <2>2. CASE \E rows \in Seq(RowsAt(Sources[src])) : Add(rows)
    <3>1. PICK rows \in Seq(RowsAt(Sources[src])) : Add(rows) BY <2>2
    <3>2. Grown(Sources[src], rows) BY <1>0, <1>1, <3>1 DEF Add, Grown, Typed
    <3>3. \A s \in SourceNames : found'[s] \in Seq(RowsAt(s)') BY <1>0, <1>1, <3>2, FoundGrows
    <3> QED BY <1>1, <3>2, <3>3 DEF Grown
  <2> QED BY <2>1, <2>2 DEF Appends
<1>4. Truths' BY <1>0, TruthsStay
<1>5. Typed' BY <1>0, <1>2, <1>3 DEF Typed, Noted
<1>6. Listed' = Listed BY <1>3 DEF Listed
<1>7. Inventoried(4, "system")' /\ Inventoried(5, "user")'
  BY <1>0, <1>2, <1>6 DEF SystemdRows, Inventoried, Past, Noted
<1>8. SystemdRows'
  BY <1>0, <1>2, <1>3, <1>7 DEF SystemdRows, Believed, Sure, Noted
<1> QED BY <1>4, <1>5, <1>8 DEF Gathered

(* Greet, the other hand and Report leave the rows alone.                  *)
LEMMA GreetIsGathered ==
  ASSUME Remembered, Gathered, Greet
  PROVE  Gathered'
<1>0. Typed /\ Truths /\ SystemdRows BY DEF Gathered
<1>1. /\ src = 0 /\ UNCHANGED <<machine, file, active, found, status>>
      /\ status.systemd # "listed" /\ found.systemd = <<>>
  <2>1. src = 0 /\ UNCHANGED <<machine, file, active, found, status>> BY DEF Greet
  <2>2. status.systemd # "listed" /\ found.systemd = <<>>
    BY <1>0, <2>1 DEF SystemdRows
  <2> QED BY <2>1, <2>2
<1>2. Noted /\ src' \in 0 .. 1 /\ call' \in 1 .. 2
  <2>1. CASE ~remote
    <3>1. src' = 1 /\ UNCHANGED <<call, history>> BY <2>1 DEF Greet
    <3> QED BY <1>0, <1>1, <3>1 DEF Noted, Typed
  <2>2. CASE remote
    <3>1. PICK a \in Answers :
            /\ history' = [history EXCEPT !.faults = @ + Faults(<<a>>), !.lost = @ \/ a = "lost"]
            /\ IF a # "ok"
               THEN end' = "error" /\ UNCHANGED <<src, call>>
               ELSE /\ IF call = 1 THEN call' = 2 /\ src' = 0 ELSE call' = 1 /\ src' = 1
                    /\ UNCHANGED end
      BY <2>2 DEF Greet
    <3>2. Noted BY <1>0, <3>1 DEF Noted, Typed
    <3> QED BY <1>0, <1>1, <3>1, <3>2 DEF Typed
  <2> QED BY <2>1, <2>2
<1>3. Truths' BY <1>0, <1>1, <1>2, TruthsStay
<1>4. Typed' BY <1>0, <1>1, <1>2, FoundStays DEF Typed, Noted
<1>5. SystemdRows' BY <1>1, <1>2 DEF SystemdRows, Inventoried, Past
<1> QED BY <1>3, <1>4, <1>5 DEF Gathered

LEMMA OtherHandIsGathered ==
  ASSUME Remembered, Gathered, OtherHand
  PROVE  Gathered'
<1>0. Typed /\ Truths /\ SystemdRows BY DEF Gathered
<1>1. /\ src = 1 /\ UNCHANGED <<machine, src, call, found, status>>
      /\ history' = [history EXCEPT
          !.changes = @ + 1,
          !.truth = @ \cup {<<u, Truth(u, file', active')>> : u \in Units},
          !.static = @ \cup {u \in Units : file'[u] = "static"},
          !.stayed = {u \in @ : file'[Canonical[u]] # "absent"}]
  BY DEF OtherHand
<1>2. PICK u \in Units \ Aliases :
          \/ \E s \in States \ {file[u]} :
                file' = [file EXCEPT ![u] = s] /\ UNCHANGED active
          \/ /\ active' = IF u \in active THEN active \ {u} ELSE active \cup {u}
             /\ UNCHANGED file
  BY DEF OtherHand
<1>3. /\ file' \in [Units -> States] /\ \A x \in Aliases : file'[x] = "absent"
      /\ active' \subseteq Units \ Aliases
  <2>0. /\ file \in [Units -> States] /\ \A x \in Aliases : file[x] = "absent"
        /\ active \subseteq Units \ Aliases
    BY <1>0 DEF Typed
  <2>1. CASE \E s \in States \ {file[u]} : file' = [file EXCEPT ![u] = s] /\ UNCHANGED active
    <3>1. PICK s \in States : file' = [file EXCEPT ![u] = s] /\ UNCHANGED active BY <2>1
    <3>2. file' \in [Units -> States] BY <2>0, <3>1
    <3>3. \A x \in Aliases : x \in Units /\ x # u /\ file'[x] = file[x]
      BY <2>0, <3>1 DEF Aliases
    <3> QED BY <2>0, <3>1, <3>2, <3>3
  <2>2. CASE UNCHANGED file BY <1>2, <2>0, <2>2
  <2> QED BY <1>2, <2>1, <2>2
<1> DEFINE told == {<<x, Truth(x, file', active')>> : x \in Units}
<1>4. /\ DOMAIN history' = DOMAIN history
      /\ history'.truth = history.truth \cup told
      /\ history'.static = history.static \cup {x \in Units : file'[x] = "static"}
      /\ history'.stayed = {x \in history.stayed : file'[Canonical[x]] # "absent"}
      /\ history'.failed = history.failed
  BY <1>0, <1>1 DEF Typed
<1>5. \A x \in Units : <<x, Truth(x, file', active')>> \in told OBVIOUS
<1> HIDE DEF told
<1>6. Typed' BY <1>0, <1>1, <1>3, <1>4, FoundStays DEF Typed
<1>7. history'.stayed \subseteq Installed'
  <2> SUFFICES ASSUME NEW x \in history'.stayed PROVE x \in Installed' OBVIOUS
  <2>1. x \in history.stayed /\ file'[Canonical[x]] # "absent" /\ x \in Units
    BY <1>0, <1>4 DEF Truths, Installed
  <2>2. CASE x \in Aliases BY <2>1, <2>2 DEF Installed, FileState
  <2>3. CASE x \notin Aliases
    <3>1. Canonical[x] = x BY <2>1, <2>3 DEF Aliases
    <3> QED BY <2>1, <2>3, <3>1 DEF Installed, FileState
  <2> QED BY <2>2, <2>3
<1>8. history'.static \subseteq Units \ Aliases BY <1>0, <1>3, <1>4 DEF Truths
<1>9. Truths' BY <1>4, <1>5, <1>7, <1>8 DEF Truths
<1>10. Listed' = Listed BY <1>1 DEF Listed
<1>11. Inventoried(4, "system")' /\ Inventoried(5, "user")'
  BY <1>0, <1>1, <1>4, <1>10 DEF SystemdRows, Inventoried, Past
<1>12. \A i \in DOMAIN found.systemd : Believed(found.systemd[i], history')
  BY <1>0, <1>4 DEF SystemdRows, Believed
<1>13. SystemdRows'
  <2>1. /\ \A i, j \in DOMAIN found.systemd : found.systemd[i].id = found.systemd[j].id => i = j
        /\ status.systemd # "listed" /\ (call \in 1 .. 2 => found.systemd = <<>>)
        /\ (call = 3 => \A x \in Listed : Scope(x) = "system")
    BY <1>0, <1>1 DEF SystemdRows
  <2>2. found' = found /\ status' = status /\ src' = 1 /\ call' = call BY <1>1
  <2>3. /\ \A i, j \in DOMAIN found'.systemd : found'.systemd[i].id = found'.systemd[j].id => i = j
        /\ \A i \in DOMAIN found'.systemd : Believed(found'.systemd[i], history')
    BY <1>12, <2>1, <2>2
  <2>4. /\ status'.systemd # "listed" /\ (call' \in 1 .. 2 => found'.systemd = <<>>)
        /\ (call' = 3 => \A x \in Listed' : Scope(x) = "system")
    BY <1>10, <2>1, <2>2
  <2> QED BY <1>11, <2>2, <2>3, <2>4 DEF SystemdRows
<1> QED BY <1>6, <1>9, <1>13 DEF Gathered

LEMMA InitCInv == CInit => CInv
<1> SUFFICES ASSUME CInit PROVE CInv OBVIOUS
<1>1. Remembered BY InitRemembered
<1>2. ToSet(Sources) = SourceNames BY DEF Sources, SourceNames, ToSet
<1>3. /\ DOMAIN found = SourceNames /\ \A s \in SourceNames : found[s] = <<>>
      /\ src = 0 /\ call = 1 /\ status.systemd = "none" /\ end = "running"
  BY <1>2 DEF CInit, SourceNames
<1> DEFINE told == {<<u, Truth(u, file, active)>> : u \in Units}
<1>4. /\ history.truth = told /\ history.static = {u \in Units : file[u] = "static"}
      /\ history.stayed = Installed
      /\ DOMAIN history = {"faults", "lost", "failed", "changes", "truth", "static", "stayed"}
  BY DEF CInit, NoHistory
<1>5. \A u \in Units : <<u, Truth(u, file, active)>> \in told OBVIOUS
<1> HIDE DEF told
<1>6. \A s \in SourceNames : <<>> \in Seq(RowsAt(s)) OBVIOUS
<1>7. /\ machine \in Machines /\ file \in [Units -> States] /\ \A u \in Aliases : file[u] = "absent"
      /\ active \subseteq Units \ Aliases
  BY DEF CInit
<1>8. Typed
  <2>1. DOMAIN found = SourceNames /\ \A s \in SourceNames : found[s] \in Seq(RowsAt(s))
    BY <1>3, <1>6
  <2> QED BY <1>3, <1>4, <1>7, <2>1 DEF Typed
<1>9. Truths BY <1>4, <1>5, <1>7 DEF Truths
<1>10. SystemdRows BY <1>3 DEF SystemdRows, Inventoried, Past, SourceNames
<1>11. ListingIsShown BY <1>3 DEF ListingIsShown
<1> QED BY <1>1, <1>8, <1>9, <1>10, <1>11 DEF CInv, Gathered

LEMMA NextCInv == CInv /\ [CNext]_cvars => CInv'
<1> SUFFICES ASSUME CInv, [CNext]_cvars PROVE CInv' OBVIOUS
<1>0. Remembered /\ Gathered /\ ListingIsShown /\ Typed BY DEF CInv, Gathered
<1>1. Remembered' BY <1>0, NextRemembered
<1>2. CASE Greet
  <2>1. end' # "listed" BY <1>0, <1>2 DEF Greet
  <2> QED BY <1>0, <1>1, <1>2, <2>1, GreetIsGathered DEF CInv, ListingIsShown
<1>3. CASE Ask5
  <2>1. /\ UNCHANGED <<machine, file, active>> /\ end' # "listed" /\ src \in 1 .. 5
        /\ "lost" \in DOMAIN history
    BY <1>0, <1>3 DEF Ask5, Remembered
  <2>2. CASE src = 1
    <3>1. Systemd BY <1>3, <2>2 DEF Ask5
    <3>2. Gathered' BY <1>0, <2>1, <2>2, <3>1, SystemdIsGathered
    <3> QED BY <1>1, <2>1, <3>2 DEF CInv, ListingIsShown
  <2>3. CASE src \in 2 .. 5
    <3>1. Noted /\ Appends /\ Heard
      <4>1. CASE src = 2
        <5>1. Cron BY <1>3, <4>1 DEF Ask5
        <5> QED BY <1>0, <2>1, <4>1, <5>1, CronAppends, CronIsHeard
      <4>2. CASE src = 3
        <5>1. Launchd BY <1>3, <4>2 DEF Ask5
        <5> QED BY <1>0, <2>1, <4>2, <5>1, LaunchdAppends, LaunchdIsHeard
      <4>3. CASE src = 4
        <5>1. At BY <1>3, <4>3 DEF Ask5
        <5> QED BY <1>0, <2>1, <4>3, <5>1, AtAppends, AtIsHeard
      <4>4. CASE src = 5
        <5>1. Anacron BY <1>3, <4>4 DEF Ask5
        <5> QED BY <1>0, <2>1, <4>4, <5>1, AnacronAppends, AnacronIsHeard
      <4> QED BY <2>3, <4>1, <4>2, <4>3, <4>4
    <3>2. Goes \/ Loses BY <3>1 DEF Heard, Hears
    <3>3. Gathered' BY <1>0, <2>1, <2>3, <3>1, <3>2, OthersAreGathered
    <3> QED BY <1>1, <2>1, <3>3 DEF CInv, ListingIsShown
  <2> QED BY <2>1, <2>2, <2>3
<1>4. CASE Report
  <2>1. UNCHANGED <<machine, file, active, src, call, found, status, history>> BY <1>4 DEF Report
  <2>2. Gathered'
    <3>1. Noted BY <2>1 DEF Noted
    <3>2. Truths' BY <1>0, <2>1, <3>1, TruthsStay DEF Gathered
    <3>3. Typed' BY <1>0, <2>1, FoundStays DEF Typed
    <3>4. SystemdRows' BY <1>0, <2>1 DEF Gathered, SystemdRows, Inventoried, Past, Listed
    <3> QED BY <3>2, <3>3, <3>4 DEF Gathered
  <2>3. \A s : Shown(s)' = Shown(s) BY <2>1 DEF Shown
  <2>4. ListingIsShown' BY <1>4, <2>3 DEF Report, ListingIsShown
  <2> QED BY <1>1, <2>2, <2>4 DEF CInv
<1>5. CASE OtherHand
  <2>1. end' # "listed" BY <1>5 DEF OtherHand
  <2> QED BY <1>0, <1>1, <1>5, <2>1, OtherHandIsGathered DEF CInv, ListingIsShown
<1>6. CASE UNCHANGED cvars
  <2>1. UNCHANGED <<machine, file, active, src, call, found, status, history, end, listing>>
    BY <1>6 DEF cvars
  <2>2. Noted BY <2>1 DEF Noted
  <2>3. Truths' BY <1>0, <2>1, <2>2, TruthsStay DEF Gathered
  <2>4. Typed' BY <1>0, <2>1, FoundStays DEF Typed
  <2>5. SystemdRows' BY <1>0, <2>1 DEF Gathered, SystemdRows, Inventoried, Past, Listed
  <2>6. \A s : Shown(s)' = Shown(s) BY <2>1 DEF Shown
  <2>7. ListingIsShown' BY <1>0, <2>1, <2>6 DEF ListingIsShown
  <2> QED BY <1>1, <2>3, <2>4, <2>5, <2>7 DEF CInv, Gathered
<1> QED BY <1>2, <1>3, <1>4, <1>5, <1>6 DEF CNext, Collected

(* Five sequences of rows after each other, which begin with the first.    *)
Follows(q, a, b) ==
  /\ \A i \in DOMAIN a : i \in DOMAIN q /\ q[i] = a[i]
  /\ \A i \in DOMAIN q : (i \in DOMAIN a /\ q[i] = a[i]) \/ \E k \in DOMAIN b : q[i] = b[k]

LEMMA TwoJoined ==
  ASSUME NEW R, NEW a \in Seq(R), NEW b \in Seq(R)
  PROVE  a \o b \in Seq(R) /\ Follows(a \o b, a, b)
<1> DEFINE q == a \o b
<1>1. /\ q \in Seq(R)
      /\ \A i \in DOMAIN a : i \in DOMAIN q /\ q[i] = a[i]
      /\ \A i \in DOMAIN q :
              \/ i \in DOMAIN a /\ q[i] = a[i]
              \/ i > Len(a) /\ i - Len(a) \in DOMAIN b /\ q[i] = b[i - Len(a)]
  BY Joined
<1> HIDE DEF q
<1>2. Follows(q, a, b) BY <1>1 DEF Follows
<1> QED BY <1>1, <1>2 DEF q

FollowAll(q, a, b, c, d, e) ==
  /\ \A i \in DOMAIN a : i \in DOMAIN q /\ q[i] = a[i]
  /\ \A i \in DOMAIN q :
       \/ i \in DOMAIN a /\ q[i] = a[i]
       \/ \E k \in DOMAIN b : q[i] = b[k]
       \/ \E k \in DOMAIN c : q[i] = c[k]
       \/ \E k \in DOMAIN d : q[i] = d[k]
       \/ \E k \in DOMAIN e : q[i] = e[k]

LEMMA FiveJoined ==
  ASSUME NEW R, NEW a \in Seq(R), NEW b \in Seq(R), NEW c \in Seq(R), NEW d \in Seq(R),
         NEW e \in Seq(R)
  PROVE  FollowAll(a \o b \o c \o d \o e, a, b, c, d, e)
<1> DEFINE ab == a \o b
           abc == ab \o c
           abcd == abc \o d
           q == abcd \o e
<1>1. ab \in Seq(R) /\ Follows(ab, a, b) BY TwoJoined
<1> HIDE DEF ab
<1>2. abc \in Seq(R) /\ Follows(abc, ab, c) BY <1>1, TwoJoined
<1> HIDE DEF abc
<1>3. abcd \in Seq(R) /\ Follows(abcd, abc, d) BY <1>2, TwoJoined
<1> HIDE DEF abcd
<1>4. Follows(q, abcd, e) BY <1>3, TwoJoined
<1> HIDE DEF q
<1>5. ASSUME NEW i \in DOMAIN a PROVE i \in DOMAIN q /\ q[i] = a[i]
  <2>1. i \in DOMAIN ab /\ ab[i] = a[i] BY <1>1 DEF Follows
  <2>2. i \in DOMAIN abc /\ abc[i] = a[i] BY <1>2, <2>1 DEF Follows
  <2>3. i \in DOMAIN abcd /\ abcd[i] = a[i] BY <1>3, <2>2 DEF Follows
  <2> QED BY <1>4, <2>3 DEF Follows
<1>6. ASSUME NEW i \in DOMAIN q
      PROVE  \/ i \in DOMAIN a /\ q[i] = a[i]
             \/ \E k \in DOMAIN b : q[i] = b[k]
             \/ \E k \in DOMAIN c : q[i] = c[k]
             \/ \E k \in DOMAIN d : q[i] = d[k]
             \/ \E k \in DOMAIN e : q[i] = e[k]
  <2>1. (i \in DOMAIN abcd /\ q[i] = abcd[i]) \/ \E k \in DOMAIN e : q[i] = e[k]
    BY <1>4 DEF Follows
  <2>2. i \in DOMAIN abcd => (i \in DOMAIN abc /\ abcd[i] = abc[i]) \/ \E k \in DOMAIN d : abcd[i] = d[k]
    BY <1>3 DEF Follows
  <2>3. i \in DOMAIN abc => (i \in DOMAIN ab /\ abc[i] = ab[i]) \/ \E k \in DOMAIN c : abc[i] = c[k]
    BY <1>2 DEF Follows
  <2>4. i \in DOMAIN ab => (i \in DOMAIN a /\ ab[i] = a[i]) \/ \E k \in DOMAIN b : ab[i] = b[k]
    BY <1>1 DEF Follows
  <2> QED BY <2>1, <2>2, <2>3, <2>4
<1>7. FollowAll(q, a, b, c, d, e) BY <1>5, <1>6 DEF FollowAll
<1> QED BY <1>7 DEF q, abcd, abc, ab

(* What a line of the listing is made of.                                  *)
Line(s, row) == [src |-> s, id |-> row.id, on |-> row.on]
Lines == {Line(s, row) : s \in SourceNames, row \in UNION {RowsAt(t) : t \in SourceNames}}

LEMMA ShownFacts ==
  ASSUME Typed, NEW s \in SourceNames
  PROVE  /\ \A k \in DOMAIN Shown(s) :
              /\ status[s] = "listed" /\ k \in DOMAIN found[s]
              /\ Shown(s)[k] = Line(s, found[s][k])
         /\ status[s] = "listed" => DOMAIN Shown(s) = DOMAIN found[s]
         /\ Shown(s) \in Seq(Lines)
<1>1. found[s] \in Seq(RowsAt(s)) BY DEF Typed
<1>2. /\ Len(found[s]) \in Nat /\ DOMAIN found[s] = 1 .. Len(found[s])
      /\ \A k \in DOMAIN found[s] : found[s][k] \in RowsAt(s)
  BY <1>1, LenProperties, ElementOfSeq
<1>3. CASE status[s] # "listed"
  <2>1. Shown(s) = <<>> BY <1>3 DEF Shown
  <2>2. DOMAIN Shown(s) = {} /\ Shown(s) \in Seq(Lines) BY <2>1
  <2> QED BY <1>3, <2>2
<1>4. CASE status[s] = "listed"
  <2>1. Shown(s) = [k \in DOMAIN found[s] |-> Line(s, found[s][k])] BY <1>4 DEF Shown, Line
  <2>2. \A k \in DOMAIN found[s] : Line(s, found[s][k]) \in Lines BY <1>2 DEF Lines
  <2>3. Shown(s) \in [1 .. Len(found[s]) -> Lines] BY <1>2, <2>1, <2>2
  <2>4. Shown(s) \in Seq(Lines) BY <1>2, <2>3, ASequence
  <2> QED BY <1>4, <2>1, <2>4
<1> QED BY <1>3, <1>4

LEMMA ListingFacts ==
  ASSUME CInv, end = "listed"
  PROVE  /\ \A i \in DOMAIN listing : \E s \in SourceNames : \E k \in DOMAIN found[s] :
              status[s] = "listed" /\ listing[i] = Line(s, found[s][k])
         /\ status.systemd = "listed" => \A k \in DOMAIN found.systemd :
              k \in DOMAIN listing /\ listing[k] = Line("systemd", found.systemd[k])
         /\ \A i \in DOMAIN listing : listing[i].src = "systemd" =>
              /\ i \in DOMAIN found.systemd /\ status.systemd = "listed"
              /\ listing[i] = Line("systemd", found.systemd[i])
<1>0. Typed BY DEF CInv, Gathered
<1>1. listing = Shown("systemd") \o Shown("cron") \o Shown("at") \o Shown("anacron") \o Shown("launchd")
  BY DEF CInv, ListingIsShown
<1>2. ASSUME NEW s \in SourceNames
      PROVE  /\ Shown(s) \in Seq(Lines)
             /\ \A k \in DOMAIN Shown(s) :
                  /\ status[s] = "listed" /\ k \in DOMAIN found[s]
                  /\ Shown(s)[k] = Line(s, found[s][k])
             /\ status[s] = "listed" => DOMAIN Shown(s) = DOMAIN found[s]
  BY <1>0, ShownFacts
<1>3. /\ "systemd" \in SourceNames /\ "cron" \in SourceNames /\ "at" \in SourceNames
      /\ "anacron" \in SourceNames /\ "launchd" \in SourceNames
  BY DEF SourceNames
<1>4. /\ \A i \in DOMAIN Shown("systemd") : i \in DOMAIN listing /\ listing[i] = Shown("systemd")[i]
      /\ \A i \in DOMAIN listing :
           \/ i \in DOMAIN Shown("systemd") /\ listing[i] = Shown("systemd")[i]
           \/ \E s \in SourceNames \ {"systemd"} : \E k \in DOMAIN Shown(s) : listing[i] = Shown(s)[k]
  <2> DEFINE a == Shown("systemd")
             b == Shown("cron")
             c == Shown("at")
             d == Shown("anacron")
             e == Shown("launchd")
  <2>0. /\ a \in Seq(Lines) /\ b \in Seq(Lines) /\ c \in Seq(Lines) /\ d \in Seq(Lines)
        /\ e \in Seq(Lines)
    BY <1>2, <1>3
  <2>1. listing = a \o b \o c \o d \o e BY <1>1
  <2> HIDE DEF a, b, c, d, e
  <2>2. FollowAll(a \o b \o c \o d \o e, a, b, c, d, e)
    BY <2>0, FiveJoined
  <2>3. FollowAll(listing, a, b, c, d, e)
    BY <2>1, <2>2
  <2> QED BY <1>3, <2>3 DEF FollowAll, a, b, c, d, e
<1>5. ASSUME NEW i \in DOMAIN listing
      PROVE  \E s \in SourceNames : \E k \in DOMAIN found[s] :
               /\ status[s] = "listed" /\ listing[i] = Line(s, found[s][k])
               /\ s = "systemd" => k = i
  <2>1. CASE i \in DOMAIN Shown("systemd") /\ listing[i] = Shown("systemd")[i]
    <3>1. /\ status["systemd"] = "listed" /\ i \in DOMAIN found["systemd"]
          /\ listing[i] = Line("systemd", found["systemd"][i])
      BY <1>2, <1>3, <2>1
    <3> QED BY <1>3, <3>1
  <2>2. CASE \E s \in SourceNames \ {"systemd"} : \E k \in DOMAIN Shown(s) : listing[i] = Shown(s)[k]
    <3>1. PICK s \in SourceNames \ {"systemd"} : \E k \in DOMAIN Shown(s) : listing[i] = Shown(s)[k]
      BY <2>2
    <3>2. PICK k \in DOMAIN Shown(s) : listing[i] = Shown(s)[k] BY <3>1
    <3>3. status[s] = "listed" /\ k \in DOMAIN found[s] /\ listing[i] = Line(s, found[s][k])
      BY <1>2, <3>1, <3>2
    <3> QED BY <3>1, <3>3
  <2> QED BY <1>4, <2>1, <2>2
<1>6. \A s, row : Line(s, row).src = s BY DEF Line
<1>7. ASSUME NEW i \in DOMAIN listing, listing[i].src = "systemd"
      PROVE  /\ i \in DOMAIN found.systemd /\ status.systemd = "listed"
             /\ listing[i] = Line("systemd", found.systemd[i])
  <2>1. PICK s \in SourceNames : \E k \in DOMAIN found[s] :
          /\ status[s] = "listed" /\ listing[i] = Line(s, found[s][k])
          /\ s = "systemd" => k = i
    BY <1>5
  <2>2. s = "systemd" BY <1>6, <1>7, <2>1
  <2> QED BY <2>1, <2>2
<1>8. status.systemd = "listed" => \A k \in DOMAIN found.systemd :
         k \in DOMAIN listing /\ listing[k] = Line("systemd", found.systemd[k])
  BY <1>2, <1>3, <1>4
<1> QED BY <1>5, <1>7, <1>8

LEMMA CInvIsTrue == CInv => EnabledIsTrue
<1> SUFFICES ASSUME CInv, end = "listed", NEW i \in DOMAIN listing, listing[i].on # "unknown"
             PROVE  CASE listing[i].src = "systemd" ->
                           \/ <<listing[i].id, listing[i].on>> \in history.truth
                           \/ listing[i].id \in Aliases /\ listing[i].on = "yes"
                           \/ listing[i].id \in history.static /\ listing[i].on = "no" /\ <<"systemd", 6>> \in history.failed
                      [] listing[i].src = "cron" /\ listing[i].id \in DOMAIN machine.scripts ->
                           listing[i].on = machine.scripts[listing[i].id]
                      [] listing[i].src = "anacron" -> listing[i].on = machine.lines[listing[i].id]
                      [] OTHER -> TRUE
  BY DEF EnabledIsTrue
<1>0. PICK s \in SourceNames : \E k \in DOMAIN found[s] :
        status[s] = "listed" /\ listing[i] = Line(s, found[s][k])
  BY ListingFacts
<1>1. PICK k \in DOMAIN found[s] :
        status[s] = "listed" /\ listing[i] = Line(s, found[s][k])
  BY <1>0
<1> DEFINE row == found[s][k]
<1>2. listing[i].src = s /\ listing[i].id = row.id /\ listing[i].on = row.on /\ row.on # "unknown"
  BY <1>1 DEF Line
<1>3. row \in RowsAt(s)
  BY LenProperties, ElementOfSeq DEF CInv, Gathered, Typed
<1>4. CASE s = "systemd"
  <2>1. Sure(found.systemd[k], history) BY <1>1, <1>4 DEF CInv, Gathered, SystemdRows
  <2>2. Sure(row, history) BY <1>4, <2>1
  <2> HIDE DEF row
  <2> QED BY <1>2, <1>4, <2>2 DEF Sure, Believed
<1>5. CASE s = "cron"
  <2>1. row \in CronRows BY <1>3, <1>5 DEF RowsAt
  <2> HIDE DEF row
  <2>2. PICK f \in {machine.crontab, machine.dropins, machine.scripts,
                    Unknown(machine.scripts), machine.users} : row \in RowsFrom(f)
    BY <2>1 DEF CronRows
  <2>3. row.id \in DOMAIN f /\ row.on = f[row.id] BY <2>2 DEF RowsFrom, Row
  <2>4. row.id \in DOMAIN machine.scripts => row.on = machine.scripts[row.id]
    <3>1. machine \in Machines BY DEF CInv, Gathered, Typed
    <3>2. \A g \in {machine.crontab, machine.dropins, machine.users} :
            DOMAIN g \cap DOMAIN machine.scripts = {}
      BY <3>1, MachinesAssumption
    <3>3. f # Unknown(machine.scripts) BY <1>2, <2>3 DEF Unknown
    <3> QED BY <2>2, <2>3, <3>2, <3>3
  <2> QED BY <1>2, <1>5, <2>4
<1>6. CASE s = "anacron"
  <2>1. row \in RowsFrom(machine.lines) BY <1>3, <1>6 DEF RowsAt
  <2> HIDE DEF row
  <2>2. row.on = machine.lines[row.id] BY <2>1 DEF RowsFrom, Row
  <2> QED BY <1>2, <1>6, <2>2
<1>7. CASE s \in {"launchd", "at"} BY <1>2, <1>7
<1> QED BY <1>4, <1>5, <1>6, <1>7 DEF SourceNames

(* Whatever the machine and whoever changes its timers meanwhile, a line   *)
(* that says on or off says what was so at some time of the collection:    *)
(* replies are looked up by id (apply_show), and a script without an       *)
(* answer to `find` is left unknown.  An alias, and a static timer `show`  *)
(* has not answered for, are what the inventory of files says.             *)
THEOREM EnabledIsTrueHolds == CSpec => []EnabledIsTrue
BY InitCInv, NextCInv, CInvIsTrue, PTL DEF CSpec

LEMMA CInvListsOnce == CInv => LastingTimersAreListedOnce
<1> SUFFICES ASSUME CInv, end = "listed", status["systemd"] = "listed", NEW u \in Units
             PROVE  /\ Count("systemd", u) <= 1
                    /\ u \in history.stayed /\ (\A c \in 2..5 : <<"systemd", c>> \notin history.failed)
                       => Count("systemd", u) = 1
  BY DEF LastingTimersAreListedOnce
<1> DEFINE S == {i \in DOMAIN listing : listing[i].src = "systemd" /\ listing[i].id = u}
<1>0. SystemdRows BY DEF CInv, Gathered
<1>1. \A s, row : Line(s, row).src = s /\ Line(s, row).id = row.id BY DEF Line
<1>2. \A i \in S : i \in DOMAIN found.systemd /\ found.systemd[i].id = u
  BY <1>1, ListingFacts
<1>3. \A i, j \in S : i = j BY <1>0, <1>2 DEF SystemdRows
<1>4. Count("systemd", u) = Cardinality(S) BY DEF Count
<1>5. ASSUME NEW i \in S PROVE Cardinality(S) = 1
  <2>1. S = {i} BY <1>3
  <2> QED BY <2>1, FS_Singleton
<1>6. S = {} => Cardinality(S) = 0 BY FS_EmptySet
<1>7. ASSUME u \in history.stayed, \A c \in 2 .. 5 : <<"systemd", c>> \notin history.failed
      PROVE  \E i \in S : TRUE
  <2>1. Scope(u) \in {"system", "user"} BY CollectorAssumption
  <2>2. <<"systemd", 4>> \notin history.failed /\ <<"systemd", 5>> \notin history.failed BY <1>7
  <2>3. u \in Listed BY <1>0, <1>7, <2>1, <2>2 DEF SystemdRows, Inventoried, Past
  <2>4. PICK k \in DOMAIN found.systemd : found.systemd[k].id = u BY <2>3 DEF Listed
  <2>5. k \in DOMAIN listing /\ listing[k] = Line("systemd", found.systemd[k])
    BY <2>4, ListingFacts
  <2> QED BY <1>1, <2>4, <2>5
<1> HIDE DEF S
<1> QED BY <1>4, <1>5, <1>6, <1>7

(* Each timer is in a listing at most once, however others start and stop  *)
(* timers between its commands; and one whose file was there all along is  *)
(* in it, as long as the two inventories of files answered                 *)
(* (merge_unit_file_tasks).                                                *)
THEOREM LastingTimersAreListed == CSpec => []LastingTimersAreListedOnce
BY InitCInv, NextCInv, CInvListsOnce, PTL DEF CSpec

=============================================================================
