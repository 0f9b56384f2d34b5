------------------------- MODULE AnacronWriter_proofs -------------------------
(***************************************************************************)
(* That the anacron writer never puts a name on two lines, for every file, *)
(* every set of names and however many operations, failures and edits by   *)
(* hand.  The invariant of the file alone is not inductive: what is in the *)
(* file next is what a plan was made of (`new`) or what a rollback puts    *)
(* back (`text`), so these two are part of it.  And that every time stamp  *)
(* belongs to a line.                                                      *)
(***************************************************************************)
EXTENDS AnacronWriter, SequenceTheorems, TLAPS

Unique(t) == Doubles(t) \subseteq theirs

(* While the stamp is still to go, there is one to go.                     *)
Pending == pc \in {"wrote", "undo"} => Stale(op) # NoJob

IInv == /\ TypeOK
        /\ Pending
        /\ Unique(Body(file))
        /\ Unique(text)
        /\ Unique(new)

-----------------------------------------------------------------------------
(* Types                                                                   *)

LEMMA NoOpType == NoOp \in Ops
<1> PICK n \in Names : TRUE BY AnacronAssumption
<1> DEFINE o == [kind |-> "delete", job |-> n, name |-> n, schedule |-> "none",
                 delay |-> Keep, on |-> TRUE]
<1>1. o \in Ops BY DEF Ops
<1>2. o.kind = "delete" OBVIOUS
<1> QED BY <1>1, <1>2 DEF NoOp

LEMMA BodyType ==
  ASSUME NEW f, f = Gone \/ IsText(f)
  PROVE  IsText(Body(f))
BY DEF IsText, Body

LEMMA TextIsNotGone ==
  ASSUME NEW f, IsText(f)
  PROVE  f # Gone /\ Body(f) = f
BY AnacronAssumption DEF IsText, Body

LEMMA RenderLineType ==
  ASSUME NEW o \in Ops, o.kind \in {"create", "update"}, Expressible(o.schedule),
         NEW d \in Delays \cup {Wide}
  PROVE  /\ RenderLine(o, d) \in Lines
         /\ RenderLine(o, d).job = o.name
<1>1. o.name \in Names /\ o.schedule \in Schedules BY DEF Ops
<1>2. RenderPeriod(o.schedule) \in Tokens
  BY <1>1, AnacronAssumption DEF Expressible, RenderPeriod, Tokens
<1> QED BY <1>1, <1>2 DEF RenderLine, Lines, Marks

LEMMA SwitchedType ==
  ASSUME NEW line \in Lines, NEW on \in BOOLEAN
  PROVE  /\ Switched(line, on) \in Lines
         /\ Switched(line, on).job = line.job
BY DEF Switched, Lines, Marks

LEMMA WithoutLineType ==
  ASSUME NEW t, IsText(t), NEW n \in DOMAIN t
  PROVE  /\ IsText(WithoutLine(t, n))
         /\ DOMAIN WithoutLine(t, n) = 1 .. Len(t) - 1
<1>1. Len(t) \in Nat /\ DOMAIN t = 1 .. Len(t) /\ \A i \in 1 .. Len(t) : t[i] \in Lines
  BY DEF IsText
<1>2. Len(t) - 1 \in Nat BY <1>1
<1>3. \A i \in 1 .. Len(t) - 1 : (IF i < n THEN t[i] ELSE t[i + 1]) \in Lines BY <1>1
<1>4. WithoutLine(t, n) \in [1 .. Len(t) - 1 -> Lines] BY <1>3 DEF WithoutLine
<1> QED BY <1>2, <1>4, IsASeq DEF IsText

-----------------------------------------------------------------------------
(* What each edit of a text does to the names on several lines             *)

LEMMA NoDoublesInNothing == Doubles(<<>>) = {}
BY DEF Doubles, Entries

(* A line for a name that no line has.                                     *)
LEMMA AppendDoubles ==
  ASSUME NEW t, IsText(t), NEW line \in Lines, ~Taken(t, line.job)
  PROVE  /\ IsText(Append(t, line))
         /\ Doubles(Append(t, line)) \subseteq Doubles(t)
<1> DEFINE u == Append(t, line)
<1>1. /\ u \in Seq(Lines) /\ Len(t) \in Nat /\ DOMAIN t = 1 .. Len(t)
      /\ DOMAIN u = 1 .. Len(t) + 1
      /\ \A i \in 1 .. Len(t) : u[i] = t[i]
      /\ u[Len(t) + 1] = line
  BY AppendProperties DEF IsText
<1>2. ASSUME NEW m \in Names, NEW i \in Entries(u, m), NEW j \in Entries(u, m), i # j
      PROVE  i \in Entries(t, m) /\ j \in Entries(t, m)
  <2>1. i \in DOMAIN t \/ j \in DOMAIN t BY <1>1, <1>2 DEF Entries
  <2>2. \A k \in Entries(u, m) : k \in DOMAIN t => k \in Entries(t, m) BY <1>1 DEF Entries
  <2>3. Entries(t, m) # {} BY <2>1, <2>2
  <2>4. m # line.job BY <2>3 DEF Taken
  <2>5. \A k \in Entries(u, m) : k # Len(t) + 1 BY <1>1, <2>4 DEF Entries
  <2>6. \A k \in Entries(u, m) : k \in DOMAIN t BY <1>1, <2>5 DEF Entries
  <2> QED BY <2>2, <2>6
<1> QED BY <1>1, <1>2 DEF Doubles, IsText

(* Another line in the place of one, where no other line has its name.     *)
LEMMA ReplaceDoubles ==
  ASSUME NEW t, IsText(t), NEW n \in DOMAIN t, NEW line \in Lines,
         Entries(t, line.job) \subseteq {n}
  PROVE  /\ IsText([t EXCEPT ![n] = line])
         /\ Doubles([t EXCEPT ![n] = line]) \subseteq Doubles(t)
<1> DEFINE u == [t EXCEPT ![n] = line]
<1>1. u \in Seq(Lines) /\ DOMAIN u = DOMAIN t BY ExceptSeq DEF IsText
<1>2. u[n] = line /\ \A i \in DOMAIN t : i # n => u[i] = t[i] OBVIOUS
<1>3. ASSUME NEW m \in Names, NEW i \in Entries(u, m), NEW j \in Entries(u, m), i # j
      PROVE  i \in Entries(t, m) /\ j \in Entries(t, m)
  <2>1. \A k \in Entries(u, m) : k # n => k \in Entries(t, m) BY <1>1, <1>2 DEF Entries
  <2>2. i # n \/ j # n BY <1>3
  <2>3. n \in Entries(u, m) => m = line.job BY <1>2 DEF Entries
  <2>4. m = line.job => \A k \in Entries(u, m) : k = n BY <2>1
  <2>5. i # n /\ j # n BY <1>3, <2>3, <2>4
  <2> QED BY <2>1, <2>5
<1> QED BY <1>1, <1>3 DEF Doubles, IsText

(* A line less.                                                            *)
LEMMA WithoutDoubles ==
  ASSUME NEW t, IsText(t), NEW n \in DOMAIN t
  PROVE  Doubles(WithoutLine(t, n)) \subseteq Doubles(t)
<1> DEFINE u == WithoutLine(t, n)
           Old(k) == IF k < n THEN k ELSE k + 1
<1>1. Len(t) \in Nat /\ DOMAIN t = 1 .. Len(t) /\ n \in 1 .. Len(t) BY DEF IsText
<1>2. DOMAIN u = 1 .. Len(t) - 1 BY WithoutLineType
<1>3. \A k \in DOMAIN u : Old(k) \in DOMAIN t /\ u[k] = t[Old(k)]
  BY <1>1, <1>2 DEF WithoutLine
<1>4. \A k, l \in DOMAIN u : k # l => Old(k) # Old(l) BY <1>1, <1>2
<1>5. ASSUME NEW m \in Names, NEW i \in Entries(u, m), NEW j \in Entries(u, m), i # j
      PROVE  /\ Old(i) \in Entries(t, m) /\ Old(j) \in Entries(t, m)
             /\ Old(i) # Old(j)
  <2> HIDE DEF u, Old
  <2>1. i \in DOMAIN u /\ j \in DOMAIN u BY DEF Entries
  <2> QED BY <2>1, <1>3, <1>4, <1>5 DEF Entries
<1> HIDE DEF u, Old
<1> QED BY <1>5 DEF Doubles, u

-----------------------------------------------------------------------------
(* Every plan                                                              *)

LEMMA LocateEntry ==
  ASSUME NEW t, NEW job, Located(t, job)
  PROVE  /\ Locate(t, job) \in DOMAIN t
         /\ Entries(t, job) = {Locate(t, job)}
         /\ t[Locate(t, job)].job = job
<1>1. PICK i \in Entries(t, job) : Entries(t, job) = {i} BY DEF Located
<1>2. Locate(t, job) = i BY <1>1 DEF Locate
<1> QED BY <1>1, <1>2 DEF Entries

LEMMA PlanFacts ==
  ASSUME TypeOK, Plan
  PROVE  /\ IsText(file) /\ text' = file /\ pc' = "planned" /\ op' \in Ops
         /\ IsText(new') /\ Doubles(new') \subseteq Doubles(file)
<1>1. IsText(file) BY DEF TypeOK, Plan
<1>2. PICK o \in Ops : Create(o) \/ Update(o) \/ Delete(o) \/ Switch(o) BY DEF Plan
<1>3. /\ Len(file) \in Nat
      /\ \A i \in DOMAIN file : file[i] \in Lines
  BY <1>1 DEF IsText
<1>4. CASE Create(o)
  <2> DEFINE d == IF o.delay = Keep THEN DefaultDelay ELSE o.delay
  <2>1. d \in Delays \cup {Wide} BY AnacronAssumption DEF Ops
  <2>2. o.kind = "create" /\ Expressible(o.schedule) /\ ~Taken(file, o.name)
        /\ Propose(o, Append(file, RenderLine(o, d)))
    BY <1>4 DEF Create
  <2>3. RenderLine(o, d) \in Lines /\ RenderLine(o, d).job = o.name
    BY <2>1, <2>2, RenderLineType
  <2>4. IsText(Append(file, RenderLine(o, d)))
        /\ Doubles(Append(file, RenderLine(o, d))) \subseteq Doubles(file)
    BY <1>1, <2>2, <2>3, AppendDoubles
  <2> QED BY <1>1, <1>2, <2>2, <2>4 DEF Propose
<1>5. CASE Update(o)
  <2> DEFINE n == Locate(file, o.job)
             line == RenderLine(o, Delay(o, file[n]))
  <2>1. /\ o.kind = "update" /\ Located(file, o.job) /\ Expressible(o.schedule)
        /\ o.name # o.job => ~Taken(file, o.name)
        /\ Propose(o, [file EXCEPT ![n] = line])
    BY <1>5 DEF Update
  <2>2. n \in DOMAIN file /\ Entries(file, o.job) = {n} BY <2>1, LocateEntry
  <2>3. Delay(o, file[n]) \in Delays \cup {Wide} BY <1>3, <2>2 DEF Delay, Ops, Lines
  <2>4. line \in Lines /\ line.job = o.name BY <2>1, <2>3, RenderLineType
  <2>5. Entries(file, line.job) \subseteq {n} BY <2>1, <2>2, <2>4 DEF Taken
  <2> HIDE DEF n, line
  <2>6. IsText([file EXCEPT ![n] = line])
        /\ Doubles([file EXCEPT ![n] = line]) \subseteq Doubles(file)
    BY <1>1, <2>2, <2>4, <2>5, ReplaceDoubles
  <2> QED BY <1>1, <1>2, <2>1, <2>6 DEF Propose
<1>6. CASE Delete(o)
  <2> DEFINE n == Locate(file, o.job)
  <2>1. Located(file, o.job) /\ Propose(o, WithoutLine(file, n)) BY <1>6 DEF Delete
  <2>2. n \in DOMAIN file BY <2>1, LocateEntry
  <2> HIDE DEF n
  <2>3. IsText(WithoutLine(file, n)) /\ Doubles(WithoutLine(file, n)) \subseteq Doubles(file)
    BY <1>1, <2>2, WithoutLineType, WithoutDoubles
  <2> QED BY <1>1, <1>2, <2>1, <2>3 DEF Propose
<1>7. CASE Switch(o)
  <2> DEFINE n == Locate(file, o.job)
             line == Switched(file[n], o.on)
  <2>1. /\ Located(file, o.job)
        /\ Propose(o, file) \/ Propose(o, [file EXCEPT ![n] = line])
    BY <1>7 DEF Switch
  <2>2. n \in DOMAIN file /\ Entries(file, o.job) = {n} /\ file[n].job = o.job
    BY <2>1, LocateEntry
  <2>3. line \in Lines /\ line.job = o.job
    <3>1. o.on \in BOOLEAN BY DEF Ops
    <3> QED BY <1>3, <2>2, <3>1, SwitchedType
  <2> HIDE DEF n, line
  <2>4. IsText([file EXCEPT ![n] = line])
        /\ Doubles([file EXCEPT ![n] = line]) \subseteq Doubles(file)
    BY <1>1, <2>2, <2>3, ReplaceDoubles
  <2> QED BY <1>1, <1>2, <2>1, <2>4 DEF Propose
<1> QED BY <1>2, <1>4, <1>5, <1>6, <1>7

-----------------------------------------------------------------------------
(* The invariant                                                           *)

LEMMA InitIInv == Init => IInv
<1> SUFFICES ASSUME Init PROVE IInv OBVIOUS
<1>1. file = Gone \/ IsText(file)
  <2>1. \A a, b \in OthersLines : a \in Lines /\ b \in Lines BY AnacronAssumption
  <2>2. <<>> \in Seq(Lines) OBVIOUS
  <2>3. \A a \in Lines : <<a>> \in Seq(Lines) OBVIOUS
  <2>4. \A a, b \in Lines : <<a, b>> \in Seq(Lines) OBVIOUS
  <2> QED BY <2>1, <2>2, <2>3, <2>4 DEF Init, IsText
<1>2. theirs = Doubles(Body(file)) /\ text = <<>> /\ new = <<>> BY DEF Init
<1>3. theirs \subseteq Names BY <1>2 DEF Doubles
<1>4. IsText(text) /\ IsText(new) BY <1>2 DEF IsText
<1>5. TypeOK BY <1>1, <1>3, <1>4, NoOpType, AnacronAssumption DEF Init, TypeOK
<1>6. Pending BY DEF Init, Pending
<1> QED BY <1>2, <1>5, <1>6, NoDoublesInNothing DEF IInv, Unique

(* The jobs named by a text are names, or no name.                         *)
LEMMA JobsType ==
  ASSUME NEW f, f = Gone \/ IsText(f)
  PROVE  Jobs(f) \subseteq Names \cup {NoJob}
<1>1. IsText(Body(f)) BY BodyType
<1>2. \A i \in DOMAIN Body(f) : Body(f)[i] \in Lines BY <1>1 DEF IsText
<1>3. \A l \in Lines : l.job \in Names \cup {NoJob} BY DEF Lines
<1> QED BY <1>2, <1>3 DEF Jobs

LEMMA StaleType ==
  ASSUME NEW o \in Ops
  PROVE  Stale(o) \in Names \cup {NoJob}
BY DEF Stale, Ops

(* A step that starts nothing new: the plan is kept, or is done with.      *)
LEMMA DoneType ==
  ASSUME Done
  PROVE  /\ pc' = "idle" /\ op' \in Ops /\ IsText(text') /\ IsText(new')
         /\ Doubles(text') = {} /\ Doubles(new') = {}
BY NoOpType, NoDoublesInNothing DEF Done, IsText

LEMMA NextIInv == IInv /\ [Next]_vars => IInv'
<1> SUFFICES ASSUME IInv, [Next]_vars PROVE IInv' OBVIOUS
<1> USE DEF IInv, Unique, Pending
<1>1. CASE Plan
  <2>1. /\ IsText(file) /\ text' = file /\ pc' = "planned" /\ op' \in Ops
        /\ IsText(new') /\ Doubles(new') \subseteq Doubles(file)
    BY <1>1, PlanFacts
  <2>2. UNCHANGED <<file, spool, edits, theirs, left>> BY <1>1 DEF Plan, History
  <2>3. TypeOK' BY <2>1, <2>2 DEF TypeOK
  <2>4. Body(file) = file BY <2>1, TextIsNotGone
  <2> QED BY <2>1, <2>2, <2>3, <2>4 DEF Body
<1>2. CASE Refused \/ UNCHANGED vars
  <2>1. UNCHANGED vars BY <1>2 DEF Refused
  <2> QED BY <2>1 DEF vars, TypeOK, Body, IsText
<1>3. CASE Nothing
  <2>1. Done /\ UNCHANGED <<file, spool, edits, theirs, left>> BY <1>3 DEF Nothing, History
  <2> QED BY <2>1, DoneType DEF TypeOK, Body
<1>4. CASE Write
  <2>1. file' = new /\ UNCHANGED <<spool, edits, theirs>> /\ Overwrites(new, Jobs(text))
    BY <1>4 DEF Write
  <2>2. left' \subseteq Names BY <2>1, JobsType DEF Overwrites, TypeOK
  <2>3. Done \/ (Stale(op) # NoJob /\ pc' = "wrote" /\ UNCHANGED <<op, text, new>>)
    BY <1>4 DEF Write
  <2>4. TypeOK' BY <2>1, <2>2, <2>3, DoneType DEF TypeOK, IsText
  <2>5. Body(file') = new BY <2>1, TextIsNotGone DEF TypeOK
  <2>6. Doubles(text') \subseteq theirs' /\ Doubles(new') \subseteq theirs'
    BY <2>1, <2>3, DoneType
  <2>7. Pending' BY <2>3, DoneType DEF Stale
  <2> QED BY <2>1, <2>4, <2>5, <2>6, <2>7 DEF Body
<1>5. CASE WriteFails
  <2>1. /\ UNCHANGED file \/ file' = new
        /\ UNCHANGED left \/ Overwrites(new, {})
        /\ Done /\ UNCHANGED <<spool, edits, theirs>>
    BY <1>5 DEF WriteFails
  <2>2. left' \subseteq Names BY <2>1, JobsType DEF Overwrites, TypeOK
  <2>3. TypeOK' BY <2>1, <2>2, DoneType DEF TypeOK, IsText
  <2>4. Body(new) = new BY TextIsNotGone DEF TypeOK
  <2> QED BY <2>1, <2>3, <2>4, DoneType DEF Body
<1>6. CASE Drop
  <2>1. Done /\ UNCHANGED <<file, edits, theirs, left>> /\ spool' \subseteq spool
    BY <1>6 DEF Drop, History
  <2> QED BY <2>1, DoneType DEF TypeOK, Body
<1>7. CASE DropFails
  <2>1. /\ pc = "wrote" /\ pc' = "undo" /\ UNCHANGED <<file, op, text, new, edits, theirs, left>>
        /\ spool' \subseteq spool
    BY <1>7 DEF DropFails, History
  <2>2. TypeOK' BY <2>1 DEF TypeOK, IsText
  <2> QED BY <2>1, <2>2 DEF Body, Stale
<1>8. CASE Undo
  <2>1. /\ \/ file' = text /\ Overwrites(text, {})
           \/ UNCHANGED file /\ left' = left \cup {Stale(op)}
        /\ Done /\ UNCHANGED <<spool, edits, theirs>>
    BY <1>8 DEF Undo
  <2>2. Stale(op) \in Names
    BY <1>8, StaleType DEF TypeOK, Undo
  <2>3. left' \subseteq Names BY <2>1, <2>2, JobsType DEF Overwrites, TypeOK
  <2>4. TypeOK' BY <2>1, <2>3, DoneType DEF TypeOK, IsText
  <2>5. Body(text) = text BY TextIsNotGone DEF TypeOK
  <2> QED BY <2>1, <2>4, <2>5, DoneType DEF Body
<1>9. CASE Kill
  <2>1. /\ Done /\ UNCHANGED <<file, spool, edits, theirs>>
        /\ pc # "idle"
        /\ left' = IF pc = "planned" THEN left ELSE left \cup {Stale(op)}
    BY <1>9 DEF Kill
  <2>2. left' \subseteq Names BY <2>1, StaleType DEF TypeOK
  <2> QED BY <2>1, <2>2, DoneType DEF TypeOK, Body
<1>10. CASE OtherHand
  <2>1. /\ edits < MaxEdits /\ edits' = edits + 1
        /\ theirs' = theirs \cup Doubles(Body(file'))
        /\ left' = left \cup ((Jobs(file) \ Jobs(file')) \ {NoJob})
        /\ UNCHANGED <<spool, pc, op, text, new>>
    BY <1>10 DEF OtherHand
  <2>2. \/ file' = Gone
        \/ \E n \in DOMAIN Body(file) : file' = WithoutLine(Body(file), n)
        \/ \E l \in OthersLines : file' = Append(Body(file), l)
    <3>1. CASE file = Gone
      <4>1. DOMAIN Body(file) = {} BY <3>1 DEF Body
      <4> QED BY <1>10, <4>1 DEF OtherHand
    <3>2. CASE file # Gone
      <4>1. Body(file) = file BY <3>2 DEF Body
      <4> QED BY <1>10, <4>1 DEF OtherHand
    <3> QED BY <3>1, <3>2
  <2>3. IsText(Body(file)) BY BodyType DEF TypeOK
  <2>4. file' = Gone \/ IsText(file')
    <3>1. \A l \in OthersLines : IsText(Append(Body(file), l))
      BY <2>3, AnacronAssumption DEF IsText
    <3> QED BY <2>2, <2>3, <3>1, WithoutLineType
  <2>5. left' \subseteq Names BY <2>1, JobsType DEF TypeOK
  <2>6. edits' \in 0 .. MaxEdits BY <2>1, AnacronAssumption DEF TypeOK
  <2>7. theirs' \subseteq Names BY <2>1 DEF TypeOK, Doubles
  <2>8. TypeOK' BY <2>1, <2>4, <2>5, <2>6, <2>7 DEF TypeOK, IsText
  <2> QED BY <2>1, <2>8 DEF Body, Stale
<1>11. CASE Stamp
  <2>1. /\ UNCHANGED <<file, pc, op, text, new, edits, theirs, left>>
        /\ \E i \in DOMAIN Body(file) :
             file[i].job # NoJob /\ spool' = spool \cup {file[i].job}
    BY <1>11 DEF Stamp, History
  <2>2. IsText(Body(file)) BY BodyType DEF TypeOK
  <2>3. \A i \in DOMAIN Body(file) : Body(file)[i] \in Lines BY <2>2 DEF IsText
  <2>4. \A i \in DOMAIN Body(file) : Body(file)[i] = file[i] BY DEF Body
  <2>5. \A l \in Lines : l.job # NoJob => l.job \in Names BY DEF Lines
  <2>6. spool' \subseteq Names BY <2>1, <2>3, <2>4, <2>5 DEF TypeOK
  <2>7. TypeOK' BY <2>1, <2>6 DEF TypeOK, IsText
  <2> QED BY <2>1, <2>7 DEF Body, Stale
<1> QED BY <1>1, <1>2, <1>3, <1>4, <1>5, <1>6, <1>7, <1>8, <1>9, <1>10, <1>11 DEF Next

THEOREM InductiveInvariant == Spec => []IInv
BY InitIInv, NextIInv, PTL DEF Spec

(* Every variable has its type: what the writer plans, writes and puts     *)
(* back is a file that it can parse again.                                 *)
THEOREM AnacronTypeCorrect == Spec => []TypeOK
BY InductiveInvariant, PTL DEF IInv

(* require_unused and locate together: whatever fails, is undone or is     *)
(* overwritten, a name stands on several lines of anacrontab only if the   *)
(* operator has put it there.                                              *)
THEOREM AnacronNamesStayUnique == Spec => []NamesStayUnique
<1>1. IInv => NamesStayUnique BY DEF IInv, Unique, NamesStayUnique
<1> QED BY <1>1, InductiveInvariant, PTL
-----------------------------------------------------------------------------
(* The time stamps                                                         *)

(* The stamp that a mutation still owes: its line is gone, or about to be  *)
(* put back.                                                               *)
Due == IF pc \in {"wrote", "undo"} THEN {Stale(op)} ELSE {}

(* Also in the middle of a mutation every stamp has an owner; a plan takes *)
(* no job out of the text but the one whose stamp it drops; and that one   *)
(* is in the text that a rollback puts back.                               *)
Owned ==
  /\ spool \subseteq Jobs(file) \cup left \cup Due
  /\ pc = "planned" => Jobs(text) \subseteq Jobs(new) \cup {Stale(op), NoJob}
  /\ pc # "idle" => Stale(op) \in Jobs(text) \cup {NoJob}

LEMMA JobsOfText ==
  ASSUME NEW t, IsText(t)
  PROVE  Jobs(t) = {t[i].job : i \in DOMAIN t}
BY TextIsNotGone DEF Jobs

LEMMA JobsOfAppend ==
  ASSUME NEW t, IsText(t), NEW line \in Lines
  PROVE  Jobs(t) \subseteq Jobs(Append(t, line))
<1> DEFINE u == Append(t, line)
<1>1. /\ IsText(u) /\ Len(t) \in Nat /\ DOMAIN t = 1 .. Len(t)
      /\ DOMAIN u = 1 .. Len(t) + 1
      /\ \A i \in 1 .. Len(t) : u[i] = t[i]
  BY AppendProperties DEF IsText
<1>2. \A i \in DOMAIN t : i \in DOMAIN u /\ u[i] = t[i] BY <1>1
<1> HIDE DEF u
<1>3. Jobs(t) \subseteq Jobs(u) BY <1>1, <1>2, JobsOfText
<1> QED BY <1>3 DEF u

LEMMA JobsOfReplaced ==
  ASSUME NEW t, IsText(t), NEW n \in DOMAIN t, NEW line \in Lines
  PROVE  Jobs(t) \subseteq Jobs([t EXCEPT ![n] = line]) \cup {t[n].job}
<1> DEFINE u == [t EXCEPT ![n] = line]
<1>1. IsText(u) /\ DOMAIN u = DOMAIN t BY ExceptSeq DEF IsText
<1>2. \A i \in DOMAIN t : i # n => u[i] = t[i] OBVIOUS
<1>5. u[n] = line OBVIOUS
<1> HIDE DEF u
<1>3. Jobs(t) \subseteq Jobs(u) \cup {t[n].job} BY <1>1, <1>2, JobsOfText
<1> QED BY <1>3 DEF u

LEMMA JobsOfWithout ==
  ASSUME NEW t, IsText(t), NEW n \in DOMAIN t
  PROVE  Jobs(t) \subseteq Jobs(WithoutLine(t, n)) \cup {t[n].job}
<1> DEFINE u == WithoutLine(t, n)
           New(i) == IF i < n THEN i ELSE i - 1
<1>1. Len(t) \in Nat /\ DOMAIN t = 1 .. Len(t) /\ n \in 1 .. Len(t) BY DEF IsText
<1>2. IsText(u) /\ DOMAIN u = 1 .. Len(t) - 1 BY WithoutLineType
<1>3. \A i \in DOMAIN t : i # n => New(i) \in DOMAIN u /\ u[New(i)] = t[i]
  BY <1>1, <1>2 DEF WithoutLine
<1> HIDE DEF u, New
<1>4. Jobs(t) \subseteq Jobs(u) \cup {t[n].job} BY <1>2, <1>3, JobsOfText
<1> QED BY <1>4 DEF u

(* locate and Stale: a plan takes no job out of the file but the one whose *)
(* stamp it will drop, which the file has.                                 *)
LEMMA PlanOwned ==
  ASSUME TypeOK, Plan
  PROVE  /\ Jobs(file) \subseteq Jobs(new') \cup {Stale(op'), NoJob}
         /\ Stale(op') \in Jobs(file) \cup {NoJob}
<1>1. IsText(file) /\ \A i \in DOMAIN file : file[i] \in Lines BY DEF TypeOK, Plan, IsText
<1>2. PICK o \in Ops : Create(o) \/ Update(o) \/ Delete(o) \/ Switch(o) BY DEF Plan
<1>3. o.kind # "update" => o.name = o.job BY DEF Ops
<1>4. ASSUME Located(file, o.job)
      PROVE  /\ Locate(file, o.job) \in DOMAIN file
             /\ file[Locate(file, o.job)].job = o.job
             /\ o.job \in Jobs(file)
  <2>1. Locate(file, o.job) \in DOMAIN file /\ file[Locate(file, o.job)].job = o.job
    BY <1>4, LocateEntry
  <2> QED BY <1>1, <2>1, JobsOfText
<1>5. CASE Create(o)
  <2> DEFINE line == RenderLine(o, IF o.delay = Keep THEN DefaultDelay ELSE o.delay)
  <2>1. o.kind = "create" /\ Expressible(o.schedule) /\ new' = Append(file, line) /\ op' = o
    BY <1>5 DEF Create, Propose
  <2>2. (IF o.delay = Keep THEN DefaultDelay ELSE o.delay) \in Delays \cup {Wide}
    BY AnacronAssumption DEF Ops
  <2>3. line \in Lines BY <2>1, <2>2, RenderLineType
  <2> HIDE DEF line
  <2>4. Jobs(file) \subseteq Jobs(new') BY <1>1, <2>1, <2>3, JobsOfAppend
  <2>5. Stale(op') = NoJob BY <1>3, <2>1 DEF Stale
  <2> QED BY <2>4, <2>5
<1>6. CASE Update(o)
  <2> DEFINE n == Locate(file, o.job)
             line == RenderLine(o, Delay(o, file[n]))
  <2>1. /\ o.kind = "update" /\ Located(file, o.job) /\ Expressible(o.schedule)
        /\ op' = o /\ new' = [file EXCEPT ![n] = line]
    BY <1>6 DEF Update, Propose
  <2>2. n \in DOMAIN file /\ file[n].job = o.job /\ o.job \in Jobs(file) BY <1>4, <2>1
  <2>3. Delay(o, file[n]) \in Delays \cup {Wide} BY <1>1, <2>2 DEF Delay, Ops, Lines
  <2>4. line \in Lines /\ line.job = o.name BY <2>1, <2>3, RenderLineType
  <2> HIDE DEF n, line
  <2>5. Jobs(file) \subseteq Jobs(new') \cup {o.job}
    BY <1>1, <2>1, <2>2, <2>4, JobsOfReplaced
  <2>6. o.name \in Jobs(new')
    <3>1. IsText(new') /\ n \in DOMAIN new' /\ new'[n] = line
      BY <1>1, <2>1, <2>2, <2>4, ExceptSeq DEF IsText
    <3> QED BY <2>4, <3>1, JobsOfText
  <2>7. Stale(op') = IF o.name # o.job THEN o.job ELSE NoJob BY <2>1 DEF Stale
  <2> QED BY <2>2, <2>5, <2>6, <2>7
<1>7. CASE Delete(o)
  <2> DEFINE n == Locate(file, o.job)
  <2>1. /\ o.kind = "delete" /\ Located(file, o.job) /\ op' = o
        /\ new' = WithoutLine(file, n)
    BY <1>7 DEF Delete, Propose
  <2>2. n \in DOMAIN file /\ file[n].job = o.job /\ o.job \in Jobs(file) BY <1>4, <2>1
  <2> HIDE DEF n
  <2>3. Jobs(file) \subseteq Jobs(new') \cup {o.job} BY <1>1, <2>1, <2>2, JobsOfWithout
  <2>4. Stale(op') = o.job BY <2>1 DEF Stale
  <2> QED BY <2>2, <2>3, <2>4
<1>8. CASE Switch(o)
  <2> DEFINE n == Locate(file, o.job)
             line == Switched(file[n], o.on)
  <2>1. /\ o.kind = "switch" /\ Located(file, o.job) /\ op' = o
        /\ new' = file \/ new' = [file EXCEPT ![n] = line]
    BY <1>8 DEF Switch, Propose
  <2>2. n \in DOMAIN file /\ file[n].job = o.job BY <1>4, <2>1
  <2>3. line \in Lines /\ line.job = o.job
    <3>1. o.on \in BOOLEAN BY DEF Ops
    <3> QED BY <1>1, <2>2, <3>1, SwitchedType
  <2> HIDE DEF n, line
  <2>4. Jobs(file) \subseteq Jobs(new')
    <3>1. CASE new' = file BY <3>1
    <3>2. CASE new' = [file EXCEPT ![n] = line]
      <4>1. Jobs(file) \subseteq Jobs(new') \cup {o.job}
        BY <1>1, <2>2, <2>3, <3>2, JobsOfReplaced
      <4>2. IsText(new') /\ n \in DOMAIN new' /\ new'[n] = line
        BY <1>1, <2>2, <2>3, <3>2, ExceptSeq DEF IsText
      <4>3. o.job \in Jobs(new') BY <2>3, <4>2, JobsOfText
      <4> QED BY <4>1, <4>3
    <3> QED BY <2>1, <3>1, <3>2
  <2>5. Stale(op') = NoJob BY <1>3, <2>1 DEF Stale
  <2> QED BY <2>4, <2>5
<1> QED BY <1>2, <1>5, <1>6, <1>7, <1>8

LEMMA OwnedStep == IInv /\ Owned /\ [Next]_vars => Owned'
<1> SUFFICES ASSUME IInv, Owned, [Next]_vars PROVE Owned' OBVIOUS
<1>a. TypeOK /\ Pending /\ spool \subseteq Names /\ NoJob \notin spool
  BY AnacronAssumption DEF IInv, TypeOK
<1>b. Done => pc' = "idle" BY DEF Done
<1>1. CASE Plan
  <2>1. UNCHANGED <<file, spool, left>> /\ pc = "idle" BY <1>1 DEF Plan, History
  <2>2. text' = file /\ pc' = "planned" BY <1>1, <1>a, PlanFacts
  <2>3. /\ Jobs(file) \subseteq Jobs(new') \cup {Stale(op'), NoJob}
        /\ Stale(op') \in Jobs(file) \cup {NoJob}
    BY <1>1, <1>a, PlanOwned
  <2> QED BY <2>1, <2>2, <2>3 DEF Owned, Due, Stale
<1>2. CASE Refused \/ UNCHANGED vars
  BY <1>2 DEF Refused, vars, Owned, Due, Stale, Jobs, Body
<1>3. CASE Nothing
  BY <1>3, <1>b DEF Nothing, History, Owned, Due
<1>4. CASE Write
  <2>1. /\ pc = "planned" /\ file' = new /\ spool' = spool
        /\ left' = left \cup ((Jobs(file) \ Jobs(new)) \ (Jobs(text) \cup {NoJob}))
    BY <1>4 DEF Write, Writes, Overwrites
  <2>2. \/ Stale(op) = NoJob /\ pc' = "idle"
        \/ pc' = "wrote" /\ UNCHANGED <<op, text, new>>
    BY <1>4, <1>b DEF Write
  <2>3. spool \subseteq Jobs(new) \cup left' \cup ({Stale(op)} \ {NoJob})
    BY <1>a, <2>1 DEF Owned, Due
  <2> QED BY <2>1, <2>2, <2>3 DEF Owned, Due, Stale
<1>5. CASE WriteFails
  <2>1. /\ pc = "planned" /\ pc' = "idle" /\ spool' = spool
        /\ \/ UNCHANGED <<file, left>>
           \/ file' = new /\ left' = left \cup ((Jobs(file) \ Jobs(new)) \ {NoJob})
    BY <1>5, <1>b DEF WriteFails, Writes, Overwrites
  <2> QED BY <1>a, <2>1 DEF Owned, Due
<1>6. CASE Drop
  BY <1>6, <1>b DEF Drop, History, Owned, Due
<1>7. CASE DropFails
  BY <1>7 DEF DropFails, History, Owned, Due, Stale
<1>8. CASE Undo
  <2>1. /\ pc = "undo" /\ pc' = "idle" /\ spool' = spool
        /\ \/ file' = text /\ left' = left \cup ((Jobs(file) \ Jobs(text)) \ {NoJob})
           \/ UNCHANGED file /\ left' = left \cup {Stale(op)}
    BY <1>8, <1>b DEF Undo, Overwrites
  <2> QED BY <1>a, <2>1 DEF Owned, Due
<1>9. CASE Kill
  BY <1>9, <1>a, <1>b DEF Kill, Owned, Due, TypeOK
<1>10. CASE OtherHand
  <2>1. /\ UNCHANGED <<spool, pc, op, text, new>>
        /\ left' = left \cup ((Jobs(file) \ Jobs(file')) \ {NoJob})
    BY <1>10 DEF OtherHand
  <2> QED BY <1>a, <2>1 DEF Owned, Due, Stale
<1>11. CASE Stamp
  <2>1. UNCHANGED <<file, pc, op, text, new, left>> BY <1>11 DEF Stamp, History
  <2>2. PICK i \in DOMAIN Body(file) : spool' = spool \cup {file[i].job} BY <1>11 DEF Stamp
  <2>3. file[i] = Body(file)[i] BY <2>2 DEF Body
  <2>4. file[i].job \in Jobs(file) BY <2>3 DEF Jobs
  <2> QED BY <2>1, <2>2, <2>4 DEF Owned, Due, Stale
<1> QED BY <1>1, <1>2, <1>3, <1>4, <1>5, <1>6, <1>7, <1>8, <1>9, <1>10, <1>11 DEF Next

(* Stale and the SpoolDrop step: between mutations a time stamp belongs to *)
(* a line of anacrontab, unless the operator took the line or a mutation   *)
(* failed or was killed midway.                                            *)
THEOREM AnacronStampsHaveJobs == Spec => []StampsHaveJobs
<1>1. Init => Owned BY DEF Init, Owned, Due
<1>2. Owned => StampsHaveJobs BY DEF Owned, Due, StampsHaveJobs
<1> QED BY <1>1, <1>2, OwnedStep, InductiveInvariant, PTL DEF Spec
-----------------------------------------------------------------------------
(* What a plan writes                                                      *)

(* render_period, then Period::parse.                                      *)
LEMMA PeriodsReadBack ==
  ASSUME NEW schedule \in Schedules, Expressible(schedule)
  PROVE  /\ Schedule(RenderPeriod(schedule)) # "none"
         /\ Schedule(RenderPeriod(schedule)) = Means(schedule)
<1>1. schedule \in {"1d", "@daily", "@annually"} BY AnacronAssumption DEF Expressible
<1> QED BY <1>1 DEF RenderPeriod, Schedule, Means

(* The reader shows a rendered line as the job that was asked for.         *)
LEMMA RenderedIsShown ==
  ASSUME NEW o \in Ops, o.kind \in {"create", "update"}, Expressible(o.schedule), NEW d
  PROVE  /\ IsShown(RenderLine(o, d))
         /\ Shown(RenderLine(o, d)) = [job |-> o.name, schedule |-> Means(o.schedule), on |-> o.on]
         /\ RenderLine(o, d).delay = d
<1>1. /\ o.name # NoJob /\ o.schedule \in Schedules /\ o.on \in BOOLEAN
  BY AnacronAssumption DEF Ops
<1> DEFINE line == RenderLine(o, d)
<1>2. /\ line.job = o.name /\ line.period = RenderPeriod(o.schedule) /\ line.delay = d
      /\ line.mark = IF o.on THEN "none" ELSE "ours"
  BY DEF RenderLine
<1> HIDE DEF line
<1>3. Schedule(line.period) # "none" /\ Schedule(line.period) = Means(o.schedule)
  BY <1>1, <1>2, PeriodsReadBack
<1>4. IsShown(line) BY <1>1, <1>2, <1>3 DEF IsShown
<1>5. (line.mark = "none") = o.on BY <1>1, <1>2
<1>6. Shown(line) = [job |-> o.name, schedule |-> Means(o.schedule), on |-> o.on]
  BY <1>2, <1>3, <1>5 DEF Shown
<1> QED BY <1>2, <1>4, <1>6 DEF line

(* A line less, said with subsequences.                                    *)
LEMMA WithoutIsConcat ==
  ASSUME NEW t, IsText(t), NEW n \in DOMAIN t
  PROVE  WithoutLine(t, n) = SubSeq(t, 1, n - 1) \o SubSeq(t, n + 1, Len(t))
<1> DEFINE a == SubSeq(t, 1, n - 1)
           b == SubSeq(t, n + 1, Len(t))
           u == WithoutLine(t, n)
<1>1. /\ t \in Seq(Lines) /\ Len(t) \in Nat /\ n \in 1 .. Len(t)
      /\ \A i \in 1 .. Len(t) : t[i] \in Lines
  BY DEF IsText
<1>2. /\ a \in Seq(Lines) /\ Len(a) = n - 1
      /\ \A i \in 1 .. n - 1 : a[i] = t[i]
  <2>1. 1 \in Int /\ n - 1 \in Int /\ \A i \in 1 .. n - 1 : t[i] \in Lines BY <1>1
  <2>2. /\ a \in Seq(Lines) /\ Len(a) = IF 1 <= n - 1 THEN n - 1 - 1 + 1 ELSE 0
        /\ \A i \in 1 .. n - 1 - 1 + 1 : a[i] = t[1 + i - 1]
    BY <2>1, SubSeqProperties
  <2> HIDE DEF a
  <2> QED BY <1>1, <2>2
<1>3. /\ b \in Seq(Lines) /\ Len(b) = Len(t) - n
      /\ \A i \in 1 .. Len(t) - n : b[i] = t[n + i]
  <2>1. n + 1 \in Int /\ Len(t) \in Int /\ \A i \in n + 1 .. Len(t) : t[i] \in Lines BY <1>1
  <2>2. /\ b \in Seq(Lines) /\ Len(b) = IF n + 1 <= Len(t) THEN Len(t) - (n + 1) + 1 ELSE 0
        /\ \A i \in 1 .. Len(t) - (n + 1) + 1 : b[i] = t[n + 1 + i - 1]
    BY <2>1, SubSeqProperties
  <2> HIDE DEF b
  <2> QED BY <1>1, <2>2
<1>4. /\ u \in Seq(Lines) /\ DOMAIN u = 1 .. Len(t) - 1 /\ Len(u) = Len(t) - 1
      /\ \A i \in 1 .. Len(t) - 1 : u[i] = IF i < n THEN t[i] ELSE t[i + 1]
  <2>1. u \in Seq(Lines) /\ DOMAIN u = 1 .. Len(t) - 1 BY WithoutLineType DEF IsText
  <2>2. Len(u) = Len(t) - 1 BY <1>1, <2>1, LenProperties
  <2> QED BY <2>1, <2>2 DEF WithoutLine
<1> HIDE DEF a, b, u
<1>5. /\ a \o b \in Seq(Lines) /\ Len(a \o b) = Len(t) - 1
      /\ \A i \in 1 .. Len(t) - 1 : (a \o b)[i] = IF i <= n - 1 THEN a[i] ELSE b[i - (n - 1)]
  <2>1. /\ a \o b \in Seq(Lines) /\ Len(a \o b) = Len(a) + Len(b)
        /\ \A i \in 1 .. Len(a) + Len(b) :
             (a \o b)[i] = IF i <= Len(a) THEN a[i] ELSE b[i - Len(a)]
    BY <1>2, <1>3, ConcatProperties
  <2>2. Len(a) + Len(b) = Len(t) - 1 BY <1>1, <1>2, <1>3
  <2> QED BY <1>2, <2>1, <2>2
<1>6. ASSUME NEW i \in 1 .. Len(t) - 1 PROVE u[i] = (a \o b)[i]
  <2>1. CASE i < n
    <3>1. i \in 1 .. n - 1 /\ i <= n - 1 BY <1>1, <2>1
    <3> QED BY <1>2, <1>4, <1>5, <2>1, <3>1
  <2>2. CASE ~(i < n)
    <3>1. i - (n - 1) \in 1 .. Len(t) - n /\ ~(i <= n - 1) /\ n + (i - (n - 1)) = i + 1
      BY <1>1, <2>2
    <3> QED BY <1>3, <1>4, <1>5, <2>2, <3>1
  <2> QED BY <2>1, <2>2
<1>7. u = a \o b BY <1>4, <1>5, <1>6, SeqEqual
<1> QED BY <1>7 DEF a, b, u

(* The four operations plan what was asked of them.                        *)
LEMMA PlanReadsBack ==
  ASSUME TypeOK, Plan
  PROVE  ReadsBackAsAsked'
<1>1. IsText(file) /\ \A i \in DOMAIN file : file[i] \in Lines BY DEF TypeOK, Plan, IsText
<1>2. PICK o \in Ops : Create(o) \/ Update(o) \/ Delete(o) \/ Switch(o) BY DEF Plan
<1>3. CASE Create(o)
  <2> DEFINE d == IF o.delay = Keep THEN DefaultDelay ELSE o.delay
             line == RenderLine(o, d)
  <2>1. /\ o.kind = "create" /\ Expressible(o.schedule)
        /\ op' = o /\ text' = file /\ new' = Append(file, line)
    BY <1>3 DEF Create, Propose
  <2>2. d \in Delays \cup {Wide} BY AnacronAssumption DEF Ops
  <2>3. line \in Lines BY <2>1, <2>2, RenderLineType
  <2>4. IsShown(line) /\ Shown(line) = [job |-> o.name, schedule |-> Means(o.schedule), on |-> o.on]
    BY <2>1, RenderedIsShown
  <2> HIDE DEF d, line
  <2>5. new'[Len(new')] = line BY <1>1, <2>1, <2>3, AppendProperties DEF IsText
  <2>6. new' = Append(text', new'[Len(new')]) /\ AsAsked(new[Len(new)])'
    BY <2>1, <2>4, <2>5 DEF AsAsked
  <2> QED BY <2>1, <2>6 DEF ReadsBackAsAsked
<1>4. CASE Update(o)
  <2> PICK n : n = Locate(file, o.job) OBVIOUS
  <2> DEFINE d == Delay(o, file[n])
             line == RenderLine(o, d)
  <2>1. /\ o.kind = "update" /\ Located(file, o.job) /\ Expressible(o.schedule)
        /\ op' = o /\ text' = file /\ new' = [file EXCEPT ![n] = line]
    BY <1>4 DEF Update, Propose
  <2>2. n \in DOMAIN file /\ file[n].job = o.job BY <2>1, LocateEntry
  <2>3. /\ IsShown(line) /\ line.delay = d
        /\ Shown(line) = [job |-> o.name, schedule |-> Means(o.schedule), on |-> o.on]
    BY <2>1, RenderedIsShown
  <2>4. d = IF o.delay = Keep THEN file[n].delay ELSE o.delay BY DEF Delay
  <2> HIDE DEF d, line
  <2>5. DOMAIN new' = DOMAIN file /\ new'[n] = line /\ \A i \in DOMAIN file : i # n => new'[i] = file[i]
    BY <2>1, <2>2
  <2>6. n \in DOMAIN text' /\ text'[n].job = op'.job /\ OnlyAt(n)' /\ AsAsked(new[n])'
        /\ new'[n].delay = IF op'.delay = Keep THEN text'[n].delay ELSE op'.delay
    BY <2>1, <2>2, <2>3, <2>4, <2>5 DEF OnlyAt, AsAsked
  <2> QED BY <2>1, <2>6 DEF ReadsBackAsAsked
<1>5. CASE Delete(o)
  <2> DEFINE n == Locate(file, o.job)
  <2>1. /\ o.kind = "delete" /\ Located(file, o.job)
        /\ op' = o /\ text' = file /\ new' = WithoutLine(file, n)
    BY <1>5 DEF Delete, Propose
  <2>2. n \in DOMAIN file /\ file[n].job = o.job BY <2>1, LocateEntry
  <2> HIDE DEF n
  <2>3. new' = SubSeq(text', 1, n - 1) \o SubSeq(text', n + 1, Len(text'))
    BY <1>1, <2>1, <2>2, WithoutIsConcat
  <2> QED BY <2>1, <2>2, <2>3 DEF ReadsBackAsAsked
<1>6. CASE Switch(o)
  <2> PICK n : n = Locate(file, o.job) OBVIOUS
  <2> DEFINE line == Switched(file[n], o.on)
  <2>1. /\ o.kind = "switch" /\ Located(file, o.job) /\ op' = o /\ text' = file
        /\ IF o.on # IsDisabled(file[n]) THEN new' = file
           ELSE (o.on => file[n].mark # "tight") /\ new' = [file EXCEPT ![n] = line]
    BY <1>6 DEF Switch, Propose
  <2>2. n \in DOMAIN file /\ file[n].job = o.job BY <2>1, LocateEntry
  <2>3. file[n] \in Lines /\ file[n].mark \in Marks /\ o.on \in BOOLEAN
    BY <1>1, <2>2 DEF Lines, Ops
  <2>4. ASSUME IsShown(file[n]), file[n].mark # "indented"
        PROVE  IsShown(new'[n]) /\ Shown(new'[n]) = [Shown(file[n]) EXCEPT !.on = o.on]
    <3>1. file[n].mark \in {"none", "ours", "tight"} BY <2>3, <2>4 DEF Marks, IsShown
    <3>2. IsDisabled(file[n]) = (file[n].mark # "none") BY <3>1 DEF IsDisabled
    <3>3. CASE new' = file /\ o.on # IsDisabled(file[n])
      <4>1. o.on = (file[n].mark = "none") BY <2>3, <3>2, <3>3
      <4> QED BY <2>4, <3>3, <4>1 DEF Shown
    <3>4. CASE /\ o.on = IsDisabled(file[n]) /\ new' = [file EXCEPT ![n] = line]
               /\ o.on => file[n].mark # "tight"
      <4>1. new'[n] = line BY <2>2, <3>4
      <4>2. /\ line.job = file[n].job /\ line.period = file[n].period
            /\ line.mark = IF o.on THEN "none" ELSE "ours"
        BY <2>3, <3>2, <3>4 DEF Switched, Lines
      <4>3. (line.mark = "none") = o.on BY <2>3, <4>2
      <4>4. IsShown(line) BY <2>4, <4>2 DEF IsShown
      <4> QED BY <4>1, <4>2, <4>3, <4>4 DEF Shown
    <3> QED BY <2>1, <3>3, <3>4
  <2> HIDE DEF line
  <2>5. OnlyAt(n)' BY <2>1, <2>2 DEF OnlyAt
  <2> QED BY <2>1, <2>2, <2>4, <2>5 DEF ReadsBackAsAsked
<1> QED BY <1>2, <1>3, <1>4, <1>5, <1>6

(* What a plan writes reads back as what was asked for, and every other    *)
(* line is as it was, for files of any length: nothing touches a plan that *)
(* has been made until it is carried out or dropped.                       *)
THEOREM AnacronReadsBack == Spec => []ReadsBackAsAsked
<1>1. Init => ReadsBackAsAsked BY DEF Init, ReadsBackAsAsked
<1>2. IInv /\ ReadsBackAsAsked /\ [Next]_vars => ReadsBackAsAsked'
  <2> SUFFICES ASSUME IInv, ReadsBackAsAsked, [Next]_vars, pc' = "planned"
               PROVE  ReadsBackAsAsked'
    BY DEF ReadsBackAsAsked
  <2>1. CASE Plan BY <2>1, PlanReadsBack DEF IInv
  <2>2. CASE ~Plan
    <3>1. Done => pc' = "idle" BY DEF Done
    <3>2. UNCHANGED <<pc, op, text, new>>
      BY <2>2, <3>1 DEF Next, Refused, vars, Nothing, Write, WriteFails, Drop, DropFails, Undo,
                        Kill, OtherHand, Stamp
    <3> QED BY <3>2 DEF ReadsBackAsAsked, OnlyAt, AsAsked
  <2> QED BY <2>1, <2>2
<1> QED BY <1>1, <1>2, InductiveInvariant, PTL DEF Spec
=============================================================================
