--------------------------- MODULE CronWriter_proofs ---------------------------
(***************************************************************************)
(* What the cron writer promises of a crontab, in any scope, with lines of *)
(* any number and content, any run of mutations and failures, and any      *)
(* number of edits of other programs: that one line is written, that the   *)
(* id reported names the job, and that a switch switches.                  *)
(***************************************************************************)
EXTENDS CronWriter, SequenceTheorems, FiniteSetTheorems, TLAPS

(* A text with k lines of banner, all of them on top.                      *)
Topped(t, k) ==
  /\ t \in Seq(Lines) /\ k \in 0 .. 3 /\ k <= Len(t)
  /\ \A i \in 1 .. Len(t) : IsBanner(t[i]) <=> i <= k

(* A crontab as it can be found: a per-user one has its banner, once and   *)
(* on top, unless there is none; a script is one line.                     *)
Top(t) == IF scope = "user" /\ t # <<>> THEN BannerLen ELSE 0
Proper(t) ==
  /\ Topped(t, Top(t))
  /\ scope = "script" => t = <<>> \/ t \in Scripts

(* What is known of the mutation that is under way.                        *)
AskedFor ==
  pc # "idle" =>
    /\ op.kind # "create" => op.line # 0 /\ (scope = "script" => op.line = 1)
    /\ op.job = NoJob <=> op.kind \in {"delete", "switch"}
    /\ told.result = "none"

(* A plan that was not refused has the line it is about in the text it was *)
(* made from; a script needs none.                                         *)
Planned ==
  /\ pc = "planned" =>
       /\ IF text = Gone THEN scope = "system" /\ op.kind = "create" ELSE Proper(text)
       /\ scope = "script" => op.kind \in {"delete", "switch"}
       /\ scope # "script" /\ op.kind # "create" => JobAt(text, op.line)
  /\ pc = "settle" => scope = "user" /\ op.kind \in {"create", "update"}

IInv ==
  /\ scope \in Scopes /\ op \in Ops
  /\ pc \in {"idle", "asked", "planned", "settle"}
  /\ file = Gone \/ file \in Seq(Lines)
  /\ scope = "script" /\ file # Gone => file \in Scripts
  /\ Proper(Text(file)) /\ Proper(seen)
  /\ AskedFor /\ Planned

-----------------------------------------------------------------------------
(* Lines                                                                   *)

LEMMA LineFacts ==
  /\ JobLines \subseteq Lines
  /\ \A l \in Lines : l \in JobLines <=> IsJob(l)
  /\ \A l \in JobLines : IsJob(l) /\ ~IsBanner(l) /\ l.job \in Jobs
                         /\ l.mark \in Marks \cup {"ours", "none"}
  /\ Plain("banner") \in Lines /\ IsBanner(Plain("banner"))
  /\ Plain("managed") \in Lines /\ ~IsBanner(Plain("managed")) /\ ~IsJob(Plain("managed"))
  /\ OthersLines \subseteq Lines /\ \A l \in OthersLines : ~IsBanner(l)
<1>1. JobLines \subseteq Lines BY DEF Lines, OthersLines
<1>2. \A l \in JobLines : /\ l.kind = "job" /\ l.job \in Jobs
                          /\ l.mark \in Marks \cup {"ours", "none"}
  BY DEF JobLines, JobLine
<1>3. \A k : Plain(k).kind = k BY DEF Plain
<1>4. \A l \in Lines : l \in JobLines \/ \E k \in Kinds \cup {"managed", "banner"} : l = Plain(k)
  BY DEF Lines, OthersLines
<1>5. \A l \in OthersLines : l \in JobLines \/ \E k \in Kinds : l = Plain(k)
  BY DEF OthersLines
<1>6. Plain("banner") \in Lines /\ Plain("managed") \in Lines /\ OthersLines \subseteq Lines
  BY DEF Lines
<1>7. "job" \notin Kinds /\ "banner" \notin Kinds BY CronAssumption
<1> QED BY <1>1, <1>2, <1>3, <1>4, <1>5, <1>6, <1>7 DEF IsJob, IsBanner

LEMMA BannerLine ==
  ASSUME NEW l \in Lines, IsBanner(l)
  PROVE  l = Plain("banner")
<1>1. l \in JobLines \/ \E k \in Kinds \cup {"managed", "banner"} : l = Plain(k)
  BY DEF Lines, OthersLines
<1>2. \A k : Plain(k).kind = k BY DEF Plain
<1> QED BY <1>1, <1>2, LineFacts DEF IsBanner

LEMMA Decorated ==
  ASSUME NEW job \in Jobs, NEW on \in BOOLEAN
  PROVE  /\ Decorate(job, on) \in JobLines /\ Decorate(job, on).job = job
         /\ Decorate(job, on).mark = "none" <=> on
         /\ <<Decorate(job, on)>> \in Scripts
<1>1. PICK m \in {"none", "ours"} : Decorate(job, on) = JobLine(job, m) /\ (m = "none" <=> on)
  BY DEF Decorate
<1>2. JobLine(job, m).job = job /\ JobLine(job, m).mark = m BY DEF JobLine
<1>3. JobLine(job, m) \in JobLines /\ <<JobLine(job, m)>> \in Scripts BY DEF JobLines, Scripts
<1> QED BY <1>1, <1>2, <1>3

-----------------------------------------------------------------------------
(* Edits of a text                                                         *)

LEMMA TextFacts ==
  ASSUME NEW t \in Seq(Lines)
  PROVE  /\ Len(t) \in Nat /\ DOMAIN t = 1 .. Len(t)
         /\ \A i \in 1 .. Len(t) : t[i] \in Lines
BY LenProperties, ElementOfSeq

LEMMA Replaced ==
  ASSUME NEW t \in Seq(Lines), NEW n \in 1 .. Len(t), NEW l \in Lines
  PROVE  /\ ReplaceAt(t, n, l) \in Seq(Lines) /\ Len(ReplaceAt(t, n, l)) = Len(t)
         /\ \A i \in 1 .. Len(t) : ReplaceAt(t, n, l)[i] = IF i = n THEN l ELSE t[i]
BY ExceptSeq DEF ReplaceAt

LEMMA Part ==
  ASSUME NEW t \in Seq(Lines), NEW m \in 1 .. Len(t) + 1, NEW n \in 0 .. Len(t)
  PROVE  /\ SubSeq(t, m, n) \in Seq(Lines)
         /\ Len(SubSeq(t, m, n)) = IF m <= n THEN n - m + 1 ELSE 0
         /\ \A i \in 1 .. n - m + 1 : SubSeq(t, m, n)[i] = t[m + i - 1]
<1>1. m \in Int /\ n \in Int /\ Len(t) \in Nat BY TextFacts
<1>2. \A i \in m .. n : t[i] \in Lines BY <1>1, TextFacts
<1> QED BY <1>1, <1>2, SubSeqProperties

LEMMA Removed ==
  ASSUME NEW t \in Seq(Lines), NEW n \in 1 .. Len(t)
  PROVE  /\ RemoveAt(t, n) \in Seq(Lines) /\ Len(RemoveAt(t, n)) = Len(t) - 1
         /\ \A i \in 1 .. Len(t) - 1 : RemoveAt(t, n)[i] = IF i < n THEN t[i] ELSE t[i + 1]
<1> DEFINE a == SubSeq(t, 1, n - 1)
           b == SubSeq(t, n + 1, Len(t))
<1>0. Len(t) \in Nat /\ n \in Nat BY TextFacts
<1>1. /\ a \in Seq(Lines) /\ Len(a) = n - 1
      /\ \A i \in 1 .. n - 1 : a[i] = t[i]
  <2>1. 1 \in 1 .. Len(t) + 1 /\ n - 1 \in 0 .. Len(t) BY <1>0
  <2> QED BY <1>0, <2>1, Part
<1>2. /\ b \in Seq(Lines) /\ Len(b) = Len(t) - n
      /\ \A i \in 1 .. Len(t) - n : b[i] = t[n + i]
  <2>1. n + 1 \in 1 .. Len(t) + 1 /\ Len(t) \in 0 .. Len(t) BY <1>0
  <2>2. \A i \in 1 .. Len(t) - n : (n + 1) + i - 1 = n + i BY <1>0
  <2> QED BY <1>0, <2>1, <2>2, Part
<1>3. RemoveAt(t, n) = a \o b BY DEF RemoveAt
<1> HIDE DEF a, b
<1>4. /\ a \o b \in Seq(Lines) /\ Len(a \o b) = Len(a) + Len(b)
      /\ \A i \in 1 .. Len(a) + Len(b) : (a \o b)[i] = IF i <= Len(a) THEN a[i] ELSE b[i - Len(a)]
  BY <1>1, <1>2, ConcatProperties
<1>5. Len(a) + Len(b) = Len(t) - 1 BY <1>0, <1>1, <1>2
<1>6. ASSUME NEW i \in 1 .. Len(t) - 1
      PROVE  (a \o b)[i] = IF i < n THEN t[i] ELSE t[i + 1]
  <2>1. CASE i < n BY <1>0, <1>1, <1>4, <1>5, <2>1
  <2>2. CASE ~(i < n)
    <3>1. i - Len(a) \in 1 .. Len(t) - n /\ n + (i - Len(a)) = i + 1 BY <1>0, <1>1, <2>2
    <3>2. b[i - Len(a)] = t[i + 1] BY <1>2, <3>1
    <3>3. (a \o b)[i] = b[i - Len(a)]
      <4>1. ~(i <= Len(a)) BY <1>0, <1>1, <2>2
      <4> QED BY <1>4, <1>5, <4>1
    <3> QED BY <2>2, <3>2, <3>3
  <2> QED BY <2>1, <2>2
<1> QED BY <1>3, <1>4, <1>5, <1>6

LEMMA Inserted ==
  ASSUME NEW t \in Seq(Lines), NEW n \in 1 .. Len(t) + 1, NEW l \in Lines
  PROVE  /\ InsertAt(t, n, l) \in Seq(Lines) /\ Len(InsertAt(t, n, l)) = Len(t) + 1
         /\ \A i \in 1 .. Len(t) + 1 :
              InsertAt(t, n, l)[i] = IF i < n THEN t[i] ELSE IF i = n THEN l ELSE t[i - 1]
<1> DEFINE a == SubSeq(t, 1, n - 1)
           b == SubSeq(t, n, Len(t))
<1>0. Len(t) \in Nat /\ n \in Nat BY TextFacts
<1>1. /\ a \in Seq(Lines) /\ Len(a) = n - 1
      /\ \A i \in 1 .. n - 1 : a[i] = t[i]
  <2>1. 1 \in 1 .. Len(t) + 1 /\ n - 1 \in 0 .. Len(t) BY <1>0
  <2> QED BY <1>0, <2>1, Part
<1>2. /\ b \in Seq(Lines) /\ Len(b) = Len(t) - n + 1
      /\ \A i \in 1 .. Len(t) - n + 1 : b[i] = t[n + i - 1]
  <2>1. n \in 1 .. Len(t) + 1 /\ Len(t) \in 0 .. Len(t) BY <1>0
  <2> QED BY <1>0, <2>1, Part
<1>3. <<l>> \in Seq(Lines) /\ Len(<<l>>) = 1 /\ <<l>>[1] = l OBVIOUS
<1>4. InsertAt(t, n, l) = (a \o <<l>>) \o b BY DEF InsertAt
<1> HIDE DEF a, b
<1>5. /\ a \o <<l>> \in Seq(Lines) /\ Len(a \o <<l>>) = n
      /\ \A i \in 1 .. n : (a \o <<l>>)[i] = IF i < n THEN t[i] ELSE l
  <2>1. /\ a \o <<l>> \in Seq(Lines) /\ Len(a \o <<l>>) = Len(a) + 1
        /\ \A i \in 1 .. Len(a) + 1 :
             (a \o <<l>>)[i] = IF i <= Len(a) THEN a[i] ELSE <<l>>[i - Len(a)]
    BY <1>1, <1>3, ConcatProperties
  <2> QED BY <1>0, <1>1, <1>3, <2>1
<1>6. /\ (a \o <<l>>) \o b \in Seq(Lines) /\ Len((a \o <<l>>) \o b) = n + Len(b)
      /\ \A i \in 1 .. n + Len(b) :
           ((a \o <<l>>) \o b)[i] = IF i <= n THEN (a \o <<l>>)[i] ELSE b[i - n]
  <2> DEFINE c == a \o <<l>>
  <2>1. c \in Seq(Lines) /\ Len(c) = n BY <1>5
  <2> HIDE DEF c
  <2>2. /\ c \o b \in Seq(Lines) /\ Len(c \o b) = n + Len(b)
        /\ \A i \in 1 .. n + Len(b) : (c \o b)[i] = IF i <= n THEN c[i] ELSE b[i - n]
    BY <1>2, <2>1, ConcatProperties
  <2> QED BY <2>2 DEF c
<1>7. n + Len(b) = Len(t) + 1 BY <1>0, <1>2
<1>8. ASSUME NEW i \in 1 .. Len(t) + 1
      PROVE  ((a \o <<l>>) \o b)[i] = IF i < n THEN t[i] ELSE IF i = n THEN l ELSE t[i - 1]
  <2>1. CASE i <= n BY <1>0, <1>5, <1>6, <1>7, <2>1
  <2>2. CASE ~(i <= n)
    <3>1. /\ i - n \in 1 .. Len(t) - n + 1 /\ n + (i - n) - 1 = i - 1
          /\ ~(i < n) /\ i # n
      BY <1>0, <2>2
    <3>2. b[i - n] = t[i - 1] BY <1>2, <3>1
    <3>3. ((a \o <<l>>) \o b)[i] = b[i - n] BY <1>6, <1>7, <2>2
    <3> QED BY <3>1, <3>2, <3>3
  <2> QED BY <2>1, <2>2
<1> QED BY <1>4, <1>6, <1>7, <1>8

(* To replace a line is to take it out and to put another in its place.    *)
LEMMA ReplaceIsInsert ==
  ASSUME NEW t \in Seq(Lines), NEW n \in 1 .. Len(t), NEW l \in Lines
  PROVE  ReplaceAt(t, n, l) = InsertAt(RemoveAt(t, n), n, l)
<1> DEFINE r == RemoveAt(t, n)
           u == ReplaceAt(t, n, l)
           v == InsertAt(r, n, l)
<1>0. Len(t) \in Nat /\ n \in Nat BY TextFacts
<1>1. /\ r \in Seq(Lines) /\ Len(r) = Len(t) - 1
      /\ \A i \in 1 .. Len(t) - 1 : r[i] = IF i < n THEN t[i] ELSE t[i + 1]
  BY Removed
<1>2. n \in 1 .. Len(r) + 1 BY <1>0, <1>1
<1> HIDE DEF r
<1>3. /\ v \in Seq(Lines) /\ Len(v) = Len(t)
      /\ \A i \in 1 .. Len(t) : v[i] = IF i < n THEN r[i] ELSE IF i = n THEN l ELSE r[i - 1]
  <2>1. Len(r) + 1 = Len(t) BY <1>0, <1>1
  <2> QED BY <1>1, <1>2, <2>1, Inserted
<1>4. /\ u \in Seq(Lines) /\ Len(u) = Len(t)
      /\ \A i \in 1 .. Len(t) : u[i] = IF i = n THEN l ELSE t[i]
  BY Replaced
<1>5. \A i \in 1 .. Len(u) : u[i] = v[i]
  <2> SUFFICES ASSUME NEW i \in 1 .. Len(t) PROVE u[i] = v[i] BY <1>4
  <2>1. CASE i < n
    <3>1. i \in 1 .. Len(t) - 1 /\ i # n BY <1>0, <2>1
    <3>2. r[i] = t[i] BY <1>1, <2>1, <3>1
    <3> QED BY <1>3, <1>4, <2>1, <3>1, <3>2
  <2>2. CASE i = n BY <1>3, <1>4, <2>2
  <2>3. CASE i > n
    <3>1. i - 1 \in 1 .. Len(t) - 1 /\ ~(i - 1 < n) /\ (i - 1) + 1 = i BY <1>0, <2>3
    <3>2. r[i - 1] = t[i] BY <1>1, <3>1
    <3> QED BY <1>0, <1>3, <1>4, <2>3, <3>2
  <2> QED BY <1>0, <2>1, <2>2, <2>3
<1> HIDE DEF u, v
<1>6. u = v BY <1>3, <1>4, <1>5, SeqEqual
<1> QED BY <1>6 DEF u, v, r

LEMMA AppendIsInsert ==
  ASSUME NEW t \in Seq(Lines), NEW l \in Lines
  PROVE  Append(t, l) = InsertAt(t, Len(t) + 1, l)
<1> DEFINE u == Append(t, l)
           v == InsertAt(t, Len(t) + 1, l)
<1>0. Len(t) \in Nat BY TextFacts
<1>1. /\ u \in Seq(Lines) /\ Len(u) = Len(t) + 1
      /\ \A i \in 1 .. Len(t) : u[i] = t[i]
      /\ u[Len(t) + 1] = l
  BY <1>0, AppendProperties
<1>2. /\ v \in Seq(Lines) /\ Len(v) = Len(t) + 1
      /\ \A i \in 1 .. Len(t) + 1 :
           v[i] = IF i < Len(t) + 1 THEN t[i] ELSE IF i = Len(t) + 1 THEN l ELSE t[i - 1]
  <2>1. Len(t) + 1 \in 1 .. Len(t) + 1 BY <1>0
  <2> QED BY <2>1, Inserted, SMTT(30)
<1> HIDE DEF u, v
<1>3. \A i \in 1 .. Len(u) : u[i] = v[i] BY <1>0, <1>1, <1>2
<1>4. u = v BY <1>1, <1>2, <1>3, SeqEqual
<1> QED BY <1>4 DEF u, v

-----------------------------------------------------------------------------
(* The banner                                                              *)

LEMMA HeaderOf ==
  ASSUME NEW t, NEW k, Topped(t, k)
  PROVE  Header(t) = k
<1> DEFINE P(n) == /\ n <= Len(t) /\ \A i \in 1 .. n : IsBanner(t[i])
                   /\ n < 3 /\ n < Len(t) => ~IsBanner(t[n + 1])
<1>0. Len(t) \in Nat /\ k \in 0 .. 3 /\ k <= Len(t)
      /\ \A i \in 1 .. Len(t) : IsBanner(t[i]) <=> i <= k
  BY TextFacts DEF Topped
<1>1. P(k)
  <2>1. \A i \in 1 .. k : IsBanner(t[i]) BY <1>0
  <2>2. k < Len(t) => ~IsBanner(t[k + 1]) BY <1>0
  <2> QED BY <1>0, <2>1, <2>2
<1>2. ASSUME NEW n \in 0 .. 3, P(n) PROVE n = k
  <2>1. CASE n < k
    <3>1. n < 3 /\ n < Len(t) /\ n + 1 \in 1 .. Len(t) /\ n + 1 <= k BY <1>0, <2>1
    <3> QED BY <1>0, <1>2, <3>1
  <2>2. CASE n > k
    <3>1. k + 1 \in 1 .. n /\ k + 1 \in 1 .. Len(t) /\ ~(k + 1 <= k) BY <1>0, <1>2, <2>2
    <3> QED BY <1>0, <1>2, <3>1
  <2> QED BY <1>0, <2>1, <2>2
<1>3. Header(t) = CHOOSE n \in 0 .. 3 : P(n) BY DEF Header
<1> HIDE DEF P
<1> QED BY <1>0, <1>1, <1>2, <1>3

LEMMA BodyOf ==
  ASSUME NEW t, NEW k, Topped(t, k)
  PROVE  /\ Topped(Body(t), 0) /\ Len(Body(t)) = Len(t) - k
         /\ \A i \in 1 .. Len(t) - k : Body(t)[i] = t[k + i]
<1>0. t \in Seq(Lines) /\ Len(t) \in Nat /\ k \in 0 .. 3 /\ k <= Len(t)
      /\ \A i \in 1 .. Len(t) : IsBanner(t[i]) <=> i <= k
  BY TextFacts DEF Topped
<1>1. Body(t) = SubSeq(t, k + 1, Len(t)) BY HeaderOf DEF Body
<1>2. k + 1 \in 1 .. Len(t) + 1 /\ Len(t) \in 0 .. Len(t) BY <1>0
<1>3. /\ Body(t) \in Seq(Lines)
      /\ Len(Body(t)) = IF k + 1 <= Len(t) THEN Len(t) - (k + 1) + 1 ELSE 0
      /\ \A i \in 1 .. Len(t) - (k + 1) + 1 : Body(t)[i] = t[(k + 1) + i - 1]
  BY <1>0, <1>1, <1>2, Part
<1>4. Len(Body(t)) = Len(t) - k BY <1>0, <1>3
<1>5. \A i \in 1 .. Len(t) - k : Body(t)[i] = t[k + i]
  <2> SUFFICES ASSUME NEW i \in 1 .. Len(t) - k PROVE Body(t)[i] = t[k + i] OBVIOUS
  <2>1. i \in 1 .. Len(t) - (k + 1) + 1 /\ (k + 1) + i - 1 = k + i BY <1>0
  <2> QED BY <1>3, <2>1
<1>6. \A i \in 1 .. Len(t) - k : ~IsBanner(Body(t)[i])
  <2> SUFFICES ASSUME NEW i \in 1 .. Len(t) - k PROVE ~IsBanner(t[k + i]) BY <1>5
  <2>1. k + i \in 1 .. Len(t) /\ ~(k + i <= k) BY <1>0
  <2> QED BY <1>0, <2>1
<1>7. 0 <= Len(Body(t)) /\ \A i \in 1 .. Len(Body(t)) : ~(i <= 0) BY <1>0, <1>4
<1> QED BY <1>3, <1>4, <1>5, <1>6, <1>7 DEF Topped

(* A line below the banner can be replaced, dropped or added, above or     *)
(* below taking the banner off: it comes to the same.                      *)
LEMMA ReplacedBelow ==
  ASSUME NEW t, NEW k, Topped(t, k), NEW n \in k + 1 .. Len(t), NEW l \in Lines, ~IsBanner(l)
  PROVE  /\ n - k \in 1 .. Len(Body(t))
         /\ Topped(ReplaceAt(t, n, l), k)
         /\ Body(ReplaceAt(t, n, l)) = ReplaceAt(Body(t), n - k, l)
<1> DEFINE u == ReplaceAt(t, n, l)
           b == Body(t)
           v == ReplaceAt(b, n - k, l)
<1>0. t \in Seq(Lines) /\ Len(t) \in Nat /\ k \in 0 .. 3 /\ k <= Len(t) /\ n \in 1 .. Len(t)
      /\ \A i \in 1 .. Len(t) : IsBanner(t[i]) <=> i <= k
  BY TextFacts DEF Topped
<1>1. /\ u \in Seq(Lines) /\ Len(u) = Len(t)
      /\ \A i \in 1 .. Len(t) : u[i] = IF i = n THEN l ELSE t[i]
  BY <1>0, Replaced
<1>2. /\ b \in Seq(Lines) /\ Len(b) = Len(t) - k
      /\ \A i \in 1 .. Len(t) - k : b[i] = t[k + i]
  BY BodyOf DEF Topped
<1>3. n - k \in 1 .. Len(b) BY <1>0, <1>2
<1> HIDE DEF b, u
<1>4. /\ v \in Seq(Lines) /\ Len(v) = Len(t) - k
      /\ \A i \in 1 .. Len(t) - k : v[i] = IF i = n - k THEN l ELSE b[i]
  <2> DEFINE m == n - k
  <2>1. b \in Seq(Lines) /\ m \in 1 .. Len(b) BY <1>2, <1>3
  <2> HIDE DEF m
  <2>2. /\ ReplaceAt(b, m, l) \in Seq(Lines) /\ Len(ReplaceAt(b, m, l)) = Len(b)
        /\ \A i \in 1 .. Len(b) : ReplaceAt(b, m, l)[i] = IF i = m THEN l ELSE b[i]
    BY <2>1, Replaced, ZenonT(60)
  <2>3. v = ReplaceAt(b, m, l) BY DEF m
  <2> HIDE DEF v
  <2> QED BY <1>2, <2>2, <2>3 DEF m
<1>5. Topped(u, k)
  <2>1. \A i \in 1 .. Len(u) : IsBanner(u[i]) <=> i <= k
    <3> SUFFICES ASSUME NEW i \in 1 .. Len(t) PROVE IsBanner(u[i]) <=> i <= k BY <1>1
    <3>1. CASE i = n BY <1>0, <1>1, <3>1
    <3>2. CASE i # n BY <1>0, <1>1, <3>2
    <3> QED BY <3>1, <3>2
  <2> QED BY <1>0, <1>1, <2>1 DEF Topped
<1>6. /\ Body(u) \in Seq(Lines) /\ Len(Body(u)) = Len(t) - k
      /\ \A i \in 1 .. Len(t) - k : Body(u)[i] = u[k + i]
  BY <1>1, <1>5, BodyOf, ZenonT(60) DEF Topped
<1> HIDE DEF v
<1>7. \A i \in 1 .. Len(Body(u)) : Body(u)[i] = v[i]
  <2> SUFFICES ASSUME NEW i \in 1 .. Len(t) - k PROVE Body(u)[i] = v[i] BY <1>6
  <2>1. k + i \in 1 .. Len(t) /\ (k + i = n <=> i = n - k) BY <1>0
  <2> QED BY <1>1, <1>2, <1>4, <1>6, <2>1
<1>8. Body(u) = v BY <1>4, <1>6, <1>7, SeqEqual
<1> QED BY <1>3, <1>5, <1>8 DEF u, v, b

LEMMA RemovedBelow ==
  ASSUME NEW t, NEW k, Topped(t, k), NEW n \in k + 1 .. Len(t)
  PROVE  /\ n - k \in 1 .. Len(Body(t))
         /\ Topped(RemoveAt(t, n), k)
         /\ Body(RemoveAt(t, n)) = RemoveAt(Body(t), n - k)
<1> DEFINE u == RemoveAt(t, n)
           b == Body(t)
           v == RemoveAt(b, n - k)
<1>0. t \in Seq(Lines) /\ Len(t) \in Nat /\ k \in 0 .. 3 /\ k <= Len(t) /\ n \in 1 .. Len(t)
      /\ \A i \in 1 .. Len(t) : IsBanner(t[i]) <=> i <= k
  BY TextFacts DEF Topped
<1>1. /\ u \in Seq(Lines) /\ Len(u) = Len(t) - 1
      /\ \A i \in 1 .. Len(t) - 1 : u[i] = IF i < n THEN t[i] ELSE t[i + 1]
  BY <1>0, Removed
<1>2. /\ b \in Seq(Lines) /\ Len(b) = Len(t) - k
      /\ \A i \in 1 .. Len(t) - k : b[i] = t[k + i]
  BY BodyOf DEF Topped
<1>3. n - k \in 1 .. Len(b) BY <1>0, <1>2
<1> HIDE DEF b, u
<1>4. /\ v \in Seq(Lines) /\ Len(v) = Len(t) - k - 1
      /\ \A i \in 1 .. Len(t) - k - 1 : v[i] = IF i < n - k THEN b[i] ELSE b[i + 1]
  BY <1>2, <1>3, Removed
<1>5. Topped(u, k)
  <2>1. \A i \in 1 .. Len(u) : IsBanner(u[i]) <=> i <= k
    <3> SUFFICES ASSUME NEW i \in 1 .. Len(t) - 1 PROVE IsBanner(u[i]) <=> i <= k BY <1>1
    <3>1. CASE i < n
      <4>1. i \in 1 .. Len(t) /\ u[i] = t[i] BY <1>0, <1>1, <3>1
      <4> QED BY <1>0, <4>1
    <3>2. CASE ~(i < n)
      <4>1. i + 1 \in 1 .. Len(t) /\ ~(i + 1 <= k) /\ ~(i <= k) /\ u[i] = t[i + 1]
        BY <1>0, <1>1, <3>2
      <4> QED BY <1>0, <4>1
    <3> QED BY <3>1, <3>2
  <2>2. k <= Len(u) BY <1>0, <1>1
  <2> QED BY <1>0, <1>1, <2>1, <2>2 DEF Topped
<1>6. /\ Body(u) \in Seq(Lines) /\ Len(Body(u)) = Len(t) - 1 - k
      /\ \A i \in 1 .. Len(t) - 1 - k : Body(u)[i] = u[k + i]
  <2>1. /\ Body(u) \in Seq(Lines) /\ Len(Body(u)) = Len(u) - k
        /\ \A i \in 1 .. Len(u) - k : Body(u)[i] = u[k + i]
    BY <1>5, BodyOf DEF Topped
  <2>2. Len(u) - k = Len(t) - 1 - k BY <1>1
  <2> HIDE DEF v
  <2> QED BY <2>1, <2>2
<1> HIDE DEF v
<1>7. Len(Body(u)) = Len(v) /\ Len(v) = Len(t) - k - 1 BY <1>0, <1>4, <1>6
<1>8. \A i \in 1 .. Len(Body(u)) : Body(u)[i] = v[i]
  <2> SUFFICES ASSUME NEW i \in 1 .. Len(t) - k - 1 PROVE Body(u)[i] = v[i] BY <1>7
  <2>1. /\ k + i \in 1 .. Len(t) - 1 /\ i \in 1 .. Len(t) - 1 - k /\ (k + i < n <=> i < n - k)
        /\ i \in 1 .. Len(t) - k /\ i + 1 \in 1 .. Len(t) - k /\ k + (i + 1) = (k + i) + 1
    BY <1>0
  <2>2. Body(u)[i] = IF k + i < n THEN t[k + i] ELSE t[(k + i) + 1] BY <1>1, <1>6, <2>1
  <2>3. v[i] = IF i < n - k THEN t[k + i] ELSE t[(k + i) + 1] BY <1>2, <1>4, <2>1
  <2> QED BY <2>1, <2>2, <2>3
<1>9. Body(u) = v BY <1>4, <1>6, <1>7, <1>8, SeqEqual
<1> QED BY <1>3, <1>5, <1>9 DEF u, v, b

LEMMA AppendedBelow ==
  ASSUME NEW t, NEW k, Topped(t, k), NEW l \in Lines, ~IsBanner(l)
  PROVE  /\ Topped(Append(t, l), k)
         /\ Body(Append(t, l)) = Append(Body(t), l)
<1> DEFINE u == Append(t, l)
           b == Body(t)
           v == Append(b, l)
<1>0. t \in Seq(Lines) /\ Len(t) \in Nat /\ k \in 0 .. 3 /\ k <= Len(t)
      /\ \A i \in 1 .. Len(t) : IsBanner(t[i]) <=> i <= k
  BY TextFacts DEF Topped
<1>1. /\ u \in Seq(Lines) /\ Len(u) = Len(t) + 1
      /\ \A i \in 1 .. Len(t) : u[i] = t[i]
      /\ u[Len(t) + 1] = l
  BY <1>0, AppendProperties
<1>2. /\ b \in Seq(Lines) /\ Len(b) = Len(t) - k
      /\ \A i \in 1 .. Len(t) - k : b[i] = t[k + i]
  BY BodyOf DEF Topped
<1> HIDE DEF b, u
<1>4. /\ v \in Seq(Lines) /\ Len(v) = Len(t) - k + 1
      /\ \A i \in 1 .. Len(t) - k : v[i] = b[i]
      /\ v[Len(t) - k + 1] = l
  BY <1>0, <1>2, AppendProperties
<1>5. Topped(u, k)
  <2>1. \A i \in 1 .. Len(u) : IsBanner(u[i]) <=> i <= k
    <3> SUFFICES ASSUME NEW i \in 1 .. Len(t) + 1 PROVE IsBanner(u[i]) <=> i <= k BY <1>1
    <3>1. CASE i <= Len(t)
      <4>1. i \in 1 .. Len(t) BY <1>0, <3>1
      <4> QED BY <1>0, <1>1, <4>1
    <3>2. CASE ~(i <= Len(t))
      <4>1. i = Len(t) + 1 /\ ~(i <= k) BY <1>0, <3>2
      <4> QED BY <1>1, <4>1
    <3> QED BY <3>1, <3>2
  <2>2. k <= Len(u) BY <1>0, <1>1
  <2> QED BY <1>0, <1>1, <2>1, <2>2 DEF Topped
<1>6. /\ Body(u) \in Seq(Lines) /\ Len(Body(u)) = Len(t) + 1 - k
      /\ \A i \in 1 .. Len(t) + 1 - k : Body(u)[i] = u[k + i]
  <2>1. /\ Body(u) \in Seq(Lines) /\ Len(Body(u)) = Len(u) - k
        /\ \A i \in 1 .. Len(u) - k : Body(u)[i] = u[k + i]
    BY <1>5, BodyOf DEF Topped
  <2>2. Len(u) - k = Len(t) + 1 - k BY <1>0, <1>1
  <2> HIDE DEF v
  <2> QED BY <2>1, <2>2
<1> HIDE DEF v
<1>7. Len(Body(u)) = Len(v) /\ Len(v) = Len(t) - k + 1 BY <1>0, <1>4, <1>6
<1>8. \A i \in 1 .. Len(Body(u)) : Body(u)[i] = v[i]
  <2> SUFFICES ASSUME NEW i \in 1 .. Len(t) - k + 1 PROVE Body(u)[i] = v[i] BY <1>7
  <2>0. i \in 1 .. Len(t) + 1 - k BY <1>0
  <2>1. CASE i <= Len(t) - k
    <3>1. i \in 1 .. Len(t) - k /\ k + i \in 1 .. Len(t) BY <1>0, <2>1
    <3> QED BY <1>1, <1>2, <1>4, <1>6, <2>0, <3>1
  <2>2. CASE ~(i <= Len(t) - k)
    <3>1. i = Len(t) - k + 1 /\ k + i = Len(t) + 1 BY <1>0, <2>2
    <3> QED BY <1>1, <1>4, <1>6, <2>0, <3>1
  <2> QED BY <2>1, <2>2
<1>9. Body(u) = v BY <1>4, <1>6, <1>7, <1>8, SeqEqual
<1> QED BY <1>5, <1>9 DEF u, v, b

(* What `crontab -` makes of a text without a banner.                      *)
LEMMA Installing ==
  ASSUME NEW b, Topped(b, 0)
  PROVE  /\ Topped(WithBanner(b), Top(WithBanner(b)))
         /\ Body(WithBanner(b)) = b
         /\ scope # "user" => WithBanner(b) = b
<1> DEFINE k == IF scope = "user" THEN BannerLen ELSE 0
           h == [i \in 1 .. BannerLen |-> Plain("banner")]
           u == WithBanner(b)
<1>0. b \in Seq(Lines) /\ Len(b) \in Nat /\ k \in 0 .. 3 /\ BannerLen \in 0 .. 3
      /\ \A i \in 1 .. Len(b) : ~IsBanner(b[i])
  BY TextFacts, CronAssumption DEF Topped
<1>1. /\ h \in Seq(Lines) /\ Len(h) = BannerLen
      /\ \A i \in 1 .. BannerLen : h[i] = Plain("banner")
  <2>1. BannerLen \in Nat BY <1>0
  <2>2. h \in [1 .. BannerLen -> Lines] BY LineFacts
  <2>3. h \in Seq(Lines) BY <2>1, LineFacts, IsASeq
  <2>4. DOMAIN h = 1 .. BannerLen BY <2>2
  <2>5. Len(h) \in Nat /\ DOMAIN h = 1 .. Len(h) BY <2>3, TextFacts
  <2>6. Len(h) = BannerLen BY <2>1, <2>3, <2>4, <2>5
  <2> QED BY <2>2, <2>3, <2>6
<1> HIDE DEF h
<1>2. /\ u \in Seq(Lines) /\ Len(u) = k + Len(b)
      /\ \A i \in 1 .. k + Len(b) : u[i] = IF i <= k THEN Plain("banner") ELSE b[i - k]
  <2>1. CASE scope = "user"
    <3>1. u = h \o b BY <2>1 DEF WithBanner, h
    <3>2. /\ h \o b \in Seq(Lines) /\ Len(h \o b) = BannerLen + Len(b)
          /\ \A i \in 1 .. BannerLen + Len(b) :
               (h \o b)[i] = IF i <= BannerLen THEN h[i] ELSE b[i - BannerLen]
      BY <1>0, <1>1, ConcatProperties
    <3> QED BY <1>0, <1>1, <2>1, <3>1, <3>2
  <2>2. CASE scope # "user"
    <3>1. u = b /\ k = 0 BY <2>2 DEF WithBanner
    <3> QED BY <1>0, <3>1
  <2> QED BY <2>1, <2>2
<1> HIDE DEF u
<1>3. Topped(u, k)
  <2>1. \A i \in 1 .. Len(u) : IsBanner(u[i]) <=> i <= k
    <3> SUFFICES ASSUME NEW i \in 1 .. k + Len(b) PROVE IsBanner(u[i]) <=> i <= k BY <1>2
    <3>1. CASE i <= k BY <1>2, <3>1, LineFacts
    <3>2. CASE ~(i <= k)
      <4>1. i - k \in 1 .. Len(b) /\ u[i] = b[i - k] BY <1>0, <1>2, <3>2
      <4> QED BY <1>0, <3>2, <4>1
    <3> QED BY <3>1, <3>2
  <2>2. k <= Len(u) BY <1>0, <1>2
  <2> QED BY <1>0, <1>2, <2>1, <2>2 DEF Topped
<1>4. Top(u) = k
  <2>1. CASE u = <<>>
    <3>1. Len(u) = 0 BY <2>1
    <3>2. k = 0 BY <1>0, <1>2, <3>1
    <3> QED BY <2>1, <3>2 DEF Top
  <2> QED BY <2>1 DEF Top
<1>5. Body(u) = b
  <2> HIDE DEF k
  <2>1. /\ Body(u) \in Seq(Lines) /\ Len(Body(u)) = Len(u) - k
        /\ \A i \in 1 .. Len(u) - k : Body(u)[i] = u[k + i]
    BY <1>3, BodyOf DEF Topped
  <2>2. Len(u) - k = Len(b) BY <1>0, <1>2
  <2>3. \A i \in 1 .. Len(Body(u)) : Body(u)[i] = b[i]
    <3> SUFFICES ASSUME NEW i \in 1 .. Len(b) PROVE Body(u)[i] = b[i] BY <2>1, <2>2
    <3>1. k + i \in 1 .. k + Len(b) /\ ~(k + i <= k) /\ (k + i) - k = i BY <1>0
    <3> QED BY <1>2, <2>1, <2>2, <3>1
  <2> QED BY <1>0, <2>1, <2>2, <2>3, SeqEqual
<1>6. scope # "user" => u = b BY DEF WithBanner, u
<1> QED BY <1>3, <1>4, <1>5, <1>6 DEF u

(* A crontab as it is found is its body under the banner.                  *)
LEMMA BodyUnderBanner ==
  ASSUME NEW t, Topped(t, Top(t)), t # <<>> \/ scope # "user"
  PROVE  WithBanner(Body(t)) = t
<1> DEFINE b == Body(t)
           u == WithBanner(b)
           k == IF scope = "user" THEN BannerLen ELSE 0
<1>1. Topped(t, k) /\ k \in 0 .. 3 BY CronAssumption DEF Top
<1>2. Topped(b, 0) BY <1>1, BodyOf
<1>3. scope # "user" => Len(b) = Len(t) /\ \A i \in 1 .. Len(t) : b[i] = t[i]
  <2> SUFFICES ASSUME scope # "user"
               PROVE  Len(b) = Len(t) /\ \A i \in 1 .. Len(t) : b[i] = t[i]
    OBVIOUS
  <2>1. Topped(t, 0) BY <1>1
  <2>2. Len(b) = Len(t) - 0 /\ \A i \in 1 .. Len(t) - 0 : b[i] = t[0 + i] BY <2>1, BodyOf
  <2>3. Len(t) \in Nat BY <1>1, TextFacts DEF Topped
  <2>4. Len(t) - 0 = Len(t) /\ \A i \in 1 .. Len(t) : 0 + i = i BY <2>3
  <2> QED BY <2>2, <2>4
<1>4. CASE scope # "user"
  <2>1. u = b BY <1>2, <1>4, Installing
  <2>2. b \in Seq(Lines) /\ t \in Seq(Lines) BY <1>1, <1>2 DEF Topped
  <2> HIDE DEF b, u
  <2>3. b = t BY <1>3, <1>4, <2>2, SeqEqual
  <2> QED BY <2>1, <2>3 DEF b, u
<1>5. CASE scope = "user"
  <2>0. k = BannerLen /\ BannerLen \in Nat BY <1>5, CronAssumption
  <2> DEFINE h == [i \in 1 .. BannerLen |-> Plain("banner")]
  <2>1. u = h \o b BY <1>5 DEF WithBanner
  <2>2. t \in Seq(Lines) /\ Len(t) \in Nat /\ BannerLen <= Len(t)
        /\ \A i \in 1 .. Len(t) : IsBanner(t[i]) <=> i <= BannerLen
    BY <1>1, <2>0, TextFacts DEF Topped
  <2>3. b \in Seq(Lines) /\ Len(b) = Len(t) - BannerLen
        /\ \A i \in 1 .. Len(t) - BannerLen : b[i] = t[BannerLen + i]
    BY <1>1, <2>0, BodyOf DEF Topped
  <2>4. h \in Seq(Lines) /\ Len(h) = BannerLen /\ \A i \in 1 .. BannerLen : h[i] = Plain("banner")
    <3>1. h \in Seq(Lines) BY <2>0, LineFacts, IsASeq
    <3>2. DOMAIN h = 1 .. BannerLen OBVIOUS
    <3>3. Len(h) \in Nat /\ DOMAIN h = 1 .. Len(h) BY <3>1, TextFacts
    <3>4. Len(h) = BannerLen BY <2>0, <3>1, <3>2, <3>3
    <3> QED BY <3>1, <3>4
  <2> HIDE DEF h, b
  <2>5. /\ h \o b \in Seq(Lines) /\ Len(h \o b) = BannerLen + Len(b)
        /\ \A i \in 1 .. BannerLen + Len(b) :
             (h \o b)[i] = IF i <= BannerLen THEN h[i] ELSE b[i - BannerLen]
    BY <2>3, <2>4, ConcatProperties, SMTT(30)
  <2>6. BannerLen + Len(b) = Len(t) BY <2>0, <2>2, <2>3
  <2>7. \A i \in 1 .. Len(h \o b) : (h \o b)[i] = t[i]
    <3> SUFFICES ASSUME NEW i \in 1 .. Len(t) PROVE (h \o b)[i] = t[i] BY <2>5, <2>6
    <3>1. CASE i <= BannerLen
      <4>1. t[i] \in Lines /\ IsBanner(t[i]) BY <2>2, <3>1, TextFacts
      <4>2. t[i] = Plain("banner") BY <4>1, BannerLine
      <4>3. i \in 1 .. BannerLen BY <2>0, <3>1
      <4> QED BY <2>4, <2>5, <2>6, <3>1, <4>2, <4>3
    <3>2. CASE ~(i <= BannerLen)
      <4>1. i - BannerLen \in 1 .. Len(t) - BannerLen /\ BannerLen + (i - BannerLen) = i
        BY <2>0, <2>2, <3>2
      <4> QED BY <2>3, <2>5, <2>6, <3>2, <4>1
    <3> QED BY <3>1, <3>2
  <2>8. h \o b = t BY <2>2, <2>5, <2>6, <2>7, SeqEqual
  <2>9. u = t BY <2>1, <2>8 DEF b
  <2> QED BY <2>9 DEF b
<1> QED BY <1>4, <1>5

LEMMA InsertedInBody ==
  ASSUME NEW b, Topped(b, 0), NEW n \in 1 .. Len(b) + 1, NEW l \in Lines, ~IsBanner(l)
  PROVE  Topped(InsertAt(b, n, l), 0)
<1> DEFINE u == InsertAt(b, n, l)
<1>0. b \in Seq(Lines) /\ Len(b) \in Nat /\ \A i \in 1 .. Len(b) : ~IsBanner(b[i])
  BY TextFacts DEF Topped
<1>1. /\ u \in Seq(Lines) /\ Len(u) = Len(b) + 1
      /\ \A i \in 1 .. Len(b) + 1 :
           u[i] = IF i < n THEN b[i] ELSE IF i = n THEN l ELSE b[i - 1]
  BY <1>0, Inserted
<1> HIDE DEF u
<1>2. ASSUME NEW i \in 1 .. Len(b) + 1 PROVE ~IsBanner(u[i])
  <2>1. CASE i < n
    <3>1. i \in 1 .. Len(b) BY <1>0, <2>1
    <3> QED BY <1>0, <1>1, <2>1, <3>1
  <2>2. CASE i = n BY <1>1, <2>2
  <2>3. CASE ~(i < n) /\ i # n
    <3>1. i - 1 \in 1 .. Len(b) BY <1>0, <2>3
    <3> QED BY <1>0, <1>1, <2>3, <3>1
  <2> QED BY <2>1, <2>2, <2>3
<1>3. 0 <= Len(u) /\ \A i \in 1 .. Len(u) : ~(i <= 0) BY <1>0, <1>1
<1>4. \A i \in 1 .. Len(u) : ~IsBanner(u[i]) BY <1>1, <1>2
<1>5. Topped(u, 0) BY <1>1, <1>3, <1>4 DEF Topped
<1> QED BY <1>5 DEF u

-----------------------------------------------------------------------------
(* What a plan makes of a crontab                                          *)

LEMMA OpFacts ==
  ASSUME op \in Ops
  PROVE  /\ op.kind \in {"create", "update", "delete", "switch"}
         /\ op.job \in Jobs \cup {NoJob} /\ op.on \in BOOLEAN /\ op.line \in Nat
<1>1. op.line \in LineNumbers BY DEF Ops
<1>2. BannerLen + MaxLen + 2 \in Nat BY CronAssumption
<1> QED BY <1>1, <1>2 DEF Ops, LineNumbers

LEMMA NoneIsProper ==
  /\ Proper(<<>>) /\ Text(Gone) = <<>>
  /\ \A t \in Seq(Lines) : t # Gone /\ Text(t) = t
<1>1. <<>> \in Seq(Lines) /\ Len(<<>>) = 0 OBVIOUS
<1>2. Topped(<<>>, 0) /\ Top(<<>>) = 0 BY <1>1 DEF Topped, Top
<1> QED BY <1>2, GoneAssumption DEF Proper, Text

(* Of a crontab that is not a script: what is planned is the other lines,  *)
(* with one more unless it is a deletion.                                  *)
New(l) == /\ l \in JobLines /\ (op.job # NoJob => l.job = op.job)
          /\ l.mark = "none" <=> op.on

LEMMA EditFacts ==
  ASSUME IInv, pc = "planned", scope # "script"
  PROVE  /\ Others \in Seq(Lines)
         /\ \E k : Topped(After(text), k) /\ (scope # "user" => k = 0)
         /\ op.kind = "delete" => Body(After(text)) = Others
         /\ op.kind # "delete" =>
              \E i \in 1 .. Len(Others) + 1, l \in JobLines :
                New(l) /\ Body(After(text)) = InsertAt(Others, i, l)
         /\ op.kind = "create" =>
              Len(After(text)) \in DOMAIN After(text) /\ New(After(text)[Len(After(text))])
         /\ op.kind \in {"update", "switch"} =>
              /\ WithBanner(Body(After(text))) = After(text)
              /\ op.line \in DOMAIN After(text) /\ New(After(text)[op.line])
<1>0. /\ op.kind \in {"create", "update", "delete", "switch"}
      /\ op.job \in Jobs \cup {NoJob} /\ op.on \in BOOLEAN /\ op.line \in Nat
      /\ op.job = NoJob <=> op.kind \in {"delete", "switch"}
  BY OpFacts DEF IInv, AskedFor
<1>1. CASE text = Gone
  <2>1. scope = "system" /\ op.kind = "create" BY <1>1 DEF IInv, Planned
  <2> DEFINE d == Decorate(op.job, op.on)
             m == Plain("managed")
  <2>2. d \in JobLines /\ New(d)
    <3>1. op.job \in Jobs BY <1>0, <2>1
    <3> QED BY <1>0, <3>1, Decorated DEF New
  <2>3. m \in Lines /\ ~IsBanner(m) /\ d \in Lines /\ ~IsBanner(d) BY <2>2, LineFacts
  <2>4. Others = <<m>> /\ After(text) = <<m, d>> BY <1>1, <2>1 DEF Others, After
  <2> HIDE DEF d, m
  <2>5. /\ <<m>> \in Seq(Lines) /\ Len(<<m>>) = 1 /\ <<m>>[1] = m
        /\ <<m, d>> \in Seq(Lines) /\ Len(<<m, d>>) = 2 /\ <<m, d>> = Append(<<m>>, d)
        /\ <<m, d>>[1] = m /\ <<m, d>>[2] = d /\ DOMAIN <<m, d>> = 1 .. 2
    BY <2>3
  <2>6. Topped(<<m, d>>, 0) BY <2>3, <2>5 DEF Topped
  <2>7. Body(<<m, d>>) = <<m, d>>
    <3>1. Top(<<m, d>>) = 0 /\ scope # "user" BY <2>1 DEF Top
    <3>2. WithBanner(Body(<<m, d>>)) = <<m, d>> BY <2>6, <3>1, BodyUnderBanner
    <3> QED BY <3>1, <3>2 DEF WithBanner
  <2>8. <<m, d>> = InsertAt(<<m>>, 2, d)
    <3>1. Append(<<m>>, d) = InsertAt(<<m>>, Len(<<m>>) + 1, d) BY <2>3, <2>5, AppendIsInsert
    <3> QED BY <2>5, <3>1
  <2>9. 2 \in 1 .. Len(Others) + 1 BY <2>4, <2>5
  <2>10. \E i \in 1 .. Len(Others) + 1, l \in JobLines :
           New(l) /\ Body(After(text)) = InsertAt(Others, i, l)
    BY <2>2, <2>4, <2>7, <2>8, <2>9
  <2>11. Len(After(text)) \in DOMAIN After(text) /\ New(After(text)[Len(After(text))])
    BY <2>2, <2>4, <2>5
  <2> QED BY <2>1, <2>4, <2>5, <2>6, <2>10, <2>11
<1>2. CASE text # Gone
  <2> DEFINE k == Top(text)
             b == Body(text)
             n == op.line - k
  <2>1. Topped(text, k) /\ Header(text) = k BY <1>2, HeaderOf DEF IInv, Planned, Proper
  <2>2. /\ text \in Seq(Lines) /\ Len(text) \in Nat /\ DOMAIN text = 1 .. Len(text)
        /\ k \in 0 .. 3 /\ k <= Len(text)
        /\ \A i \in 1 .. Len(text) : IsBanner(text[i]) <=> i <= k
    BY <2>1, TextFacts DEF Topped
  <2>3. b \in Seq(Lines) /\ Len(b) = Len(text) - k BY <2>1, BodyOf DEF Topped
  <2>4. scope # "user" => k = 0 BY DEF Top
  <2> HIDE DEF k, b
  <2>5. CASE op.kind = "create"
    <3> DEFINE d == Decorate(op.job, op.on)
    <3>1. d \in JobLines /\ New(d) /\ d \in Lines /\ ~IsBanner(d)
      <4>1. op.job \in Jobs BY <1>0, <2>5
      <4> QED BY <1>0, <4>1, Decorated, LineFacts DEF New
    <3>2. Others = b /\ After(text) = Append(text, d)
      BY <1>2, <2>5 DEF Others, After, b
    <3> HIDE DEF d
    <3>3. Topped(Append(text, d), k) /\ Body(Append(text, d)) = Append(b, d)
      BY <2>1, <3>1, AppendedBelow DEF b
    <3>4. Append(b, d) = InsertAt(b, Len(b) + 1, d) BY <2>3, <3>1, AppendIsInsert
    <3>5. Len(b) + 1 \in 1 .. Len(b) + 1 BY <2>2, <2>3
    <3>6. /\ Len(Append(text, d)) = Len(text) + 1
          /\ Append(text, d)[Len(text) + 1] = d
          /\ DOMAIN Append(text, d) = 1 .. Len(text) + 1
      BY <2>2, <3>1, AppendProperties
    <3>7. Len(text) + 1 \in 1 .. Len(text) + 1 BY <2>2
    <3>8. \E i \in 1 .. Len(Others) + 1, l \in JobLines :
            New(l) /\ Body(After(text)) = InsertAt(Others, i, l)
      BY <3>1, <3>2, <3>3, <3>4, <3>5
    <3>9. Len(After(text)) \in DOMAIN After(text) /\ New(After(text)[Len(After(text))])
      BY <3>1, <3>2, <3>6, <3>7
    <3> QED BY <2>3, <2>4, <2>5, <3>2, <3>3, <3>8, <3>9
  <2>6. CASE op.kind # "create"
    <3>1. JobAt(text, op.line) BY <2>6 DEF IInv, Planned
    <3>2. op.line \in k + 1 .. Len(text) /\ text[op.line] \in JobLines
      <4>1. op.line \in 1 .. Len(text) /\ IsJob(text[op.line]) BY <2>2, <3>1 DEF JobAt
      <4>2. text[op.line] \in Lines BY <2>2, <4>1, TextFacts
      <4>3. text[op.line] \in JobLines /\ ~IsBanner(text[op.line]) BY <4>1, <4>2, LineFacts
      <4> QED BY <2>2, <4>1, <4>3
    <3>3. n \in 1 .. Len(b) BY <2>2, <2>3, <3>2
    <3>4. Others = RemoveAt(b, n) BY <2>1, <2>6 DEF Others, b
    <3>5. Others \in Seq(Lines) /\ Len(Others) = Len(b) - 1 BY <2>3, <3>3, <3>4, Removed
    <3>6. CASE op.kind = "delete"
      <4>1. After(text) = RemoveAt(text, op.line) BY <3>6 DEF After
      <4>2. Topped(After(text), k) /\ Body(After(text)) = Others
        BY <2>1, <3>2, <3>4, <4>1, RemovedBelow DEF b
      <4> QED BY <2>4, <3>5, <3>6, <4>2
    <3>7. CASE op.kind # "delete"
      <4>1. PICK l \in JobLines : New(l) /\ After(text) = ReplaceAt(text, op.line, l)
        <5>1. CASE op.kind = "update"
          <6>1. op.job \in Jobs BY <1>0, <5>1
          <6>2. After(text) = ReplaceAt(text, op.line, Decorate(op.job, op.on))
            BY <5>1 DEF After
          <6> QED BY <1>0, <6>1, <6>2, Decorated DEF New
        <5>2. CASE op.kind = "switch"
          <6>1. text[op.line].job \in Jobs BY <3>2, LineFacts
          <6>2. After(text) = ReplaceAt(text, op.line, Decorate(text[op.line].job, op.on))
            BY <5>2 DEF After
          <6> QED BY <1>0, <5>2, <6>1, <6>2, Decorated DEF New
        <5> QED BY <1>0, <2>6, <3>7, <5>1, <5>2
      <4>2. l \in Lines /\ ~IsBanner(l) BY LineFacts
      <4>3. Topped(After(text), k) /\ Body(After(text)) = ReplaceAt(b, n, l)
        BY <2>1, <3>2, <4>1, <4>2, ReplacedBelow DEF b
      <4>4. ReplaceAt(b, n, l) = InsertAt(Others, n, l)
        BY <2>3, <3>3, <3>4, <4>2, ReplaceIsInsert
      <4>5. n \in 1 .. Len(Others) + 1 BY <2>2, <2>3, <3>3, <3>5
      <4> HIDE DEF n
      <4>6. \E i \in 1 .. Len(Others) + 1, x \in JobLines :
              New(x) /\ Body(After(text)) = InsertAt(Others, i, x)
        BY <4>1, <4>3, <4>4, <4>5
      <4>7. /\ op.line \in 1 .. Len(text) /\ After(text) \in Seq(Lines)
            /\ Len(After(text)) = Len(text) /\ DOMAIN After(text) = 1 .. Len(text)
            /\ After(text)[op.line] = l
        <5>1. op.line \in 1 .. Len(text) BY <2>2, <3>2
        <5>2. /\ After(text) \in Seq(Lines) /\ Len(After(text)) = Len(text)
              /\ \A i \in 1 .. Len(text) : After(text)[i] = IF i = op.line THEN l ELSE text[i]
          <6> DEFINE p == op.line
          <6>1. p \in 1 .. Len(text) /\ text \in Seq(Lines) /\ l \in Lines BY <2>2, <4>2, <5>1
          <6> HIDE DEF p
          <6>2. /\ ReplaceAt(text, p, l) \in Seq(Lines) /\ Len(ReplaceAt(text, p, l)) = Len(text)
                /\ \A i \in 1 .. Len(text) :
                     ReplaceAt(text, p, l)[i] = IF i = p THEN l ELSE text[i]
            BY <6>1, Replaced, SMTT(30)
          <6> QED BY <4>1, <6>2 DEF p
        <5>3. DOMAIN After(text) = 1 .. Len(After(text)) BY <5>2, TextFacts
        <5> QED BY <5>1, <5>2, <5>3
      <4>8. WithBanner(Body(After(text))) = After(text)
        <5>1. text # <<>> /\ After(text) # <<>>
          <6>1. Len(text) # 0 /\ Len(After(text)) # 0 BY <2>2, <4>7
          <6> QED BY <6>1
        <5>2. Top(After(text)) = k BY <5>1 DEF Top, k
        <5> QED BY <4>3, <5>1, <5>2, BodyUnderBanner
      <4> QED BY <2>4, <2>6, <3>5, <3>7, <4>1, <4>3, <4>6, <4>7, <4>8
    <3> QED BY <3>6, <3>7
  <2> QED BY <2>5, <2>6
<1> QED BY <1>1, <1>2

(* What a write leaves, of a crontab that is not a script: nothing, once   *)
(* no job is left, or what was planned under one banner.                   *)
LEMMA PutFacts ==
  ASSUME IInv, pc = "planned", scope # "script", Put
  PROVE  /\ Topped(Body(After(text)), 0)
         /\ \/ /\ op.kind = "delete" /\ file' = Gone
               /\ \A i \in DOMAIN Others : ~IsJob(Others[i])
            \/ file' = WithBanner(Body(After(text)))
<1>1. PICK k : Topped(After(text), k) /\ (scope # "user" => k = 0) BY EditFacts
<1>2. Topped(Body(After(text)), 0) BY <1>1, BodyOf
<1>3. scope \in {"user", "system"} BY CronAssumption DEF IInv
<1>4. CASE Emptied
  <2>1. op.kind = "delete" /\ file' = Gone BY <1>4 DEF Emptied, Put
  <2>2. Others = Body(After(text)) BY <2>1, EditFacts
  <2>3. \A i \in DOMAIN After(text) : ~IsJob(After(text)[i])
    BY <1>3, <1>4 DEF Emptied, HasContent, HasJobLines, IsJob
  <2>4. /\ k \in 0 .. 3 /\ Len(After(text)) \in Nat /\ DOMAIN After(text) = 1 .. Len(After(text))
        /\ Len(Others) = Len(After(text)) - k /\ DOMAIN Others = 1 .. Len(Others)
        /\ \A i \in 1 .. Len(After(text)) - k : Others[i] = After(text)[k + i]
    BY <1>1, <2>2, BodyOf, TextFacts DEF Topped
  <2>5. ASSUME NEW i \in DOMAIN Others PROVE ~IsJob(Others[i])
    <3>1. i \in 1 .. Len(After(text)) - k /\ k + i \in DOMAIN After(text) BY <2>4
    <3> QED BY <2>3, <2>4, <3>1
  <2> QED BY <1>2, <2>1, <2>5
<1>5. CASE ~Emptied
  <2>1. CASE scope = "user" BY <1>2, <1>5, <2>1 DEF Put, Installed
  <2>2. CASE scope = "system"
    <3>1. Top(After(text)) = 0 BY <2>2 DEF Top
    <3>2. WithBanner(Body(After(text))) = After(text) BY <1>1, <2>2, <3>1, BodyUnderBanner
    <3>3. file' = After(text) BY <1>5, <2>2 DEF Put
    <3> QED BY <1>2, <3>2, <3>3
  <2> QED BY <1>3, <2>1, <2>2
<1> QED BY <1>4, <1>5

LEMMA ScriptFacts ==
  ASSUME NEW t \in Scripts
  PROVE  /\ t \in Seq(Lines) /\ Len(t) = 1 /\ DOMAIN t = {1} /\ t = <<t[1]>>
         /\ t[1] \in JobLines /\ Topped(t, 0) /\ t # <<>>
<1>1. PICK j \in Jobs, m \in {"none", "ours"} : t = <<JobLine(j, m)>> BY DEF Scripts
<1>2. JobLine(j, m) \in JobLines BY DEF JobLines
<1> DEFINE l == JobLine(j, m)
<1>3. l \in Lines /\ ~IsBanner(l) BY <1>2, LineFacts
<1> HIDE DEF l
<1>4. /\ <<l>> \in Seq(Lines) /\ Len(<<l>>) = 1 /\ DOMAIN <<l>> = {1} /\ <<l>>[1] = l
      /\ <<l>> # <<>>
  BY <1>3
<1>5. Topped(<<l>>, 0) BY <1>3, <1>4 DEF Topped
<1>6. t = <<l>> /\ l \in JobLines BY <1>1, <1>2 DEF l
<1> QED BY <1>4, <1>5, <1>6

(* A script is a line with no others: it is removed, or switched.          *)
LEMMA ScriptPut ==
  ASSUME IInv, pc = "planned", scope = "script", Put
  PROVE  /\ op.line = 1 /\ Others = <<>>
         /\ \/ op.kind = "delete" /\ file' = Gone
            \/ /\ op.kind = "switch" /\ file' \in Scripts
               /\ \E l \in JobLines : New(l) /\ file' = <<l>>
<1>1. /\ op.kind \in {"delete", "switch"} /\ op.line = 1 /\ op.job = NoJob
      /\ text # Gone /\ Proper(text) /\ op.on \in BOOLEAN
  BY OpFacts DEF IInv, AskedFor, Planned
<1>2. Others = <<>>
  <2>1. Topped(text, 0) BY <1>1 DEF Proper, Top
  <2>2. Header(text) = 0 BY <2>1, HeaderOf
  <2>3. Others = RemoveAt(Body(text), 1) BY <1>1, <2>2 DEF Others
  <2>4. Body(text) \in Seq(Lines) /\ Len(Body(text)) = Len(text) - 0 BY <2>1, BodyOf DEF Topped
  <2>5. Len(text) = 0 \/ Len(text) = 1 BY <1>1, ScriptFacts DEF Proper
  <2>6. CASE Len(text) = 1
    <3>1. Len(Body(text)) = 1 BY <2>4, <2>6
    <3>2. 1 \in 1 .. Len(Body(text)) /\ Len(Body(text)) - 1 = 0 BY <3>1
    <3>3. RemoveAt(Body(text), 1) \in Seq(Lines) /\ Len(RemoveAt(Body(text), 1)) = 0
      BY <2>4, <3>2, Removed
    <3> QED BY <2>3, <3>3, EmptySeq
  <2>7. CASE Len(text) = 0
    <3>1. Len(Body(text)) = 0 BY <2>4, <2>7
    <3>2. Body(text) = <<>> BY <2>4, <3>1, EmptySeq
    <3>3. RemoveAt(<<>>, 1) = SubSeq(<<>>, 1, 0) \o SubSeq(<<>>, 2, 0) BY DEF RemoveAt
    <3>4. SubSeq(<<>>, 1, 0) = <<>> /\ SubSeq(<<>>, 2, 0) = <<>> BY SubSeqEmpty
    <3>5. <<>> \o <<>> = <<>> OBVIOUS
    <3> QED BY <2>3, <3>2, <3>3, <3>4, <3>5
  <2> QED BY <2>5, <2>6, <2>7
<1>3. CASE op.kind = "delete" BY <1>1, <1>2, <1>3 DEF Put, Emptied
<1>4. CASE op.kind = "switch"
  <2>1. file # Gone /\ file' = After(file) BY <1>4 DEF Put, Emptied
  <2>2. file \in Scripts BY <2>1 DEF IInv
  <2> DEFINE l == Decorate(file[1].job, op.on)
  <2>3. /\ file \in Seq(Lines) /\ Len(file) = 1 /\ file[1].job \in Jobs
    BY <2>2, ScriptFacts, LineFacts
  <2>4. l \in JobLines /\ <<l>> \in Scripts /\ (l.mark = "none" <=> op.on) /\ l \in Lines
    BY <1>1, <2>3, Decorated, LineFacts
  <2>5. file' = ReplaceAt(file, 1, l) BY <1>1, <1>4, <2>1 DEF After
  <2> HIDE DEF l
  <2>6. /\ file' \in Seq(Lines) /\ Len(file') = 1 /\ file'[1] = l
    <3>1. 1 \in 1 .. Len(file) BY <2>3
    <3>2. file \in Seq(Lines) /\ l \in Lines BY <2>3, <2>4
    <3>3. /\ ReplaceAt(file, 1, l) \in Seq(Lines) /\ Len(ReplaceAt(file, 1, l)) = Len(file)
          /\ \A i \in 1 .. Len(file) :
               ReplaceAt(file, 1, l)[i] = IF i = 1 THEN l ELSE file[i]
      BY <3>1, <3>2, Replaced, SMTT(30)
    <3> QED BY <2>3, <2>5, <3>1, <3>3
  <2>7. <<l>> \in Seq(Lines) /\ Len(<<l>>) = 1 /\ <<l>>[1] = l BY <2>4
  <2>8. file' = <<l>> BY <2>6, <2>7, SeqEqual
  <2> QED BY <1>1, <1>2, <1>4, <2>4, <2>8 DEF New
<1> QED BY <1>1, <1>3, <1>4

-----------------------------------------------------------------------------
(* The invariant                                                           *)

LEMMA NoOpIsOp == NoOp \in Ops
<1>1. 0 \in LineNumbers BY CronAssumption DEF LineNumbers
<1> QED BY <1>1 DEF NoOp, Ops

(* A mutation that is over leaves only the crontab to be looked at.        *)
LEMMA Over ==
  ASSUME IInv, scope' = scope, file' = Gone \/ file' \in Seq(Lines), Proper(Text(file))',
         (scope = "script" /\ file # Gone => file \in Scripts)',
         NEW result, NEW line, NEW sure, Done(result, line, sure)
  PROVE  IInv'
<1>1. pc' = "idle" /\ op' = NoOp /\ seen' = <<>> BY DEF Done
<1>2. Proper(seen)'
  <2>1. <<>> \in Seq(Lines) /\ Len(<<>>) = 0 OBVIOUS
  <2>2. Topped(<<>>, 0) BY <2>1 DEF Topped
  <2>3. Proper(<<>>)' BY <2>2 DEF Proper, Top
  <2> QED BY <1>1, <2>3 DEF Proper, Top
<1>3. AskedFor' /\ Planned' BY <1>1 DEF AskedFor, Planned
<1> QED BY <1>1, <1>2, <1>3, NoOpIsOp DEF IInv

(* A crontab under its banner is one that can be found, script or none.    *)
LEMMA CanBeFound ==
  ASSUME IInv, scope' = scope,
         \/ file' = Gone
         \/ scope # "script" /\ \E b : Topped(b, 0) /\ file' = WithBanner(b)
         \/ scope = "script" /\ file' \in Scripts
  PROVE  /\ file' = Gone \/ file' \in Seq(Lines)
         /\ Proper(Text(file))'
         /\ (scope = "script" /\ file # Gone => file \in Scripts)'
<1>1. CASE file' = Gone
  <2>1. <<>> \in Seq(Lines) /\ Len(<<>>) = 0 OBVIOUS
  <2>2. Topped(<<>>, 0) BY <2>1 DEF Topped
  <2>3. Text(file)' = <<>> BY <1>1 DEF Text
  <2> QED BY <1>1, <2>2, <2>3 DEF Proper, Top
<1>2. CASE scope # "script" /\ \E b : Topped(b, 0) /\ file' = WithBanner(b)
  <2>1. Topped(file', Top(file')) BY <1>2, Installing
  <2>2. file' \in Seq(Lines) BY <2>1 DEF Topped
  <2>3. Text(file)' = file' BY <2>2, GoneAssumption DEF Text
  <2> QED BY <1>2, <2>1, <2>2, <2>3 DEF Proper, Top
<1>3. CASE scope = "script" /\ file' \in Scripts
  <2>1. file' \in Seq(Lines) /\ Topped(file', 0) BY <1>3, ScriptFacts
  <2>2. Text(file)' = file' BY <2>1, GoneAssumption DEF Text
  <2> QED BY <1>3, <2>1, <2>2 DEF Proper, Top
<1> QED BY <1>1, <1>2, <1>3

LEMMA Initially == Init => IInv
<1> SUFFICES ASSUME Init PROVE IInv OBVIOUS
<1>1. <<>> \in Seq(Lines) /\ Proper(<<>>) /\ Text(Gone) = <<>> BY NoneIsProper
<1>2. CASE file = Gone BY <1>1, <1>2, NoOpIsOp DEF Init, IInv, AskedFor, Planned
<1>3. CASE file # Gone /\ scope = "script"
  <2>1. file \in Scripts BY <1>3 DEF Init
  <2>2. file \in Seq(Lines) /\ Topped(file, 0) BY <2>1, ScriptFacts
  <2>3. Text(file) = file BY <1>3 DEF Text
  <2>4. Proper(file) BY <1>3, <2>1, <2>2 DEF Proper, Top
  <2> QED BY <1>1, <1>3, <2>1, <2>2, <2>3, <2>4, NoOpIsOp DEF Init, IInv, AskedFor, Planned
<1>4. CASE file # Gone /\ scope # "script"
  <2>1. PICK b \in BoundedSeq(OthersLines, 2) : file = WithBanner(b) BY <1>4 DEF Init
  <2>2. PICK m \in 0 .. 2 : b \in [1 .. m -> OthersLines] BY <2>1 DEF BoundedSeq, SeqOf
  <2>3. b \in Seq(Lines)
    <3>1. b = [i \in 1 .. m |-> b[i]] BY <2>2
    <3>2. \A i \in 1 .. m : b[i] \in Lines BY <2>2, LineFacts
    <3>3. [i \in 1 .. m |-> b[i]] \in Seq(Lines) BY <3>2, IsASeq
    <3> QED BY <3>1, <3>3
  <2>4. Len(b) \in Nat /\ DOMAIN b = 1 .. Len(b) BY <2>3, TextFacts
  <2>5. \A i \in 1 .. Len(b) : ~IsBanner(b[i]) BY <2>2, <2>4, LineFacts
  <2>6. Topped(b, 0) BY <2>3, <2>4, <2>5 DEF Topped
  <2>7. Topped(file, Top(file)) BY <2>1, <2>6, Installing
  <2>8. file \in Seq(Lines) /\ Text(file) = file /\ Proper(file)
    BY <1>4, <2>7 DEF Topped, Text, Proper
  <2> QED BY <1>1, <1>4, <2>8, NoOpIsOp DEF Init, IInv, AskedFor, Planned
<1> QED BY <1>2, <1>3, <1>4

LEMMA PlanStep == ASSUME IInv, Plan PROVE IInv'
<1>1. /\ pc = "asked" /\ scope' = scope /\ file' = file
      /\ Proper(Text(file))' /\ (file' = Gone \/ file' \in Seq(Lines))
      /\ (scope = "script" /\ file # Gone => file \in Scripts)'
  BY DEF Plan, IInv, Proper, Top, Text
<1>2. CASE \E result, line, sure : Done(result, line, sure) BY <1>1, <1>2, Over
<1>3. CASE ~\E result, line, sure : Done(result, line, sure)
  <2> DEFINE t == Text(file)
  <2>1. /\ pc' = "planned" /\ UNCHANGED <<seen, op, told>>
        /\ text' = (IF scope = "system" THEN file ELSE t)
        /\ ~Unsupported /\ ~(scope = "system" /\ file = Gone /\ op.kind # "create")
        /\ scope # "script" => ~Drifted(t) /\ ~Already(t)
    BY <1>3 DEF Plan
  <2>2. op.kind \in {"create", "update", "delete", "switch"} /\ op.on \in BOOLEAN
    BY OpFacts DEF IInv
  <2>3. t \in Seq(Lines) /\ t # Gone /\ Proper(t) BY NoneIsProper DEF IInv, Proper, Topped
  <2>4. scope = "script" => op.kind \in {"delete", "switch"} BY <2>1, <2>2 DEF Unsupported
  <2>5. IF text' = Gone THEN scope = "system" /\ op.kind = "create" ELSE Proper(text')
    BY <2>1, <2>3 DEF Text
  <2>6. scope # "script" /\ op.kind # "create" => JobAt(text', op.line)
    <3> SUFFICES ASSUME scope # "script", op.kind # "create" PROVE JobAt(text', op.line)
      OBVIOUS
    <3>1. text' = t BY <2>1 DEF Text
    <3>2. CASE op.kind \in {"update", "delete"} BY <2>1, <3>1, <3>2 DEF Drifted
    <3>3. CASE op.kind = "switch"
      <4>1. op.line \in DOMAIN t /\ ~(op.on <=> ~Disabled(t[op.line]))
        BY <2>1, <3>3 DEF Drifted, Already
      <4>2. CASE op.on BY <3>1, <4>1, <4>2 DEF Disabled, JobAt
      <4>3. CASE ~op.on BY <2>1, <3>1, <3>3, <4>1, <4>3 DEF Drifted, JobAt
      <4> QED BY <4>2, <4>3
    <3> QED BY <2>2, <3>2, <3>3
  <2>7. Planned' BY <1>1, <2>1, <2>4, <2>5, <2>6 DEF Planned, Proper, Top, JobAt
  <2>8. AskedFor' BY <1>1, <2>1 DEF AskedFor, IInv
  <2>9. Proper(seen)' BY <1>1, <2>1 DEF IInv, Proper, Top
  <2> QED BY <1>1, <2>1, <2>7, <2>8, <2>9 DEF IInv
<1> QED BY <1>2, <1>3

LEMMA PutStep ==
  ASSUME IInv, pc = "planned", scope' = scope, Put \/ UNCHANGED file
  PROVE  /\ file' = Gone \/ file' \in Seq(Lines)
         /\ Proper(Text(file))'
         /\ (scope = "script" /\ file # Gone => file \in Scripts)'
<1>1. CASE UNCHANGED file BY <1>1 DEF IInv, Proper, Top, Text
<1>2. CASE Put /\ scope = "script" BY <1>2, ScriptPut, CanBeFound
<1>3. CASE Put /\ scope # "script" BY <1>3, PutFacts, CanBeFound
<1> QED BY <1>1, <1>2, <1>3

LEMMA OtherStep == ASSUME IInv, OtherProgram PROVE IInv'
<1> DEFINE body == Body(Text(file))
<1>1. Topped(body, 0) BY BodyOf DEF IInv, Proper
<1>2. UNCHANGED <<scope, seen, pc, op, text, told>> BY DEF OtherProgram
<1>3. \/ file' = Gone
      \/ scope # "script" /\ \E b : Topped(b, 0) /\ file' = WithBanner(b)
      \/ scope = "script" /\ file' \in Scripts
  <2>1. CASE file' = Gone BY <2>1
  <2>2. CASE scope = "script" /\ file' \in Scripts BY <2>2
  <2>3. CASE \E i \in DOMAIN body : scope # "script" /\ file' = WithBanner(RemoveAt(body, i))
    <3>1. PICK i \in DOMAIN body : scope # "script" /\ file' = WithBanner(RemoveAt(body, i))
      BY <2>3
    <3>2. i \in 0 + 1 .. Len(body) BY <1>1, TextFacts DEF Topped
    <3>3. Topped(RemoveAt(body, i), 0) BY <1>1, <3>2, RemovedBelow
    <3> QED BY <3>1, <3>3
  <2>4. CASE \E i \in 1 .. Len(body) + 1, l \in OthersLines :
               scope # "script" /\ file' = WithBanner(InsertAt(body, i, l))
    <3>1. PICK i \in 1 .. Len(body) + 1, l \in OthersLines :
            scope # "script" /\ file' = WithBanner(InsertAt(body, i, l))
      BY <2>4
    <3>2. l \in Lines /\ ~IsBanner(l) BY LineFacts
    <3>3. Topped(InsertAt(body, i, l), 0) BY <1>1, <3>2, InsertedInBody
    <3> QED BY <3>1, <3>3
  <2> QED BY <2>1, <2>2, <2>3, <2>4 DEF OtherProgram
<1>4. /\ file' = Gone \/ file' \in Seq(Lines)
      /\ Proper(Text(file))'
      /\ (scope = "script" /\ file # Gone => file \in Scripts)'
  BY <1>2, <1>3, CanBeFound
<1>5. AskedFor' BY <1>2 DEF IInv, AskedFor
<1>6. Planned' BY <1>2 DEF IInv, Planned, Proper, Top, JobAt
<1>7. Proper(seen)' BY <1>2 DEF IInv, Proper, Top
<1> QED BY <1>2, <1>4, <1>5, <1>6, <1>7 DEF IInv

LEMMA AskStep == ASSUME IInv, Ask PROVE IInv'
<1>1. /\ UNCHANGED <<scope, file, seen, text>> /\ pc' = "asked" /\ op' \in Ops
      /\ told'.result = "none"
      /\ op'.kind # "create" => JobAt(seen, op'.line)
      /\ op'.job = NoJob <=> op'.kind \in {"delete", "switch"}
  BY DEF Ask
<1>2. op'.kind # "create" => op'.line # 0 /\ (scope = "script" => op'.line = 1)
  <2> SUFFICES ASSUME op'.kind # "create"
               PROVE  op'.line # 0 /\ (scope = "script" => op'.line = 1)
    OBVIOUS
  <2>1. op'.line \in DOMAIN seen BY <1>1 DEF JobAt
  <2>2. seen \in Seq(Lines) BY DEF IInv, Proper, Topped
  <2>3. op'.line \in 1 .. Len(seen) BY <2>1, <2>2, TextFacts
  <2>4. scope = "script" => DOMAIN seen \subseteq {1}
    <3>1. DOMAIN <<>> = {} OBVIOUS
    <3> QED BY <3>1, ScriptFacts DEF IInv, Proper
  <2> QED BY <2>1, <2>3, <2>4
<1>3. AskedFor' BY <1>1, <1>2 DEF AskedFor
<1>4. Planned' BY <1>1 DEF Planned
<1>5. Proper(Text(file))' /\ Proper(seen)' BY <1>1 DEF IInv, Proper, Top, Text
<1> QED BY <1>1, <1>3, <1>4, <1>5 DEF IInv

LEMMA StepKeeps == IInv /\ [Next]_vars => IInv'
<1> SUFFICES ASSUME IInv, [Next]_vars PROVE IInv' OBVIOUS
<1>1. CASE Collect
  <2>1. UNCHANGED <<scope, file, pc, op, text, told>> /\ pc = "idle" /\ seen' = Text(file)
    BY <1>1 DEF Collect
  <2>2. AskedFor' /\ Planned' BY <2>1 DEF AskedFor, Planned
  <2>3. Proper(Text(file))' BY <2>1 DEF IInv, Proper, Top, Text
  <2>4. Proper(seen)' BY <2>1 DEF IInv, Proper, Top
  <2> QED BY <2>1, <2>2, <2>3, <2>4 DEF IInv
<1>2. CASE Ask BY <1>2, AskStep
<1>3. CASE Plan BY <1>3, PlanStep
<1>4. CASE Apply
  <2>1. pc = "planned" /\ Put /\ scope' = scope BY <1>4 DEF Apply
  <2>2. /\ file' = Gone \/ file' \in Seq(Lines)
        /\ Proper(Text(file))'
        /\ (scope = "script" /\ file # Gone => file \in Scripts)'
    BY <2>1, PutStep
  <2>3. CASE Settles
    <3>1. pc' = "settle" /\ UNCHANGED <<seen, op, text, told>> BY <1>4, <2>3 DEF Apply
    <3>2. AskedFor' BY <2>1, <3>1 DEF IInv, AskedFor
    <3>3. Planned' BY <2>1, <2>3, <3>1 DEF Settles, Planned
    <3>4. Proper(seen)' BY <2>1, <3>1 DEF IInv, Proper, Top
    <3> QED BY <2>1, <2>2, <3>1, <3>2, <3>3, <3>4 DEF IInv
  <2>4. CASE ~Settles BY <1>4, <2>1, <2>2, <2>4, Over DEF Apply
  <2> QED BY <2>3, <2>4
<1>5. CASE ApplyFails
  <2>1. /\ pc = "planned" /\ (Put \/ UNCHANGED file) /\ scope' = scope
        /\ Done("failed", op.line, FALSE)
    BY <1>5 DEF ApplyFails
  <2>2. /\ file' = Gone \/ file' \in Seq(Lines)
        /\ Proper(Text(file))'
        /\ (scope = "script" /\ file # Gone => file \in Scripts)'
    BY <2>1, PutStep
  <2> QED BY <2>1, <2>2, Over
<1>6. CASE Settle
  <2>1. /\ UNCHANGED <<scope, file>> /\ \E result, line, sure : Done(result, line, sure)
    BY <1>6 DEF Settle
  <2>2. /\ file' = Gone \/ file' \in Seq(Lines)
        /\ Proper(Text(file))'
        /\ (scope = "script" /\ file # Gone => file \in Scripts)'
    BY <2>1 DEF IInv, Proper, Top, Text
  <2> QED BY <2>1, <2>2, Over
<1>7. CASE OtherProgram BY <1>7, OtherStep
<1>8. CASE UNCHANGED vars
  BY <1>8 DEF vars, IInv, Proper, Top, Text, AskedFor, Planned, JobAt
<1> QED BY <1>1, <1>2, <1>3, <1>4, <1>5, <1>6, <1>7, <1>8 DEF Next

LEMMA CronInvariant == Spec => []IInv
BY Initially, StepKeeps, PTL DEF Spec

-----------------------------------------------------------------------------
(* What a step does                                                        *)

LEMMA PlannedEnds ==
  ASSUME [Next]_vars, pc = "planned", pc' # "planned"
  PROVE  Put \/ UNCHANGED file
BY DEF Next, Collect, Ask, Plan, Apply, ApplyFails, Settle, OtherProgram, vars

LEMMA InsertedInNone ==
  ASSUME NEW l \in Lines
  PROVE  InsertAt(<<>>, 1, l) = <<l>>
<1> DEFINE u == InsertAt(<<>>, 1, l)
<1>1. <<>> \in Seq(Lines) /\ Len(<<>>) = 0 /\ 1 \in 1 .. Len(<<>>) + 1 OBVIOUS
<1>2. /\ u \in Seq(Lines) /\ Len(u) = Len(<<>>) + 1
      /\ \A i \in 1 .. Len(<<>>) + 1 :
           u[i] = IF i < 1 THEN <<>>[i] ELSE IF i = 1 THEN l ELSE <<>>[i - 1]
  BY <1>1, Inserted, ZenonT(60)
<1> HIDE DEF u
<1>3. Len(u) = 1 /\ u[1] = l BY <1>1, <1>2
<1>4. <<l>> \in Seq(Lines) /\ Len(<<l>>) = 1 /\ <<l>>[1] = l OBVIOUS
<1>5. u = <<l>> BY <1>2, <1>3, <1>4, SeqEqual
<1> QED BY <1>5 DEF u

(* A write adds, replaces or drops the line asked for, and leaves the rest *)
(* of the text the writer read as it was, under one banner; a crontab is   *)
(* removed only when no job is left in it: create, update, delete and      *)
(* toggle of write/cron.rs, whatever other programs do.                    *)
THEOREM OneLineWrittenHolds == Spec => OneLineWritten
<1>1. ASSUME IInv, [Next]_vars
      PROVE  Written =>
               IF op.kind = "delete"
               THEN file' = WithBanner(Others) \/ (file' = Gone /\ \A i \in DOMAIN Others : ~IsJob(Others[i]))
               ELSE \E i \in 1 .. Len(Others) + 1, l \in JobLines :
                      /\ file' = WithBanner(InsertAt(Others, i, l))
                      /\ op.job # NoJob => l.job = op.job
                      /\ l.mark = "none" <=> op.on
  <2> SUFFICES ASSUME Written
               PROVE  IF op.kind = "delete"
                      THEN \/ file' = WithBanner(Others)
                           \/ file' = Gone /\ \A i \in DOMAIN Others : ~IsJob(Others[i])
                      ELSE \E i \in 1 .. Len(Others) + 1, l \in JobLines :
                             file' = WithBanner(InsertAt(Others, i, l)) /\ New(l)
    BY DEF New
  <2>1. pc = "planned" /\ Put BY <1>1, PlannedEnds DEF Written
  <2>2. CASE scope = "script"
    <3>1. Others = <<>> /\ DOMAIN <<>> = {} /\ Len(<<>>) = 0 BY <1>1, <2>1, <2>2, ScriptPut
    <3>2. CASE op.kind = "delete" BY <1>1, <2>1, <2>2, <3>1, <3>2, ScriptPut
    <3>3. CASE op.kind # "delete"
      <4>1. PICK l \in JobLines : New(l) /\ file' = <<l>>
        BY <1>1, <2>1, <2>2, <3>3, ScriptPut
      <4>2. InsertAt(<<>>, 1, l) = <<l>> BY LineFacts, InsertedInNone
      <4>3. 1 \in 1 .. Len(Others) + 1 /\ file' = WithBanner(InsertAt(Others, 1, l))
        BY <2>2, <3>1, <4>1, <4>2 DEF WithBanner
      <4> QED BY <3>3, <4>1, <4>3
    <3> QED BY <3>2, <3>3
  <2>3. CASE scope # "script"
    <3>1. CASE op.kind = "delete"
      <4>1. Body(After(text)) = Others BY <1>1, <2>1, <2>3, <3>1, EditFacts
      <4> QED BY <1>1, <2>1, <2>3, <3>1, <4>1, PutFacts
    <3>2. CASE op.kind # "delete"
      <4>1. file' = WithBanner(Body(After(text))) BY <1>1, <2>1, <2>3, <3>2, PutFacts
      <4>2. PICK i \in 1 .. Len(Others) + 1, l \in JobLines :
              New(l) /\ Body(After(text)) = InsertAt(Others, i, l)
        BY <1>1, <2>1, <2>3, <3>2, EditFacts
      <4>3. file' = WithBanner(InsertAt(Others, i, l)) BY <4>1, <4>2
      <4> QED BY <3>2, <4>2, <4>3
    <3> QED BY <3>1, <3>2
  <2> QED BY <2>2, <2>3
<1> QED BY <1>1, CronInvariant, PTL DEF Spec, OneLineWritten

(* The line a write changed or added in a system file is where the writer  *)
(* counted it to be.                                                       *)
LEMMA LineStands ==
  ASSUME IInv, pc = "planned", scope # "script", Put, op.kind # "delete",
         scope # "user" \/ op.kind # "create"
  PROVE  NewLine \in DOMAIN Text(file') /\ New(Text(file')[NewLine])
<1>1. op.kind \in {"create", "update", "switch"} BY OpFacts DEF IInv
<1>2. WithBanner(Body(After(text))) = After(text)
  <2>1. CASE op.kind \in {"update", "switch"} BY <2>1, EditFacts
  <2>2. CASE scope # "user"
    <3>1. PICK k : Topped(After(text), k) /\ k = 0 BY <2>2, EditFacts
    <3>2. Top(After(text)) = 0 BY <2>2 DEF Top
    <3> QED BY <2>2, <3>1, <3>2, BodyUnderBanner
  <2> QED BY <1>1, <2>1, <2>2
<1>3. file' = After(text) BY <1>2, PutFacts
<1>4. After(text) \in Seq(Lines) BY EditFacts DEF Topped
<1>5. Text(file') = After(text) BY <1>3, <1>4, NoneIsProper
<1>6. CASE op.kind = "create" BY <1>5, <1>6, EditFacts DEF NewLine
<1>7. CASE op.kind # "create"
  <2>1. op.kind \in {"update", "switch"} BY <1>1, <1>7
  <2>2. op.line \in DOMAIN After(text) /\ New(After(text)[op.line]) BY <2>1, EditFacts
  <2> QED BY <1>5, <1>7, <2>2 DEF NewLine
<1> QED BY <1>6, <1>7

(* An id reported without a note names the one line with that job: what    *)
(* create and update answer of a system file, and what settle_user_id      *)
(* makes of a per-user crontab read again.                                 *)
THEOREM ReportedIdHolds == Spec => ReportedIdNamesTheJob
<1>1. ASSUME IInv, [Next]_vars
      PROVE  told'.sure /\ told' # told /\ op.job # NoJob =>
               /\ JobAt(Text(file'), told'.line)
               /\ Text(file')[told'.line].job = op.job
               /\ scope = "user" => Cardinality(Hits(Text(file'))) = 1
  <2> SUFFICES ASSUME told'.sure, told' # told, op.job # NoJob
               PROVE  /\ JobAt(Text(file'), told'.line)
                      /\ Text(file')[told'.line].job = op.job
                      /\ scope = "user" => Cardinality(Hits(Text(file'))) = 1
    OBVIOUS
  <2>1. Apply \/ Settle
    BY <1>1 DEF Next, Collect, Ask, Plan, ApplyFails, OtherProgram, Done, vars
  <2>2. CASE Apply
    <3>1. /\ pc = "planned" /\ Put /\ ~Settles
          /\ told' = [result |-> "ok", line |-> NewLine, sure |-> TRUE]
      BY <2>2 DEF Apply, Done
    <3>2. op.kind \in {"create", "update"} BY <1>1, <3>1, OpFacts DEF IInv, AskedFor
    <3>3. scope # "user" /\ scope # "script" BY <1>1, <3>1, <3>2 DEF Settles, IInv, Planned
    <3>4. NewLine \in DOMAIN Text(file') /\ New(Text(file')[NewLine])
      BY <1>1, <3>1, <3>2, <3>3, LineStands
    <3> QED BY <3>1, <3>3, <3>4, LineFacts DEF New, JobAt
  <2>3. CASE Settle
    <3>1. PICK n \in DOMAIN Text(file) :
            /\ Hits(Text(file)) = {n} /\ file' = file
            /\ told' = [result |-> "ok", line |-> n, sure |-> TRUE]
      BY <2>3 DEF Settle, Done
    <3>2. n \in Hits(Text(file)) BY <3>1
    <3>3. JobAt(Text(file), n) /\ Text(file)[n].job = op.job BY <3>2 DEF Hits, JobAt
    <3>4. Cardinality({n}) = 1 BY FS_Singleton
    <3> QED BY <3>1, <3>3, <3>4
  <2> QED BY <2>1, <2>2, <2>3
<1> QED BY <1>1, CronInvariant, PTL DEF Spec, ReportedIdNamesTheJob

(* A switch of a job found on its line leaves it as asked, and the note    *)
(* that it already was is true: toggle of write/cron.rs, in every scope,   *)
(* as long as nobody puts blanks before a marker, which the parser strips  *)
(* and toggle does not.                                                    *)
THEOREM SwitchIsTrueHolds == "indented" \notin Marks => (Spec => SwitchIsTrue)
<1> SUFFICES ASSUME "indented" \notin Marks PROVE Spec => SwitchIsTrue OBVIOUS
<1>1. ASSUME IInv, [Next]_vars
      PROVE  pc # "idle" /\ op.kind = "switch" /\ Found /\ told'.result \in {"ok", "already"} =>
               JobAt(Text(file'), op.line) /\ (Text(file')[op.line].mark = "none" <=> op.on)
  <2> SUFFICES ASSUME pc # "idle", op.kind = "switch", Found,
                      told'.result \in {"ok", "already"}
               PROVE  /\ JobAt(Text(file'), op.line)
                      /\ Text(file')[op.line].mark = "none" <=> op.on
    OBVIOUS
  <2>1. told.result = "none" /\ pc # "settle" BY <1>1 DEF IInv, AskedFor, Planned
  <2>2. op.on \in BOOLEAN BY <1>1, OpFacts DEF IInv
  <2>3. Plan \/ Apply
    BY <1>1, <2>1 DEF Next, Collect, Ask, ApplyFails, Settle, OtherProgram, Done, vars
  <2>4. CASE Plan
    <3> DEFINE t == Text(file)
    <3>1. Already(t) /\ file' = file /\ pc = "asked" BY <2>1, <2>4 DEF Plan, Done
    <3>2. JobAt(t, op.line) BY <3>1 DEF Found
    <3>3. t \in Seq(Lines) BY <1>1 DEF IInv, Proper, Topped
    <3>4. t[op.line] \in JobLines BY <3>2, <3>3, TextFacts, LineFacts DEF JobAt
    <3>5. t[op.line].mark \in {"none", "ours", "tight"} BY <3>4, LineFacts, CronAssumption
    <3>6. Disabled(t[op.line]) <=> t[op.line].mark # "none"
      BY <3>2, <3>5 DEF Disabled, JobAt
    <3> QED BY <2>2, <3>1, <3>2, <3>6 DEF Already
  <2>5. CASE Apply
    <3>1. pc = "planned" /\ Put BY <2>5 DEF Apply
    <3>2. CASE scope = "script"
      <4>1. PICK l \in JobLines : New(l) /\ file' = <<l>> BY <1>1, <3>1, <3>2, ScriptPut
      <4>2. <<l>> \in Seq(Lines) /\ <<l>>[1] = l /\ 1 \in DOMAIN <<l>> BY <4>1, LineFacts
      <4>3. Text(file') = <<l>> /\ op.line = 1
        BY <1>1, <3>1, <3>2, <4>1, <4>2, NoneIsProper, ScriptPut
      <4> QED BY <4>1, <4>2, <4>3, LineFacts DEF JobAt, New
    <3>3. CASE scope # "script"
      <4>1. NewLine \in DOMAIN Text(file') /\ New(Text(file')[NewLine])
        BY <1>1, <3>1, <3>3, LineStands
      <4>2. NewLine = op.line BY DEF NewLine
      <4> QED BY <4>1, <4>2, LineFacts DEF JobAt, New
    <3> QED BY <3>2, <3>3
  <2> QED BY <2>3, <2>4, <2>5
<1>2. Spec => []IInv BY CronInvariant
<1> QED BY <1>1, <1>2, PTL DEF Spec, SwitchIsTrue

=============================================================================
