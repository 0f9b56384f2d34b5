------------------------------ MODULE Schedules ------------------------------
(***************************************************************************)
(* What becomes of a schedule on its way from the operator to a            *)
(* scheduler's file and back: parse_schedule (manage.rs), the conversions  *)
(* (write/calendar.rs), the renderers of the writers and the parsers of    *)
(* the readers; and what each form means, to compare them by.              *)
(*                                                                         *)
(* The clock is a small one: every rule that speaks of 60, 24 or 7 days    *)
(* has the constants below instead.  The month goes the way of the day of  *)
(* the month and is left out.                                              *)
(***************************************************************************)
EXTENDS Integers, FiniteSets, Sequences, SequencesExt

CONSTANTS
  SecondsPerMinute, MinutesPerHour, HoursPerDay, DaysPerMonth,
  LongSpan,    (* systemd shows this many seconds and more in months       *)
  MaxEntries,  (* MAX_CALENDAR_ENTRIES                                     *)
  Width        (* 2^64: where the seconds wrap                             *)

Hour == MinutesPerHour * SecondsPerMinute
Day == HoursPerDay * Hour
Week == 7 * Day

ASSUME ClockAssumption ==
  /\ {SecondsPerMinute, MinutesPerHour, HoursPerDay, DaysPerMonth} \subseteq Nat \ {0, 1}
  /\ LongSpan \in Nat /\ LongSpan > Week /\ MaxEntries \in Nat \ {0}
  /\ Width \in Nat /\ Width > Week

-----------------------------------------------------------------------------
(* Texts: <<"empty">>, <<"number", n>>, <<"interval", n, unit>> such as    *)
(* 30m, <<"word", w>> such as @daily, <<"fields", f>> for five cron        *)
(* fields, <<"calendar", c>> for an OnCalendar= expression, and            *)
(* <<"dicts", ds>> for "Hour=9 Minute=0 | ...".  A field is a comma list   *)
(* of parts.                                                               *)
Empty == <<"empty">>

(* to_ascii_lowercase *)
Lower(text) == IF text = <<"word", "@DAILY">> THEN <<"word", "@daily">> ELSE text

Part(body, from, to, step) == [body |-> body, from |-> from, to |-> to, step |-> step]
NoStep == 0
Star == Part("*", 0, 0, NoStep)
Every == <<Star>>
One(n) == Part("one", n, n, NoStep)
Span(from, to) == Part("span", from, to, NoStep)

Bound(min, max) == [min |-> min, max |-> max]
MINUTE == Bound(0, MinutesPerHour - 1)
HOUR == Bound(0, HoursPerDay - 1)
DOM == Bound(1, DaysPerMonth)
DOW == Bound(0, 7)
WEEKDAY == Bound(0, 6)

InBounds(n, bounds) == n \in bounds.min .. bounds.max

-----------------------------------------------------------------------------
(* Meanings: <<"at", the minutes it fires in>>, <<"every", seconds>>,      *)
(* <<"once", seconds>> after the start, <<"boot">> or <<"monthly">>.       *)
Instants == [min: MINUTE.min .. MINUTE.max, hour: HOUR.min .. HOUR.max,
             dom: DOM.min .. DOM.max, dow: 0 .. 6]

PartValues(part, bounds) ==
  LET from == IF part.body = "*" THEN bounds.min ELSE part.from
      to   == CASE part.body = "*"                          -> bounds.max
                [] part.body = "one" /\ part.step # NoStep -> bounds.max
                [] OTHER                                    -> part.to
  IN {n \in from .. to : part.step # NoStep => (n - from) % part.step = 0}
FieldValues(field, bounds) == UNION {PartValues(field[i], bounds) : i \in DOMAIN field}
DowValues(field) == {n % 7 : n \in FieldValues(field, DOW)}

TimeMatches(t, e) == /\ t.min \in FieldValues(e.min, MINUTE)
                     /\ t.hour \in FieldValues(e.hour, HOUR)

(* cron takes either of the days when both are restricted.                 *)
CronFires(f, t) ==
  LET dom == t.dom \in FieldValues(f.dom, DOM)
      dow == t.dow \in DowValues(f.dow)
  IN TimeMatches(t, f) /\ (IF f.dom # Every /\ f.dow # Every THEN dom \/ dow ELSE dom /\ dow)

(* systemd takes both, and its week begins on a Monday: "weekly" is the    *)
(* Monday, whatever cron makes of @weekly.                                 *)
CalendarFires(c, t) ==
  /\ TimeMatches(t, c)
  /\ t.dom \in FieldValues(c.dom, DOM)
  /\ c.days # <<>> => \E i \in DOMAIN c.days : t.dow \in c.days[i][1] .. c.days[i][2]

(* alias_to_fields *)
Fields(min, hour, dom, dow) == [min |-> min, hour |-> hour, dom |-> dom, dow |-> dow]
Midnight(dom, dow) == Fields(<<One(0)>>, <<One(0)>>, dom, dow)
AliasFields(word) ==
  CASE word = "@hourly"                  -> Fields(<<One(0)>>, Every, Every, Every)
    [] word \in {"@daily", "@midnight"} -> Midnight(Every, Every)
    [] word = "@weekly"                  -> Midnight(Every, <<One(0)>>)
    [] word = "@monthly"                 -> Midnight(<<One(1)>>, Every)

(* calendar_dict_to_cron: a key that is missing is "*", and 7 is Sunday.   *)
(* A value of a dictionary is {} for a missing key, {n} for a number.      *)
KeyField(value) == IF value = {} THEN Every ELSE <<One(CHOOSE n \in value : TRUE)>>
DictToCron(d) == Fields(KeyField(d.min), KeyField(d.hour), KeyField(d.dom), KeyField(d.dow))

At(instants) == <<"at", instants>>
CronMeaning(f) == At({t \in Instants : CronFires(f, t)})

Calendar(min, hour, dom, days) == [min |-> min, hour |-> hour, dom |-> dom, days |-> days]
Shorthand(word) ==
  CASE word = "hourly"  -> Calendar(<<One(0)>>, Every, Every, <<>>)
    [] word = "daily"   -> Calendar(<<One(0)>>, <<One(0)>>, Every, <<>>)
    [] word = "weekly"  -> Calendar(<<One(0)>>, <<One(0)>>, Every, <<<<1, 1>>>>)
    [] word = "monthly" -> Calendar(<<One(0)>>, <<One(0)>>, <<One(1)>>, <<>>)

PerUnit == [s |-> 1, m |-> SecondsPerMinute, h |-> Hour, d |-> Day]
CalendarAlias ==
  [w \in {"@hourly", "@daily", "@weekly", "@monthly"} |->
     CASE w = "@hourly" -> "hourly" [] w = "@daily" -> "daily"
       [] w = "@weekly" -> "weekly" [] w = "@monthly" -> "monthly"]

(* What a text means to a source that takes it as it stands.               *)
WordMeaning(source, word) ==
  CASE word = "@reboot" -> <<"boot">>
    [] source = "systemd" /\ word # "@reboot" ->
         At({t \in Instants : CalendarFires(Shorthand(CalendarAlias[word]), t)})
    [] source = "anacron" /\ word = "@daily" -> <<"every", Day>>
    [] source = "anacron" /\ word = "@weekly" -> <<"every", Week>>
    [] source = "anacron" /\ word = "@monthly" -> <<"monthly">>
    [] OTHER -> CronMeaning(AliasFields(word))

Meaning(source, text) ==
  CASE text[1] = "interval" -> <<"every", text[2] * PerUnit[text[3]]>>
    [] text[1] = "after"    -> <<"once", text[2]>>
    [] text[1] = "number"   -> <<"every", text[2] * (IF source = "anacron" THEN Day ELSE 1)>>
    [] text[1] = "fields"   -> CronMeaning(text[2])
    [] text[1] = "calendar" -> At({t \in Instants : CalendarFires(text[2], t)})
    [] text[1] = "dicts"    -> At({t \in Instants : \E d \in text[2] : CronFires(DictToCron(d), t)})
    [] text[1] = "word"     -> WordMeaning(source, Lower(text)[2])
    [] OTHER                -> <<"nothing">>

(* cron has no rhythm but the clock's.                                     *)
ByTheClock(n) == At({t \in Instants : ((t.hour * MinutesPerHour + t.min) * SecondsPerMinute) % n = 0})
SameMeaning(a, b) ==
  \/ a = b
  \/ a[1] = "every" /\ Day % a[2] = 0 /\ b = ByTheClock(a[2])
=============================================================================
