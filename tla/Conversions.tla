----------------------------- MODULE Conversions -----------------------------
(***************************************************************************)
(* The conversions of the code, on the texts of Schedules.  A schedule is  *)
(* a ScheduleType: <<"Cron", text>>, <<"Calendar", text>> or               *)
(* <<"Interval", seconds>>.  What a file holds is a text as well:          *)
(* "number" for StartInterval= and for anacron's days, "interval" for      *)
(* OnUnitActiveSec= with the OnBootSec= that starts it, as timer_rule      *)
(* writes them, "after" for OnBootSec= and the like by itself.             *)
(***************************************************************************)
EXTENDS Schedules

Refused == <<"refused">>
IsWord(text, words) == text[1] = "word" /\ Lower(text)[2] \in words

CronAliases == {"@reboot", "@hourly", "@daily", "@weekly", "@monthly"}
AnacronAliases == {"@daily", "@weekly", "@monthly"}

-----------------------------------------------------------------------------
(* parse_schedule                                                          *)

(* parse_interval_suffix: a product that does not fit is no interval.      *)
Seconds(text) == text[2] * PerUnit[text[3]]
IsInterval(text) == text[1] = "interval" /\ Seconds(text) < Width

(* looks_like_calendar_interval looks at the keys only.                    *)
ParseText(source, text) ==
  CASE source = "cron" /\ IsWord(text, CronAliases)         -> <<"Cron", Lower(text)>>
    [] source = "anacron" /\ IsWord(text, AnacronAliases)   -> <<"Calendar", Lower(text)>>
    [] source = "anacron" /\ text[1] = "number"             ->
         IF text[2] > 0 THEN <<"Interval", (text[2] * Day) % Width>> ELSE Refused
    [] source = "launchd" /\ text[1] = "number"             -> <<"Interval", text[2]>>
    [] source = "launchd" /\ text[1] = "dicts"              -> <<"Calendar", text>>
    [] source \in {"cron", "systemd", "launchd"} /\ text[1] = "fields" -> <<"Cron", text>>
    [] source = "systemd" /\ text[1] # "fields"             -> <<"Calendar", text>>
    [] OTHER                                                -> Refused

ParseSchedule(source, text) ==
  IF text = Empty THEN Refused
  ELSE IF IsInterval(text) THEN <<"Interval", Seconds(text)>>
  ELSE ParseText(source, text)

-----------------------------------------------------------------------------
(* write/calendar.rs                                                       *)

(* parse_number, and the steps and ranges of convert_field.                *)
GoodPart(part, bounds) ==
  \/ part.body = "*"
  \/ part.body \in {"one", "span"} /\ InBounds(part.from, bounds) /\ InBounds(part.to, bounds)
                                   /\ part.from <= part.to
GoodField(field, bounds) == \A i \in DOMAIN field : GoodPart(field[i], bounds)
GoodFields(f) == /\ GoodField(f.min, MINUTE) /\ GoodField(f.hour, HOUR)
                 /\ GoodField(f.dom, DOM) /\ GoodField(f.dow, DOW)

(* convert_dow: no steps, and no range that wraps around the week.         *)
GoodDay(part) == /\ part.body \in {"one", "span"} /\ part.step = NoStep
                 /\ InBounds(part.from, DOW) /\ InBounds(part.to, DOW)
                 /\ part.from % 7 <= part.to % 7
GoodDays(dow) == dow = Every \/ \A i \in DOMAIN dow : GoodDay(dow[i])
DayNames(dow) ==
  IF dow = Every THEN <<>> ELSE [i \in DOMAIN dow |-> <<dow[i].from % 7, dow[i].to % 7>>]

(* Mutant of OneKindOfDay: both kinds of days are passed on.               *)
BothKindsOfDay(f) == TRUE

(* cron takes either day, systemd both.                                    *)
OneKindOfDay(f) == f.dom = Every \/ f.dow = Every

CronToCalendar(f) ==
  IF /\ OneKindOfDay(f) /\ GoodDays(f.dow)
     /\ GoodField(f.min, MINUTE) /\ GoodField(f.hour, HOUR) /\ GoodField(f.dom, DOM)
  THEN <<"calendar", Calendar(f.min, f.hour, f.dom, DayNames(f.dow))>>
  ELSE Refused

(* calendar_values: {} stands for a key that is left out.                  *)
GoodValue(part, bounds) == part.body = "one" /\ part.step = NoStep /\ InBounds(part.from, bounds)
GoodValues(field, bounds) ==
  field = Every \/ \A i \in DOMAIN field : GoodValue(field[i], bounds)
Values(field) == IF field = Every THEN {{}} ELSE {{field[i].from} : i \in DOMAIN field}
Weekdays(field) == {{n % 7 : n \in v} : v \in Values(field)}

Combos(f) == [min : Values(f.min), hour : Values(f.hour), dom : Values(f.dom),
              dow : Weekdays(f.dow)]

CronToDicts(f) ==
  IF /\ GoodValues(f.min, MINUTE) /\ GoodValues(f.hour, HOUR)
     /\ GoodValues(f.dom, DOM) /\ GoodValues(f.dow, DOW)
     /\ Len(f.min) * Len(f.hour) * Len(f.dom) * Len(f.dow) <= MaxEntries
  THEN <<"dicts", Combos(f)>>
  ELSE Refused

(* parse_formatted_calendar_interval: every entry has a key, and a weekday *)
(* ends at 6.                                                              *)
NoKeys == [min |-> {}, hour |-> {}, dom |-> {}, dow |-> {}]
GoodDict(d) == /\ d # NoKeys
               /\ \A n \in d.min : InBounds(n, MINUTE)
               /\ \A n \in d.hour : InBounds(n, HOUR)
               /\ \A n \in d.dom : InBounds(n, DOM)
               /\ \A n \in d.dow : InBounds(n, WEEKDAY)

-----------------------------------------------------------------------------
(* The writers                                                             *)
FieldsOf(text) == IF text[1] = "word" THEN AliasFields(text[2]) ELSE text[2]

(* interval_to_cron: only what divides the hour or the day.                *)
Stepped(n) == <<Part("*", 0, 0, n)>>
IntervalToCron(secs) ==
  LET minutes == secs \div SecondsPerMinute
      hours   == minutes \div MinutesPerHour
  IN CASE secs = 0 \/ secs % SecondsPerMinute # 0 -> Refused
       [] secs > 0 /\ secs % SecondsPerMinute = 0
            /\ minutes < MinutesPerHour /\ MinutesPerHour % minutes = 0 ->
            <<"fields", Fields(Stepped(minutes), Every, Every, Every)>>
       [] secs > 0 /\ secs % Hour = 0 /\ hours < HoursPerDay /\ HoursPerDay % hours = 0 ->
            <<"fields", Fields(<<One(0)>>, Stepped(hours), Every, Every)>>
       [] secs = Day -> <<"fields", Midnight(Every, Every)>>
       [] OTHER -> Refused

(* render_schedule; croner refuses what is out of bounds.                  *)
RenderCron(schedule) ==
  CASE schedule[1] = "Interval" -> IntervalToCron(schedule[2])
    [] schedule[1] = "Calendar" ->
         IF IsWord(schedule[2], CronAliases) THEN Lower(schedule[2]) ELSE Refused
    [] schedule[1] = "Cron" /\ schedule[2][1] = "word" ->
         IF IsWord(schedule[2], CronAliases) THEN schedule[2] ELSE Refused
    [] schedule[1] = "Cron" /\ schedule[2][1] # "word" ->
         IF GoodFields(schedule[2][2]) THEN schedule[2] ELSE Refused

(* timer_rule.  An expression goes to systemd as it is, which refuses what *)
(* is none.                                                                *)
RenderTimer(schedule) ==
  CASE schedule[1] = "Interval" ->
         IF schedule[2] > 0 THEN <<"interval", schedule[2], "s">> ELSE Refused
    [] schedule[1] = "Calendar" ->
         (CASE IsWord(schedule[2], DOMAIN CalendarAlias) ->
                 <<"calendar", Shorthand(CalendarAlias[Lower(schedule[2])[2]])>>
            [] schedule[2][1] = "calendar" -> schedule[2]
            [] OTHER -> Refused)
    [] schedule[1] = "Cron" -> CronToCalendar(schedule[2][2])

(* render_period *)
RenderPeriod(schedule) ==
  CASE schedule[1] = "Interval" ->
         IF schedule[2] > 0 /\ schedule[2] % Day = 0 THEN <<"number", schedule[2] \div Day>>
         ELSE Refused
    [] schedule[1] = "Calendar" /\ IsWord(schedule[2], AnacronAliases) -> Lower(schedule[2])
    [] OTHER -> Refused

(* schedule_entry *)
RenderPlist(schedule) ==
  CASE schedule[1] = "Interval" -> IF schedule[2] > 0 THEN <<"number", schedule[2]>> ELSE Refused
    [] schedule[1] = "Cron"     -> CronToDicts(schedule[2][2])
    [] schedule[1] = "Calendar" ->
         IF schedule[2][1] = "dicts" /\ \A d \in schedule[2][2] : GoodDict(d)
         THEN schedule[2] ELSE Refused

Render(source, schedule) ==
  CASE source = "cron"    -> RenderCron(schedule)
    [] source = "systemd" -> RenderTimer(schedule)
    [] source = "anacron" -> RenderPeriod(schedule)
    [] source = "launchd" -> RenderPlist(schedule)

-----------------------------------------------------------------------------
(* The readers                                                             *)

(* What systemd makes of seconds, the largest unit first; the units that   *)
(* would count 0 are not there.                                            *)
Displayed(secs) ==
  [months |-> secs >= LongSpan,
   w      |-> secs \div Week,
   d      |-> (secs % Week) \div Day,
   h      |-> (secs % Day) \div Hour,
   min    |-> (secs % Hour) \div SecondsPerMinute,
   s      |-> secs % SecondsPerMinute]

(* parse_systemd_duration: a unit it does not know, or 0 in all, is none.  *)
ParseDuration(shown) ==
  IF shown.months THEN 0
  ELSE shown.w * Week + shown.d * Day + shown.h * Hour + shown.min * SecondsPerMinute + shown.s

(* format_calendar_interval: a dictionary without a key leaves nothing.    *)
Format(dicts) == IF dicts = {NoKeys} THEN Empty ELSE <<"dicts", dicts>>

Read(source, disk) ==
  CASE source = "cron" -> <<"Cron", disk>>
    [] source = "systemd" /\ disk[1] = "interval" ->
         LET secs == ParseDuration(Displayed(disk[2]))
         IN IF secs > 0 THEN <<"Interval", secs>> ELSE <<"Calendar", Empty>>
    [] source = "systemd" /\ disk[1] # "interval" -> <<"Calendar", disk>>
    [] source = "anacron" /\ disk[1] = "number"   -> <<"Interval", (disk[2] * Day) % Width>>
    [] source = "anacron" /\ IsWord(disk, {"@daily"})  -> <<"Interval", Day>>
    [] source = "anacron" /\ IsWord(disk, {"@weekly"}) -> <<"Interval", Week>>
    [] source = "anacron" /\ IsWord(disk, {"@monthly"}) -> <<"Calendar", disk>>
    [] source = "launchd" /\ disk[1] = "number"   -> <<"Interval", disk[2]>>
    [] source = "launchd" /\ disk[1] = "dicts"    -> <<"Calendar", Format(disk[2])>>

(* A job that shuvjobs did not make may have several rules, and the list   *)
(* shows one: of a timer the first OnCalendar=, or else the first On...Sec= *)
(* it can tell, which it takes for a rhythm whatever its key says          *)
(* (apply_show, parse_show_timer, extract_monotonic_value); of a plist     *)
(* StartInterval before StartCalendarInterval (parse_plist).               *)
AsRhythm(rule) == IF rule[1] = "after" THEN <<"interval", rule[2], rule[3]>> ELSE rule
Told(rule) == rule[1] = "interval" /\ ParseDuration(Displayed(rule[2])) > 0

Chosen(source, rules) ==
  LET dates   == {i \in DOMAIN rules : rules[i][1] = "calendar"}
      rhythms == {i \in DOMAIN rules : Told(AsRhythm(rules[i]))}
      numbers == {i \in DOMAIN rules : rules[i][1] = "number"}
      first   == CASE source = "systemd" /\ dates # {}                   -> Min(dates)
                   [] source = "systemd" /\ dates = {} /\ rhythms # {} -> Min(rhythms)
                   [] source = "launchd" /\ numbers # {}                 -> Min(numbers)
                   [] OTHER                                              -> 1
  IN AsRhythm(rules[first])

(* schedule_text: what the edit form is filled with.                       *)
ScheduleText(schedule) ==
  IF schedule[1] = "Interval" THEN <<"interval", schedule[2], "s">> ELSE schedule[2]
=============================================================================
