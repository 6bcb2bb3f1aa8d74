------------------------------- MODULE Events -------------------------------
(***************************************************************************)
(* The timers behind one configured event (src/src/runner.c): lmapd_run    *)
(* arms start_event or fire_event, startup_cb and the trigger callbacks    *)
(* keep trigger_event going, and fire_event calls fire_cb after a random   *)
(* spread.  Events share nothing but the event loop and the STARTUPDONE    *)
(* flag, so one event is followed; the rest of the daemon shows as         *)
(* callbacks that run late and as other startup events.                    *)
(*                                                                         *)
(* Time is in whole seconds, of one clock that is never set.  A timer is   *)
(* the second it is due.  The configuration is a variable that never       *)
(* changes: Init picks any one that lmap_event_valid accepts.              *)
(***************************************************************************)
EXTENDS Integers

CONSTANTS
  Confs,         \* candidate configurations of the event
  Localtime(_),  \* localtime(): the broken-down time of a second
  MaxBoot,       \* the daemon is started in a second of 0..MaxBoot
  MaxTime,       \* bound on the clock
  MaxLate,       \* how many seconds late the loop may run a callback
  MaxReloads     \* bound on the number of SIGHUPs

None == -1       \* a NULL timer; an optional leaf that is not set
Time == Nat
Opt  == Nat \cup {None}

Type    == {"periodic", "calendar", "one-off", "immediate", "startup", "controller-lost"}
OneShot == {"one-off", "immediate", "startup"}
Weekday == {"monday", "tuesday", "wednesday", "thursday", "friday", "saturday", "sunday"}

(* The bit sets of struct event are sets; a wildcard is the full set.      *)
Calendar == [months : SUBSET Nat, days_of_month : SUBSET Nat, days_of_week : SUBSET Weekday,
             hours : SUBSET Nat, minutes : SUBSET Nat, seconds : SUBSET Nat]

(* starts: whether some schedule has it as start event.  timezone_offset:  *)
(* whether the leaf asks for another zone than the local one; it is parsed *)
(* and printed, and nothing below reads it.                                *)
Conf == [type : Type, interval : (Nat \ {0}) \cup {None}, start : Opt, end : Opt,
         spread : Opt, cal : Calendar, timezone_offset : BOOLEAN, starts : BOOLEAN]

ASSUME EventsAssumption ==
  /\ Confs \subseteq Conf
  /\ MaxBoot \in Nat /\ MaxTime \in Nat /\ MaxLate \in Nat /\ MaxReloads \in Nat

(* The C library: the days of the week of struct tm are 0..6.              *)
ASSUME LocaltimeAssumption == \A t \in 0..MaxTime : Localtime(t).tm_wday \in 0..6

VARIABLES
  conf,                                   \* the event's configuration
  now,                                    \* time()
  start_event, trigger_event, fire_event, \* the event's timers
  phase,                                  \* "reload" outside of the event loop, "run" in it
  startupDone, skipStartup,               \* flags of struct lmapd
  reloads,                                \* SIGHUPs handled
  fires,                                  \* how often fire_cb was called
  begun,                                  \* whether this startup event has started a schedule
  dropped,                                \* whether event_gaga found fire_event pending
  punctual,                               \* whether all timers were handled in their second
  matched                                 \* the last second a calendar event matched

timers  == <<start_event, trigger_event, fire_event>>
flags   == <<startupDone, skipStartup>>
history == <<fires, begun, dropped, punctual, matched>>
vars == <<conf, now, timers, phase, flags, reloads, history>>

-----------------------------------------------------------------------------
(* lmap_event_valid, with the mutant that takes a spread as large as the   *)
(* interval.                                                               *)

ValidUpTo(c, max) ==
  /\ c.type = "periodic" => c.interval # None /\ c.spread <= max
  /\ c.type = "calendar" => \A f \in DOMAIN c.cal : c.cal[f] # {}
  /\ c.type = "one-off" => c.start # None
  /\ c.start # None /\ c.end # None => c.start <= c.end

SpreadUpToInterval(c) == ValidUpTo(c, c.interval)

EventValid(c) == ValidUpTo(c, c.interval - 1)

(* lmap_event_add_day_of_week numbers the days from monday; struct tm      *)
(* numbers them from sunday.                                               *)
DayBit == [monday |-> 0, tuesday |-> 1, wednesday |-> 2, thursday |-> 3, friday |-> 4,
           saturday |-> 5, sunday |-> 6]

(* Mutant of LmapDay: the numbers of struct tm are used.                   *)
SundayFirst(wday) == wday

LmapDay(wday) == IF wday = 0 THEN 6 ELSE wday - 1

CalendarMatch(c, t) ==
  LET tm == Localtime(t)
  IN /\ tm.tm_mon \in c.cal.months
     /\ tm.tm_mday \in c.cal.days_of_month
     /\ \E d \in c.cal.days_of_week : DayBit[d] = LmapDay(tm.tm_wday)
     /\ tm.tm_hour \in c.cal.hours
     /\ tm.tm_min \in c.cal.minutes
     /\ tm.tm_sec \in c.cal.seconds

-----------------------------------------------------------------------------
Init ==
  /\ conf \in {c \in Confs : EventValid(c)}
  /\ now \in 0..MaxBoot
  /\ start_event = None /\ trigger_event = None /\ fire_event = None
  /\ phase = "reload"
  /\ startupDone = FALSE /\ skipStartup = FALSE /\ reloads = 0
  /\ fires = 0 /\ begun = FALSE /\ dropped = FALSE /\ punctual = TRUE /\ matched = None

(* rand_interval(0, random_spread), if the leaf is set.                    *)
Spread == 0..(IF conf.spread = None THEN 0 ELSE conf.spread)

(* Mutant of Ended: the flag that tells that there is an end is not set.   *)
NeverEnded == FALSE

Ended == conf.end # None /\ now > conf.end

(* Mutants of PeriodicStart: a start in the past is not provided for; the  *)
(* turn before now, not the one after it.                                  *)
SecondsToStart == IF conf.start = None THEN now ELSE conf.start - now
TurnBefore ==
  IF conf.start = None THEN now
  ELSE IF now > conf.start
  THEN conf.start + ((now - conf.start) \div conf.interval) * conf.interval
  ELSE conf.start

(* The second of the first trigger: start + n * interval, in the future    *)
(* when start is in the past.                                              *)
PeriodicStart ==
  IF conf.start = None THEN now
  ELSE IF now > conf.start
  THEN conf.start + ((now - conf.start) \div conf.interval + 1) * conf.interval
  ELSE conf.start

(* lmapd_run.  A past one-off time gives a negative timeout: the timer is  *)
(* due at once unless the spread moves it into the future.                 *)
LmapdRun ==
  /\ phase = "reload" /\ phase' = "run"
  /\ \/ /\ conf.type = "periodic" /\ ~Ended
        /\ start_event' = PeriodicStart /\ UNCHANGED fire_event
     \/ /\ conf.type = "calendar" /\ ~Ended
        /\ start_event' = now /\ UNCHANGED fire_event
     \/ /\ conf.type = "one-off" /\ ~(now < conf.start)
        /\ \E r \in Spread : fire_event' = conf.start + r
        /\ UNCHANGED start_event
     \/ /\ conf.type = "immediate" \/ (conf.type = "startup" /\ ~skipStartup)
        /\ \E r \in Spread : fire_event' = now + r
        /\ UNCHANGED start_event
     \/ /\ \/ conf.type \in {"periodic", "calendar"} /\ Ended
           \/ conf.type = "one-off" /\ now < conf.start
           \/ conf.type = "startup" /\ skipStartup
           \/ conf.type = "controller-lost"
        /\ UNCHANGED <<start_event, fire_event>>
  /\ UNCHANGED <<conf, now, trigger_event, flags, reloads, history>>

-----------------------------------------------------------------------------
(* libevent: of the timers that are due, the earliest is run first.        *)
Due(timer) ==
  /\ phase = "run" /\ timer # None /\ timer <= now
  /\ \A other \in {start_event, trigger_event, fire_event} : other # None => timer <= other

(* libevent: a persistent timer is added again before its callback runs;   *)
(* one that missed its next turn as well starts from now.                  *)
NextTurn == LET next == trigger_event + conf.interval
            IN IF next < now THEN now + conf.interval ELSE next

(* event_gaga for fire_event.                                              *)
ArmFire ==
  IF fire_event = None
  THEN (\E r \in Spread : fire_event' = now + r) /\ UNCHANGED dropped
  ELSE UNCHANGED fire_event /\ dropped' = TRUE

(* trigger_periodic_cb, with the timer set to its next turn.               *)
Periodic(next) ==
  IF Ended
  THEN trigger_event' = None /\ UNCHANGED <<fire_event, dropped>>
  ELSE trigger_event' = next /\ ArmFire

StartupCb ==
  /\ Due(start_event) /\ start_event' = None
  /\ \/ conf.type = "periodic" /\ Periodic(now + conf.interval)
     \/ conf.type = "calendar" /\ trigger_event' = now /\ UNCHANGED <<fire_event, dropped>>
  /\ UNCHANGED <<conf, now, phase, flags, reloads, fires, begun, punctual, matched>>

TriggerPeriodicCb ==
  /\ conf.type = "periodic" /\ Due(trigger_event)
  /\ Periodic(NextTurn)
  /\ UNCHANGED <<conf, now, start_event, phase, flags, reloads, fires, begun, punctual, matched>>

(* Mutant of Polled: no new timer when the current second does not match.  *)
PolledIfMatch(match) == IF match THEN now + 1 ELSE None

(* The calendar is looked at again a second later, match or not.           *)
Polled(match) == now + 1

(* localtime() is taken not to fail.                                       *)
TriggerCalendarCb ==
  LET match == CalendarMatch(conf, now)
  IN
  /\ conf.type = "calendar" /\ Due(trigger_event)
  /\ IF Ended
     THEN trigger_event' = None /\ UNCHANGED <<fire_event, dropped, matched>>
     ELSE /\ trigger_event' = Polled(match)
          /\ IF match THEN ArmFire /\ matched' = now
             ELSE UNCHANGED <<fire_event, dropped, matched>>
  /\ UNCHANGED <<conf, now, start_event, phase, flags, reloads, fires, begun, punctual>>

(* Mutant of FireDone: the timer is not reset.                             *)
FireKept == fire_event

FireDone == None

(* fire_cb; execute_cb sets STARTUPDONE when it starts a schedule, not if  *)
(* all it could start are disabled, suppressed or still running.           *)
FireCb ==
  /\ Due(fire_event) /\ fire_event' = FireDone
  /\ fires' = fires + 1
  /\ \E started \in {FALSE, conf.starts} :
       /\ startupDone' = (startupDone \/ (conf.type = "startup" /\ started))
       /\ begun' = (begun \/ (conf.type = "startup" /\ started))
  /\ UNCHANGED <<conf, now, start_event, trigger_event, phase, skipStartup, reloads, dropped,
                 punctual, matched>>

-----------------------------------------------------------------------------
(* Mutant of SkipAfter: lmapd_restart forgets that the startup is done.    *)
NeverSkip == FALSE

SkipAfter == skipStartup \/ startupDone

(* SIGHUP: lmapd_restart, and the end of lmapd_run.                        *)
Restart ==
  /\ phase = "run" /\ reloads < MaxReloads
  /\ phase' = "reload" /\ reloads' = reloads + 1
  /\ start_event' = None /\ trigger_event' = None /\ fire_event' = None
  /\ skipStartup' = SkipAfter
  /\ UNCHANGED <<conf, now, startupDone, history>>

(* Another startup event starts a schedule.                                *)
OtherStartup ==
  /\ phase = "run" /\ startupDone' = TRUE
  /\ UNCHANGED <<conf, now, timers, phase, skipStartup, reloads, history>>

Tick ==
  /\ now < MaxTime /\ now' = now + 1
  /\ \A timer \in {start_event, trigger_event, fire_event} :
        timer # None => now < timer + MaxLate
  /\ punctual' = (punctual /\ \A timer \in {start_event, trigger_event, fire_event} :
                                 timer # None => now < timer)
  /\ UNCHANGED <<conf, timers, phase, flags, reloads, fires, begun, dropped, matched>>

Next ==
  \/ LmapdRun \/ StartupCb \/ TriggerPeriodicCb \/ TriggerCalendarCb \/ FireCb
  \/ Restart \/ OtherStartup \/ Tick

Spec == Init /\ [][Next]_vars

-----------------------------------------------------------------------------
(* Properties                                                              *)

(* Types of the timers, flags and histories.                               *)
TypeOK ==
  /\ conf \in Conf /\ now \in Nat
  /\ start_event \in Opt /\ trigger_event \in Opt /\ fire_event \in Opt
  /\ phase \in {"run", "reload"}
  /\ startupDone \in BOOLEAN /\ skipStartup \in BOOLEAN /\ reloads \in Nat
  /\ fires \in Nat /\ begun \in BOOLEAN /\ dropped \in BOOLEAN /\ punctual \in BOOLEAN /\ matched \in Opt

(* A random spread smaller than the interval, which is what                *)
(* lmap_event_valid asks for, never makes a periodic event lose a trigger  *)
(* because the last one has not fired yet, as long as the event loop is on *)
(* time.                                                                   *)
NoTriggerDropped == conf.type = "periodic" /\ punctual => ~dropped

(* A periodic event with a start time fires in phase with it, within the   *)
(* random spread of start + n * interval for some n, wherever in time      *)
(* lmapd is started and reloaded.                                          *)
PeriodicOnGrid ==
  [][conf.type = "periodic" /\ conf.start # None /\ fires' # fires /\ punctual =>
       now >= conf.start /\ (now - conf.start) % conf.interval \in Spread]_vars

(* After its end time a repeated event fires only what it triggered before *)
(* and spread at random, or what the loop was late with.                   *)
QuietAfterEnd ==
  [][conf.type \in {"periodic", "calendar"} /\ conf.end # None /\ fires' # fires =>
       \E r \in Spread : now <= conf.end + r + MaxLate]_vars

(* A repeated event has a timer that leads to its next trigger as long as  *)
(* it has not ended, whatever was dropped or did not match.                *)
StaysArmed ==
  phase = "run" /\ conf.type \in {"periodic", "calendar"} =>
     start_event # None \/ trigger_event # None \/ Ended

(* The days as struct tm numbers them.                                     *)
TmDay == <<"sunday", "monday", "tuesday", "wednesday", "thursday", "friday", "saturday">>

Configured(t) ==
  LET tm == Localtime(t)
  IN /\ tm.tm_mon \in conf.cal.months /\ tm.tm_mday \in conf.cal.days_of_month
     /\ TmDay[tm.tm_wday + 1] \in conf.cal.days_of_week
     /\ tm.tm_hour \in conf.cal.hours
     /\ tm.tm_min \in conf.cal.minutes /\ tm.tm_sec \in conf.cal.seconds

(* When the clock leaves a second, a calendar event that was being polled  *)
(* has triggered in that second if it is one of those configured and not   *)
(* before the start time, and has not if it is none of those configured:   *)
(* polling once a second neither misses one nor invents one.  What         *)
(* trigger_calendar_cb does not look at is left open here and listed in    *)
(* the README: it triggers before the start time as well, where the data   *)
(* model says "starts to create triggers", and in local time for an event  *)
(* with a timezone-offset.                                                 *)
CalendarEverySecond ==
  [][conf.type = "calendar" /\ ~conf.timezone_offset
     /\ now' # now /\ trigger_event # None /\ ~Ended /\ punctual' =>
       /\ matched = now => Configured(now)
       /\ Configured(now) /\ conf.start <= now => matched = now]_vars

(* A startup event does not fire again, over any reloads, once it has      *)
(* started a schedule.  README.simet-lmap.md says more, that it triggers   *)
(* "just once (when LMAPD starts)": one whose schedules were all           *)
(* suppressed fires again after a reload, because STARTUPDONE is not set.  *)
StartupOnce == [][conf.type = "startup" /\ begun => fires' = fires]_vars

Source == INSTANCE EventSource WITH
  once <- conf.type \in OneShot,
  armed <- start_event # None \/ trigger_event # None \/ fire_event # None

(* The timers implement the event source the runner relies on: a one-shot  *)
(* event fires at most once each time lmapd_run arms it, and nothing fires *)
(* after a reload before it is armed again.                                *)
ImplementsSource == Source!SourceSpec

(* ietf-lmap-control: a one-off event "triggers once at the configured     *)
(* date and time": before that time, the timer is set.                     *)
OneOffPending ==
  phase = "run" /\ conf.type = "one-off" /\ now < conf.start => fire_event # None
=============================================================================
