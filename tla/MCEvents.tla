------------------------------ MODULE MCEvents ------------------------------
(***************************************************************************)
(* Configurations of Events for TLC: a calendar with days of four seconds, *)
(* a sunday and a monday of January and the tuesday that begins February.  *)
(***************************************************************************)
EXTENDS Events

MCLocaltime(t) ==
  [tm_sec |-> t % 2, tm_min |-> (t \div 2) % 2, tm_hour |-> 0,
   tm_mday |-> IF t < 8 THEN 30 + t \div 4 ELSE 1,
   tm_mon |-> IF t < 8 THEN 0 ELSE 1,
   tm_wday |-> t \div 4]

NoCalendar == [months |-> {}, days_of_month |-> {}, days_of_week |-> {}, hours |-> {},
               minutes |-> {}, seconds |-> {}]

Cal(days, seconds) ==
  [months |-> 0..11, days_of_month |-> 1..31, days_of_week |-> days, hours |-> 0..23,
   minutes |-> 0..59, seconds |-> seconds]

Of(type, interval, start, end, spread, cal, starts) ==
  [type |-> type, interval |-> interval, start |-> start, end |-> end, spread |-> spread,
   cal |-> cal, timezone_offset |-> FALSE, starts |-> starts]

PeriodicConfs ==
  {Of("periodic", i, s, e, r, NoCalendar, TRUE) :
     i \in 1..3, s \in {None, 0, 2, 4}, e \in {None, 3, 7}, r \in {None, 1, 2, 3}}
CalendarConfs ==
  {[Of("calendar", None, s, e, r, c, TRUE) EXCEPT !.timezone_offset = z] :
     s \in {None, 4}, e \in {None, 5}, r \in {None, 2}, z \in BOOLEAN,
     c \in {NoCalendar, Cal({"sunday"}, 0..59), Cal({"monday"}, {1}),
            [Cal(Weekday, 0..59) EXCEPT !.months = {1}],
            [Cal(Weekday, {0}) EXCEPT !.minutes = {1}]}}
OneShotConfs ==
  {Of(t, None, s, None, r, NoCalendar, st) :
     t \in {"one-off", "immediate", "startup", "controller-lost"},
     s \in {None, 1, 3}, r \in {None, 2}, st \in BOOLEAN}

AllConfs == PeriodicConfs \cup CalendarConfs \cup OneShotConfs
=============================================================================
