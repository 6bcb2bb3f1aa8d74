---------------------------- MODULE EventsProofs ----------------------------
(***************************************************************************)
(* Proofs about Events, for every configuration lmap_event_valid accepts,  *)
(* any lateness of the event loop and any number of reloads.               *)
(***************************************************************************)
EXTENDS Events, TLAPS

(* The configuration is a valid one; which timers can be set together.     *)
Shape ==
  /\ EventValid(conf)
  /\ phase = "reload" => start_event = None /\ trigger_event = None /\ fire_event = None
  /\ start_event # None => trigger_event = None /\ fire_event = None
  /\ start_event # None \/ trigger_event # None => conf.type \in {"periodic", "calendar"}

EInv == TypeOK /\ Shape

(* What the types of the fields of a configuration are.                    *)
LEMMA ConfTypes ==
  ASSUME conf \in Conf, EventValid(conf)
  PROVE  /\ conf.start \in Opt /\ conf.end \in Opt /\ conf.spread \in Opt
         /\ conf.type \in Type
         /\ conf.type = "periodic" => conf.interval \in Nat \ {0} /\ conf.spread < conf.interval
         /\ conf.type = "one-off" => conf.start \in Nat
         /\ Spread \in SUBSET Nat
<1>1. /\ conf.start \in Opt /\ conf.end \in Opt /\ conf.spread \in Opt /\ conf.type \in Type
      /\ conf.interval \in (Nat \ {0}) \cup {None}
  BY DEF Conf
<1>2. Spread \in SUBSET Nat
  BY <1>1 DEF Spread, Opt, None
<1> QED
  BY <1>1, <1>2 DEF EventValid, ValidUpTo, Opt, None

(* PeriodicStart is a second of the clock.                                 *)
LEMMA PeriodicStartType ==
  ASSUME conf \in Conf, EventValid(conf), now \in Nat, conf.type = "periodic"
  PROVE  PeriodicStart \in Nat
<1> DEFINE delta == (now - conf.start) \div conf.interval
<1>1. conf.start \in Opt /\ conf.interval \in Nat \ {0}
  BY ConfTypes
<1>2. CASE conf.start # None /\ now > conf.start
  <2>1. conf.start \in Nat /\ now - conf.start \in Nat
    BY <1>1, <1>2 DEF Opt
  <2>2. delta \in Nat
    BY <1>1, <2>1
  <2> HIDE DEF delta
  <2>3. (delta + 1) * conf.interval \in Nat
    BY <1>1, <2>2
  <2>4. PeriodicStart = conf.start + (delta + 1) * conf.interval
    BY <1>2 DEF PeriodicStart, delta
  <2> QED
    BY <2>1, <2>3, <2>4
<1>3. CASE ~(conf.start # None /\ now > conf.start)
  BY <1>1, <1>3 DEF PeriodicStart, Opt
<1> QED
  BY <1>2, <1>3

(* ArmFire sets fire_event to a second of the clock, if it is not set.     *)
LEMMA ArmFireType ==
  ASSUME TypeOK, EventValid(conf), ArmFire
  PROVE  /\ fire_event' \in Opt /\ dropped' \in BOOLEAN
         /\ fire_event' # None
<1>1. Spread \in SUBSET Nat /\ now \in Nat
  BY ConfTypes DEF TypeOK
<1>2. dropped' \in BOOLEAN
  BY DEF TypeOK, ArmFire
<1>3. CASE fire_event = None
  <2>1. PICK r \in Spread : fire_event' = now + r
    BY <1>3 DEF ArmFire
  <2>2. r \in Nat
    BY <1>1
  <2> QED
    BY <1>1, <1>2, <2>1, <2>2 DEF Opt, None
<1>4. CASE fire_event # None
  BY <1>2, <1>4 DEF ArmFire, TypeOK
<1> QED
  BY <1>1, <1>2, <1>3, <1>4 DEF Opt, None

(* The invariant is inductive.                                             *)
LEMMA EInvStep == EInv /\ [Next]_vars => EInv'
<1> SUFFICES ASSUME EInv, [Next]_vars PROVE EInv'
  OBVIOUS
<1> USE DEF EInv
<1>0. TypeOK /\ Shape /\ EventValid(conf) /\ conf \in Conf /\ now \in Nat
  BY DEF TypeOK, Shape
<1>1. CASE LmapdRun
  <2>1. start_event' \in Opt /\ fire_event' \in Opt
    BY <1>0, <1>1, ConfTypes, PeriodicStartType DEF LmapdRun, TypeOK, Opt, None
  <2>2. TypeOK'
    BY <1>0, <1>1, <2>1 DEF LmapdRun, TypeOK, flags, history
  <2>3. Shape'
    BY <1>0, <1>1 DEF LmapdRun, Shape, flags, history, EventValid, ValidUpTo
  <2> QED
    BY <2>2, <2>3
<1>2. CASE StartupCb
  <2>1. trigger_event' \in Opt /\ fire_event' \in Opt /\ dropped' \in BOOLEAN
    BY <1>0, <1>2, ConfTypes, ArmFireType DEF StartupCb, Periodic, TypeOK, Opt
  <2>2. TypeOK'
    BY <1>0, <1>2, <2>1 DEF StartupCb, Due, TypeOK, flags, Opt
  <2>3. Shape'
    BY <1>0, <1>2 DEF StartupCb, Due, Shape, flags, EventValid, ValidUpTo
  <2> QED
    BY <2>2, <2>3
<1>3. CASE TriggerPeriodicCb
  <2>1. conf.interval \in Nat \ {0} /\ trigger_event \in Nat
    BY <1>0, <1>3, ConfTypes DEF TriggerPeriodicCb, Due, TypeOK, Opt
  <2>2. trigger_event' \in Opt /\ fire_event' \in Opt /\ dropped' \in BOOLEAN
    BY <1>0, <1>3, <2>1, ArmFireType DEF TriggerPeriodicCb, Periodic, NextTurn, TypeOK, Opt
  <2>3. TypeOK'
    BY <1>0, <1>3, <2>2 DEF TriggerPeriodicCb, TypeOK, flags
  <2>4. Shape'
    BY <1>0, <1>3 DEF TriggerPeriodicCb, Due, Shape, flags, EventValid, ValidUpTo
  <2> QED
    BY <2>3, <2>4
<1>4. CASE TriggerCalendarCb
  <2>1. trigger_event' \in Opt /\ fire_event' \in Opt /\ dropped' \in BOOLEAN /\ matched' \in Opt
    BY <1>0, <1>4, ArmFireType DEF TriggerCalendarCb, Polled, TypeOK, Opt
  <2>2. TypeOK'
    BY <1>0, <1>4, <2>1 DEF TriggerCalendarCb, TypeOK, flags
  <2>3. Shape'
    BY <1>0, <1>4 DEF TriggerCalendarCb, Due, Shape, flags, EventValid, ValidUpTo
  <2> QED
    BY <2>2, <2>3
<1>5. CASE FireCb
  <2>1. TypeOK'
    BY <1>0, <1>5 DEF FireCb, FireDone, TypeOK, Opt
  <2>2. Shape'
    BY <1>0, <1>5 DEF FireCb, FireDone, Due, Shape, EventValid, ValidUpTo
  <2> QED
    BY <2>1, <2>2
<1>6. CASE Restart
  <2>1. TypeOK'
    BY <1>0, <1>6 DEF Restart, SkipAfter, TypeOK, Opt, history
  <2>2. Shape'
    BY <1>0, <1>6 DEF Restart, Shape, EventValid, ValidUpTo
  <2> QED
    BY <2>1, <2>2
<1>7. CASE OtherStartup
  BY <1>0, <1>7 DEF OtherStartup, TypeOK, Shape, timers, history, EventValid, ValidUpTo
<1>8. CASE Tick
  <2>1. TypeOK'
    BY <1>0, <1>8 DEF Tick, TypeOK, timers, flags
  <2>2. Shape'
    BY <1>0, <1>8 DEF Tick, Shape, timers, EventValid, ValidUpTo
  <2> QED
    BY <2>1, <2>2
<1>9. CASE UNCHANGED vars
  BY <1>0, <1>9 DEF vars, TypeOK, Shape, timers, flags, history, EventValid, ValidUpTo
<1> QED
  BY <1>1, <1>2, <1>3, <1>4, <1>5, <1>6, <1>7, <1>8, <1>9 DEF Next

(* It holds initially.                                                     *)
LEMMA EInvInit == Init => EInv
<1> SUFFICES ASSUME Init PROVE EInv
  OBVIOUS
<1>1. conf \in Conf /\ EventValid(conf)
  BY EventsAssumption DEF Init
<1>2. now \in Nat
  BY EventsAssumption DEF Init
<1> QED
  BY <1>1, <1>2 DEF Init, EInv, TypeOK, Shape, Opt

(* The timers, flags and histories of an event keep their types.           *)
THEOREM EventsTypeCorrect == Spec => []TypeOK
<1>1. Spec => []EInv
  BY EInvInit, EInvStep, PTL DEF Spec
<1>2. EInv => TypeOK
  BY DEF EInv
<1> QED
  BY <1>1, <1>2, PTL

-----------------------------------------------------------------------------
(* In a punctual loop, the pending fire timer of a periodic event is due   *)
(* before the next trigger; no timer is in the past.                       *)
FireFirst ==
  conf.type = "periodic" /\ punctual =>
     /\ ~dropped
     /\ trigger_event # None => trigger_event >= now
     /\ fire_event # None /\ trigger_event # None => fire_event < trigger_event

(* The configuration never changes.                                        *)
LEMMA ConfFixed == [Next]_vars => conf' = conf
<1> SUFFICES ASSUME [Next]_vars PROVE conf' = conf
  OBVIOUS
<1>1. CASE LmapdRun \/ StartupCb \/ TriggerPeriodicCb \/ TriggerCalendarCb
  BY <1>1 DEF LmapdRun, StartupCb, TriggerPeriodicCb, TriggerCalendarCb
<1>2. CASE FireCb \/ Restart \/ OtherStartup \/ Tick
  BY <1>2 DEF FireCb, Restart, OtherStartup, Tick
<1> QED
  BY <1>1, <1>2 DEF Next, vars

(* The trigger that is due finds no fire timer pending, and the next one   *)
(* is a whole interval away, which is more than the spread.                *)
LEMMA FireFirstStep == EInv /\ FireFirst /\ [Next]_vars => FireFirst'
<1> SUFFICES ASSUME EInv, FireFirst, [Next]_vars, conf.type = "periodic", punctual'
             PROVE  FireFirst'
  BY ConfFixed DEF FireFirst
<1>0. /\ TypeOK /\ Shape /\ EventValid(conf) /\ conf \in Conf /\ now \in Nat
      /\ trigger_event \in Opt /\ fire_event \in Opt /\ start_event \in Opt
      /\ punctual \in BOOLEAN /\ dropped \in BOOLEAN
  BY DEF EInv, TypeOK, Shape
<1>a. conf.interval \in Nat \ {0} /\ conf.spread \in Opt /\ conf.spread < conf.interval
  BY <1>0, ConfTypes
<1>b. \A r \in Spread : r \in Nat /\ r < conf.interval
  BY <1>a DEF Spread, Opt, None
<1>c. punctual
  BY <1>0, Zenon DEF Next, LmapdRun, StartupCb, TriggerPeriodicCb, TriggerCalendarCb, FireCb,
         Restart, OtherStartup, Tick, vars, history
<1>d. /\ ~dropped
      /\ trigger_event # None => trigger_event >= now
      /\ fire_event # None /\ trigger_event # None => fire_event < trigger_event
  BY <1>c DEF FireFirst
<1>1. CASE LmapdRun
  BY <1>0, <1>1, <1>d DEF LmapdRun, Shape, FireFirst, history
<1>2. CASE StartupCb
  <2>1. trigger_event = None /\ fire_event = None /\ now' = now /\ conf' = conf
    BY <1>0, <1>2 DEF StartupCb, Due, Shape
  <2>2. CASE Ended
    BY <1>2, <1>d, <2>1, <2>2 DEF StartupCb, Periodic, FireFirst
  <2>3. CASE ~Ended
    <3>1. trigger_event' = now + conf.interval /\ ArmFire
      BY <1>2, <2>3 DEF StartupCb, Periodic
    <3>2. PICK r \in Spread : fire_event' = now + r
      BY <2>1, <3>1 DEF ArmFire
    <3>3. dropped' = dropped /\ fire_event' < now + conf.interval
      BY <1>0, <1>a, <1>b, <2>1, <3>1, <3>2 DEF ArmFire
    <3> QED
      BY <1>0, <1>a, <1>d, <2>1, <3>1, <3>3 DEF FireFirst
  <2> QED
    BY <2>2, <2>3
<1>3. CASE TriggerPeriodicCb
  <2>1. trigger_event = now /\ fire_event = None /\ now' = now /\ conf' = conf
    BY <1>0, <1>3, <1>d DEF TriggerPeriodicCb, Due, Opt, None
  <2>2. CASE Ended
    BY <1>3, <1>d, <2>1, <2>2 DEF TriggerPeriodicCb, Periodic, FireFirst
  <2>3. CASE ~Ended
    <3>1. trigger_event' = now + conf.interval /\ ArmFire
      BY <1>0, <1>3, <1>a, <2>1, <2>3 DEF TriggerPeriodicCb, Periodic, NextTurn
    <3>2. PICK r \in Spread : fire_event' = now + r
      BY <2>1, <3>1 DEF ArmFire
    <3>3. dropped' = dropped /\ fire_event' < now + conf.interval
      BY <1>0, <1>a, <1>b, <2>1, <3>1, <3>2 DEF ArmFire
    <3> QED
      BY <1>0, <1>a, <1>d, <2>1, <3>1, <3>3 DEF FireFirst
  <2> QED
    BY <2>2, <2>3
<1>4. CASE TriggerCalendarCb
  BY <1>4 DEF TriggerCalendarCb
<1>5. CASE FireCb
  BY <1>0, <1>5, <1>d DEF FireCb, FireDone, FireFirst
<1>6. CASE Restart
  BY <1>6, <1>d DEF Restart, FireFirst, history
<1>7. CASE OtherStartup
  BY <1>7, <1>d DEF OtherStartup, FireFirst, timers, history
<1>8. CASE Tick
  <2>1. trigger_event # None => now < trigger_event
    BY <1>0, <1>8 DEF Tick
  <2> QED
    BY <1>0, <1>8, <1>d, <2>1 DEF Tick, FireFirst, timers, Opt
<1>9. CASE UNCHANGED vars
  BY <1>9, <1>d DEF vars, timers, history, FireFirst
<1> QED
  BY <1>1, <1>2, <1>3, <1>4, <1>5, <1>6, <1>7, <1>8, <1>9 DEF Next

(* No trigger of a periodic event that lmap_event_valid accepts is lost to *)
(* its own random spread, for any interval and spread, when the loop is on *)
(* time.                                                                   *)
THEOREM SpreadNeverDrops == Spec => []NoTriggerDropped
<1>1. Init => FireFirst
  BY DEF Init, FireFirst
<1>2. Spec => [](EInv /\ FireFirst)
  BY <1>1, EInvInit, EInvStep, FireFirstStep, PTL DEF Spec
<1>3. FireFirst => NoTriggerDropped
  BY DEF FireFirst, NoTriggerDropped
<1> QED
  BY <1>2, <1>3, PTL

-----------------------------------------------------------------------------
(* Every callback that uses up the timer of a repeated event sets the next *)
(* one, unless the event has ended.                                        *)
LEMMA StaysArmedStep == EInv /\ StaysArmed /\ [Next]_vars => StaysArmed'
<1> SUFFICES ASSUME EInv, StaysArmed, [Next]_vars PROVE StaysArmed'
  OBVIOUS
<1>0. /\ Shape /\ EventValid(conf) /\ conf \in Conf /\ now \in Nat
      /\ trigger_event \in Opt /\ conf.end \in Opt
  BY ConfTypes DEF EInv, TypeOK, Shape
<1>a. conf' = conf
  BY ConfFixed
<1>1. CASE LmapdRun
  <2>1. conf.type = "periodic" => PeriodicStart # None
    BY <1>0, PeriodicStartType DEF None
  <2> QED
    BY <1>0, <1>1, <1>a, <2>1 DEF LmapdRun, StaysArmed, Ended, None
<1>2. CASE StartupCb
  <2>1. conf.type = "periodic" => conf.interval \in Nat
    BY <1>0, ConfTypes
  <2> QED
    BY <1>0, <1>2, <1>a, <2>1 DEF StartupCb, Periodic, StaysArmed, Ended, None
<1>3. CASE TriggerPeriodicCb
  <2>1. conf.interval \in Nat /\ trigger_event \in Nat
    BY <1>0, <1>3, ConfTypes DEF TriggerPeriodicCb, Due, Opt
  <2> QED
    BY <1>0, <1>3, <1>a, <2>1 DEF TriggerPeriodicCb, Periodic, NextTurn, StaysArmed, Ended, None
<1>4. CASE TriggerCalendarCb
  BY <1>0, <1>4, <1>a DEF TriggerCalendarCb, Polled, StaysArmed, Ended, None
<1>5. CASE FireCb \/ OtherStartup
  BY <1>5, <1>a DEF FireCb, OtherStartup, StaysArmed, Ended, timers
<1>6. CASE Restart
  BY <1>6 DEF Restart, StaysArmed
<1>7. CASE Tick
  BY <1>0, <1>7, <1>a DEF Tick, StaysArmed, Ended, timers, Opt
<1>8. CASE UNCHANGED vars
  BY <1>8 DEF vars, timers, StaysArmed, Ended
<1> QED
  BY <1>1, <1>2, <1>3, <1>4, <1>5, <1>6, <1>7, <1>8 DEF Next

(* A repeated event is never silently lost: until its end it has a timer,  *)
(* whatever the loop's lateness, the spread and the calendar.              *)
THEOREM NeverLost == Spec => []StaysArmed
<1>1. Init => StaysArmed
  BY DEF Init, StaysArmed
<1> QED
  BY <1>1, EInvInit, EInvStep, StaysArmedStep, PTL DEF Spec

-----------------------------------------------------------------------------
(* Only fire_cb fires.                                                     *)
LEMMA FiresByFireCb == [Next]_vars /\ fires' # fires => FireCb
<1> SUFFICES ASSUME [Next]_vars, fires' # fires, ~FireCb PROVE FALSE
  OBVIOUS
<1>1. CASE LmapdRun \/ StartupCb \/ TriggerPeriodicCb \/ TriggerCalendarCb
  BY <1>1 DEF LmapdRun, StartupCb, TriggerPeriodicCb, TriggerCalendarCb, history
<1>2. CASE Restart \/ OtherStartup \/ Tick
  BY <1>2 DEF Restart, OtherStartup, Tick, history
<1> QED
  BY <1>1, <1>2 DEF Next, vars, history

(* A startup event that has started a schedule has left STARTUPDONE        *)
(* behind, which every reload turns into SKIPSTARTUP.                      *)
StartupInv ==
  conf.type = "startup" /\ begun =>
     /\ startupDone /\ fire_event = None
     /\ phase = "reload" => skipStartup

(* It is inductive.                                                        *)
LEMMA StartupStep == EInv /\ StartupInv /\ [Next]_vars => StartupInv'
<1> SUFFICES ASSUME EInv, StartupInv, [Next]_vars, conf.type = "startup" PROVE StartupInv'
  BY ConfFixed DEF StartupInv
<1>0. Shape
  BY DEF EInv
<1>1. CASE LmapdRun
  BY <1>0, <1>1 DEF LmapdRun, StartupInv, flags, history
<1>2. CASE StartupCb \/ TriggerPeriodicCb \/ TriggerCalendarCb
  BY <1>0, <1>2 DEF StartupCb, TriggerPeriodicCb, TriggerCalendarCb, Due, Shape
<1>3. CASE FireCb
  <2>1. ~begun
    BY <1>3 DEF FireCb, Due, StartupInv
  <2>2. fire_event' = None /\ phase' = "run" /\ (begun' => startupDone')
    BY <1>3, <2>1 DEF FireCb, FireDone, Due
  <2> QED
    BY <2>2 DEF StartupInv
<1>4. CASE Restart
  BY <1>0, <1>4 DEF Restart, SkipAfter, StartupInv, history
<1>5. CASE OtherStartup \/ Tick
  <2>1. CASE OtherStartup
    BY <1>0, <2>1 DEF OtherStartup, StartupInv, timers, history
  <2>2. CASE Tick
    BY <1>0, <2>2 DEF Tick, StartupInv, timers, flags
  <2> QED
    BY <1>5, <2>1, <2>2
<1>6. CASE UNCHANGED vars
  BY <1>6 DEF vars, StartupInv, timers, flags, history
<1> QED
  BY <1>1, <1>2, <1>3, <1>4, <1>5, <1>6 DEF Next

(* A startup event that has started a schedule never fires again in the    *)
(* life of the daemon, for any number of reloads at any moment and any     *)
(* schedules that were suppressed or running when it fired before.         *)
THEOREM StartupFiresOnce == Spec => StartupOnce
<1>1. Init => StartupInv
  BY DEF Init, StartupInv
<1>2. Spec => [](EInv /\ StartupInv)
  BY <1>1, EInvInit, EInvStep, StartupStep, PTL DEF Spec
<1>3. StartupInv /\ [Next]_vars => [conf.type = "startup" /\ begun => fires' = fires]_vars
  BY FiresByFireCb DEF StartupInv, FireCb, Due
<1> QED
  BY <1>2, <1>3, PTL DEF Spec, StartupOnce

-----------------------------------------------------------------------------
(* Whether some timer of the event is set: the abstract "armed".           *)
Armed == start_event # None \/ trigger_event # None \/ fire_event # None

(* Every step arms the source, disarms it, lets it fire, or changes        *)
(* nothing of it.                                                          *)
LEMMA SourceStep == EInv /\ [Next]_vars => [Source!SourceNext]_(Source!sourceVars)
<1> SUFFICES ASSUME EInv, [Next]_vars PROVE [Source!SourceNext]_(Source!sourceVars)
  OBVIOUS
<1> USE DEF Source!SourceNext, Source!sourceVars, Source!Enable, Source!Disable, Source!Occur
<1>0. Shape /\ fires \in Nat
  BY DEF EInv, TypeOK
<1>a. conf' = conf
  BY ConfFixed
<1>1. CASE LmapdRun
  BY <1>0, <1>1, <1>a DEF LmapdRun, Shape, history
<1>2. CASE StartupCb \/ TriggerPeriodicCb \/ TriggerCalendarCb
  <2>1. Armed /\ fires' = fires
    BY <1>2 DEF StartupCb, TriggerPeriodicCb, TriggerCalendarCb, Due, Armed
  <2> QED
    BY <1>a, <2>1 DEF Armed
<1>3. CASE FireCb
  BY <1>0, <1>3, <1>a DEF FireCb, FireDone, Due, Shape, OneShot
<1>4. CASE Restart
  BY <1>4, <1>a DEF Restart, history
<1>5. CASE OtherStartup
  BY <1>5 DEF OtherStartup, timers, history
<1>6. CASE Tick
  BY <1>6 DEF Tick, timers
<1>7. CASE UNCHANGED vars
  BY <1>7 DEF vars, timers, history
<1> QED
  BY <1>1, <1>2, <1>3, <1>4, <1>5, <1>6, <1>7 DEF Next

(* The timers implement the event source Runner relies on.                 *)
THEOREM TimersImplementSource == Spec => ImplementsSource
<1>1. Init => Source!SourceInit
  BY DEF Init, Source!SourceInit
<1>2. Spec => []EInv
  BY EInvInit, EInvStep, PTL DEF Spec
<1> QED
  BY <1>1, <1>2, SourceStep, PTL DEF Spec, ImplementsSource, Source!SourceSpec

-----------------------------------------------------------------------------
(* A pending fire timer of a repeated event was set before the end, and    *)
(* the loop is not later than MaxLate with it.                             *)
FireInTime ==
  conf.type \in {"periodic", "calendar"} /\ fire_event # None =>
     /\ now <= fire_event + MaxLate
     /\ conf.end # None => \E r \in Spread : fire_event <= conf.end + r

(* A fire timer that is set by a trigger before the end.                   *)
LEMMA ArmFireInTime ==
  ASSUME EInv, FireInTime, ArmFire, ~Ended, conf' = conf, now' = now,
         conf.type \in {"periodic", "calendar"}
  PROVE  FireInTime'
<1>0. /\ now \in Nat /\ conf.end \in Opt /\ Spread \in SUBSET Nat /\ fire_event \in Opt
      /\ MaxLate \in Nat
  BY ConfTypes, EventsAssumption DEF EInv, TypeOK, Shape
<1>a. Spread' = Spread
  BY DEF Spread
<1>1. CASE fire_event = None
  <2>1. PICK r \in Spread : fire_event' = now + r
    BY <1>1 DEF ArmFire
  <2>2. r \in Nat
    BY <1>0
  <2>3. now <= fire_event' + MaxLate
    BY <1>0, <2>1, <2>2
  <2>4. conf.end # None => fire_event' <= conf.end + r
    BY <1>0, <2>1, <2>2 DEF Ended, Opt
  <2> QED
    BY <1>a, <2>3, <2>4 DEF FireInTime
<1>2. CASE fire_event # None
  BY <1>2, <1>a DEF ArmFire, FireInTime
<1> QED
  BY <1>1, <1>2

(* It is inductive: a trigger after the end sets no fire timer, and the    *)
(* clock waits for a timer that is MaxLate late.                           *)
LEMMA FireInTimeStep == EInv /\ FireInTime /\ [Next]_vars => FireInTime'
<1> SUFFICES ASSUME EInv, FireInTime, [Next]_vars, conf.type \in {"periodic", "calendar"}
             PROVE  FireInTime'
  BY ConfFixed DEF FireInTime
<1>0. now \in Nat /\ fire_event \in Opt /\ MaxLate \in Nat
  BY EventsAssumption DEF EInv, TypeOK
<1>a. conf' = conf /\ Spread' = Spread
  BY ConfFixed DEF Spread
<1>1. CASE UNCHANGED <<now, fire_event>>
  BY <1>1, <1>a DEF FireInTime
<1>2. CASE LmapdRun
  BY <1>1, <1>2 DEF LmapdRun
<1>3. CASE StartupCb
  BY <1>1, <1>3, <1>a, ArmFireInTime DEF StartupCb, Periodic
<1>4. CASE TriggerPeriodicCb
  BY <1>1, <1>4, <1>a, ArmFireInTime DEF TriggerPeriodicCb, Periodic
<1>5. CASE TriggerCalendarCb
  BY <1>1, <1>5, <1>a, ArmFireInTime DEF TriggerCalendarCb
<1>6. CASE FireCb \/ Restart
  BY <1>6 DEF FireCb, FireDone, Restart, FireInTime
<1>7. CASE OtherStartup
  BY <1>1, <1>7 DEF OtherStartup, timers
<1>8. CASE Tick
  <2>1. fire_event' = fire_event /\ now' = now + 1
    BY <1>8 DEF Tick, timers
  <2>2. fire_event # None => now < fire_event + MaxLate
    BY <1>8 DEF Tick
  <2>3. fire_event # None => now' <= fire_event + MaxLate
    BY <1>0, <2>1, <2>2 DEF Opt
  <2> QED
    BY <1>a, <2>1, <2>3 DEF FireInTime
<1>9. CASE UNCHANGED vars
  BY <1>1, <1>9 DEF vars, timers
<1> QED
  BY <1>2, <1>3, <1>4, <1>5, <1>6, <1>7, <1>8, <1>9 DEF Next

(* A repeated event is quiet after its end, but for what the random spread *)
(* and the lateness of the loop leave over, for any end, spread, lateness  *)
(* and any reloads.                                                        *)
THEOREM EndIsKept == Spec => QuietAfterEnd
<1>1. Init => FireInTime
  BY DEF Init, FireInTime
<1>2. Spec => [](EInv /\ FireInTime)
  BY <1>1, EInvInit, EInvStep, FireInTimeStep, PTL DEF Spec
<1>3. EInv /\ FireInTime /\ [Next]_vars =>
        [conf.type \in {"periodic", "calendar"} /\ conf.end # None /\ fires' # fires =>
           \E r \in Spread : now <= conf.end + r + MaxLate]_vars
  <2> SUFFICES ASSUME EInv, FireInTime, [Next]_vars, fires' # fires, conf.end # None,
                      conf.type \in {"periodic", "calendar"}
               PROVE  \E r \in Spread : now <= conf.end + r + MaxLate
    OBVIOUS
  <2>0. /\ now \in Nat /\ conf.end \in Nat /\ Spread \in SUBSET Nat /\ fire_event \in Opt
        /\ MaxLate \in Nat
    BY ConfTypes, EventsAssumption DEF EInv, TypeOK, Shape, Opt
  <2>1. fire_event # None
    BY FiresByFireCb DEF FireCb, Due
  <2>2. now <= fire_event + MaxLate
    BY <2>1 DEF FireInTime
  <2>3. PICK r \in Spread : fire_event <= conf.end + r
    BY <2>1 DEF FireInTime
  <2>4. r \in Nat /\ fire_event \in Nat
    BY <2>0, <2>1 DEF Opt
  <2>5. now <= conf.end + r + MaxLate
    BY <2>0, <2>2, <2>3, <2>4
  <2> QED
    BY <2>5
<1> QED
  BY <1>2, <1>3, PTL DEF Spec, QuietAfterEnd

-----------------------------------------------------------------------------
(* A turn of a periodic event with a start time.                           *)
OnGrid(t) == \E n \in Nat : t = conf.start + n * conf.interval

(* In a punctual loop the timers of such an event are not in the past;     *)
(* they are due at turns of it, fire_event within the spread of one.       *)
TimersOnGrid ==
  conf.type = "periodic" /\ conf.start # None /\ punctual =>
     /\ start_event # None => start_event >= now /\ OnGrid(start_event)
     /\ trigger_event # None => trigger_event >= now /\ OnGrid(trigger_event)
     /\ fire_event # None =>
          fire_event >= now /\ \E t \in Nat, r \in Spread : OnGrid(t) /\ fire_event = t + r

(* The remainder of a number of whole intervals and a bit less than one.   *)
LEMMA Remainder ==
  ASSUME NEW i \in Nat \ {0}, NEW n \in Nat, NEW r \in Nat, r < i
  PROVE  (n * i + r) % i = r
<1> DEFINE x == n * i + r
           q == x \div i
           m == x % i
<1>1. x \in Int /\ n * i \in Nat
  OBVIOUS
<1>2. q \in Int /\ m \in 0..(i - 1) /\ x = i * q + m
  BY <1>1
<1>3. (n - q) * i = m - r
  <2>1. x = n * i + r
    OBVIOUS
  <2> HIDE DEF x, q, m
  <2> QED
    BY <1>1, <1>2, <2>1
<1> HIDE DEF x, q, m
<1>4. n - q < 1
  <2> SUFFICES ASSUME n - q >= 1 PROVE FALSE
    BY <1>2
  <2>1. (n - q) * i >= i
    BY <1>2
  <2> QED
    BY <1>2, <1>3, <2>1
<1>5. n - q > -1
  <2> SUFFICES ASSUME n - q <= -1 PROVE FALSE
    BY <1>2
  <2>1. (n - q) * i <= -i
    BY <1>2
  <2> QED
    BY <1>2, <1>3, <2>1
<1>6. n = q
  BY <1>2, <1>4, <1>5
<1>7. m = r
  BY <1>2, <1>3, <1>6
<1> QED
  BY <1>7 DEF m, x

(* One more interval.                                                      *)
LEMMA OneMore ==
  ASSUME NEW n \in Nat, NEW i \in Nat
  PROVE  (n + 1) * i = i * n + i
OBVIOUS

(* The first trigger is a turn that is not in the past.                    *)
LEMMA PeriodicStartOnGrid ==
  ASSUME conf \in Conf, EventValid(conf), now \in Nat, conf.type = "periodic",
         conf.start # None
  PROVE  PeriodicStart >= now /\ OnGrid(PeriodicStart)
<1> DEFINE delta == (now - conf.start) \div conf.interval
<1>1. conf.start \in Nat /\ conf.interval \in Nat \ {0}
  BY ConfTypes DEF Opt
<1>2. CASE now > conf.start
  <2>1. now - conf.start \in Nat
    BY <1>1, <1>2
  <2>2. /\ delta \in Nat
        /\ now - conf.start < conf.interval * delta + conf.interval
    BY <1>1, <2>1
  <2>3. PeriodicStart = conf.start + (delta + 1) * conf.interval
    BY <1>2 DEF PeriodicStart
  <2> HIDE DEF delta
  <2>4. (delta + 1) * conf.interval = conf.interval * delta + conf.interval
    BY <1>1, <2>2, OneMore
  <2>5. PeriodicStart >= now
    BY <1>1, <2>2, <2>3, <2>4
  <2> QED
    BY <2>2, <2>3, <2>5 DEF OnGrid
<1>3. CASE ~(now > conf.start)
  <2>1. PeriodicStart = conf.start
    BY <1>3 DEF PeriodicStart
  <2>2. conf.start = conf.start + 0 * conf.interval
    BY <1>1
  <2> QED
    BY <1>1, <1>3, <2>1, <2>2 DEF OnGrid
<1> QED
  BY <1>2, <1>3

(* The turn after a turn is one.                                           *)
LEMMA NextOnGrid ==
  ASSUME conf.start \in Nat, conf.interval \in Nat \ {0}, NEW t, OnGrid(t)
  PROVE  t \in Nat /\ OnGrid(t + conf.interval)
<1>1. PICK n \in Nat : t = conf.start + n * conf.interval
  BY DEF OnGrid
<1>2. n * conf.interval \in Nat /\ n + 1 \in Nat
  OBVIOUS
<1>3. t + conf.interval = conf.start + (n + 1) * conf.interval
  BY <1>1, <1>2
<1> QED
  BY <1>1, <1>2, <1>3 DEF OnGrid

(* What a trigger at a turn leaves: the next turn and, within the spread   *)
(* of this one, the fire timer.                                            *)
LEMMA PeriodicKeepsGrid ==
  ASSUME EInv, conf.type = "periodic", conf.start # None, OnGrid(now), fire_event = None,
         Periodic(now + conf.interval), conf' = conf, now' = now, start_event' = None
  PROVE  TimersOnGrid'
<1>0. /\ now \in Nat /\ conf.start \in Nat /\ conf.interval \in Nat \ {0}
      /\ Spread \in SUBSET Nat
  BY ConfTypes DEF EInv, TypeOK, Shape, Opt
<1>a. Spread' = Spread /\ \A t : OnGrid(t)' <=> OnGrid(t)
  BY DEF Spread, OnGrid
<1>1. CASE Ended
  BY <1>1 DEF Periodic, TimersOnGrid
<1>2. CASE ~Ended
  <2>1. trigger_event' = now + conf.interval /\ ArmFire
    BY <1>2 DEF Periodic
  <2>2. trigger_event' >= now /\ OnGrid(now + conf.interval)
    BY <1>0, <2>1, NextOnGrid
  <2>3. PICK r \in Spread : fire_event' = now + r
    BY <2>1 DEF ArmFire
  <2>4. fire_event' >= now
    BY <1>0, <2>3
  <2> QED
    BY <1>0, <1>a, <2>1, <2>2, <2>3, <2>4 DEF TimersOnGrid
<1> QED
  BY <1>1, <1>2

(* A timer that is due in a punctual loop is due now.                      *)
LEMMA TimersOnGridStep == EInv /\ FireFirst /\ TimersOnGrid /\ [Next]_vars => TimersOnGrid'
<1> SUFFICES ASSUME EInv, FireFirst, TimersOnGrid, [Next]_vars, conf.type = "periodic",
                    conf.start # None, punctual'
             PROVE  TimersOnGrid'
  BY ConfFixed DEF TimersOnGrid
<1>0. /\ Shape /\ EventValid(conf) /\ conf \in Conf /\ now \in Nat /\ punctual \in BOOLEAN
      /\ start_event \in Opt /\ trigger_event \in Opt /\ fire_event \in Opt
      /\ conf.start \in Nat /\ conf.interval \in Nat \ {0}
  BY ConfTypes DEF EInv, TypeOK, Shape, Opt
<1>a. conf' = conf /\ Spread' = Spread /\ \A t : OnGrid(t)' <=> OnGrid(t)
  BY ConfFixed DEF Spread, OnGrid
<1>b. punctual
  BY <1>0, Zenon DEF Next, LmapdRun, StartupCb, TriggerPeriodicCb, TriggerCalendarCb, FireCb,
         Restart, OtherStartup, Tick, vars, history
<1>c. /\ start_event # None => start_event >= now /\ OnGrid(start_event)
      /\ trigger_event # None => trigger_event >= now /\ OnGrid(trigger_event)
      /\ fire_event # None =>
           fire_event >= now /\ \E t \in Nat, r \in Spread : OnGrid(t) /\ fire_event = t + r
  BY <1>b DEF TimersOnGrid
<1>1. CASE UNCHANGED <<timers, now>>
  BY <1>1, <1>a, <1>c DEF TimersOnGrid, timers
<1>2. CASE LmapdRun
  <2>1. start_event' = None \/ start_event' = PeriodicStart
    BY <1>0, <1>2 DEF LmapdRun, Shape
  <2>2. trigger_event' = None /\ fire_event' = None /\ now' = now
    BY <1>0, <1>2 DEF LmapdRun, Shape
  <2>3. PeriodicStart >= now /\ OnGrid(PeriodicStart)
    BY <1>0, PeriodicStartOnGrid
  <2> QED
    BY <1>a, <2>1, <2>2, <2>3 DEF TimersOnGrid
<1>3. CASE StartupCb
  <2>1. start_event = now /\ fire_event = None
    BY <1>0, <1>3, <1>c DEF StartupCb, Due, Shape, Opt
  <2>2. /\ now' = now /\ start_event' = None /\ OnGrid(now)
        /\ Periodic(now + conf.interval)
    BY <1>3, <1>0, <1>c, <2>1 DEF StartupCb, Due
  <2> QED
    BY <1>a, <2>1, <2>2, PeriodicKeepsGrid
<1>4. CASE TriggerPeriodicCb
  <2>1. trigger_event = now /\ start_event = None /\ now' = now /\ start_event' = None
    BY <1>0, <1>4, <1>c DEF TriggerPeriodicCb, Due, Shape, Opt
  <2>2. fire_event = None
    BY <1>0, <1>4, <1>b, <1>c, <2>1 DEF TriggerPeriodicCb, Due, FireFirst, Opt, None
  <2>3. NextTurn = now + conf.interval
    BY <1>0, <2>1 DEF NextTurn
  <2>4. OnGrid(now) /\ Periodic(now + conf.interval)
    BY <1>0, <1>4, <1>c, <2>1, <2>3 DEF TriggerPeriodicCb, None
  <2> QED
    BY <1>a, <2>1, <2>2, <2>4, PeriodicKeepsGrid
<1>5. CASE TriggerCalendarCb
  BY <1>5 DEF TriggerCalendarCb
<1>6. CASE FireCb
  BY <1>6, <1>a, <1>c DEF FireCb, FireDone, TimersOnGrid
<1>7. CASE Restart
  BY <1>7 DEF Restart, TimersOnGrid
<1>8. CASE OtherStartup
  BY <1>1, <1>8 DEF OtherStartup
<1>9. CASE Tick
  <2>1. UNCHANGED timers /\ now' = now + 1
    BY <1>9 DEF Tick
  <2>2. \A timer \in {start_event, trigger_event, fire_event} : timer # None => now < timer
    BY <1>0, <1>9 DEF Tick
  <2>3. \A timer \in {start_event, trigger_event, fire_event} : timer # None => timer >= now'
    BY <1>0, <2>1, <2>2 DEF Opt
  <2> QED
    BY <1>a, <1>c, <2>1, <2>3 DEF TimersOnGrid, timers
<1>10. CASE UNCHANGED vars
  BY <1>1, <1>10 DEF vars
<1> QED
  BY <1>2, <1>3, <1>4, <1>5, <1>6, <1>7, <1>8, <1>9, <1>10 DEF Next

(* A periodic event with a start time fires in phase with it for any       *)
(* start, interval and spread, and wherever in time lmapd is started and   *)
(* reloaded, when the loop is on time.                                     *)
THEOREM FiresOnGrid == Spec => PeriodicOnGrid
<1>1. Init => FireFirst /\ TimersOnGrid
  BY DEF Init, FireFirst, TimersOnGrid
<1>2. Spec => [](EInv /\ FireFirst /\ TimersOnGrid)
  BY <1>1, EInvInit, EInvStep, FireFirstStep, TimersOnGridStep, PTL DEF Spec
<1>3. EInv /\ TimersOnGrid /\ [Next]_vars =>
        [conf.type = "periodic" /\ conf.start # None /\ fires' # fires /\ punctual =>
           now >= conf.start /\ (now - conf.start) % conf.interval \in Spread]_vars
  <2> SUFFICES ASSUME EInv, TimersOnGrid, [Next]_vars, conf.type = "periodic",
                      conf.start # None, fires' # fires, punctual
               PROVE  now >= conf.start /\ (now - conf.start) % conf.interval \in Spread
    OBVIOUS
  <2>0. /\ now \in Nat /\ fire_event \in Opt /\ Spread \in SUBSET Nat
        /\ conf.start \in Nat /\ conf.interval \in Nat \ {0} /\ conf.spread \in Opt
        /\ conf.spread < conf.interval
    BY ConfTypes DEF EInv, TypeOK, Shape, Opt
  <2>1. fire_event # None /\ fire_event <= now
    BY FiresByFireCb DEF FireCb, Due
  <2>2. fire_event >= now
    BY <2>1 DEF TimersOnGrid
  <2>3. PICK t \in Nat, r \in Spread : OnGrid(t) /\ fire_event = t + r
    BY <2>1 DEF TimersOnGrid
  <2>4. PICK n \in Nat : t = conf.start + n * conf.interval
    BY <2>3 DEF OnGrid
  <2>5. r \in Nat /\ r < conf.interval
    BY <2>0 DEF Spread, Opt, None
  <2>6. n * conf.interval \in Nat
    BY <2>0
  <2>7. now - conf.start = n * conf.interval + r /\ now >= conf.start
    BY <2>0, <2>1, <2>2, <2>3, <2>4, <2>5, <2>6 DEF Opt
  <2>8. (n * conf.interval + r) % conf.interval = r
    BY <2>0, <2>5, Remainder
  <2> QED
    BY <2>7, <2>8
<1> QED
  BY <1>2, <1>3, PTL DEF Spec, PeriodicOnGrid

-----------------------------------------------------------------------------
(* The renumbering of the days in lmap_event_calendar_match finds the day  *)
(* that lmap_event_add_day_of_week filed under its own number.             *)
LEMMA CalendarMatchMeaning ==
  ASSUME conf \in Conf, NEW t \in 0..MaxTime
  PROVE  CalendarMatch(conf, t) <=> Configured(t)
<1> DEFINE wday == Localtime(t).tm_wday
           days == conf.cal.days_of_week
<1>1. wday \in 0..6
  BY LocaltimeAssumption
<1>2. days \in SUBSET Weekday
  BY DEF Conf, Calendar
<1> HIDE DEF wday, days
<1>3. \A d \in Weekday : DayBit[d] = LmapDay(wday) <=> d = TmDay[wday + 1]
  <2>1. CASE wday \in {0, 1, 2, 3}
    BY <2>1 DEF Weekday, DayBit, LmapDay, TmDay
  <2>2. CASE wday \in {4, 5, 6}
    BY <2>2 DEF Weekday, DayBit, LmapDay, TmDay
  <2> QED
    BY <1>1, <2>1, <2>2
<1>4. TmDay[wday + 1] \in Weekday
  BY <1>1 DEF TmDay, Weekday
<1>5. (\E d \in days : DayBit[d] = LmapDay(wday)) <=> TmDay[wday + 1] \in days
  BY <1>2, <1>3, <1>4
<1> QED
  BY <1>5 DEF CalendarMatch, Configured, wday, days

(* A calendar event is polled in this second or has been; only a match is  *)
(* recorded, and in a punctual loop every match is.                        *)
PolledEachSecond ==
  conf.type = "calendar" =>
     /\ matched <= now
     /\ matched = now => CalendarMatch(conf, now)
     /\ punctual /\ trigger_event # None =>
          \/ trigger_event = now
          \/ trigger_event = now + 1 /\ (CalendarMatch(conf, now) => matched = now)

(* It is inductive.                                                        *)
LEMMA PolledStep == EInv /\ PolledEachSecond /\ [Next]_vars => PolledEachSecond'
<1> SUFFICES ASSUME EInv, PolledEachSecond, [Next]_vars, conf.type = "calendar"
             PROVE  PolledEachSecond'
  BY ConfFixed DEF PolledEachSecond
<1>0. /\ now \in Nat /\ matched \in Opt /\ trigger_event \in Opt /\ punctual \in BOOLEAN
  BY DEF EInv, TypeOK
<1>a. conf' = conf
  BY ConfFixed
<1>b. \A t : CalendarMatch(conf, t)' <=> CalendarMatch(conf, t)
  BY <1>a DEF CalendarMatch
<1>1. CASE UNCHANGED <<trigger_event, now, matched, punctual>>
  BY <1>1, <1>a DEF PolledEachSecond, CalendarMatch
<1>2. CASE LmapdRun \/ FireCb \/ OtherStartup
  BY <1>1, <1>2 DEF LmapdRun, FireCb, OtherStartup, timers, history
<1>3. CASE StartupCb
  BY <1>0, <1>3, <1>a DEF StartupCb, PolledEachSecond, CalendarMatch
<1>4. CASE TriggerPeriodicCb
  BY <1>4 DEF TriggerPeriodicCb
<1>5. CASE TriggerCalendarCb
  <2>1. now' = now /\ punctual' = punctual
    BY <1>5 DEF TriggerCalendarCb
  <2>2. CASE Ended
    BY <1>5, <1>a, <2>1, <2>2 DEF TriggerCalendarCb, PolledEachSecond, CalendarMatch
  <2>3. CASE ~Ended /\ CalendarMatch(conf, now)
    BY <1>0, <1>5, <1>a, <2>1, <2>3 DEF TriggerCalendarCb, Polled, PolledEachSecond, CalendarMatch
  <2>4. CASE ~Ended /\ ~CalendarMatch(conf, now)
    <3>1. trigger_event' = now + 1 /\ matched' = matched
      BY <1>5, <2>4 DEF TriggerCalendarCb, Polled
    <3> QED
      BY <1>a, <2>1, <2>4, <3>1 DEF PolledEachSecond, CalendarMatch
  <2> QED
    BY <2>2, <2>3, <2>4
<1>6. CASE Restart
  BY <1>6, <1>a DEF Restart, PolledEachSecond, CalendarMatch, history
<1>7. CASE Tick
  <2>1. now' = now + 1 /\ matched' = matched /\ trigger_event' = trigger_event
    BY <1>7 DEF Tick, timers
  <2>2. matched <= now
    BY DEF PolledEachSecond
  <2>3. matched' <= now' /\ matched' # now'
    BY <1>0, <2>1, <2>2 DEF Opt, None
  <2>4. ASSUME punctual', trigger_event # None PROVE trigger_event' = now'
    <3>1. punctual /\ now < trigger_event
      BY <1>0, <1>7, <2>4 DEF Tick
    <3>2. trigger_event = now \/ trigger_event = now + 1
      BY <2>4, <3>1 DEF PolledEachSecond
    <3> QED
      BY <1>0, <2>1, <3>1, <3>2
  <2> QED
    BY <2>1, <2>3, <2>4 DEF PolledEachSecond
<1>8. CASE UNCHANGED vars
  BY <1>1, <1>8 DEF vars, timers, history
<1> QED
  BY <1>2, <1>3, <1>4, <1>5, <1>6, <1>7, <1>8 DEF Next

(* Polling once a second neither misses a configured second after the      *)
(* start time nor invents one, for any calendar without a timezone-offset, *)
(* any C library that numbers the days from sunday and any reloads, when   *)
(* the loop is on time.                                                    *)
THEOREM CalendarIsPolled == Spec => CalendarEverySecond
<1>1. Init => PolledEachSecond
  BY EInvInit DEF Init, PolledEachSecond, EInv, TypeOK, None
<1>2. Spec => [](EInv /\ PolledEachSecond)
  BY <1>1, EInvInit, EInvStep, PolledStep, PTL DEF Spec
<1>3. EInv /\ PolledEachSecond /\ [Next]_vars =>
        [conf.type = "calendar" /\ ~conf.timezone_offset
         /\ now' # now /\ trigger_event # None /\ ~Ended /\ punctual' =>
           /\ matched = now => Configured(now)
           /\ Configured(now) /\ conf.start <= now => matched = now]_vars
  <2> SUFFICES ASSUME EInv, PolledEachSecond, [Next]_vars, conf.type = "calendar",
                      now' # now, trigger_event # None, punctual'
               PROVE  matched = now <=> Configured(now)
    OBVIOUS
  <2>0. /\ now \in Nat /\ trigger_event \in Opt /\ punctual \in BOOLEAN /\ conf \in Conf
        /\ MaxTime \in Nat
    BY EventsAssumption DEF EInv, TypeOK
  <2>1. Tick
    <3>1. CASE LmapdRun \/ StartupCb \/ TriggerPeriodicCb \/ TriggerCalendarCb
      BY <3>1 DEF LmapdRun, StartupCb, TriggerPeriodicCb, TriggerCalendarCb
    <3>2. CASE FireCb \/ Restart \/ OtherStartup
      BY <3>2 DEF FireCb, Restart, OtherStartup
    <3> QED
      BY <3>1, <3>2 DEF Next, vars
  <2>2. punctual /\ now < trigger_event /\ now \in 0..MaxTime
    <3>1. punctual /\ now < trigger_event
      BY <2>0, <2>1, Zenon DEF Tick
    <3>2. now \in 0..MaxTime
      BY <2>0, <2>1 DEF Tick
    <3> QED
      BY <3>1, <3>2
  <2>3. matched = now <=> CalendarMatch(conf, now)
    BY <2>0, <2>2 DEF PolledEachSecond
  <2> QED
    BY <2>0, <2>2, <2>3, CalendarMatchMeaning
<1> QED
  BY <1>2, <1>3, PTL DEF Spec, CalendarEverySecond
=============================================================================
