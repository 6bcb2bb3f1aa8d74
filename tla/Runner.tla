------------------------------- MODULE Runner -------------------------------
(***************************************************************************)
(* The runner of lmapd (src/src/runner.c): the callbacks of its single     *)
(* threaded event loop and the child processes they fork, kill and reap.   *)
(*                                                                         *)
(* The loop runs one callback at a time.  fire_cb handles an event: it     *)
(* walks the list of suppressions (one step per suppression concerned) and *)
(* then starts and ends schedules (one step).  lmapd_cleanup, run on       *)
(* SIGCHLD, reaps children (one step per waitpid).  Children exit at any   *)
(* moment, also in the middle of a callback; SIGCHLDs coalesce.            *)
(*                                                                         *)
(* A result (the .meta and .data files of one run of an action) is         *)
(* represented by the action that produced it: a queue is the set of       *)
(* actions that have a result in it.                                       *)
(***************************************************************************)
EXTENDS Integers, FiniteSets

CONSTANTS
  Schedule, Action, Event, Pid,      \* configured objects; process ids
  NoAction, NoEvent, NoPid,          \* NULL, NULL and 0 in the source
  NSupp,             \* suppressions are 1..NSupp in the order of lmap->supps
  SchedOf,           \* the schedule an action belongs to
  FirstAct,          \* schedule->actions: first action of the list or NoAction
  NextAct,           \* action->next
  Mode,              \* schedule->mode
  Start, End,        \* schedule->start, schedule->end
  EvType,            \* event->type
  Dest,              \* the existing schedules named by action->destinations
  Runnable,          \* actions with a workspace and a task that has a program
                     \* listed in the capabilities and at most 252 arguments
  SuppStart, SuppEnd,  \* supp->start, supp->end
  SuppMatch,         \* supp->match, a set of glob patterns
  StopRunning,       \* supp->stop_running: "unset", "false" or "true"
  SchedTags, ActTags,  \* suppression_tags of schedules and of actions
  Fnmatch,           \* the <<pattern, tag>> pairs for which fnmatch() is 0
  ForkFails,         \* whether fork() may fail
  OperatorCleans,    \* whether the operator may run "lmapctl clean"
  MaxReloads         \* bound on the number of SIGHUPs

Supp == 1..NSupp

SchedState == {"enabled", "disabled", "running", "suppressed"}
ActState   == {"enabled", "disabled", "running", "suppressed"}
SuppState  == {"enabled", "disabled", "active"}
ProcState  == {"free", "live", "ok", "failed"}
OneShot    == {"one-off", "immediate", "startup"}

ASSUME ConfigAssumption ==
  /\ NoAction \notin Action /\ NoEvent \notin Event /\ NoPid \notin Pid
  /\ NSupp \in Nat
  /\ SchedOf \in [Action -> Schedule]
  /\ FirstAct \in [Schedule -> Action \cup {NoAction}]
  /\ NextAct \in [Action -> Action \cup {NoAction}]
  /\ \A s \in Schedule : FirstAct[s] # NoAction => SchedOf[FirstAct[s]] = s
  /\ \A a \in Action : NextAct[a] # NoAction =>
        NextAct[a] # a /\ SchedOf[NextAct[a]] = SchedOf[a]
  /\ Mode \in [Schedule -> {"sequential", "parallel", "pipelined"}]
  /\ Start \in [Schedule -> Event] /\ End \in [Schedule -> Event \cup {NoEvent}]
  /\ EvType \in [Event -> OneShot \cup {"periodic", "calendar"}]
  /\ Dest \in [Action -> SUBSET Schedule]
  /\ Runnable \subseteq Action
  /\ SuppStart \in [Supp -> Event \cup {NoEvent}]
  /\ SuppEnd \in [Supp -> Event \cup {NoEvent}]
  /\ StopRunning \in [Supp -> {"unset", "false", "true"}]
  /\ ForkFails \in BOOLEAN /\ OperatorCleans \in BOOLEAN /\ MaxReloads \in Nat

VARIABLES
  sState, sCnt,         \* schedule: state, cnt_active_suppressions
  sStop,                \* the schedules with the STOP_RUNNING flag
  aState, aPid, aCnt,   \* action: state, pid, cnt_active_suppressions
  aOk, aDefer,          \* the actions with last_status == 0, and those with
                        \*   the MOVEDEFERRED flag
  uState,               \* suppression: state
  proc, term,           \* the children, and those that were sent a SIGTERM
  child,                \* the action each child was forked for; a reload forgets
                        \*   action->pid, not this (history, read by properties)
  signals,              \* the signals pending in the event loop
  phase, ev, todo,      \* the callback being run, its event and, in
                        \*   suppress_cb, what it has still to do
  armed, flags,         \* timers that can still fire; lmapd->flags
  reloads,              \* SIGHUPs handled
  aWs,                  \* the actions with a result in their workspace
  incoming, active      \* the queues of the schedules

schedVars == <<sState, sCnt, sStop>>
actVars   == <<aState, aPid, aCnt, aOk, aDefer>>
procVars  == <<proc, term, child, signals>>
loopVars  == <<phase, ev, todo>>
lmapdVars == <<armed, flags, reloads>>
dataVars  == <<aWs, incoming, active>>
vars == <<schedVars, actVars, uState, procVars, loopVars, lmapdVars, dataVars>>

ActionsOf(s) == {a \in Action : SchedOf[a] = s}
Zombie(p)    == proc[p] \in {"ok", "failed"}

-----------------------------------------------------------------------------
(* Initial state: lmap_schedule_new, lmap_action_new, lmap_supp_new, and   *)
(* the timers lmapd_run arms for the events somebody uses.                 *)

Used == {e \in Event : \/ \E s \in Schedule : e \in {Start[s], End[s]}
                       \/ \E u \in Supp : e \in {SuppStart[u], SuppEnd[u]}}

(* lmapd_restart turns LMAPD_FLAG_STARTUPDONE into LMAPD_FLAG_SKIPSTARTUP. *)
Arm(fl) == {e \in Used : ~("STARTUPDONE" \in fl /\ EvType[e] = "startup")}

Init ==
  /\ sState = [s \in Schedule |-> "enabled"]
  /\ sCnt   = [s \in Schedule |-> 0]
  /\ sStop  = {}
  /\ aState = [a \in Action |-> "enabled"]
  /\ aPid   = [a \in Action |-> NoPid]
  /\ aCnt   = [a \in Action |-> 0]
  /\ aOk    = Action
  /\ aDefer = {}
  /\ uState = [u \in Supp |-> "enabled"]
  /\ proc = [p \in Pid |-> "free"] /\ term = {} /\ signals = {}
  /\ child = [p \in Pid |-> NoAction]
  /\ phase = "idle" /\ ev = NoEvent /\ todo = {}
  /\ armed = Arm({}) /\ flags = {} /\ reloads = 0
  /\ aWs = {}
  /\ incoming = [s \in Schedule |-> {}]
  /\ active = [s \in Schedule |-> {}]

-----------------------------------------------------------------------------
(* Forking and killing                                                     *)

(* The guards of action_exec.  An action that is still running (pid set)   *)
(* is an overlap and is skipped.                                           *)
CanExec(a) ==
  /\ aState[a] \notin {"disabled", "suppressed"}
  /\ a \in Runnable
  /\ aPid[a] = NoPid

(* Outcomes of forking for the actions of S when the process table is pr:  *)
(* the kernel gives each child an unused pid, or the fork fails.           *)
Forks(S, pr) ==
  {new \in [S -> {p \in Pid : pr[p] = "free"} \cup {NoPid}] :
     /\ \A a, b \in S : new[a] = new[b] /\ new[a] # NoPid => a = b
     /\ ForkFails \/ \A a \in S : new[a] # NoPid}

Started(S, new) == {a \in S : new[a] # NoPid}

StartState(S, new) ==
  [a \in Action |-> IF a \in Started(S, new) THEN "running" ELSE aState[a]]
StartPid(S, new) ==
  [a \in Action |-> IF a \in Started(S, new) THEN new[a] ELSE aPid[a]]
StartProc(S, new, pr) ==
  [p \in Pid |-> IF \E a \in Started(S, new) : new[a] = p THEN "live" ELSE pr[p]]
StartChild(S, new, ch) ==
  [p \in Pid |-> IF \E a \in Started(S, new) : new[a] = p
                 THEN CHOOSE a \in Started(S, new) : new[a] = p ELSE ch[p]]

(* Mutant of Kill: action_kill does not look at action->pid.               *)
KillAnyPid(S, state, pid, pr) == term \cup {pid[a] : a \in S}

(* action_kill: SIGTERM to the process group of a running action.          *)
Kill(S, state, pid, pr) ==
  term \cup {p \in Pid : pr[p] = "live" /\ \E a \in S :
                            state[a] = "running" /\ pid[a] = p}

-----------------------------------------------------------------------------
(* fire_cb: an event fires; suppress_cb, then execute_cb.                  *)

Fire(e) ==
  /\ phase = "idle" /\ e \in armed
  /\ phase' = "fire" /\ ev' = e
  /\ todo' = {<<u, 0>> : u \in {v \in Supp : SuppStart[v] = e}}
             \cup {<<u, 1>> : u \in {v \in Supp : SuppEnd[v] = e}}
  /\ armed' = IF EvType[e] \in OneShot THEN armed \ {e} ELSE armed
  /\ UNCHANGED <<schedVars, actVars, uState, procVars, flags, reloads, dataVars>>

(* suppress_cb walks the list and looks at start before end.               *)
NextInList(t) ==
  /\ phase = "fire" /\ t \in todo
  /\ \A x \in todo : 2 * t[1] + t[2] <= 2 * x[1] + x[2]
  /\ todo' = todo \ {t}
  /\ UNCHANGED <<phase, ev>>

big_tag_match(match, tags) == \E m \in match, t \in tags : <<m, t>> \in Fnmatch

SchedMatch(u, s) == big_tag_match(SuppMatch[u], SchedTags[s])
ActMatch(u, a)   == big_tag_match(SuppMatch[u], ActTags[a])

(* suppression_start and suppression_end skip disabled schedules with all  *)
(* their actions, and disabled actions.                                    *)
SchedHit(u, s) == sState[s] # "disabled" /\ SchedMatch(u, s)
ActReach(a)    == sState[SchedOf[a]] # "disabled" /\ aState[a] # "disabled"
ActHit(u, a)   == ActReach(a) /\ ActMatch(u, a)

(* LMAP_SUPP_FLAG_STOP_RUNNING_SET tells that the leaf is configured, not  *)
(* what its value is.                                                      *)
StopFlag(u) == StopRunning[u] # "unset"

(* The schedule's STOP_RUNNING flag when its actions are looked at.        *)
StopAfter(u, s) == s \in sStop \/ (SchedHit(u, s) /\ StopFlag(u))

(* Running actions stopped because they match the suppression themselves.  *)
StoppedAction(u, a) ==
  /\ ActHit(u, a) /\ aState[a] = "running"
  /\ StopFlag(u) /\ ~StopAfter(u, SchedOf[a])

SuppressedAct(u, a) == ActHit(u, a) /\ (aState[a] = "enabled" \/ StoppedAction(u, a))

Terminated(u) ==
  {a \in Action : ActReach(a) /\ (StopAfter(u, SchedOf[a]) \/ StoppedAction(u, a))}

SuppressionStart(u) ==
  /\ NextInList(<<u, 0>>)
  /\ IF uState[u] = "enabled" /\ SuppMatch[u] # {}
     THEN /\ uState' = [uState EXCEPT ![u] = "active"]
          /\ sState' = [s \in Schedule |->
               IF SchedHit(u, s) /\ sState[s] = "enabled" THEN "suppressed" ELSE sState[s]]
          /\ sStop' = {s \in Schedule : StopAfter(u, s)}
          /\ sCnt' = [s \in Schedule |-> IF SchedHit(u, s) THEN sCnt[s] + 1 ELSE sCnt[s]]
          /\ aState' = [a \in Action |->
               IF SuppressedAct(u, a) THEN "suppressed" ELSE aState[a]]
          /\ aCnt' = [a \in Action |-> IF ActHit(u, a) THEN aCnt[a] + 1 ELSE aCnt[a]]
          /\ term' = Kill(Terminated(u), aState, aPid, proc)
     ELSE UNCHANGED <<uState, schedVars, aState, aCnt, term>>
  /\ UNCHANGED <<aPid, aOk, aDefer, proc, child, signals, lmapdVars, dataVars>>

(* Mutant of Decremented: the end of one suppression forgets the others.   *)
Zeroed(n) == 0

Decremented(n) == IF n > 0 THEN n - 1 ELSE n

SuppressionEnd(u) ==
  LET cntS(s) == IF SchedHit(u, s) THEN Decremented(sCnt[s]) ELSE sCnt[s]
      cntA(a) == IF ActHit(u, a) THEN Decremented(aCnt[a]) ELSE aCnt[a]
  IN
  /\ NextInList(<<u, 1>>)
  /\ IF uState[u] = "active" /\ SuppMatch[u] # {}
     THEN /\ uState' = [uState EXCEPT ![u] = "enabled"]
          /\ sCnt' = [s \in Schedule |-> cntS(s)]
          /\ sState' = [s \in Schedule |->
               IF SchedHit(u, s) /\ cntS(s) = 0 /\ sState[s] = "suppressed"
               THEN "enabled" ELSE sState[s]]
          /\ aCnt' = [a \in Action |-> cntA(a)]
          /\ aState' = [a \in Action |->
               IF ActHit(u, a) /\ cntA(a) = 0 /\ aState[a] = "suppressed"
               THEN "enabled" ELSE aState[a]]
     ELSE UNCHANGED <<uState, sCnt, sState, aCnt, aState>>
  /\ UNCHANGED <<sStop, aPid, aOk, aDefer, procVars, lmapdVars, dataVars>>

(* Mutants of Starting: execute_cb without the check for overlaps, and     *)
(* without the check for suppressions.                                     *)
StartingTwice(e) ==
  {s \in Schedule : Start[s] = e /\ sState[s] \in {"enabled", "running"}}
StartingSuppressed(e) ==
  {s \in Schedule : Start[s] = e /\ sState[s] \in {"enabled", "suppressed"}}

(* The schedules execute_cb starts on event e, and the actions for which   *)
(* schedule_exec then gets past the guards of action_exec.                 *)
Starting(e) == {s \in Schedule : Start[s] = e /\ sState[s] = "enabled"}

ExecNow(e) ==
  {a \in Action : /\ SchedOf[a] \in Starting(e)
                  /\ \/ Mode[SchedOf[a]] = "parallel"
                     \/ Mode[SchedOf[a]] = "sequential" /\ a = FirstAct[SchedOf[a]]
                  /\ CanExec(a)}

(* Mutant of SchedAfterExec: the result of action_exec is not looked at.   *)
RunningAnyway(e, s, startedActs) ==
  IF s \in Starting(e) THEN "running" ELSE sState[s]

SchedAfterExec(e, s, startedActs) ==
  IF s \notin Starting(e) THEN sState[s]
  ELSE IF EvType[e] \in OneShot \/ Mode[s] = "pipelined" THEN "disabled"
  ELSE IF \E a \in startedActs : SchedOf[a] = s THEN "running"
  ELSE sState[s]

ExecuteCb ==
  /\ phase = "fire" /\ todo = {}
  /\ phase' = "idle" /\ ev' = NoEvent /\ UNCHANGED todo
  /\ \E new \in Forks(ExecNow(ev), proc) :
       LET S == ExecNow(ev)
       IN /\ aState' = StartState(S, new)
          /\ aPid' = StartPid(S, new)
          /\ proc' = StartProc(S, new, proc)
          /\ child' = StartChild(S, new, child)
          /\ sState' = [s \in Schedule |-> SchedAfterExec(ev, s, Started(S, new))]
          \* schedule_exec cleans the workspaces of all actions of the schedule
          /\ aWs' = {a \in aWs : SchedOf[a] \notin Starting(ev)} \cup Started(S, new)
  \* lmapd_workspace_schedule_move
  /\ active' = [s \in Schedule |->
       IF s \in Starting(ev) THEN active[s] \cup incoming[s] ELSE active[s]]
  /\ incoming' = [s \in Schedule |-> IF s \in Starting(ev) THEN {} ELSE incoming[s]]
  /\ flags' = IF EvType[ev] = "startup" /\ Starting(ev) # {}
              THEN flags \cup {"STARTUPDONE"} ELSE flags
  \* schedule_kill of the schedules that end on this event
  /\ term' = Kill({a \in Action : End[SchedOf[a]] = ev}, aState', aPid', proc')
  /\ UNCHANGED <<sStop, sCnt, aCnt, aOk, aDefer, uState, signals, armed, reloads>>

-----------------------------------------------------------------------------
(* Children and lmapd_cleanup                                              *)

(* The libevent handler is not installed while the daemon reloads.         *)
Exit(p, status) ==
  /\ proc[p] = "live"
  /\ proc' = [proc EXCEPT ![p] = status]
  /\ signals' = IF phase # "reload" THEN {"SIGCHLD"} ELSE signals
  /\ UNCHANGED <<schedVars, actVars, uState, term, child, loopVars, lmapdVars, dataVars>>

SigchldCb ==
  /\ phase = "idle" /\ "SIGCHLD" \in signals
  /\ phase' = "reap" /\ signals' = {}
  /\ UNCHANGED <<schedVars, actVars, uState, proc, term, child, ev, todo, lmapdVars, dataVars>>

(* Mutant of NothingToReap: one waitpid() per SIGCHLD.                     *)
ReapedEnough == TRUE

(* waitpid() returns 0 or -1: no child has changed state.                  *)
NothingToReap == \A p \in Pid : ~Zombie(p)

CleanupDone ==
  /\ phase = "reap" /\ NothingToReap
  /\ phase' = "idle"
  /\ UNCHANGED <<schedVars, actVars, uState, procVars, ev, todo, lmapdVars, dataVars>>

(* find_action_by_pid finds nothing: a child of an earlier configuration.  *)
ReapUnknown(p) ==
  /\ phase = "reap" /\ Zombie(p)
  /\ \A a \in Action : aPid[a] # p
  /\ proc' = [proc EXCEPT ![p] = "free"] /\ term' = term \ {p}
  /\ child' = [child EXCEPT ![p] = NoAction]
  /\ UNCHANGED <<schedVars, actVars, uState, signals, loopVars, lmapdVars, dataVars>>

(* The action that follows a in a sequential schedule, if it is to be run. *)
ExecNext(a) ==
  {b \in Action : /\ b = NextAct[a]
                  /\ Mode[SchedOf[a]] = "sequential"
                  /\ sState[SchedOf[a]] # "suppressed"
                  /\ SchedOf[a] \notin sStop
                  /\ CanExec(b)}

(* Mutant of ReapedPid: action->pid is not reset.                          *)
PidKept(a, S, new) == StartPid(S, new)

ReapedState(a, S, new) == [StartState(S, new) EXCEPT ![a] = "enabled"]
ReapedPid(a, S, new)   == [StartPid(S, new) EXCEPT ![a] = NoPid]
ReapedProc(a)          == [proc EXCEPT ![aPid[a]] = "free"]

(* lmapd_workspace_action_move(defer = 1) only moves to the own schedule;  *)
(* a move to another schedule sets MOVEDEFERRED.                           *)
DeferAfter(a, ok) ==
  IF ok /\ Dest[a] \ {SchedOf[a]} # {} THEN aDefer \cup {a} ELSE aDefer

(* Mutant of WsAfter: the workspace is cleaned although the move has been  *)
(* deferred.                                                               *)
WsCleaned(a, defer, startedActs) ==
  (aWs \ {a}) \cup startedActs

(* Workspaces after the early cleanup of a and the start of the next.      *)
WsAfter(a, defer, startedActs) ==
  (IF a \in defer THEN aWs ELSE aWs \ {a}) \cup startedActs

SelfMoved(a, ok) == IF ok /\ SchedOf[a] \in Dest[a] /\ a \in aWs THEN {a} ELSE {}

StillRunning(s, state) == \E b \in ActionsOf(s) : state[b] = "running"

(* Computed by the source with |= over all actions of the schedule.        *)
Succeeded(s, ok) == ActionsOf(s) \cap ok # {}

(* Mutant of SchedAfterReap: the schedule is enabled again though it got   *)
(* suppressed while it was running.                                        *)
EnabledAfterReap(s, still) ==
  IF sState[s] = "running" /\ ~still THEN "enabled" ELSE sState[s]

SchedAfterReap(s, still) ==
  IF sState[s] = "running" /\ ~still
  THEN IF sCnt[s] > 0 THEN "suppressed" ELSE "enabled"
  ELSE sState[s]

(* Results of s that are moved to d when the last action of s is done.     *)
Delivered(s, d, defer, ws) ==
  {b \in ActionsOf(s) \cap defer \cap ws : d \in Dest[b]}

Reap(a) ==
  LET s == SchedOf[a]
      p == aPid[a]
      status == proc[p] = "ok"
      ok == IF status THEN aOk \cup {a} ELSE aOk \ {a}
      defer == DeferAfter(a, status)
      S == ExecNext(a)
  IN
  /\ phase = "reap" /\ p # NoPid /\ Zombie(p)
  /\ \E new \in Forks(S, ReapedProc(a)) :
       LET ws == WsAfter(a, defer, Started(S, new))
           still == StillRunning(s, ReapedState(a, S, new))
           queue == active[s] \cup SelfMoved(a, status)
       IN /\ aState' = ReapedState(a, S, new)
          /\ aPid' = ReapedPid(a, S, new)
          /\ proc' = StartProc(S, new, ReapedProc(a))
          /\ child' = StartChild(S, new, [child EXCEPT ![p] = NoAction])
          /\ sState' = [sState EXCEPT ![s] = SchedAfterReap(s, still)]
          /\ IF still
             THEN /\ aDefer' = defer /\ aWs' = ws
                  /\ active' = [active EXCEPT ![s] = queue]
                  /\ UNCHANGED incoming
             ELSE /\ aDefer' = defer \ ActionsOf(s)
                  /\ aWs' = ws \ ActionsOf(s)
                  /\ incoming' = [d \in Schedule |->
                       IF d = s THEN incoming[d]
                       ELSE incoming[d] \cup Delivered(s, d, defer, ws)]
                  /\ active' = [active EXCEPT ![s] =
                       IF Succeeded(s, ok) THEN {} ELSE queue \cup Delivered(s, s, defer, ws)]
  /\ aOk' = ok
  /\ term' = term \ {p}
  /\ UNCHANGED <<sStop, sCnt, aCnt, uState, signals, loopVars, lmapdVars>>

-----------------------------------------------------------------------------
(* Operator commands                                                       *)

(* SIGHUP: lmapd_restart kills all actions and breaks the loop; lmapd_run  *)
(* drops the events and frees the configuration.  Children live on.        *)
SighupCb ==
  /\ phase = "idle" /\ reloads < MaxReloads
  /\ phase' = "reload" /\ reloads' = reloads + 1
  /\ term' = Kill(Action, aState, aPid, proc)
  /\ sState' = [s \in Schedule |-> "enabled"]
  /\ sCnt' = [s \in Schedule |-> 0] /\ sStop' = {}
  /\ aState' = [a \in Action |-> "enabled"] /\ aPid' = [a \in Action |-> NoPid]
  /\ aCnt' = [a \in Action |-> 0]
  /\ aOk' = Action /\ aDefer' = {}
  /\ uState' = [u \in Supp |-> "enabled"]
  /\ armed' = {} /\ signals' = {}
  /\ UNCHANGED <<proc, child, ev, todo, flags, dataVars>>

(* main reads the configuration again and calls lmapd_run.                 *)
ReloadDone ==
  /\ phase = "reload"
  /\ phase' = "idle"
  /\ armed' = Arm(flags)
  /\ UNCHANGED <<schedVars, actVars, uState, procVars, ev, todo, flags, reloads, dataVars>>

(* SIGUSR2: lmapd_workspace_clean and lmapd_workspace_init.                *)
Sigusr2Cb ==
  /\ OperatorCleans /\ phase = "idle"
  /\ aWs' = {}
  /\ incoming' = [s \in Schedule |-> {}]
  /\ active' = [s \in Schedule |-> {}]
  /\ UNCHANGED <<schedVars, actVars, uState, procVars, loopVars, lmapdVars>>

-----------------------------------------------------------------------------
SuppressCb == \E u \in Supp : SuppressionStart(u) \/ SuppressionEnd(u)

ReapOne == (\E p \in Pid : ReapUnknown(p)) \/ (\E a \in Action : Reap(a))

ChildExit == \E p \in Pid, status \in {"ok", "failed"} : Exit(p, status)

Next ==
  \/ \E e \in Event : Fire(e)
  \/ SuppressCb
  \/ ExecuteCb
  \/ ChildExit
  \/ SigchldCb
  \/ ReapOne
  \/ CleanupDone
  \/ SighupCb
  \/ ReloadDone
  \/ Sigusr2Cb

Spec == Init /\ [][Next]_vars

(* Fairness.  The event loop runs its callbacks to the end, delivers a     *)
(* pending signal however often timers fire in between, and the tasks      *)
(* terminate (a task that is sent SIGTERM or comes to its end).            *)
Fairness ==
  /\ WF_vars(SuppressCb) /\ WF_vars(ExecuteCb)
  /\ WF_vars(ReapOne) /\ WF_vars(CleanupDone) /\ WF_vars(ReloadDone)
  /\ SF_vars(SigchldCb)
  /\ \A p \in Pid : WF_vars(\E status \in {"ok", "failed"} : Exit(p, status))

FairSpec == Spec /\ Fairness

-----------------------------------------------------------------------------
(* Properties                                                              *)

TypeSched ==
  /\ sState \in [Schedule -> SchedState]
  /\ sCnt \in [Schedule -> Nat]
  /\ sStop \in SUBSET Schedule
TypeAct ==
  /\ aState \in [Action -> ActState]
  /\ aPid \in [Action -> Pid \cup {NoPid}]
  /\ aCnt \in [Action -> Nat]
  /\ aOk \in SUBSET Action
  /\ aDefer \in SUBSET Action
TypeProc ==
  /\ proc \in [Pid -> ProcState]
  /\ term \in SUBSET Pid
  /\ child \in [Pid -> Action \cup {NoAction}]
  /\ signals \in SUBSET {"SIGCHLD"}
TypeLoop ==
  /\ phase \in {"idle", "fire", "reap", "reload"}
  /\ ev \in Event \cup {NoEvent}
  /\ phase = "fire" <=> ev # NoEvent
  /\ todo \in SUBSET (Supp \X {0, 1})
  /\ armed \in SUBSET Event
  /\ flags \in SUBSET {"STARTUPDONE"}
  /\ reloads \in 0..MaxReloads
TypeData ==
  /\ aWs \in SUBSET Action
  /\ incoming \in [Schedule -> SUBSET Action]
  /\ active \in [Schedule -> SUBSET Action]

(* Type correctness of the runner's data structures; an event is being     *)
(* handled exactly while fire_cb runs.                                     *)
TypeOK ==
  TypeSched /\ TypeAct /\ uState \in [Supp -> SuppState] /\ TypeProc /\ TypeLoop /\ TypeData

ActiveOnSched(s) == {u \in Supp : uState[u] = "active" /\ SchedMatch(u, s)}
ActiveOnAct(a)   == {u \in Supp : uState[u] = "active" /\ ActMatch(u, a)}

(* The cnt_active_suppressions of a schedule that is not disabled, and of  *)
(* its actions, is the number of active suppressions that match it: the    *)
(* increments of suppression_start and the decrements of suppression_end   *)
(* pair up whatever the schedule went through in between.                  *)
SuppressionCount ==
  /\ \A s \in Schedule : sState[s] # "disabled" =>
        sCnt[s] = Cardinality(ActiveOnSched(s))
  /\ \A a \in Action : sState[SchedOf[a]] # "disabled" =>
        aCnt[a] = Cardinality(ActiveOnAct(a))

(* A schedule is in state SUPPRESSED only while some active suppression    *)
(* matches it, and never ENABLED while one does: no suppression is         *)
(* forgotten at the end of a run, and none outlives its end event.         *)
SuppressedWhileActive ==
  \A s \in Schedule :
     /\ sState[s] = "suppressed" => ActiveOnSched(s) # {}
     /\ sState[s] = "enabled" => ActiveOnSched(s) = {}

(* A RUNNING action has a child, and a RUNNING schedule has an action with *)
(* a child: the child's exit is what takes them out of that state.         *)
RunningHasChild ==
  /\ \A a \in Action : aState[a] = "running" => aPid[a] # NoPid
  /\ \A s \in Schedule : sState[s] = "running" =>
        \E a \in ActionsOf(s) : aPid[a] # NoPid

(* action->pid is the pid of a child not reaped yet and no two actions     *)
(* share one: find_action_by_pid finds the right action, and action_kill   *)
(* never signals a recycled pid.                                           *)
PidsOwned ==
  /\ \A a \in Action : aPid[a] # NoPid => proc[aPid[a]] # "free"
  /\ \A a, b \in Action : aPid[a] = aPid[b] /\ aPid[a] # NoPid => a = b

(* A sequential schedule has at most one child at any time, and while it   *)
(* has one it is RUNNING, or DISABLED (the one-shot events).               *)
SequentialOneChild ==
  \A a \in Action : Mode[SchedOf[a]] = "sequential" /\ aPid[a] # NoPid =>
     /\ sState[SchedOf[a]] \in {"running", "disabled"}
     /\ \A b \in ActionsOf(SchedOf[a]) : aPid[b] # NoPid => a = b

(* Deferred results are still in the workspace, and a child of the same    *)
(* schedule is alive whose completion will deliver them.                   *)
DeferredPending ==
  \A a \in aDefer :
     /\ a \in aWs
     /\ \E b \in ActionsOf(SchedOf[a]) : aPid[b] # NoPid

(* While an active suppression matches a schedule, no run of it begins:    *)
(* a child is forked only to continue a run that had begun before.         *)
NoStartWhileSuppressed ==
  [][\A a \in Action :
       /\ aPid[a] = NoPid /\ aPid'[a] # NoPid
       /\ sState[SchedOf[a]] # "disabled"
       /\ ActiveOnSched(SchedOf[a]) # {}
       => sState[SchedOf[a]] = "running"]_vars

(* A schedule is in use while one of its actions has a child the daemon    *)
(* knows, or a process forked for one of them is alive and has not been    *)
(* told to stop.  (A reload sends SIGTERM to all children and forgets      *)
(* them; the ones that live on after that are not counted.)                *)
InUse(s) ==
  \E a \in ActionsOf(s) :
     aPid[a] # NoPid \/ \E p \in Pid : child[p] = a /\ proc[p] = "live" /\ p \notin term

(* The output a sequential schedule delivers to itself                     *)
(* (README.simet-lmap.md, dataflow item 5).                                *)
OwnOutput(s) == {a \in ActionsOf(s) : Mode[s] = "sequential" /\ s \in Dest[a]}

(* The schedules within items 4 and 5.  The code grants the exception to   *)
(* actions of parallel schedules too (lmapd_workspace_action_move does not *)
(* look at the mode); nothing is said of the schedules that use it.        *)
FeedsItself(s) == \E a \in ActionsOf(s) : s \in Dest[a]
Documented(s)  == Mode[s] = "sequential" \/ ~FeedsItself(s)

(* The input of a schedule is stable while the schedule is in use: nothing *)
(* is added to its active queue but what a sequential schedule delivers to *)
(* itself, and nothing is taken away, except by the operator.  Runs, late  *)
(* and unknown children, reloads and deliveries interleave.                *)
InputStable ==
  [][\A s \in Schedule :
       /\ InUse(s) /\ Documented(s) => active'[s] \ active[s] \subseteq OwnOutput(s)
       /\ InUse(s)' => active[s] \subseteq active'[s] \/ Sigusr2Cb]_vars

(* Every run of a schedule comes to an end.                                *)
RunEnds == \A s \in Schedule : sState[s] = "running" ~> sState[s] # "running"

(* Every child that exits is reaped, though SIGCHLDs coalesce.             *)
ZombiesReaped == \A p \in Pid : Zombie(p) ~> ~Zombie(p)

(* A result whose delivery was deferred reaches every destination.         *)
DeferredDelivered ==
  \A a \in Action, d \in Schedule :
     (a \in aDefer /\ d \in Dest[a] \ {SchedOf[a]}) ~> (a \in incoming[d])

=============================================================================
