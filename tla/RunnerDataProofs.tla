-------------------------- MODULE RunnerDataProofs --------------------------
(***************************************************************************)
(* Results and the runs that produce them: what is deferred stays in its   *)
(* workspace until it is delivered, and a schedule that is being executed  *)
(* gets no new input.                                                      *)
(*                                                                         *)
(* Both rest on a schedule being RUNNING (or DISABLED, the one-shot        *)
(* events) for as long as it has a child.  A suppression with the          *)
(* stop-running leaf breaks that when it matches one of several actions of *)
(* a parallel schedule and not the schedule itself: suppression_start      *)
(* takes the action out of RUNNING though its child lives on, and the end  *)
(* of the other actions ends the run.  The theorems are about the          *)
(* configurations without such a suppression.                              *)
(***************************************************************************)
EXTENDS RunnerProofs

(* No suppression stops one of several parallel actions by itself.         *)
StopsWholeRuns ==
  \A u \in Supp, a \in Action : StopFlag(u) /\ ActMatch(u, a) =>
     \/ SchedMatch(u, SchedOf[a])
     \/ Mode[SchedOf[a]] # "parallel"
     \/ ActionsOf(SchedOf[a]) = {a}

(* An action that has a child is RUNNING, if other actions of its schedule *)
(* can have one.                                                           *)
ChildMode ==
  \A a \in Action : aPid[a] # NoPid =>
     \/ Mode[SchedOf[a]] = "sequential"
     \/ /\ Mode[SchedOf[a]] = "parallel"
        /\ aState[a] = "running" \/ ActionsOf(SchedOf[a]) = {a}

(* A schedule that has a child is being executed.                          *)
Executing == \A a \in Action : aPid[a] # NoPid => sState[SchedOf[a]] \in {"running", "disabled"}

RunInv == TypeOK /\ RunningHasChild /\ SequentialOneChild /\ ChildMode /\ Executing

(* A result that is being produced or has been deferred is in a workspace. *)
ResultsKept == \A a \in Action : aPid[a] # NoPid \/ a \in aDefer => a \in aWs

(* A child of the same schedule will deliver what has been deferred.       *)
DeferredHasChild == \A a \in aDefer : \E b \in ActionsOf(SchedOf[a]) : aPid[b] # NoPid

-----------------------------------------------------------------------------
(* A schedule is being executed as long as it has a child                  *)

(* suppression_start and suppression_end: only an action that no other can *)
(* have a child next to is taken out of RUNNING.                           *)
LEMMA SuppressKeepsRuns ==
  ASSUME StopsWholeRuns, RunInv, NEW u \in Supp, SuppressionStart(u) \/ SuppressionEnd(u)
  PROVE  ChildMode' /\ Executing'
<1> USE DEF RunInv
<1>1. /\ aPid' = aPid
      /\ \A s \in Schedule : sState[s] \in {"running", "disabled"} => sState'[s] = sState[s]
  BY DEF SuppressionStart, SuppressionEnd, schedVars, TypeOK, TypeSched
<1>2. Executing'
  BY <1>1, ConfigAssumption DEF Executing
<1>3. ASSUME NEW a \in Action, aPid[a] # NoPid, aState[a] = "running", aState'[a] # "running"
      PROVE  Mode[SchedOf[a]] = "sequential" \/ ActionsOf(SchedOf[a]) = {a}
  <2>1. StoppedAction(u, a)
    BY <1>3 DEF SuppressionStart, SuppressionEnd, SuppressedAct, TypeOK, TypeAct
  <2>2. StopFlag(u) /\ ActMatch(u, a) /\ ~SchedMatch(u, SchedOf[a])
    BY <2>1 DEF StoppedAction, ActHit, ActReach, StopAfter, SchedHit
  <2>3. Mode[SchedOf[a]] # "parallel" \/ ActionsOf(SchedOf[a]) = {a}
    BY <2>2 DEF StopsWholeRuns
  <2> QED
    BY <1>3, <2>3 DEF ChildMode
<1>4. ChildMode'
  BY <1>1, <1>3 DEF ChildMode, ActionsOf
<1> QED
  BY <1>2, <1>4

(* execute_cb: what it starts becomes RUNNING, with its schedule.          *)
LEMMA ExecuteKeepsRuns ==
  ASSUME RunInv, ExecuteCb
  PROVE  ChildMode' /\ Executing'
<1> USE DEF RunInv, ExecEffect
<1>1. PICK T \in SUBSET ExecNow(ev) : ExecEffect(T)
  BY ExecutePids
<1>2. \A a \in T : /\ a \in Action /\ SchedOf[a] \in Starting(ev)
                   /\ Mode[SchedOf[a]] \in {"parallel", "sequential"}
  BY DEF ExecNow
<1>3. \A s \in Starting(ev) : s \in Schedule /\ sState[s] = "enabled"
  BY DEF Starting
<1>4. ChildMode'
  BY <1>1, <1>2 DEF ChildMode, ActionsOf
<1>5. ASSUME NEW a \in Action, aPid'[a] # NoPid
      PROVE  sState'[SchedOf[a]] \in {"running", "disabled"}
  <2>0. SchedOf[a] \in Schedule
    BY ConfigAssumption
  <2>1. CASE a \in T
    BY <1>1, <1>2, <2>0, <2>1 DEF SchedAfterExec
  <2>2. CASE a \notin T
    <3>1. sState[SchedOf[a]] \in {"running", "disabled"}
      BY <1>1, <1>5, <2>2 DEF Executing
    <3> QED
      BY <1>1, <1>3, <2>0, <3>1 DEF SchedAfterExec
  <2> QED
    BY <2>1, <2>2
<1> QED
  BY <1>4, <1>5 DEF Executing

(* lmapd_cleanup: the run goes on exactly if the schedule has a child left *)
(* or gets a new one.                                                      *)
LEMMA StillHasChild ==
  ASSUME RunInv, NEW a \in Action, NEW T \in SUBSET ExecNext(a), ReapEffect(a, T)
  PROVE  StillRunning(SchedOf[a], aState') <=>
           \E b \in ActionsOf(SchedOf[a]) : aPid'[b] # NoPid
<1> USE DEF RunInv, ReapEffect, ActionsOf
<1>1. \A b \in Action : aState'[b] = "running" => aPid'[b] # NoPid
  BY DEF RunningHasChild
<1>2. ASSUME NEW b \in Action, SchedOf[b] = SchedOf[a], aPid'[b] # NoPid
      PROVE  aState'[b] = "running"
  <2>1. CASE b \in T
    BY <2>1
  <2>2. CASE b \notin T
    <3>1. b # a /\ aPid[b] # NoPid /\ aState'[b] = aState[b]
      BY <1>2, <2>2
    <3>2. Mode[SchedOf[b]] # "sequential"
      BY <1>2, <3>1 DEF SequentialOneChild
    <3>3. ActionsOf(SchedOf[b]) # {b}
      BY <1>2, <3>1
    <3> QED
      BY <3>1, <3>2, <3>3 DEF ChildMode
  <2> QED
    BY <2>1, <2>2
<1> QED
  BY <1>1, <1>2 DEF StillRunning

(* lmapd_cleanup keeps the invariant.                                      *)
LEMMA ReapKeepsRuns ==
  ASSUME RunInv, NEW a \in Action, Reap(a)
  PROVE  ChildMode' /\ Executing'
<1> USE DEF RunInv, ReapEffect
<1>1. PICK T \in SUBSET ExecNext(a) : ReapEffect(a, T)
  BY ReapPids
<1>2. \A b \in T : b \in Action /\ SchedOf[b] = SchedOf[a] /\ Mode[SchedOf[a]] = "sequential"
  BY ConfigAssumption DEF ExecNext
<1>3. ChildMode'
  BY <1>1, <1>2 DEF ChildMode, ActionsOf
<1>4. ASSUME NEW b \in Action, aPid'[b] # NoPid
      PROVE  sState'[SchedOf[b]] \in {"running", "disabled"}
  <2>0. SchedOf[b] \in Schedule
    BY ConfigAssumption
  <2>1. CASE SchedOf[b] # SchedOf[a]
    BY <1>1, <1>2, <1>4, <2>0, <2>1 DEF Executing
  <2>2. CASE SchedOf[b] = SchedOf[a]
    <3>1. StillRunning(SchedOf[a], aState')
      BY <1>1, <1>4, <2>2, StillHasChild DEF ActionsOf
    <3>2. sState[SchedOf[a]] \in {"running", "disabled"}
      BY <1>1 DEF Executing
    <3> QED
      BY <1>1, <2>2, <3>1, <3>2 DEF SchedAfterReap
  <2> QED
    BY <2>1, <2>2
<1> QED
  BY <1>3, <1>4 DEF Executing

(* The invariant is inductive.                                             *)
LEMMA RunInvStep ==
  ASSUME StopsWholeRuns, RunInv, [Next]_vars
  PROVE  RunInv'
<1>1. TypeOK' /\ RunningHasChild' /\ SequentialOneChild'
  BY TypeStep, RunningStep, SequentialStep DEF RunInv
<1> SUFFICES ChildMode' /\ Executing'
  BY <1>1 DEF RunInv
<1>2. CASE SighupCb
  BY <1>2 DEF SighupCb, ChildMode, Executing
<1>3. CASE UNCHANGED core
  BY <1>3 DEF RunInv, core, ChildMode, Executing, ActionsOf
<1> QED
  BY <1>2, <1>3, SuppressKeepsRuns, ExecuteKeepsRuns, ReapKeepsRuns, CoreSteps

(* It holds initially.                                                     *)
LEMMA RunInvInit == Init => RunInv
<1> SUFFICES ASSUME Init PROVE RunInv
  OBVIOUS
<1>1. TypeOK
  BY InitType
<1>2. RunningHasChild /\ SequentialOneChild /\ ChildMode /\ Executing
  BY DEF Init, RunningHasChild, SequentialOneChild, ChildMode, Executing
<1> QED
  BY <1>1, <1>2 DEF RunInv

(* Under the hypothesis it is an invariant.                                *)
LEMMA RunInvAlways == StopsWholeRuns /\ Spec => [](StopsWholeRuns /\ RunInv)
<1>1. StopsWholeRuns /\ RunInv /\ [Next]_vars => StopsWholeRuns' /\ RunInv'
  BY RunInvStep DEF StopsWholeRuns, StopFlag, ActMatch, SchedMatch, ActionsOf, big_tag_match
<1> QED
  BY <1>1, RunInvInit, PTL DEF Spec

-----------------------------------------------------------------------------
(* The daemon knows every child that it has not told to stop               *)

(* A live process that was not sent SIGTERM is the child of a RUNNING      *)
(* action, which holds its pid.                                            *)
ChildrenKnown ==
  \A p \in Pid : proc[p] = "live" /\ p \notin term =>
     child[p] \in Action /\ aPid[child[p]] = p /\ aState[child[p]] = "running"

(* A new child is known, and the ones there were before stay known.        *)
LEMMA ForkKnown ==
  ASSUME TypeOK, NEW S \in SUBSET Action, \A x \in S : aPid[x] = NoPid,
         NEW pr \in [Pid -> ProcState], NEW ch \in [Pid -> Action \cup {NoAction}],
         NEW new \in Forks(S, pr), NEW p \in Pid,
         StartProc(S, new, pr)[p] = "live",
         pr[p] = "live" => ch[p] \in Action /\ aPid[ch[p]] = p /\ aState[ch[p]] = "running"
  PROVE  LET c == StartChild(S, new, ch)[p]
         IN  /\ c \in Action
             /\ StartPid(S, new)[c] = p /\ StartState(S, new)[c] = "running"
             /\ c \in S \/ c = ch[p]
<1> DEFINE T == Started(S, new)
<1>0. /\ T \subseteq S /\ \A x \in T : new[x] \in Pid
      /\ \A x, y \in T : new[x] = new[y] => x = y
  BY DEF Forks, Started
<1>1. CASE \E x \in T : new[x] = p
  <2>1. PICK x \in T : new[x] = p
    BY <1>1
  <2>2. StartChild(S, new, ch)[p] = x
    BY <1>0, <2>1 DEF StartChild
  <2> QED
    BY <1>0, <2>1, <2>2 DEF StartPid, StartState
<1>2. CASE \A x \in T : new[x] # p
  <2>1. StartChild(S, new, ch)[p] = ch[p]
    BY <1>2 DEF StartChild
  <2>2. pr[p] = "live"
    BY <1>2 DEF StartProc
  <2>3. ch[p] \notin T
    BY <1>0, <2>2, ConfigAssumption
  <2> QED
    BY <2>1, <2>2, <2>3 DEF StartPid, StartState
<1> QED
  BY <1>1, <1>2

(* Every step keeps the children known: suppression_start takes an action  *)
(* out of RUNNING only when it stops its child, and a reload stops them    *)
(* all before it forgets them.                                             *)
LEMMA KnownStep ==
  ASSUME TypeOK, ChildrenKnown, [Next]_vars
  PROVE  ChildrenKnown'
<1> SUFFICES ASSUME NEW p \in Pid, proc'[p] = "live", p \notin term'
             PROVE  child'[p] \in Action /\ aPid'[child'[p]] = p /\ aState'[child'[p]] = "running"
  BY DEF ChildrenKnown
<1>0. proc[p] = "live" /\ p \notin term =>
        child[p] \in Action /\ aPid[child[p]] = p /\ aState[child[p]] = "running"
  BY DEF ChildrenKnown
<1>1. ASSUME NEW u \in Supp, SuppressionStart(u)
      PROVE  child'[p] \in Action /\ aPid'[child'[p]] = p /\ aState'[child'[p]] = "running"
  <2>1. child' = child /\ aPid' = aPid /\ proc' = proc /\ term \subseteq term'
    BY <1>1 DEF SuppressionStart, Kill
  <2>2. aState'[child[p]] = "running"
    <3>1. child[p] \in Action /\ aPid[child[p]] = p /\ aState[child[p]] = "running"
      BY <1>0, <2>1
    <3>2. CASE aState' = aState
      BY <3>1, <3>2
    <3>3. CASE /\ aState' = [a \in Action |->
                    IF SuppressedAct(u, a) THEN "suppressed" ELSE aState[a]]
               /\ term' = Kill(Terminated(u), aState, aPid, proc)
      <4>1. child[p] \notin Terminated(u)
        BY <2>1, <3>1, <3>3 DEF Kill
      <4>2. ~SuppressedAct(u, child[p])
        BY <3>1, <4>1 DEF SuppressedAct, Terminated, StoppedAction, ActHit
      <4> QED
        BY <3>1, <3>3, <4>2
    <3> QED
      BY <1>1, <3>2, <3>3 DEF SuppressionStart
  <2> QED
    BY <1>0, <2>1, <2>2
<1>2. ASSUME NEW u \in Supp, SuppressionEnd(u)
      PROVE  child'[p] \in Action /\ aPid'[child'[p]] = p /\ aState'[child'[p]] = "running"
  <2>1. UNCHANGED <<child, aPid, proc, term>>
    BY <1>2 DEF SuppressionEnd, procVars
  <2>2. \A a \in Action : aState[a] = "running" => aState'[a] = "running"
    BY <1>2 DEF SuppressionEnd, TypeOK, TypeAct
  <2> QED
    BY <1>0, <2>1, <2>2
<1>3. CASE ExecuteCb
  <2> DEFINE S == ExecNow(ev)
             pr == proc
             ch == child
  <2>1. PICK new \in Forks(S, pr) :
          /\ aState' = StartState(S, new)
          /\ aPid' = StartPid(S, new)
          /\ proc' = StartProc(S, new, pr)
          /\ child' = StartChild(S, new, ch)
    BY <1>3 DEF ExecuteCb
  <2>2. S \in SUBSET Action /\ \A x \in S : aPid[x] = NoPid
    BY DEF ExecNow, CanExec
  <2>3. pr \in [Pid -> ProcState] /\ ch \in [Pid -> Action \cup {NoAction}]
    BY DEF TypeOK, TypeProc
  <2>4. pr[p] = "live" => ch[p] \in Action /\ aPid[ch[p]] = p /\ aState[ch[p]] = "running"
    BY <1>0, <1>3 DEF ExecuteCb, Kill
  <2> HIDE DEF S, pr, ch
  <2> DEFINE c == StartChild(S, new, ch)[p]
  <2>5. /\ c \in Action /\ StartPid(S, new)[c] = p /\ StartState(S, new)[c] = "running"
        /\ c \in S \/ c = ch[p]
    BY <2>1, <2>2, <2>3, <2>4, ForkKnown
  <2> QED
    BY <2>1, <2>5
<1>4. ASSUME NEW a \in Action, Reap(a)
      PROVE  child'[p] \in Action /\ aPid'[child'[p]] = p /\ aState'[child'[p]] = "running"
  <2> DEFINE S == ExecNext(a)
             pr == ReapedProc(a)
             ch == [child EXCEPT ![aPid[a]] = NoAction]
  <2>1. PICK new \in Forks(S, pr) :
          /\ aState' = ReapedState(a, S, new)
          /\ aPid' = ReapedPid(a, S, new)
          /\ proc' = StartProc(S, new, pr)
          /\ child' = StartChild(S, new, ch)
    BY <1>4 DEF Reap
  <2>2. aPid[a] # NoPid /\ aPid[a] \in Pid /\ term' = term \ {aPid[a]}
    BY <1>4 DEF Reap, TypeOK, TypeAct
  <2>3. S \in SUBSET Action /\ \A x \in S : aPid[x] = NoPid
    BY DEF ExecNext, CanExec
  <2>4. pr \in [Pid -> ProcState] /\ ch \in [Pid -> Action \cup {NoAction}]
    BY <2>2 DEF ReapedProc, TypeOK, TypeProc, ProcState
  <2>5. pr[p] = "live" => /\ p # aPid[a]
                          /\ ch[p] \in Action /\ aPid[ch[p]] = p /\ aState[ch[p]] = "running"
    BY <1>0, <2>2 DEF ReapedProc, TypeOK, TypeProc
  <2>6. p # aPid[a] \/ ch[p] \notin Action
    BY <2>2, ConfigAssumption DEF TypeOK, TypeProc
  <2> HIDE DEF S, pr, ch
  <2> DEFINE c == StartChild(S, new, ch)[p]
  <2>7. /\ c \in Action /\ StartPid(S, new)[c] = p /\ StartState(S, new)[c] = "running"
        /\ c \in S \/ c = ch[p]
    BY <2>1, <2>3, <2>4, <2>5, ForkKnown
  <2>8. c # a
    <3>1. a \notin S
      BY <2>2, <2>3
    <3>2. StartPid(S, new)[a] = aPid[a]
      BY <3>1 DEF StartPid, Started
    <3> QED
      BY <2>6, <2>7, <3>1, <3>2
  <2> HIDE DEF c
  <2>9. aPid'[c] = p /\ aState'[c] = "running"
    BY <2>1, <2>7, <2>8 DEF ReapedPid, ReapedState, StartPid, StartState
  <2> QED
    BY <2>1, <2>7, <2>9 DEF c
<1>5. CASE SighupCb
  BY <1>0, <1>5 DEF SighupCb, Kill
<1>6. CASE (\E q \in Pid : ReapUnknown(q)) \/ ChildExit
  BY <1>0, <1>6 DEF ReapUnknown, ChildExit, Exit, actVars, TypeOK, TypeProc
<1>7. CASE \/ \E e \in Event : Fire(e)
           \/ SigchldCb \/ CleanupDone \/ ReloadDone \/ Sigusr2Cb \/ UNCHANGED vars
  BY <1>0, <1>7 DEF Fire, SigchldCb, CleanupDone, ReloadDone, Sigusr2Cb, vars, actVars, procVars
<1> QED
  BY <1>1, <1>2, <1>3, <1>4, <1>5, <1>6, <1>7 DEF Next, SuppressCb, ReapOne

(* For every configuration, with reloads and the reuse of pids: a process  *)
(* that lives on without the daemon knowing it has been sent SIGTERM.      *)
THEOREM ForgottenWereTold == Spec => []ChildrenKnown
<1>1. Init => ChildrenKnown
  BY DEF Init, ChildrenKnown
<1> QED
  BY <1>1, KnownStep, TypeCorrect, PTL DEF Spec

(* So a schedule that is in use is one with a child the daemon knows.      *)
LEMMA InUseKnown ==
  ASSUME TypeOK, ChildrenKnown, NEW s
  PROVE  InUse(s) <=> \E a \in ActionsOf(s) : aPid[a] # NoPid
<1>1. ASSUME NEW a \in ActionsOf(s), NEW p \in Pid, child[p] = a, proc[p] = "live", p \notin term
      PROVE  aPid[a] # NoPid
  BY <1>1, ConfigAssumption DEF ChildrenKnown
<1> QED
  BY <1>1 DEF InUse

-----------------------------------------------------------------------------
(* No new input while a schedule is being executed                         *)

(* The two halves of InputStable, for one step.                            *)
OwnOutputOnly ==
  \A s \in Schedule : (\E a \in ActionsOf(s) : aPid[a] # NoPid) =>
     active'[s] \ active[s] \subseteq {a \in ActionsOf(s) : s \in Dest[a]}

InputKept ==
  \A s \in Schedule : (\E a \in ActionsOf(s) : aPid'[a] # NoPid) =>
     active[s] \subseteq active'[s] \/ Sigusr2Cb

(* Only these steps touch an active queue.                                 *)
LEMMA QueueSteps ==
  ASSUME [Next]_vars
  PROVE  ExecuteCb \/ (\E a \in Action : Reap(a)) \/ Sigusr2Cb \/ active' = active
<1>1. CASE SuppressCb
  BY <1>1 DEF SuppressCb, SuppressionStart, SuppressionEnd, dataVars
<1>2. CASE \E e \in Event : Fire(e)
  BY <1>2 DEF Fire, dataVars
<1>3. CASE ChildExit \/ SigchldCb \/ CleanupDone \/ SighupCb \/ ReloadDone
  BY <1>3 DEF ChildExit, Exit, SigchldCb, CleanupDone, SighupCb, ReloadDone, dataVars
<1>4. CASE \E p \in Pid : ReapUnknown(p)
  BY <1>4 DEF ReapUnknown, dataVars
<1>5. CASE UNCHANGED vars
  BY <1>5 DEF vars, dataVars
<1> QED
  BY <1>1, <1>2, <1>3, <1>4, <1>5 DEF Next, ReapOne

(* Only execute_cb moves what others delivered to the active queue, and it *)
(* does so for schedules without a child.                                  *)
LEMMA InputStep ==
  ASSUME RunInv, [Next]_vars
  PROVE  OwnOutputOnly
<1> USE DEF RunInv, OwnOutputOnly
<1>1. CASE active' = active
  BY <1>1
<1>2. CASE ExecuteCb
  <2>1. ASSUME NEW s \in Schedule, NEW a \in ActionsOf(s), aPid[a] # NoPid
        PROVE  active'[s] = active[s]
    <3>1. s \notin Starting(ev)
      BY <2>1 DEF Executing, Starting, ActionsOf
    <3> QED
      BY <1>2, <3>1 DEF ExecuteCb
  <2> QED
    BY <2>1
<1>3. ASSUME NEW a \in Action, Reap(a) PROVE OwnOutputOnly
  <2> DEFINE s == SchedOf[a]
             own == {b \in ActionsOf(s) : s \in Dest[b]}
  <2>0. s \in Schedule /\ a \in ActionsOf(s)
    BY ConfigAssumption DEF ActionsOf
  <2>1. PICK q :
          active' = [active EXCEPT ![s] = q] /\ q \subseteq active[s] \cup own
    <3>1. \A ok : SelfMoved(a, ok) \subseteq own
      BY <2>0 DEF SelfMoved
    <3>2. \A defer, ws : Delivered(s, s, defer, ws) \subseteq own
      BY DEF Delivered
    <3> DEFINE status == proc[aPid[a]] = "ok"
               q0 == active[s] \cup SelfMoved(a, status)
    <3>3. \/ active' = [active EXCEPT ![s] = {}]
          \/ active' = [active EXCEPT ![s] = q0]
          \/ \E defer, ws :
               active' = [active EXCEPT ![s] = q0 \cup Delivered(s, s, defer, ws)]
      BY <1>3 DEF Reap
    <3> HIDE DEF status, s, own
    <3>4. q0 \subseteq active[s] \cup own
      BY <3>1
    <3> HIDE DEF q0
    <3> QED
      BY <3>2, <3>3, <3>4
  <2> HIDE DEF s
  <2> QED
    BY <2>0, <2>1 DEF TypeOK, TypeData
<1>4. CASE Sigusr2Cb
  BY <1>4 DEF Sigusr2Cb
<1> QED
  BY <1>1, <1>2, <1>3, <1>4, QueueSteps

(* The queue is cleaned when no action of the schedule is RUNNING any      *)
(* more, and then none of them has a child.                                *)
LEMMA KeptStep ==
  ASSUME RunInv, [Next]_vars
  PROVE  InputKept
<1> USE DEF RunInv, InputKept
<1>1. CASE active' = active
  BY <1>1
<1>2. CASE ExecuteCb
  BY <1>2 DEF ExecuteCb
<1>3. ASSUME NEW a \in Action, Reap(a) PROVE InputKept
  <2> DEFINE s == SchedOf[a]
  <2>0. s \in Schedule
    BY ConfigAssumption
  <2>1. PICK T \in SUBSET ExecNext(a) : ReapEffect(a, T)
    BY <1>3, ReapPids
  <2>2. CASE StillRunning(s, aState')
    <3>1. active' = [active EXCEPT ![s] = active[s] \cup SelfMoved(a, proc[aPid[a]] = "ok")]
      BY <1>3, <2>2 DEF Reap
    <3> QED
      BY <2>0, <3>1 DEF TypeOK, TypeData
  <2>3. CASE ~StillRunning(s, aState')
    <3>1. \A b \in ActionsOf(s) : aPid'[b] = NoPid
      BY <2>1, <2>3, StillHasChild
    <3>2. \E q : active' = [active EXCEPT ![s] = q]
      BY <1>3 DEF Reap
    <3> QED
      BY <2>0, <3>1, <3>2 DEF TypeOK, TypeData
  <2> QED
    BY <2>2, <2>3
<1>4. CASE Sigusr2Cb
  BY <1>4
<1> QED
  BY <1>1, <1>2, <1>3, <1>4, QueueSteps

(* While a schedule is in use its active queue gets nothing but what a     *)
(* sequential schedule delivers to itself, and loses nothing except to the *)
(* operator's cleaning: for every configuration in which no suppression    *)
(* stops one of several parallel actions by itself, with reloads and       *)
(* cleaning at any moment.                                                 *)
THEOREM InputIsStable == StopsWholeRuns /\ Spec => InputStable
<1> DEFINE Stable ==
      \A s \in Schedule :
        /\ InUse(s) /\ Documented(s) => active'[s] \ active[s] \subseteq OwnOutput(s)
        /\ InUse(s)' => active[s] \subseteq active'[s] \/ Sigusr2Cb
<1>1. TypeOK /\ ChildrenKnown /\ TypeOK' /\ ChildrenKnown' /\ RunInv /\ [Next]_vars
        => [Stable]_vars
  <2> SUFFICES ASSUME TypeOK, ChildrenKnown, TypeOK', ChildrenKnown', RunInv, [Next]_vars
               PROVE  Stable
    OBVIOUS
  <2>1. OwnOutputOnly /\ InputKept
    BY InputStep, KeptStep
  <2>2. \A s : InUse(s) <=> \E a \in ActionsOf(s) : aPid[a] # NoPid
    BY InUseKnown
  <2>3. \A s : InUse(s)' => \E a \in ActionsOf(s) : aPid'[a] # NoPid
    BY ConfigAssumption DEF InUse, ChildrenKnown, ActionsOf
  <2>4. \A s \in Schedule : Documented(s) =>
          {a \in ActionsOf(s) : s \in Dest[a]} \subseteq OwnOutput(s)
    BY DEF Documented, FeedsItself, OwnOutput
  <2> QED
    BY <2>1, <2>2, <2>3, <2>4 DEF OwnOutputOnly, InputKept
<1> QED
  BY <1>1, RunInvAlways, TypeCorrect, ForgottenWereTold, PTL DEF Spec, InputStable

-----------------------------------------------------------------------------
(* Deferred results                                                        *)

(* The actions whose child is forked by a step.                            *)
Begun == {b \in Action : aPid[b] = NoPid /\ aPid'[b] # NoPid}

(* What lmapd_cleanup does to the workspaces and the MOVEDEFERRED flags:   *)
(* while the run goes on, only a's workspace is cleaned, unless its move   *)
(* is deferred; at the end of the run everything of the schedule is        *)
(* delivered and cleaned.                                                  *)
LEMMA ReapData ==
  ASSUME TypeOK, NEW a \in Action, Reap(a)
  PROVE  IF StillRunning(SchedOf[a], aState')
         THEN /\ aDefer' \subseteq aDefer \cup {a}
              /\ (aWs \cup Begun) \ {a} \subseteq aWs'
              /\ a \in aDefer' => aWs \subseteq aWs'
         ELSE aDefer' = aDefer \ ActionsOf(SchedOf[a]) /\ aWs \ ActionsOf(SchedOf[a]) \subseteq aWs'
<1> DEFINE s == SchedOf[a]
           S == ExecNext(a)
           defer == DeferAfter(a, proc[aPid[a]] = "ok")
           ws(new) == WsAfter(a, defer, Started(S, new))
<1>1. PICK new \in Forks(S, ReapedProc(a)) :
        /\ aState' = ReapedState(a, S, new)
        /\ aPid' = ReapedPid(a, S, new)
        /\ IF StillRunning(s, ReapedState(a, S, new))
           THEN aDefer' = defer /\ aWs' = ws(new)
           ELSE aDefer' = defer \ ActionsOf(s) /\ aWs' = ws(new) \ ActionsOf(s)
  BY DEF Reap
<1>2. a \in ActionsOf(s) /\ defer \subseteq aDefer \cup {a} /\ aDefer \subseteq defer
  BY DEF ActionsOf, DeferAfter
<1>3. Begun \subseteq Started(S, new)
  BY <1>1 DEF Begun, ReapedPid, StartPid
<1>4. /\ (aWs \cup Begun) \ {a} \subseteq ws(new)
      /\ a \in defer => aWs \subseteq ws(new)
  BY <1>3 DEF WsAfter
<1> HIDE DEF defer, ws, s, S
<1>5. IF StillRunning(s, aState')
      THEN aDefer' = defer /\ aWs' = ws(new)
      ELSE aDefer' = defer \ ActionsOf(s) /\ aWs' = ws(new) \ ActionsOf(s)
  BY <1>1
<1>6. CASE StillRunning(s, aState')
  BY <1>2, <1>4, <1>5, <1>6 DEF s
<1>7. CASE ~StillRunning(s, aState')
  BY <1>2, <1>4, <1>5, <1>7 DEF s
<1> QED
  BY <1>6, <1>7 DEF s

(* Only these steps touch a workspace, a child or a MOVEDEFERRED flag.     *)
LEMMA DeferSteps ==
  ASSUME [Next]_vars
  PROVE  \/ ExecuteCb
         \/ \E a \in Action : Reap(a)
         \/ SighupCb
         \/ Sigusr2Cb
         \/ UNCHANGED <<aPid, aDefer, aWs>>
<1>1. CASE SuppressCb
  BY <1>1 DEF SuppressCb, SuppressionStart, SuppressionEnd, dataVars
<1>2. CASE \E e \in Event : Fire(e)
  BY <1>2 DEF Fire, actVars, dataVars
<1>3. CASE ChildExit \/ SigchldCb \/ CleanupDone \/ ReloadDone
  BY <1>3 DEF ChildExit, Exit, SigchldCb, CleanupDone, ReloadDone, actVars, dataVars
<1>4. CASE \E p \in Pid : ReapUnknown(p)
  BY <1>4 DEF ReapUnknown, actVars, dataVars
<1>5. CASE UNCHANGED vars
  BY <1>5 DEF vars, actVars, dataVars
<1> QED
  BY <1>1, <1>2, <1>3, <1>4, <1>5 DEF Next, ReapOne

(* A run that ends delivers what is deferred; one that goes on has a       *)
(* RUNNING action, and so a child.                                         *)
LEMMA DeferredChildStep ==
  ASSUME TypeOK, RunningHasChild, DeferredHasChild, [Next]_vars
  PROVE  DeferredHasChild'
<1>0. RunningHasChild'
  BY RunningStep
<1>1. CASE ExecuteCb
  <2>1. \A b \in Action : aPid[b] # NoPid => aPid'[b] # NoPid
    BY <1>1, ExecutePids DEF ExecEffect
  <2>2. aDefer' = aDefer
    BY <1>1 DEF ExecuteCb
  <2> QED
    BY <2>1, <2>2 DEF DeferredHasChild, ActionsOf
<1>2. ASSUME NEW a \in Action, Reap(a) PROVE DeferredHasChild'
  <2>1. PICK T \in SUBSET ExecNext(a) : ReapEffect(a, T)
    BY <1>2, ReapPids
  <2>2. \A b \in Action : b # a /\ aPid[b] # NoPid => aPid'[b] # NoPid
    BY <2>1 DEF ReapEffect
  <2>3. aDefer' \subseteq Action
    BY TypeStep DEF TypeOK, TypeAct
  <2> SUFFICES ASSUME NEW d \in aDefer'
               PROVE  \E b \in ActionsOf(SchedOf[d]) : aPid'[b] # NoPid
    BY DEF DeferredHasChild, ActionsOf
  <2>4. CASE SchedOf[d] # SchedOf[a]
    <3>1. d \in aDefer
      BY <1>2, <2>4, ReapData
    <3>2. PICK b \in ActionsOf(SchedOf[d]) : aPid[b] # NoPid
      BY <3>1 DEF DeferredHasChild
    <3>3. b \in Action /\ b # a
      BY <2>4 DEF ActionsOf
    <3> QED
      BY <2>2, <3>2, <3>3
  <2>5. CASE SchedOf[d] = SchedOf[a]
    <3>1. StillRunning(SchedOf[a], aState')
      BY <1>2, <2>3, <2>5, ReapData DEF ActionsOf
    <3>2. PICK b \in ActionsOf(SchedOf[a]) : aState'[b] = "running"
      BY <3>1 DEF StillRunning
    <3>3. aPid'[b] # NoPid
      BY <1>0, <3>2 DEF RunningHasChild, ActionsOf
    <3> QED
      BY <2>5, <3>2, <3>3
  <2> QED
    BY <2>4, <2>5
<1>3. CASE SighupCb
  BY <1>3 DEF SighupCb, DeferredHasChild
<1>4. CASE UNCHANGED <<aPid, aDefer>>
  BY <1>4 DEF DeferredHasChild, ActionsOf
<1>5. CASE Sigusr2Cb
  BY <1>4, <1>5 DEF Sigusr2Cb, actVars
<1> QED
  BY <1>1, <1>2, <1>3, <1>4, <1>5, DeferSteps

(* For every configuration and whatever the operator does, a result whose  *)
(* delivery was deferred belongs to a schedule that has a child: the last  *)
(* child of the run to be reaped delivers it.                              *)
THEOREM DeferredAlwaysHasChild == Spec => []DeferredHasChild
<1>1. Init => DeferredHasChild
  BY DEF Init, DeferredHasChild
<1>2. TypeOK /\ RunningHasChild /\ DeferredHasChild /\ [Next]_vars => DeferredHasChild'
  BY DeferredChildStep
<1> QED
  BY <1>1, <1>2, TypeCorrect, RunningAlwaysHasChild, PTL DEF Spec

(* A start of a schedule cleans only workspaces that nobody needs, and     *)
(* lmapd_cleanup keeps the ones that are deferred.                         *)
LEMMA ResultsKeptStep ==
  ASSUME ~OperatorCleans, RunInv, DeferredHasChild, ResultsKept, [Next]_vars
  PROVE  ResultsKept'
<1>0. TypeOK /\ Executing /\ aDefer \subseteq Action /\ aWs \subseteq Action
  BY DEF RunInv, TypeOK, TypeAct, TypeData
<1>1. CASE ExecuteCb
  <2>1. PICK new \in Forks(ExecNow(ev), proc) :
          /\ aPid' = StartPid(ExecNow(ev), new)
          /\ aWs' = {a \in aWs : SchedOf[a] \notin Starting(ev)}
                      \cup Started(ExecNow(ev), new)
    BY <1>1 DEF ExecuteCb
  <2>2. aDefer' = aDefer
    BY <1>1 DEF ExecuteCb
  <2>3. \A a \in Action : aPid[a] # NoPid => SchedOf[a] \notin Starting(ev)
    BY <1>0 DEF Executing, Starting
  <2>4. \A a \in aDefer : SchedOf[a] \notin Starting(ev)
    BY <2>3 DEF DeferredHasChild, ActionsOf
  <2>5. \A a \in Action : aPid'[a] # NoPid => a \in Started(ExecNow(ev), new) \/ aPid[a] # NoPid
    BY <2>1 DEF StartPid
  <2> QED
    BY <2>1, <2>2, <2>3, <2>4, <2>5 DEF ResultsKept
<1>2. ASSUME NEW a \in Action, Reap(a) PROVE ResultsKept'
  <2>1. PICK T \in SUBSET ExecNext(a) : ReapEffect(a, T)
    BY <1>0, <1>2, ReapPids
  <2>2. a \in aWs /\ aPid'[a] = NoPid
    BY <2>1 DEF ReapEffect, ResultsKept
  <2>3. CASE StillRunning(SchedOf[a], aState')
    <3>1. /\ aDefer' \subseteq aDefer \cup {a}
          /\ (aWs \cup Begun) \ {a} \subseteq aWs'
          /\ a \in aDefer' => aWs \subseteq aWs'
      BY <1>0, <1>2, <2>3, ReapData
    <3>2. ASSUME NEW b \in Action, aPid'[b] # NoPid PROVE b \in aWs'
      BY <2>2, <3>1, <3>2 DEF Begun, ResultsKept
    <3>3. ASSUME NEW b \in aDefer' PROVE b \in aWs'
      BY <1>0, <2>2, <3>1, <3>3 DEF ResultsKept
    <3> QED
      BY <3>2, <3>3 DEF ResultsKept
  <2>4. CASE ~StillRunning(SchedOf[a], aState')
    <3>1. /\ aDefer' = aDefer \ ActionsOf(SchedOf[a])
          /\ aWs \ ActionsOf(SchedOf[a]) \subseteq aWs'
      BY <1>0, <1>2, <2>4, ReapData
    <3>2. ASSUME NEW b \in Action, aPid'[b] # NoPid
          PROVE  b \notin ActionsOf(SchedOf[a]) /\ aPid[b] # NoPid
      <4>1. b \notin ActionsOf(SchedOf[a])
        BY <2>1, <2>4, <3>2, StillHasChild
      <4>2. b \notin T /\ b # a
        BY <2>2, <3>2, <4>1, ConfigAssumption DEF ExecNext, ActionsOf
      <4> QED
        BY <2>1, <3>2, <4>1, <4>2 DEF ReapEffect
    <3> QED
      BY <1>0, <3>1, <3>2 DEF ResultsKept
  <2> QED
    BY <2>3, <2>4
<1>3. CASE SighupCb
  BY <1>3 DEF SighupCb, ResultsKept
<1>4. CASE Sigusr2Cb
  BY <1>4 DEF Sigusr2Cb
<1>5. CASE UNCHANGED <<aPid, aDefer, aWs>>
  BY <1>5 DEF ResultsKept
<1> QED
  BY <1>1, <1>2, <1>3, <1>4, <1>5, DeferSteps

(* It is an invariant under the hypotheses.                                *)
LEMMA ResultsAlwaysKept == StopsWholeRuns /\ ~OperatorCleans /\ Spec => []ResultsKept
<1>1. Init => ResultsKept
  BY DEF Init, ResultsKept
<1>2. ~OperatorCleans /\ RunInv /\ DeferredHasChild /\ ResultsKept /\ [Next]_vars
        => ~OperatorCleans' /\ ResultsKept'
  BY ResultsKeptStep
<1> QED
  BY <1>1, <1>2, RunInvAlways, DeferredAlwaysHasChild, PTL DEF Spec

(* A deferred result is in its workspace, and a child that will deliver it *)
(* is there, for every configuration in which no suppression stops one of  *)
(* several parallel actions by itself, as long as the operator does not    *)
(* have the workspaces cleaned.                                            *)
THEOREM DeferredNeverLost ==
  StopsWholeRuns /\ ~OperatorCleans /\ Spec => []DeferredPending
<1>1. TypeOK /\ ResultsKept /\ DeferredHasChild => DeferredPending
  BY DEF TypeOK, TypeAct, ResultsKept, DeferredHasChild, DeferredPending
<1> QED
  BY <1>1, TypeCorrect, ResultsAlwaysKept, DeferredAlwaysHasChild, PTL

(* A result ceases to be deferred only by reaching all the schedules it is *)
(* meant for, or by a reload that forgets it.                              *)
DeferralDelivers ==
  \A a \in aDefer \ aDefer', d \in Schedule :
     d \in Dest[a] \ {SchedOf[a]} => a \in incoming'[d] \/ reloads' # reloads

(* Only the end of a run and a reload clear the MOVEDEFERRED flags.        *)
LEMMA DeliveryStep ==
  ASSUME RunInv, ResultsKept, [Next]_vars
  PROVE  DeferralDelivers
<1>0. TypeOK /\ aDefer \subseteq Action
  BY DEF RunInv, TypeOK, TypeAct
<1> SUFFICES ASSUME NEW a \in aDefer, a \notin aDefer', NEW d \in Schedule, d \in Dest[a],
                    d # SchedOf[a]
             PROVE  a \in incoming'[d] \/ reloads' # reloads
  BY DEF DeferralDelivers
<1>1. CASE ExecuteCb \/ Sigusr2Cb
  BY <1>1 DEF ExecuteCb, Sigusr2Cb, actVars
<1>2. ASSUME NEW b \in Action, Reap(b) PROVE a \in incoming'[d]
  <2> DEFINE s == SchedOf[b]
             S == ExecNext(b)
             defer == DeferAfter(b, proc[aPid[b]] = "ok")
             ws(new) == WsAfter(b, defer, Started(S, new))
  <2>1. PICK new : IF StillRunning(s, ReapedState(b, S, new))
                   THEN aDefer' = defer
                   ELSE /\ aDefer' = defer \ ActionsOf(s)
                        /\ incoming' = [x \in Schedule |->
                             IF x = s THEN incoming[x]
                             ELSE incoming[x] \cup Delivered(s, x, defer, ws(new))]
    BY <1>2 DEF Reap
  <2>2. a \in defer /\ a \in aWs
    BY <1>0 DEF DeferAfter, ResultsKept
  <2>3. a \in ws(new)
    BY <2>2 DEF WsAfter
  <2> HIDE DEF defer, ws, S
  <2>4. ~StillRunning(s, ReapedState(b, S, new)) /\ a \in ActionsOf(s)
    BY <2>1, <2>2
  <2>5. SchedOf[a] = s
    BY <2>4 DEF ActionsOf
  <2>6. a \in Delivered(s, d, defer, ws(new))
    BY <2>2, <2>3, <2>4 DEF Delivered
  <2> QED
    BY <2>1, <2>4, <2>5, <2>6
<1>3. CASE SighupCb
  <2>1. reloads \in Nat
    BY <1>0, ConfigAssumption DEF TypeOK, TypeLoop
  <2> QED
    BY <1>3, <2>1 DEF SighupCb
<1> QED
  BY <1>1, <1>2, <1>3, DeferSteps

(* The end of a run delivers every deferred result to all its              *)
(* destinations, under the hypotheses of the last theorem.                 *)
THEOREM DeferredReachTheirQueues ==
  StopsWholeRuns /\ ~OperatorCleans /\ Spec => [][DeferralDelivers]_vars
<1>1. RunInv /\ ResultsKept /\ [Next]_vars => [DeferralDelivers]_vars
  BY DeliveryStep
<1> QED
  BY <1>1, ResultsAlwaysKept, RunInvAlways, PTL DEF Spec
=============================================================================
