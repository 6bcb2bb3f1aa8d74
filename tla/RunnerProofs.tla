---------------------------- MODULE RunnerProofs ----------------------------
(***************************************************************************)
(* Invariants of the runner, proved for every configuration.               *)
(***************************************************************************)
EXTENDS Runner, FiniteSetTheorems, TLAPS

-----------------------------------------------------------------------------
(* Type correctness                                                        *)

(* What forking does to the actions and to the process table.              *)
LEMMA ForkTypes ==
  ASSUME NEW S \in SUBSET Action, NEW pr \in [Pid -> ProcState],
         NEW new \in Forks(S, pr), TypeAct
  PROVE  /\ StartState(S, new) \in [Action -> ActState]
         /\ StartPid(S, new) \in [Action -> Pid \cup {NoPid}]
         /\ StartProc(S, new, pr) \in [Pid -> ProcState]
         /\ Started(S, new) \subseteq S
<1>1. new \in [S -> Pid \cup {NoPid}]
  BY DEF Forks
<1> QED
  BY <1>1 DEF StartState, StartPid, StartProc, Started, TypeAct, ActState, ProcState

(* The children are those of configured actions.                           *)
LEMMA ForkChild ==
  ASSUME NEW S \in SUBSET Action, NEW new, NEW ch \in [Pid -> Action \cup {NoAction}]
  PROVE  StartChild(S, new, ch) \in [Pid -> Action \cup {NoAction}]
BY DEF StartChild, Started

(* The schedules and actions touched by the callbacks are configured ones. *)
LEMMA ExecTypes ==
  /\ ExecNow(ev) \subseteq Action
  /\ \A a \in Action : ExecNext(a) \subseteq Action
BY DEF ExecNow, ExecNext

(* Every signal sent by action_kill goes to a child.                       *)
LEMMA KillType ==
  ASSUME NEW S, NEW state, NEW pid, NEW pr, TypeProc
  PROVE  Kill(S, state, pid, pr) \in SUBSET Pid
BY DEF Kill, TypeProc

(* The initial state has the right types.                                  *)
LEMMA InitType == Init => TypeOK
<1> SUFFICES ASSUME Init PROVE TypeOK
  OBVIOUS
<1>1. TypeSched
  BY DEF Init, TypeSched, SchedState
<1>2. TypeAct
  BY DEF Init, TypeAct, ActState
<1>3. uState \in [Supp -> SuppState]
  BY DEF Init, SuppState
<1>4. TypeProc
  BY DEF Init, TypeProc, ProcState
<1>5. TypeLoop
  BY ConfigAssumption DEF Init, TypeLoop, Arm, Used
<1>6. TypeData
  BY DEF Init, TypeData
<1> QED
  BY <1>1, <1>2, <1>3, <1>4, <1>5, <1>6 DEF TypeOK

(* fire_cb.                                                                *)
LEMMA FireType ==
  ASSUME TypeOK, NEW e \in Event, Fire(e)
  PROVE  TypeOK'
<1> USE DEF TypeOK, Fire, schedVars, actVars, procVars, dataVars
<1>1. TypeSched' /\ TypeAct' /\ TypeProc' /\ TypeData' /\ uState' \in [Supp -> SuppState]
  BY DEF TypeSched, TypeAct, TypeProc, TypeData
<1>2. todo' \in SUBSET (Supp \X {0, 1})
  OBVIOUS
<1>3. TypeLoop'
  BY <1>2, ConfigAssumption DEF TypeLoop
<1> QED
  BY <1>1, <1>3

(* suppression_start.                                                      *)
LEMMA SuppressionStartType ==
  ASSUME TypeOK, NEW u \in Supp, SuppressionStart(u)
  PROVE  TypeOK'
<1> USE DEF TypeOK, SuppressionStart
<1>1. TypeSched'
  BY DEF TypeSched, schedVars, SchedState
<1>2. TypeAct'
  BY DEF TypeAct, ActState
<1>3. uState' \in [Supp -> SuppState]
  BY DEF SuppState
<1>4. TypeProc'
  BY KillType DEF TypeProc
<1>5. TypeLoop'
  BY DEF TypeLoop, NextInList, lmapdVars
<1>6. TypeData'
  BY DEF TypeData, dataVars
<1> QED
  BY <1>1, <1>2, <1>3, <1>4, <1>5, <1>6

(* suppression_end.                                                        *)
LEMMA SuppressionEndType ==
  ASSUME TypeOK, NEW u \in Supp, SuppressionEnd(u)
  PROVE  TypeOK'
<1> USE DEF TypeOK, SuppressionEnd
<1>1. TypeSched'
  BY DEF TypeSched, SchedState, Decremented
<1>2. TypeAct'
  BY DEF TypeAct, ActState, Decremented
<1>3. uState' \in [Supp -> SuppState]
  BY DEF SuppState
<1>4. TypeProc'
  BY DEF TypeProc, procVars
<1>5. TypeLoop'
  BY DEF TypeLoop, NextInList, lmapdVars
<1>6. TypeData'
  BY DEF TypeData, dataVars
<1> QED
  BY <1>1, <1>2, <1>3, <1>4, <1>5, <1>6

(* execute_cb.                                                             *)
LEMMA ExecuteType ==
  ASSUME TypeOK, ExecuteCb
  PROVE  TypeOK'
<1> DEFINE S == ExecNow(ev)
<1>1. PICK new \in Forks(S, proc) :
        /\ aState' = StartState(S, new)
        /\ aPid' = StartPid(S, new)
        /\ proc' = StartProc(S, new, proc)
        /\ child' = StartChild(S, new, child)
        /\ sState' = [s \in Schedule |-> SchedAfterExec(ev, s, Started(S, new))]
        /\ aWs' = {a \in aWs : SchedOf[a] \notin Starting(ev)} \cup Started(S, new)
  BY DEF ExecuteCb
<1>2. /\ StartState(S, new) \in [Action -> ActState]
      /\ StartPid(S, new) \in [Action -> Pid \cup {NoPid}]
      /\ StartProc(S, new, proc) \in [Pid -> ProcState]
      /\ Started(S, new) \subseteq Action
      /\ StartChild(S, new, child) \in [Pid -> Action \cup {NoAction}]
  BY ForkTypes, ForkChild, ExecTypes DEF TypeOK, TypeProc
<1>3. TypeSched'
  BY <1>1 DEF TypeOK, TypeSched, SchedAfterExec, SchedState, ExecuteCb
<1>4. TypeAct'
  BY <1>1, <1>2 DEF TypeOK, TypeAct, ExecuteCb
<1>5. TypeProc'
  BY <1>1, <1>2, KillType DEF TypeOK, TypeProc, ExecuteCb
<1>6. TypeLoop'
  BY ConfigAssumption DEF TypeOK, TypeLoop, ExecuteCb
<1>7. TypeData'
  BY <1>1, <1>2 DEF TypeOK, TypeData, ExecuteCb
<1>8. uState' \in [Supp -> SuppState]
  BY DEF TypeOK, ExecuteCb
<1> QED
  BY <1>3, <1>4, <1>5, <1>6, <1>7, <1>8 DEF TypeOK

(* lmapd_cleanup, for a child that belongs to an action.                   *)
LEMMA ReapType ==
  ASSUME TypeOK, NEW a \in Action, Reap(a)
  PROVE  TypeOK'
<1> DEFINE s == SchedOf[a]
           S == ExecNext(a)
           status == proc[aPid[a]] = "ok"
           ok == IF status THEN aOk \cup {a} ELSE aOk \ {a}
           defer == DeferAfter(a, status)
           ws(new) == WsAfter(a, defer, Started(S, new))
           still(new) == StillRunning(s, ReapedState(a, S, new))
           queue == active[s] \cup SelfMoved(a, status)
<1>1. PICK new \in Forks(S, ReapedProc(a)) :
        /\ aState' = ReapedState(a, S, new)
        /\ aPid' = ReapedPid(a, S, new)
        /\ proc' = StartProc(S, new, ReapedProc(a))
        /\ child' = StartChild(S, new, [child EXCEPT ![aPid[a]] = NoAction])
        /\ sState' = [sState EXCEPT ![s] = SchedAfterReap(s, still(new))]
        /\ IF still(new)
           THEN /\ aDefer' = defer /\ aWs' = ws(new)
                /\ active' = [active EXCEPT ![s] = queue]
                /\ UNCHANGED incoming
           ELSE /\ aDefer' = defer \ ActionsOf(s)
                /\ aWs' = ws(new) \ ActionsOf(s)
                /\ incoming' = [d \in Schedule |->
                     IF d = s THEN incoming[d]
                     ELSE incoming[d] \cup Delivered(s, d, defer, ws(new))]
                /\ active' = [active EXCEPT ![s] =
                     IF Succeeded(s, ok) THEN {}
                     ELSE queue \cup Delivered(s, s, defer, ws(new))]
  BY DEF Reap
<1>2. aPid[a] \in Pid /\ aOk' = ok /\ term' = term \ {aPid[a]}
  BY DEF Reap, TypeOK, TypeAct
<1>3. S \subseteq Action
  BY ExecTypes
<1>4. ReapedProc(a) \in [Pid -> ProcState]
  BY <1>2 DEF ReapedProc, ProcState, TypeOK, TypeProc
<1>5. /\ StartState(S, new) \in [Action -> ActState]
      /\ StartPid(S, new) \in [Action -> Pid \cup {NoPid}]
      /\ StartProc(S, new, ReapedProc(a)) \in [Pid -> ProcState]
      /\ Started(S, new) \subseteq Action
  BY <1>3, <1>4, ForkTypes DEF TypeOK
<1>6. TypeSched'
  <2>1. SchedAfterReap(s, still(new)) \in SchedState
    BY ConfigAssumption DEF SchedAfterReap, SchedState, TypeOK, TypeSched
  <2> HIDE DEF still
  <2> QED
    BY <1>1, <2>1 DEF TypeOK, TypeSched, Reap
<1>7. defer \subseteq Action /\ ws(new) \subseteq Action
  BY <1>5 DEF DeferAfter, WsAfter, TypeOK, TypeAct, TypeData
<1>8. TypeAct'
  <2>1. ok \in SUBSET Action
    BY DEF TypeOK, TypeAct
  <2>2. aCnt' = aCnt
    BY DEF Reap
  <2>3. aDefer' \in SUBSET Action
    BY <1>1, <1>7
  <2> HIDE DEF ok
  <2> QED
    BY <1>1, <1>2, <1>5, <2>1, <2>2, <2>3
    DEF TypeOK, TypeAct, ReapedState, ReapedPid, ActState
<1>9. TypeProc'
  <2>1. signals' = signals
    BY DEF Reap
  <2>2. child' \in [Pid -> Action \cup {NoAction}]
    <3>1. [child EXCEPT ![aPid[a]] = NoAction] \in [Pid -> Action \cup {NoAction}]
      BY <1>2 DEF TypeOK, TypeProc
    <3> QED
      BY <1>1, <1>3, <3>1, ForkChild
  <2> QED
    BY <1>1, <1>2, <1>5, <2>1, <2>2 DEF TypeOK, TypeProc
<1>10. TypeLoop' /\ uState' \in [Supp -> SuppState]
  BY DEF TypeOK, TypeLoop, Reap, loopVars, lmapdVars
<1>11. TypeData'
  <2>1. aWs' \in SUBSET Action
    BY <1>1, <1>7
  <2>2. queue \in SUBSET Action /\ \A d : Delivered(s, d, defer, ws(new)) \in SUBSET Action
    BY ConfigAssumption DEF Delivered, ActionsOf, SelfMoved, TypeOK, TypeData
  <2> HIDE DEF queue, defer, ws, still, ok
  <2>3. incoming' \in [Schedule -> SUBSET Action]
    BY <1>1, <2>2 DEF TypeOK, TypeData
  <2>4. active' \in [Schedule -> SUBSET Action]
    BY <1>1, <2>2 DEF TypeOK, TypeData
  <2> QED
    BY <2>1, <2>3, <2>4 DEF TypeData
<1> QED
  BY <1>6, <1>8, <1>9, <1>10, <1>11 DEF TypeOK

(* The remaining steps: children, signals and operator commands.           *)
LEMMA OtherTypes ==
  ASSUME TypeOK,
         \/ ChildExit \/ SigchldCb \/ CleanupDone \/ ReloadDone \/ Sigusr2Cb
         \/ SighupCb \/ (\E p \in Pid : ReapUnknown(p)) \/ UNCHANGED vars
  PROVE  TypeOK'
<1> USE DEF TypeOK
<1>1. CASE ChildExit
  <2> USE <1>1 DEF ChildExit, Exit
  <2>1. TypeProc'
    BY DEF TypeProc, ProcState
  <2> QED
    BY <2>1 DEF TypeSched, TypeAct, TypeLoop, TypeData, schedVars, actVars,
                loopVars, lmapdVars, dataVars
<1>2. CASE SigchldCb
  BY <1>2 DEF SigchldCb, TypeSched, TypeAct, TypeProc, TypeLoop, TypeData,
              schedVars, actVars, lmapdVars, dataVars
<1>3. CASE CleanupDone
  BY <1>3 DEF CleanupDone, TypeSched, TypeAct, TypeProc, TypeLoop, TypeData,
              schedVars, actVars, procVars, lmapdVars, dataVars
<1>4. CASE ReloadDone
  BY <1>4 DEF ReloadDone, TypeSched, TypeAct, TypeProc, TypeLoop, TypeData, Arm, Used,
              schedVars, actVars, procVars, dataVars
<1>5. CASE Sigusr2Cb
  BY <1>5 DEF Sigusr2Cb, TypeSched, TypeAct, TypeProc, TypeLoop, TypeData,
              schedVars, actVars, procVars, loopVars, lmapdVars
<1>6. CASE SighupCb
  <2> USE <1>6 DEF SighupCb
  <2>1. TypeSched'
    BY DEF TypeSched, SchedState
  <2>2. TypeAct'
    BY DEF TypeAct, ActState
  <2>3. uState' \in [Supp -> SuppState]
    BY DEF SuppState
  <2>4. TypeProc'
    BY KillType DEF TypeProc
  <2>5. TypeLoop'
    BY ConfigAssumption DEF TypeLoop
  <2>6. TypeData'
    BY DEF TypeData, dataVars
  <2> QED
    BY <2>1, <2>2, <2>3, <2>4, <2>5, <2>6
<1>7. CASE \E p \in Pid : ReapUnknown(p)
  <2> USE <1>7 DEF ReapUnknown
  <2>1. TypeProc'
    BY DEF TypeProc, ProcState
  <2> QED
    BY <2>1 DEF TypeSched, TypeAct, TypeLoop, TypeData, schedVars, actVars,
                loopVars, lmapdVars, dataVars
<1>8. CASE UNCHANGED vars
  BY <1>8 DEF vars, TypeSched, TypeAct, TypeProc, TypeLoop, TypeData, schedVars, actVars,
              procVars, loopVars, lmapdVars, dataVars
<1> QED
  BY <1>1, <1>2, <1>3, <1>4, <1>5, <1>6, <1>7, <1>8

(* Every step of the runner keeps the types.                               *)
LEMMA TypeStep == TypeOK /\ [Next]_vars => TypeOK'
<1> SUFFICES ASSUME TypeOK, [Next]_vars PROVE TypeOK'
  OBVIOUS
<1>1. CASE \E e \in Event : Fire(e)
  BY <1>1, FireType
<1>2. CASE SuppressCb
  BY <1>2, SuppressionStartType, SuppressionEndType DEF SuppressCb
<1>3. CASE ExecuteCb
  BY <1>3, ExecuteType
<1>4. CASE \E a \in Action : Reap(a)
  BY <1>4, ReapType
<1>5. CASE \/ ChildExit \/ SigchldCb \/ CleanupDone \/ ReloadDone \/ Sigusr2Cb
           \/ SighupCb \/ (\E p \in Pid : ReapUnknown(p)) \/ UNCHANGED vars
  BY <1>5, OtherTypes
<1> QED
  BY <1>1, <1>2, <1>3, <1>4, <1>5 DEF Next, ReapOne

(* The variables keep their types.                                         *)
THEOREM TypeCorrect == Spec => []TypeOK
<1>1. Init => TypeOK
  BY InitType
<1>2. TypeOK /\ [Next]_vars => TypeOK'
  BY TypeStep
<1> QED
  BY <1>1, <1>2, PTL DEF Spec

-----------------------------------------------------------------------------
(* The state of schedules, actions and suppressions is changed by five     *)
(* kinds of step only.                                                     *)

core == <<sState, sCnt, aState, aPid, aCnt, uState>>

(* The other steps leave schedules, actions and suppressions alone.        *)
LEMMA CoreSteps ==
  ASSUME [Next]_vars
  PROVE  \/ \E u \in Supp : SuppressionStart(u) \/ SuppressionEnd(u)
         \/ ExecuteCb
         \/ \E a \in Action : Reap(a)
         \/ SighupCb
         \/ UNCHANGED core
<1>1. CASE \E e \in Event : Fire(e)
  BY <1>1 DEF Fire, core, schedVars, actVars
<1>2. CASE ChildExit
  BY <1>2 DEF ChildExit, Exit, core, schedVars, actVars
<1>3. CASE \E p \in Pid : ReapUnknown(p)
  BY <1>3 DEF ReapUnknown, core, schedVars, actVars
<1>4. CASE SigchldCb \/ CleanupDone \/ ReloadDone \/ Sigusr2Cb
  BY <1>4 DEF SigchldCb, CleanupDone, ReloadDone, Sigusr2Cb, core, schedVars, actVars
<1>5. CASE UNCHANGED vars
  BY <1>5 DEF vars, core, schedVars, actVars
<1> QED
  BY <1>1, <1>2, <1>3, <1>4, <1>5 DEF Next, SuppressCb, ReapOne

-----------------------------------------------------------------------------
(* Process ids                                                             *)

(* The pids held by the actions of D are distinct and in use.              *)
Owned(D, pid, pr) ==
  /\ \A x \in D : pid[x] # NoPid => pr[pid[x]] # "free"
  /\ \A x, y \in D : pid[x] = pid[y] /\ pid[x] # NoPid => x = y

(* Forking keeps pids distinct.                                            *)
LEMMA ForkOwned ==
  ASSUME TypeAct,
         NEW S \in SUBSET Action, NEW D \in SUBSET Action,
         NEW pr \in [Pid -> ProcState], NEW new \in Forks(S, pr),
         Owned(D, aPid, pr)
  PROVE  Owned(D, StartPid(S, new), StartProc(S, new, pr))
<1> DEFINE q == StartPid(S, new)
           T == Started(S, new)
<1>1. /\ new \in [S -> {p \in Pid : pr[p] = "free"} \cup {NoPid}]
      /\ \A x, y \in S : new[x] = new[y] /\ new[x] # NoPid => x = y
  BY DEF Forks
<1>2. T \subseteq S /\ \A x \in T : new[x] \in Pid /\ pr[new[x]] = "free"
  BY <1>1 DEF Started
<1>3. \A x \in Action : q[x] = IF x \in T THEN new[x] ELSE aPid[x]
  BY DEF StartPid
<1>4. \A x \in Action : q[x] \in Pid \cup {NoPid}
  BY <1>2, <1>3 DEF TypeAct
<1>5. \A x \in D : q[x] # NoPid => StartProc(S, new, pr)[q[x]] # "free"
  BY <1>2, <1>3, <1>4 DEF StartProc, Owned
<1>6. \A x, y \in D : q[x] = q[y] /\ q[x] # NoPid => x = y
  <2> SUFFICES ASSUME NEW x \in D, NEW y \in D, q[x] = q[y], q[x] # NoPid PROVE x = y
    OBVIOUS
  <2> USE DEF Owned
  <2>1. CASE x \in T /\ y \in T
    BY <2>1, <1>1, <1>2, <1>3
  <2>2. CASE x \in T /\ y \notin T
    BY <2>2, <1>2, <1>3
  <2>3. CASE x \notin T /\ y \in T
    BY <2>3, <1>2, <1>3
  <2>4. CASE x \notin T /\ y \notin T
    BY <2>4, <1>3
  <2> QED
    BY <2>1, <2>2, <2>3, <2>4
<1> QED
  BY <1>5, <1>6 DEF Owned

(* Every step keeps the pids owned.                                        *)
LEMMA PidsStep ==
  ASSUME TypeOK, PidsOwned, [Next]_vars
  PROVE  PidsOwned'
<1> USE DEF PidsOwned
<1>1. NoPid \notin Pid
  BY ConfigAssumption
<1>2. CASE ExecuteCb
  <2>1. PICK new \in Forks(ExecNow(ev), proc) :
          /\ aPid' = StartPid(ExecNow(ev), new)
          /\ proc' = StartProc(ExecNow(ev), new, proc)
    BY <1>2 DEF ExecuteCb
  <2>2. proc \in [Pid -> ProcState] /\ TypeAct
    BY DEF TypeOK, TypeProc
  <2>3. ExecNow(ev) \in SUBSET Action /\ Action \in SUBSET Action
    BY ExecTypes
  <2>4. Owned(Action, aPid, proc)
    BY DEF Owned
  <2>5. Owned(Action, StartPid(ExecNow(ev), new), StartProc(ExecNow(ev), new, proc))
    BY <2>1, <2>2, <2>3, <2>4, ForkOwned
  <2> QED
    BY <2>1, <2>5 DEF Owned
<1>3. ASSUME NEW a \in Action, Reap(a) PROVE PidsOwned'
  <2> DEFINE S == ExecNext(a)
             D == Action \ {a}
  <2>1. PICK new \in Forks(S, ReapedProc(a)) :
          /\ aPid' = ReapedPid(a, S, new)
          /\ proc' = StartProc(S, new, ReapedProc(a))
    BY <1>3 DEF Reap
  <2>2. aPid[a] \in Pid /\ aPid[a] # NoPid
    BY <1>1, <1>3 DEF Reap, TypeOK, TypeAct
  <2>3. ReapedProc(a) \in [Pid -> ProcState]
    BY <2>2 DEF ReapedProc, ProcState, TypeOK, TypeProc
  <2>4. Owned(D, aPid, ReapedProc(a))
    BY <2>2 DEF Owned, ReapedProc, TypeOK, TypeProc, TypeAct
  <2>5. S \in SUBSET Action /\ D \in SUBSET Action
    BY ExecTypes
  <2>6. Owned(D, StartPid(S, new), StartProc(S, new, ReapedProc(a)))
    BY <2>1, <2>3, <2>4, <2>5, ForkOwned DEF TypeOK
  <2>7. aPid' = [x \in Action |-> IF x = a THEN NoPid ELSE StartPid(S, new)[x]]
    BY <2>1 DEF ReapedPid, StartPid
  <2> QED
    BY <2>1, <2>6, <2>7 DEF Owned
<1>4. CASE SighupCb
  BY <1>4 DEF SighupCb
<1>5. CASE ChildExit
  BY <1>5 DEF ChildExit, Exit, actVars, TypeOK, TypeProc, TypeAct
<1>6. ASSUME NEW p \in Pid, ReapUnknown(p) PROVE PidsOwned'
  BY <1>6 DEF ReapUnknown, actVars, TypeOK, TypeProc, TypeAct
<1>7. CASE \E u \in Supp : SuppressionStart(u) \/ SuppressionEnd(u)
  BY <1>7 DEF SuppressionStart, SuppressionEnd, procVars
<1>8. CASE \E e \in Event : Fire(e)
  BY <1>8 DEF Fire, actVars, procVars
<1>9. CASE SigchldCb \/ CleanupDone \/ ReloadDone \/ Sigusr2Cb
  BY <1>9 DEF SigchldCb, CleanupDone, ReloadDone, Sigusr2Cb, actVars, procVars
<1>10. CASE UNCHANGED vars
  BY <1>10 DEF vars, actVars, procVars
<1> QED
  BY <1>2, <1>3, <1>4, <1>5, <1>6, <1>7, <1>8, <1>9, <1>10 DEF Next, SuppressCb, ReapOne

(* Pids are owned by one action each and never recycled while an action    *)
(* holds them: find_action_by_pid and action_kill act on the right child.  *)
THEOREM PidsAlwaysOwned == Spec => []PidsOwned
<1>1. Init => PidsOwned
  BY DEF Init, PidsOwned
<1>2. TypeOK /\ PidsOwned /\ [Next]_vars => PidsOwned'
  BY PidsStep
<1> QED
  BY <1>1, <1>2, TypeCorrect, PTL DEF Spec

-----------------------------------------------------------------------------
(* Suppressions                                                            *)

(* What a run of execute_cb and the reaping of a child do to the states    *)
(* of schedules and actions.                                               *)
LEMMA ExecuteStates ==
  ASSUME TypeOK, ExecuteCb
  PROVE  /\ UNCHANGED <<sCnt, aCnt, uState>>
         /\ \A s \in Schedule :
              \/ sState'[s] = sState[s]
              \/ sState[s] = "enabled" /\ sState'[s] \in {"running", "disabled"}
         /\ \A a \in Action : aState'[a] \in {aState[a], "running"}
<1>1. PICK new \in Forks(ExecNow(ev), proc) :
        /\ aState' = StartState(ExecNow(ev), new)
        /\ sState' = [s \in Schedule |-> SchedAfterExec(ev, s, Started(ExecNow(ev), new))]
  BY DEF ExecuteCb
<1>2. UNCHANGED <<sCnt, aCnt, uState>>
  BY DEF ExecuteCb
<1>3. \A a \in Action : aState'[a] \in {aState[a], "running"}
  BY <1>1 DEF StartState
<1>4. \A s \in Schedule :
        \/ sState'[s] = sState[s]
        \/ sState[s] = "enabled" /\ sState'[s] \in {"running", "disabled"}
  <2> SUFFICES ASSUME NEW s \in Schedule
               PROVE  \/ sState'[s] = sState[s]
                      \/ sState[s] = "enabled" /\ sState'[s] \in {"running", "disabled"}
    OBVIOUS
  <2>1. sState'[s] = SchedAfterExec(ev, s, Started(ExecNow(ev), new))
    BY <1>1
  <2>2. s \in Starting(ev) => sState[s] = "enabled"
    BY DEF Starting
  <2> QED
    BY <2>1, <2>2 DEF SchedAfterExec
<1> QED
  BY <1>2, <1>3, <1>4

(* ... and what lmapd_cleanup does to them.                                *)
LEMMA ReapStates ==
  ASSUME TypeOK, NEW a \in Action, Reap(a)
  PROVE  /\ UNCHANGED <<sCnt, aCnt, uState>>
         /\ \A s \in Schedule :
              \/ sState'[s] = sState[s]
              \/ sState[s] = "running" /\ sState'[s] = "suppressed" /\ sCnt[s] > 0
              \/ sState[s] = "running" /\ sState'[s] = "enabled" /\ sCnt[s] = 0
         /\ \A b \in Action : aState'[b] \in {aState[b], "running", "enabled"}
<1>1. PICK new \in Forks(ExecNext(a), ReapedProc(a)), still \in BOOLEAN :
        /\ aState' = ReapedState(a, ExecNext(a), new)
        /\ sState' = [sState EXCEPT ![SchedOf[a]] = SchedAfterReap(SchedOf[a], still)]
  <2>1. \A new : StillRunning(SchedOf[a], ReapedState(a, ExecNext(a), new)) \in BOOLEAN
    BY DEF StillRunning
  <2> QED
    BY <2>1 DEF Reap
<1>2. UNCHANGED <<sCnt, aCnt, uState>>
  BY DEF Reap
<1>3. \A b \in Action : aState'[b] \in {aState[b], "running", "enabled"}
  BY <1>1 DEF ReapedState, StartState
<1>4. \A s \in Schedule :
        \/ sState'[s] = sState[s]
        \/ sState[s] = "running" /\ sState'[s] = "suppressed" /\ sCnt[s] > 0
        \/ sState[s] = "running" /\ sState'[s] = "enabled" /\ sCnt[s] = 0
  BY <1>1, ConfigAssumption DEF SchedAfterReap, TypeOK, TypeSched
<1> QED
  BY <1>2, <1>3, <1>4

(* Nothing in the daemon disables an action.                               *)
ActionsUndisabled == \A a \in Action : aState[a] # "disabled"

(* Every step keeps the actions undisabled.                                *)
LEMMA UndisabledStep ==
  ASSUME TypeOK, ActionsUndisabled, [Next]_vars
  PROVE  ActionsUndisabled'
<1> USE DEF ActionsUndisabled
<1>1. CASE \E u \in Supp : SuppressionStart(u) \/ SuppressionEnd(u)
  BY <1>1 DEF SuppressionStart, SuppressionEnd, TypeOK, TypeAct
<1>2. CASE ExecuteCb
  BY <1>2, ExecuteStates
<1>3. CASE \E a \in Action : Reap(a)
  BY <1>3, ReapStates
<1>4. CASE SighupCb
  BY <1>4 DEF SighupCb
<1>5. CASE UNCHANGED core
  BY <1>5 DEF core
<1> QED
  BY <1>1, <1>2, <1>3, <1>4, <1>5, CoreSteps

(* Sets of suppressions are finite, so that they can be counted.           *)
LEMMA SuppsFinite ==
  ASSUME NEW X \in SUBSET Supp
  PROVE  IsFiniteSet(X) /\ Cardinality(X) \in Nat
<1>1. IsFiniteSet(Supp)
  BY FS_Interval, ConfigAssumption DEF Supp
<1> QED
  BY <1>1, FS_Subset, FS_CardinalityType

(* What starting and ending a suppression do to a count.                   *)
LEMMA CountStart ==
  ASSUME NEW X \in SUBSET Supp, NEW u \in Supp, u \notin X
  PROVE  Cardinality(X \cup {u}) = Cardinality(X) + 1
BY SuppsFinite, FS_AddElement

(* Ending one of the counted suppressions takes one away.                  *)
LEMMA CountEnd ==
  ASSUME NEW X \in SUBSET Supp, NEW u \in X
  PROVE  Cardinality(X \ {u}) = Decremented(Cardinality(X))
<1>1. X \ {u} \in SUBSET Supp /\ u \in Supp /\ (X \ {u}) \cup {u} = X
  OBVIOUS
<1>2. Cardinality(X) = Cardinality(X \ {u}) + 1
  BY <1>1, CountStart
<1>3. Cardinality(X \ {u}) \in Nat
  BY <1>1, SuppsFinite
<1> QED
  BY <1>2, <1>3 DEF Decremented

(* Every step keeps the counters exact.                                    *)
LEMMA CountStep ==
  ASSUME TypeOK, ActionsUndisabled, SuppressionCount, [Next]_vars
  PROVE  SuppressionCount'
<1> USE DEF SuppressionCount
<1>1. ASSUME NEW u \in Supp, SuppressionStart(u), uState[u] = "enabled" /\ SuppMatch[u] # {}
      PROVE SuppressionCount'
  <2> USE <1>1
  <2>1. /\ uState' = [uState EXCEPT ![u] = "active"]
        /\ sCnt' = [s \in Schedule |-> IF SchedHit(u, s) THEN sCnt[s] + 1 ELSE sCnt[s]]
        /\ aCnt' = [a \in Action |-> IF ActHit(u, a) THEN aCnt[a] + 1 ELSE aCnt[a]]
        /\ \A s \in Schedule : sState'[s] = "disabled" <=> sState[s] = "disabled"
    BY DEF SuppressionStart, SchedHit, TypeOK, TypeSched
  <2>2. ASSUME NEW s \in Schedule, sState'[s] # "disabled"
        PROVE sCnt'[s] = Cardinality(ActiveOnSched(s)')
    <3>1. ActiveOnSched(s) \in SUBSET Supp /\ u \notin ActiveOnSched(s)
      BY DEF ActiveOnSched
    <3>2. ActiveOnSched(s)' = IF SchedMatch(u, s) THEN ActiveOnSched(s) \cup {u}
                              ELSE ActiveOnSched(s)
      BY <2>1 DEF ActiveOnSched, TypeOK, SchedMatch, big_tag_match
    <3> QED
      BY <2>1, <2>2, <3>1, <3>2, CountStart DEF SchedHit
  <2>3. ASSUME NEW a \in Action, sState'[SchedOf[a]] # "disabled"
        PROVE aCnt'[a] = Cardinality(ActiveOnAct(a)')
    <3>1. ActiveOnAct(a) \in SUBSET Supp /\ u \notin ActiveOnAct(a)
      BY DEF ActiveOnAct
    <3>2. ActiveOnAct(a)' = IF ActMatch(u, a) THEN ActiveOnAct(a) \cup {u}
                            ELSE ActiveOnAct(a)
      BY <2>1 DEF ActiveOnAct, TypeOK, ActMatch, big_tag_match
    <3>3. sState[SchedOf[a]] # "disabled"
      BY <2>1, <2>3, ConfigAssumption
    <3> QED
      BY <2>1, <3>1, <3>2, <3>3, CountStart DEF ActHit, ActReach, ActionsUndisabled
  <2> QED
    BY <2>2, <2>3
<1>2. ASSUME NEW u \in Supp, SuppressionEnd(u), uState[u] = "active" /\ SuppMatch[u] # {}
      PROVE SuppressionCount'
  <2> USE <1>2
  <2>1. /\ uState' = [uState EXCEPT ![u] = "enabled"]
        /\ sCnt' = [s \in Schedule |->
             IF SchedHit(u, s) THEN Decremented(sCnt[s]) ELSE sCnt[s]]
        /\ aCnt' = [a \in Action |->
             IF ActHit(u, a) THEN Decremented(aCnt[a]) ELSE aCnt[a]]
        /\ \A s \in Schedule : sState'[s] = "disabled" <=> sState[s] = "disabled"
    BY DEF SuppressionEnd, TypeOK, TypeSched
  <2>2. ASSUME NEW s \in Schedule, sState'[s] # "disabled"
        PROVE sCnt'[s] = Cardinality(ActiveOnSched(s)')
    <3>1. /\ ActiveOnSched(s) \in SUBSET Supp
          /\ SchedMatch(u, s) => u \in ActiveOnSched(s)
      BY DEF ActiveOnSched
    <3>2. ActiveOnSched(s)' = IF SchedMatch(u, s) THEN ActiveOnSched(s) \ {u}
                              ELSE ActiveOnSched(s)
      BY <2>1 DEF ActiveOnSched, TypeOK, SchedMatch, big_tag_match
    <3> QED
      BY <2>1, <2>2, <3>1, <3>2, CountEnd DEF SchedHit
  <2>3. ASSUME NEW a \in Action, sState'[SchedOf[a]] # "disabled"
        PROVE aCnt'[a] = Cardinality(ActiveOnAct(a)')
    <3>1. /\ ActiveOnAct(a) \in SUBSET Supp
          /\ ActMatch(u, a) => u \in ActiveOnAct(a)
      BY DEF ActiveOnAct
    <3>2. ActiveOnAct(a)' = IF ActMatch(u, a) THEN ActiveOnAct(a) \ {u}
                            ELSE ActiveOnAct(a)
      BY <2>1 DEF ActiveOnAct, TypeOK, ActMatch, big_tag_match
    <3>3. sState[SchedOf[a]] # "disabled"
      BY <2>1, <2>3, ConfigAssumption
    <3> QED
      BY <2>1, <3>1, <3>2, <3>3, CountEnd DEF ActHit, ActReach, ActionsUndisabled
  <2> QED
    BY <2>2, <2>3
<1>3. ASSUME UNCHANGED <<sCnt, aCnt, uState>>,
             \A s \in Schedule : sState[s] = "disabled" => sState'[s] = "disabled"
      PROVE SuppressionCount'
  <2>1. \A s \in Schedule : ActiveOnSched(s)' = ActiveOnSched(s)
    BY <1>3 DEF ActiveOnSched, SchedMatch, big_tag_match
  <2>2. \A a \in Action : ActiveOnAct(a)' = ActiveOnAct(a)
    BY <1>3 DEF ActiveOnAct, ActMatch, big_tag_match
  <2> QED
    BY <1>3, <2>1, <2>2, ConfigAssumption
<1>4. CASE SighupCb
  <2>1. /\ \A s \in Schedule : ActiveOnSched(s)' = {}
        /\ \A a \in Action : ActiveOnAct(a)' = {}
    BY <1>4 DEF SighupCb, ActiveOnSched, ActiveOnAct
  <2> QED
    BY <1>4, <2>1, FS_EmptySet DEF SighupCb
<1>5. CASE \E u \in Supp : SuppressionStart(u) \/ SuppressionEnd(u)
  <2>1. PICK u \in Supp : SuppressionStart(u) \/ SuppressionEnd(u)
    BY <1>5
  <2>2. CASE SuppressionStart(u) /\ ~(uState[u] = "enabled" /\ SuppMatch[u] # {})
    <3>1. UNCHANGED <<sState, sCnt, aCnt, uState>>
      BY <2>2 DEF SuppressionStart, schedVars
    <3> QED
      BY <3>1, <1>3
  <2>3. CASE SuppressionEnd(u) /\ ~(uState[u] = "active" /\ SuppMatch[u] # {})
    <3>1. UNCHANGED <<sState, sCnt, aCnt, uState>>
      BY <2>3 DEF SuppressionEnd
    <3> QED
      BY <3>1, <1>3
  <2> QED
    BY <2>1, <2>2, <2>3, <1>1, <1>2
<1>6. CASE ExecuteCb
  BY <1>6, <1>3, ExecuteStates
<1>7. CASE \E a \in Action : Reap(a)
  BY <1>7, <1>3, ReapStates
<1>8. CASE UNCHANGED core
  BY <1>8, <1>3 DEF core
<1> QED
  BY <1>4, <1>5, <1>6, <1>7, <1>8, CoreSteps

(* The counters kept by suppression_start and suppression_end are exact.   *)
THEOREM SuppressionsCounted == Spec => []SuppressionCount
<1>1. Init => ActionsUndisabled /\ SuppressionCount
  <2> SUFFICES ASSUME Init PROVE ActionsUndisabled /\ SuppressionCount
    OBVIOUS
  <2>1. ActionsUndisabled
    BY DEF Init, ActionsUndisabled
  <2>2. /\ \A s \in Schedule : ActiveOnSched(s) = {}
        /\ \A a \in Action : ActiveOnAct(a) = {}
    BY DEF Init, ActiveOnSched, ActiveOnAct
  <2> QED
    BY <2>1, <2>2, FS_EmptySet DEF Init, SuppressionCount
<1>2. TypeOK /\ ActionsUndisabled /\ SuppressionCount /\ [Next]_vars
      => (ActionsUndisabled /\ SuppressionCount)'
  BY UndisabledStep, CountStep
<1> QED
  BY <1>1, <1>2, TypeCorrect, PTL DEF Spec

(* The state of a schedule agrees with its counter.                        *)
StateCount ==
  \A s \in Schedule :
     /\ sState[s] = "suppressed" => sCnt[s] > 0
     /\ sState[s] = "enabled" => sCnt[s] = 0

(* Every step keeps state and counter in agreement.                        *)
LEMMA StateCountStep ==
  ASSUME TypeOK, StateCount, [Next]_vars
  PROVE  StateCount'
<1> USE DEF StateCount
<1>1. ASSUME NEW u \in Supp, SuppressionStart(u) PROVE StateCount'
  BY <1>1 DEF SuppressionStart, SchedHit, schedVars, TypeOK, TypeSched, SchedState
<1>2. ASSUME NEW u \in Supp, SuppressionEnd(u) PROVE StateCount'
  BY <1>2 DEF SuppressionEnd, SchedHit, Decremented, TypeOK, TypeSched, SchedState
<1>3. CASE ExecuteCb
  BY <1>3, ExecuteStates
<1>4. CASE \E a \in Action : Reap(a)
  BY <1>4, ReapStates
<1>5. CASE SighupCb
  BY <1>5 DEF SighupCb
<1>6. CASE UNCHANGED core
  BY <1>6 DEF core
<1> QED
  BY <1>1, <1>2, <1>3, <1>4, <1>5, <1>6, CoreSteps

(* An exact counter that agrees with the state gives the property.         *)
LEMMA CountedSuppressions ==
  ASSUME TypeOK, SuppressionCount, StateCount
  PROVE  SuppressedWhileActive
<1> SUFFICES ASSUME NEW s \in Schedule
             PROVE  /\ sState[s] = "suppressed" => ActiveOnSched(s) # {}
                    /\ sState[s] = "enabled" => ActiveOnSched(s) = {}
  BY DEF SuppressedWhileActive
<1>1. ActiveOnSched(s) \in SUBSET Supp
  BY DEF ActiveOnSched
<1>2. Cardinality(ActiveOnSched(s)) = 0 <=> ActiveOnSched(s) = {}
  BY <1>1, SuppsFinite, FS_EmptySet
<1>3. sState[s] # "disabled" => sCnt[s] = Cardinality(ActiveOnSched(s))
  BY DEF SuppressionCount
<1> QED
  BY <1>2, <1>3 DEF StateCount

(* A schedule is SUPPRESSED only while an active suppression matches it    *)
(* and ENABLED only while none does.                                       *)
THEOREM SuppressedExactly == Spec => []SuppressedWhileActive
<1>1. Init => StateCount
  BY DEF Init, StateCount
<1>2. TypeOK /\ StateCount /\ [Next]_vars => StateCount'
  BY StateCountStep
<1>3. TypeOK /\ SuppressionCount /\ StateCount => SuppressedWhileActive
  BY CountedSuppressions
<1> QED
  BY <1>1, <1>2, <1>3, TypeCorrect, SuppressionsCounted, PTL DEF Spec

-----------------------------------------------------------------------------
(* Runs and their children                                                 *)

(* Which actions have a child after execute_cb started those of T.         *)
ExecEffect(T) ==
  /\ \A a \in Action : IF a \in T THEN aPid'[a] # NoPid /\ aState'[a] = "running"
                     ELSE aPid'[a] = aPid[a] /\ aState'[a] = aState[a]
  /\ \A s \in Schedule : sState'[s] = SchedAfterExec(ev, s, T)

(* ... and after the child of a has been reaped and those of T started.    *)
ReapEffect(a, T) ==
  /\ aPid[a] # NoPid /\ a \notin T
  /\ aPid'[a] = NoPid /\ aState'[a] = "enabled"
  /\ \A b \in Action \ {a} :
       IF b \in T THEN aPid'[b] # NoPid /\ aState'[b] = "running"
       ELSE aPid'[b] = aPid[b] /\ aState'[b] = aState[b]
  /\ \A s \in Schedule : s # SchedOf[a] => sState'[s] = sState[s]
  /\ sState'[SchedOf[a]] =
       SchedAfterReap(SchedOf[a], StillRunning(SchedOf[a], aState'))

(* execute_cb has the first effect, for actions among ExecNow.             *)
LEMMA ExecutePids ==
  ASSUME TypeOK, ExecuteCb
  PROVE  \E T \in SUBSET ExecNow(ev) : ExecEffect(T)
<1>1. PICK new \in Forks(ExecNow(ev), proc) :
        /\ aState' = StartState(ExecNow(ev), new)
        /\ aPid' = StartPid(ExecNow(ev), new)
        /\ sState' = [s \in Schedule |-> SchedAfterExec(ev, s, Started(ExecNow(ev), new))]
  BY DEF ExecuteCb
<1> DEFINE T == Started(ExecNow(ev), new)
<1>2. T \in SUBSET ExecNow(ev) /\ \A a \in T : new[a] # NoPid
  BY DEF Started
<1>3. \A a \in Action : IF a \in T THEN aPid'[a] # NoPid /\ aState'[a] = "running"
                       ELSE aPid'[a] = aPid[a] /\ aState'[a] = aState[a]
  BY <1>1, <1>2 DEF StartPid, StartState
<1>4. \A s \in Schedule : sState'[s] = SchedAfterExec(ev, s, T)
  BY <1>1
<1> HIDE DEF T
<1> QED
  BY <1>2, <1>3, <1>4 DEF ExecEffect

(* lmapd_cleanup has the second, for the next action in sequence.          *)
LEMMA ReapPids ==
  ASSUME TypeOK, NEW a \in Action, Reap(a)
  PROVE  \E T \in SUBSET ExecNext(a) : ReapEffect(a, T)
<1>1. PICK new \in Forks(ExecNext(a), ReapedProc(a)) :
        /\ aState' = ReapedState(a, ExecNext(a), new)
        /\ aPid' = ReapedPid(a, ExecNext(a), new)
        /\ sState' = [sState EXCEPT ![SchedOf[a]] =
             SchedAfterReap(SchedOf[a], StillRunning(SchedOf[a], ReapedState(a, ExecNext(a), new)))]
  BY DEF Reap
<1> DEFINE T == Started(ExecNext(a), new)
<1>2. T \in SUBSET ExecNext(a) /\ \A b \in T : new[b] # NoPid
  BY DEF Started
<1>3. aPid[a] # NoPid /\ a \notin T
  BY <1>2 DEF Reap, ExecNext, CanExec
<1>4. aPid'[a] = NoPid /\ aState'[a] = "enabled"
  BY <1>1 DEF ReapedPid, ReapedState, StartPid, StartState
<1>5. \A b \in Action \ {a} : IF b \in T THEN aPid'[b] # NoPid /\ aState'[b] = "running"
                             ELSE aPid'[b] = aPid[b] /\ aState'[b] = aState[b]
  BY <1>1, <1>2 DEF ReapedPid, ReapedState, StartPid, StartState
<1>6. /\ \A s \in Schedule : s # SchedOf[a] => sState'[s] = sState[s]
      /\ sState'[SchedOf[a]] = SchedAfterReap(SchedOf[a], StillRunning(SchedOf[a], aState'))
  <2>1. SchedOf[a] \in Schedule
    BY ConfigAssumption
  <2> QED
    BY <1>1, <2>1 DEF TypeOK, TypeSched
<1> HIDE DEF T
<1> QED
  BY <1>2, <1>3, <1>4, <1>5, <1>6 DEF ReapEffect

(* Every step keeps a child behind what is RUNNING.                        *)
LEMMA RunningStep ==
  ASSUME TypeOK, RunningHasChild, [Next]_vars
  PROVE  RunningHasChild'
<1> USE DEF RunningHasChild, ActionsOf, ExecEffect, ReapEffect
<1>1. ASSUME NEW u \in Supp, SuppressionStart(u) \/ SuppressionEnd(u) PROVE RunningHasChild'
  <2>1. /\ aPid' = aPid
        /\ \A a \in Action : aState'[a] = "running" => aState[a] = "running"
        /\ \A s \in Schedule : sState'[s] = "running" => sState[s] = "running"
    BY <1>1 DEF SuppressionStart, SuppressionEnd, schedVars, TypeOK, TypeSched, TypeAct
  <2> QED
    BY <2>1
<1>2. CASE ExecuteCb
  <2>1. PICK T \in SUBSET ExecNow(ev) : ExecEffect(T)
    BY <1>2, ExecutePids
  <2>2. T \subseteq Action
    BY ExecTypes
  <2>3. \A a \in Action : aPid[a] # NoPid => aPid'[a] # NoPid
    BY <2>1
  <2>4. \A a \in Action : aState'[a] = "running" => aPid'[a] # NoPid
    BY <2>1
  <2>5. ASSUME NEW s \in Schedule, sState'[s] = "running"
        PROVE  sState[s] = "running" \/ \E a \in T : SchedOf[a] = s
    BY <2>1, <2>5 DEF SchedAfterExec, Starting
  <2> QED
    BY <2>1, <2>2, <2>3, <2>4, <2>5
<1>3. ASSUME NEW a \in Action, Reap(a) PROVE RunningHasChild'
  <2>1. PICK T \in SUBSET ExecNext(a) : ReapEffect(a, T)
    BY <1>3, ReapPids
  <2>2. \A b \in Action : aState'[b] = "running" => aPid'[b] # NoPid
    BY <2>1
  <2>3. ASSUME NEW s \in Schedule, sState'[s] = "running"
        PROVE  \E b \in Action : SchedOf[b] = s /\ aPid'[b] # NoPid
    <3>1. CASE s # SchedOf[a]
      BY <2>1, <2>3, <3>1
    <3>2. CASE s = SchedOf[a]
      <4>1. StillRunning(s, aState')
        BY <2>1, <2>3, <3>2 DEF SchedAfterReap
      <4> QED
        BY <2>2, <4>1 DEF StillRunning
    <3> QED
      BY <3>1, <3>2
  <2> QED
    BY <2>2, <2>3
<1>4. CASE SighupCb
  BY <1>4 DEF SighupCb
<1>5. CASE UNCHANGED core
  BY <1>5 DEF core
<1> QED
  BY <1>1, <1>2, <1>3, <1>4, <1>5, CoreSteps

(* Whatever is RUNNING has a child whose exit ends that state.             *)
THEOREM RunningAlwaysHasChild == Spec => []RunningHasChild
<1>1. Init => RunningHasChild
  BY DEF Init, RunningHasChild
<1>2. TypeOK /\ RunningHasChild /\ [Next]_vars => RunningHasChild'
  BY RunningStep
<1> QED
  BY <1>1, <1>2, TypeCorrect, PTL DEF Spec

(* Every step keeps sequential schedules to one child.                     *)
LEMMA SequentialStep ==
  ASSUME TypeOK, SequentialOneChild, [Next]_vars
  PROVE  SequentialOneChild'
<1> USE DEF SequentialOneChild, ActionsOf, ExecEffect, ReapEffect
<1>1. ASSUME NEW u \in Supp, SuppressionStart(u) \/ SuppressionEnd(u) PROVE SequentialOneChild'
  <2>1. /\ aPid' = aPid
        /\ \A s \in Schedule : sState[s] \in {"running", "disabled"} => sState'[s] = sState[s]
    BY <1>1 DEF SuppressionStart, SuppressionEnd, schedVars, TypeOK, TypeSched
  <2> QED
    BY <2>1, ConfigAssumption
<1>2. CASE ExecuteCb
  <2>1. PICK T \in SUBSET ExecNow(ev) : ExecEffect(T)
    BY <1>2, ExecutePids
  <2>2. \A a \in T :
          /\ a \in Action /\ SchedOf[a] \in Starting(ev)
          /\ Mode[SchedOf[a]] = "sequential" => a = FirstAct[SchedOf[a]]
    BY DEF ExecNow
  <2>3. \A s \in Schedule : s \in Starting(ev) => sState[s] = "enabled"
    BY DEF Starting
  <2> SUFFICES ASSUME NEW a \in Action, Mode[SchedOf[a]] = "sequential", aPid'[a] # NoPid
               PROVE  /\ sState'[SchedOf[a]] \in {"running", "disabled"}
                      /\ \A b \in Action : SchedOf[b] = SchedOf[a] /\ aPid'[b] # NoPid => a = b
    OBVIOUS
  <2>4. SchedOf[a] \in Schedule
    BY ConfigAssumption
  <2>5. CASE SchedOf[a] \in Starting(ev)
    <3>1. a \in T /\ \A b \in Action : SchedOf[b] = SchedOf[a] /\ aPid'[b] # NoPid => b \in T
      BY <2>1, <2>3, <2>4, <2>5
    <3>2. sState'[SchedOf[a]] \in {"running", "disabled"}
      BY <2>1, <2>4, <2>5, <3>1 DEF SchedAfterExec
    <3> QED
      BY <2>2, <3>1, <3>2
  <2>6. CASE SchedOf[a] \notin Starting(ev)
    <3>1. /\ sState'[SchedOf[a]] = sState[SchedOf[a]]
          /\ \A b \in Action : SchedOf[b] = SchedOf[a] => aPid'[b] = aPid[b]
      BY <2>1, <2>2, <2>4, <2>6 DEF SchedAfterExec
    <3> QED
      BY <3>1
  <2> QED
    BY <2>5, <2>6
<1>3. ASSUME NEW a \in Action, Reap(a) PROVE SequentialOneChild'
  <2>1. PICK T \in SUBSET ExecNext(a) : ReapEffect(a, T)
    BY <1>3, ReapPids
  <2>2. \A b \in T : b \in Action /\ b = NextAct[a] /\ SchedOf[b] = SchedOf[a]
    BY ConfigAssumption DEF ExecNext
  <2> SUFFICES ASSUME NEW x \in Action, Mode[SchedOf[x]] = "sequential", aPid'[x] # NoPid
               PROVE  /\ sState'[SchedOf[x]] \in {"running", "disabled"}
                      /\ \A b \in Action : SchedOf[b] = SchedOf[x] /\ aPid'[b] # NoPid => x = b
    OBVIOUS
  <2>3. SchedOf[x] \in Schedule
    BY ConfigAssumption
  <2>4. CASE SchedOf[x] # SchedOf[a]
    <3>1. /\ sState'[SchedOf[x]] = sState[SchedOf[x]]
          /\ \A b \in Action : SchedOf[b] = SchedOf[x] => aPid'[b] = aPid[b]
      BY <2>1, <2>2, <2>3, <2>4
    <3> QED
      BY <3>1
  <2>5. CASE SchedOf[x] = SchedOf[a]
    <3>1. \A b \in Action : SchedOf[b] = SchedOf[x] /\ aPid'[b] # NoPid => b \in T
      BY <2>1, <2>5
    <3>2. x \in T /\ aState'[x] = "running"
      BY <2>1, <3>1
    <3>3. StillRunning(SchedOf[a], aState')
      BY <2>5, <3>2 DEF StillRunning
    <3>4. sState'[SchedOf[a]] = sState[SchedOf[a]]
      BY <2>1, <3>3 DEF SchedAfterReap
    <3>5. sState[SchedOf[a]] \in {"running", "disabled"}
      BY <2>1, <2>5
    <3> QED
      BY <2>2, <2>5, <3>1, <3>2, <3>4, <3>5
  <2> QED
    BY <2>4, <2>5
<1>4. CASE SighupCb
  BY <1>4 DEF SighupCb
<1>5. CASE UNCHANGED core
  BY <1>5 DEF core
<1> QED
  BY <1>1, <1>2, <1>3, <1>4, <1>5, CoreSteps

(* A sequential schedule never runs two actions at once, whatever the      *)
(* interleaving of events, suppressions and exits.                         *)
THEOREM SequentialAlwaysOneChild == Spec => []SequentialOneChild
<1>1. Init => SequentialOneChild
  BY DEF Init, SequentialOneChild
<1>2. TypeOK /\ SequentialOneChild /\ [Next]_vars => SequentialOneChild'
  BY SequentialStep
<1> QED
  BY <1>1, <1>2, TypeCorrect, PTL DEF Spec

(* The step formula of NoStartWhileSuppressed.                             *)
StartsUnsuppressed ==
  \A a \in Action :
    /\ aPid[a] = NoPid /\ aPid'[a] # NoPid
    /\ sState[SchedOf[a]] # "disabled"
    /\ ActiveOnSched(SchedOf[a]) # {}
    => sState[SchedOf[a]] = "running"

(* A step that forks for a suppressed schedule continues a run.            *)
LEMMA StartsStep ==
  ASSUME TypeOK, SuppressedWhileActive, SequentialOneChild, [Next]_vars
  PROVE  StartsUnsuppressed
<1> SUFFICES ASSUME NEW a \in Action, aPid[a] = NoPid, aPid'[a] # NoPid,
                    sState[SchedOf[a]] # "disabled", ActiveOnSched(SchedOf[a]) # {}
             PROVE  sState[SchedOf[a]] = "running"
  BY DEF StartsUnsuppressed
<1>1. CASE \E u \in Supp : SuppressionStart(u) \/ SuppressionEnd(u)
  BY <1>1 DEF SuppressionStart, SuppressionEnd
<1>2. CASE ExecuteCb
  <2>1. a \in ExecNow(ev)
    BY <1>2, ExecutePids DEF ExecEffect
  <2>2. sState[SchedOf[a]] = "enabled" /\ SchedOf[a] \in Schedule
    BY <2>1 DEF ExecNow, Starting
  <2> QED
    BY <2>2 DEF SuppressedWhileActive
<1>3. ASSUME NEW b \in Action, Reap(b) PROVE sState[SchedOf[a]] = "running"
  <2>1. a \in ExecNext(b) /\ aPid[b] # NoPid
    BY <1>3, ReapPids DEF ReapEffect
  <2>2. SchedOf[a] = SchedOf[b] /\ Mode[SchedOf[b]] = "sequential"
    BY <2>1, ConfigAssumption DEF ExecNext
  <2> QED
    BY <2>1, <2>2 DEF SequentialOneChild
<1>4. CASE SighupCb
  BY <1>4 DEF SighupCb
<1>5. CASE UNCHANGED core
  BY <1>5 DEF core
<1> QED
  BY <1>1, <1>2, <1>3, <1>4, <1>5, CoreSteps

(* No run of a schedule begins while an active suppression matches it.     *)
THEOREM SuppressionPreventsStart == Spec => NoStartWhileSuppressed
<1>1. TypeOK /\ SuppressedWhileActive /\ SequentialOneChild /\ [Next]_vars => StartsUnsuppressed
  BY StartsStep
<1>2. Spec => [][StartsUnsuppressed]_vars
  BY <1>1, TypeCorrect, SuppressedExactly, SequentialAlwaysOneChild, PTL DEF Spec
<1> QED
  BY <1>2 DEF NoStartWhileSuppressed, StartsUnsuppressed

-----------------------------------------------------------------------------
(* No lost wake-up                                                         *)

(* A child of an action that has exited will be waited for: lmapd_cleanup  *)
(* is running, or SIGCHLD is pending and will start it.                    *)
ExitNoticed ==
  \A a \in Action : aPid[a] # NoPid /\ Zombie(aPid[a]) =>
     "SIGCHLD" \in signals \/ phase = "reap"

(* No action of the configuration that is being read has a child: nobody   *)
(* listens for SIGCHLD then.                                               *)
ReloadChildless == phase = "reload" => \A a \in Action : aPid[a] = NoPid

(* Only a step of the reaping loop that finds nothing more ends it, and a  *)
(* child that exits after that sets SIGCHLD again.                         *)
LEMMA NoticedStep ==
  ASSUME TypeOK, ExitNoticed, ReloadChildless, [Next]_vars
  PROVE  ExitNoticed' /\ ReloadChildless'
<1> USE DEF ExitNoticed, ReloadChildless, Zombie
<1>1. CASE \E e \in Event : Fire(e)
  BY <1>1 DEF Fire, actVars, procVars
<1>2. CASE SuppressCb
  BY <1>2 DEF SuppressCb, SuppressionStart, SuppressionEnd, NextInList, procVars
<1>3. CASE ExecuteCb
  <2>1. PICK new \in Forks(ExecNow(ev), proc) :
          /\ aPid' = StartPid(ExecNow(ev), new)
          /\ proc' = StartProc(ExecNow(ev), new, proc)
    BY <1>3 DEF ExecuteCb
  <2>2. phase = "fire" /\ phase' = "idle" /\ signals' = signals
    BY <1>3 DEF ExecuteCb
  <2>3. ASSUME NEW a \in Action, aPid'[a] # NoPid, proc'[aPid'[a]] \in {"ok", "failed"}
        PROVE  aPid[a] # NoPid /\ proc[aPid[a]] \in {"ok", "failed"}
    <3>1. aPid'[a] \in Pid
      BY <2>3, TypeStep DEF TypeOK, TypeAct
    <3> QED
      BY <2>1, <2>3, <3>1 DEF StartPid, StartProc
  <2> QED
    BY <2>2, <2>3
<1>4. CASE ChildExit
  <2>1. PICK p \in Pid, status \in {"ok", "failed"} : Exit(p, status)
    BY <1>4 DEF ChildExit
  <2>2. aPid' = aPid /\ phase' = phase
    BY <2>1 DEF Exit, actVars, loopVars
  <2>3. CASE phase = "reload"
    BY <2>2, <2>3
  <2>4. CASE phase # "reload"
    BY <2>1, <2>2, <2>4 DEF Exit
  <2> QED
    BY <2>3, <2>4
<1>5. CASE SigchldCb
  BY <1>5 DEF SigchldCb, actVars
<1>6. CASE CleanupDone
  <2>1. \A a \in Action : aPid[a] # NoPid => aPid[a] \in Pid
    BY DEF TypeOK, TypeAct
  <2> QED
    BY <1>6, <2>1 DEF CleanupDone, NothingToReap, actVars, procVars
<1>7. CASE ReapOne
  BY <1>7 DEF ReapOne, ReapUnknown, Reap, loopVars
<1>8. CASE SighupCb
  BY <1>8 DEF SighupCb
<1>9. CASE ReloadDone
  BY <1>9 DEF ReloadDone, actVars, procVars
<1>10. CASE Sigusr2Cb
  BY <1>10 DEF Sigusr2Cb, actVars, procVars, loopVars
<1>11. CASE UNCHANGED vars
  BY <1>11 DEF vars, actVars, procVars, loopVars
<1> QED
  BY <1>1, <1>2, <1>3, <1>4, <1>5, <1>6, <1>7, <1>8, <1>9, <1>10, <1>11 DEF Next

(* The exit of an action's child is never missed, though SIGCHLDs coalesce *)
(* and children exit in the middle of any callback and around reloads:     *)
(* what the liveness of the runner rests on.                               *)
THEOREM ExitsAreNoticed == Spec => []ExitNoticed
<1>1. Init => ExitNoticed /\ ReloadChildless
  BY DEF Init, ExitNoticed, ReloadChildless
<1>2. TypeOK /\ ExitNoticed /\ ReloadChildless /\ [Next]_vars => ExitNoticed' /\ ReloadChildless'
  BY NoticedStep
<1> QED
  BY <1>1, <1>2, TypeCorrect, PTL DEF Spec
=============================================================================
