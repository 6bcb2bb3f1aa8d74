---------------------------- MODULE DaemonProofs ----------------------------
(***************************************************************************)
(* Proofs about the life cycle of the daemon, for any number of processes, *)
(* starts, commands and edits.                                             *)
(***************************************************************************)
EXTENDS Daemon, TLAPS

-----------------------------------------------------------------------------
(* The inductive invariant.  While the pid file guards the daemon, one     *)
(* process at most is past reading it; that process owns the file once it  *)
(* serves; and a process on its way out removes the file only if it still  *)
(* names it.                                                               *)
Claiming == {"open", "print"} \cup Serving

OneClaims   == \A p, q \in Pids : proc[p] \in Claiming /\ proc[q] \in Claiming => p = q
Named       == \A p \in Pids : proc[p] \in Serving => pidfile = p
UnlinkOwned == \A p \in Pids : proc[p] = "unlink" => pidfile = p
NotLeaving  == \A p, q \in Pids :
                 proc[p] \in {"open", "print"} /\ proc[q] \in Exiting => pidfile # q

Guarded == ~unguarded => OneClaims /\ Named /\ UnlinkOwned /\ NotLeaving

IInv == TypeOK /\ Guarded

(* The invariant for lmapctl status.                                       *)
Answer ==
  ctl.at = "wait" =>
    /\ ctl.since =< rendered
    /\ ctl.gen =< gen[ctl.pid]
    /\ /\ ~unguarded /\ ~unwritten
       /\ proc[ctl.pid] \in Looping /\ gen[ctl.pid] = ctl.gen
       /\ "USR1" \notin pending[ctl.pid]
       => /\ rendered > ctl.since
          /\ proc[ctl.pid] # "dump" => status = rendered

-----------------------------------------------------------------------------
(* Type correctness.                                                       *)
LEMMA TypeStep == TypeOK /\ [Next]_vars => TypeOK'
<1> SUFFICES ASSUME TypeOK, [Next]_vars PROVE TypeOK'
  OBVIOUS
<1> USE DaemonAssumption DEF TypeOK, Lmapd, Starting, Serving, Looping, Exiting, Signal,
        Command, Idle, Memory, Environment, daemonVars, Goto
<1>1. ASSUME NEW p \in Pids, Start(p) PROVE TypeOK'
  BY <1>1 DEF Start
<1>2. ASSUME NEW p \in Pids, ReadPid(p) PROVE TypeOK'
  BY <1>2, Zenon DEF ReadPid
<1>3. ASSUME NEW p \in Pids, OpenPid(p) \/ PrintPid(p) \/ OpenFails(p) \/ PrintPidFails(p) PROVE TypeOK'
  BY <1>3 DEF OpenPid, PrintPid, OpenFails, PrintPidFails
<1>4. ASSUME NEW p \in Pids, ReadConfig(p) PROVE TypeOK'
  <2>1. proc' \in [Pids -> {"free", "other"} \cup Lmapd]
    <3>1. \E at \in {"init", "exit"} : proc' = [proc EXCEPT ![p] = at]
      BY <1>4 DEF ReadConfig
    <3> QED
      BY <3>1
  <2>2. loaded' \in [Pids -> Nat]
    BY <1>4 DEF ReadConfig
  <2> QED
    BY <1>4, <2>1, <2>2 DEF ReadConfig
<1>5a. ASSUME NEW p \in Pids, Run(p) PROVE TypeOK'
  BY <1>5a DEF Run
<1>5b. ASSUME NEW p \in Pids, RunFails(p) PROVE TypeOK'
  BY <1>5b DEF RunFails
<1>6a. ASSUME NEW p \in Pids, SigInt(p) \/ SigTerm(p) PROVE TypeOK'
  <2>1. pending' \in [Pids -> SUBSET Signal]
    BY <1>6a DEF SigInt, SigTerm, Dispatched
  <2>2. LmapdStop(p)
    BY <1>6a DEF SigInt, SigTerm
  <2> QED
    BY <2>1, <2>2 DEF LmapdStop
<1>6b. ASSUME NEW p \in Pids, SigHup(p) PROVE TypeOK'
  <2>1. pending' \in [Pids -> SUBSET Signal]
    BY <1>6b DEF SigHup, Dispatched
  <2> QED
    BY <1>6b, <2>1 DEF SigHup, LmapdRestart
<1>7a. ASSUME NEW p \in Pids, OpenStatus(p) PROVE TypeOK'
  <2>1. pending' \in [Pids -> SUBSET Signal]
    BY <1>7a DEF OpenStatus, Dispatched
  <2>2. proc' \in [Pids -> {"free", "other"} \cup Lmapd]
    BY <1>7a DEF OpenStatus
  <2>3. status' \in Nat \cup {Null, Empty} /\ rendered' \in Nat
    BY <1>7a DEF OpenStatus
  <2> QED
    BY <1>7a, <2>1, <2>2, <2>3 DEF OpenStatus
<1>7b. ASSUME NEW p \in Pids, PrintStatus(p) PROVE TypeOK'
  BY <1>7b DEF PrintStatus
<1>7c. ASSUME NEW p \in Pids, StatusFails(p) PROVE TypeOK'
  <2>1. pending' \in [Pids -> SUBSET Signal]
    BY <1>7c DEF StatusFails, Dispatched
  <2> QED
    BY <1>7c, <2>1 DEF StatusFails
<1>7d. ASSUME NEW p \in Pids, PrintFails(p) PROVE TypeOK'
  BY <1>7d DEF PrintFails
<1>8. ASSUME NEW p \in Pids, Clean(p) \/ Cleanup(p) PROVE TypeOK'
  BY <1>8 DEF Clean, Cleanup, Take, Dispatched
<1>9. ASSUME NEW p \in Pids, Spawn(p) PROVE TypeOK'
  BY <1>9 DEF Spawn
<1>10. ASSUME NEW p \in Pids, ChildExits(p) PROVE TypeOK'
  BY <1>10 DEF ChildExits
<1>11. ASSUME NEW p \in Pids, LeaveLoop(p) \/ Again(p) PROVE TypeOK'
  BY <1>11 DEF LeaveLoop, Again
<1>g. ASSUME NEW p \in Pids, Gone(p)
      PROVE  /\ proc' \in [Pids -> {"free", "other"} \cup Lmapd]
             /\ pending' \in [Pids -> SUBSET Signal]
             /\ restart' \in [Pids -> BOOLEAN]
             /\ loaded' \in [Pids -> Nat]
             /\ kids' \in [Pids -> [running : Nat, zombies : Nat]]
  BY <1>g DEF Gone
<1>12a. ASSUME NEW p \in Pids, ExitCheck(p) PROVE TypeOK'
  <2>1. CASE PidCheck(p)
    BY <1>12a, <2>1 DEF ExitCheck
  <2>2. CASE ~PidCheck(p)
    <3>1. Gone(p)
      BY <1>12a, <2>2 DEF ExitCheck
    <3> QED
      BY <1>12a, <3>1, <1>g DEF ExitCheck
  <2> QED
    BY <2>1, <2>2
<1>12b. ASSUME NEW p \in Pids, ExitUnlink(p) PROVE TypeOK'
  BY <1>12b, <1>g DEF ExitUnlink
<1>12c. ASSUME NEW p \in Pids, Crash(p) PROVE TypeOK'
  BY <1>12c, <1>g DEF Crash
<1>13a. ASSUME NEW p \in Pids, Reuse(p) PROVE TypeOK'
  BY <1>13a DEF Reuse
<1>13b. ASSUME NEW p \in Pids, Interrupt(p) PROVE TypeOK'
  <2>1. CASE proc[p] \in Looping
    BY <1>13b, <2>1 DEF Interrupt
  <2>2. CASE proc[p] \notin Looping
    <3>1. Gone(p)
      BY <1>13b, <2>2 DEF Interrupt
    <3> QED
      BY <1>13b, <3>1, <1>g DEF Interrupt
  <2> QED
    BY <2>1, <2>2
<1>14. ASSUME NEW u \in BOOLEAN, Edit(u) PROVE TypeOK'
  BY <1>14 DEF Edit
<1>15. ASSUME NEW cmd \in Command, Ask(cmd) PROVE TypeOK'
  BY <1>15 DEF Ask, PidRead
<1>16. CASE Send
  <2>1. ctl.pid \in Pids
    BY <1>16 DEF Send
  <2>2. /\ proc' \in [Pids -> {"free", "other"} \cup Lmapd]
        /\ pending' \in [Pids -> SUBSET Signal]
        /\ restart' \in [Pids -> BOOLEAN]
        /\ loaded' \in [Pids -> Nat]
        /\ kids' \in [Pids -> [running : Nat, zombies : Nat]]
    <3>1. CASE proc[ctl.pid] = "free"
      BY <1>16, <3>1 DEF Send
    <3>2. CASE proc[ctl.pid] \in Looping
      <4>1. /\ pending' = [pending EXCEPT ![ctl.pid] = @ \cup {SignalOf[ctl.cmd]}]
            /\ UNCHANGED <<proc, restart, loaded, kids>>
        BY <1>16, <3>2 DEF Send
      <4>2. SignalOf[ctl.cmd] \in Signal
        BY <1>16 DEF Send, SignalOf
      <4> QED
        BY <2>1, <4>1, <4>2
    <3>3. CASE proc[ctl.pid] # "free" /\ proc[ctl.pid] \notin Looping
      <4>1. Gone(ctl.pid)
        BY <1>16, <3>3 DEF Send
      <4> QED
        BY <2>1, <4>1, <1>g
    <3> QED
      BY <3>1, <3>2, <3>3
  <2>3. /\ ctl' \in [at : {"idle", "kill", "wait"}, cmd : Command, pid : Pids \cup {Null},
                     since : Nat, gen : Nat]
        /\ ctl'.at # "idle" => ctl'.pid \in Pids /\ ctl'.cmd # "running"
    BY <1>16, <2>1 DEF Send
  <2> QED
    BY <1>16, <2>2, <2>3 DEF Send
<1>17. CASE ReadState
  BY <1>17 DEF ReadState
<1>18. CASE UNCHANGED vars
  BY <1>18 DEF vars
<1> QED
  BY <1>1, <1>2, <1>3, <1>4, <1>5a, <1>5b, <1>6a, <1>6b, <1>7a, <1>7b, <1>7c, <1>7d, <1>8, <1>9,
     <1>10,
     <1>11, <1>12a, <1>12b, <1>12c, <1>13a, <1>13b, <1>14, <1>15, <1>16, <1>17, <1>18
     DEF Next, Step, Command, CleanCmd, ReloadCmd, RunningCmd, ShutdownCmd, StatusCmd

LEMMA InitType == Init => TypeOK
<1> SUFFICES ASSUME Init PROVE TypeOK
  OBVIOUS
<1> USE DaemonAssumption DEF Init
<1>1. ctl \in [at : {"idle", "kill", "wait"}, cmd : Command, pid : Pids \cup {Null},
               since : Nat, gen : Nat] /\ ctl.at = "idle"
  BY DEF Idle, Command
<1>2. config \in [edit : Nat, usable : BOOLEAN]
  OBVIOUS
<1>3. kids \in [Pids -> [running : Nat, zombies : Nat]]
  OBVIOUS
<1>4. restart \in [Pids -> BOOLEAN] /\ unguarded \in BOOLEAN
  OBVIOUS
<1>5. pending \in [Pids -> SUBSET Signal] /\ gen \in [Pids -> Nat] /\ loaded \in [Pids -> Nat]
  OBVIOUS
<1> QED
  BY <1>1, <1>2, <1>3, <1>4, <1>5 DEF TypeOK

(* The types of the variables of the daemon's life cycle.                  *)
THEOREM TypeCorrect == Spec => []TypeOK
<1> QED
  BY InitType, TypeStep, PTL DEF Spec

-----------------------------------------------------------------------------
(* A step that leaves the pid file alone and moves one process to a stage  *)
(* where it does not claim the daemon, and not on its way out unless it    *)
(* was serving, keeps the guard.                                           *)
LEMMA QuietStep ==
  ASSUME IInv, NEW p \in Pids, NEW at,
         proc' = [proc EXCEPT ![p] = at],
         pidfile' = pidfile, unguarded' = unguarded,
         \/ at \notin Claiming \cup Exiting
         \/ at \in Serving /\ proc[p] \in Serving
         \/ at = "exit" /\ proc[p] \in Serving
  PROVE  Guarded'
<1> SUFFICES ASSUME ~unguarded PROVE (OneClaims /\ Named /\ UnlinkOwned /\ NotLeaving)'
  BY DEF Guarded
<1> USE DEF IInv, Guarded, TypeOK, OneClaims, Named, UnlinkOwned, NotLeaving, Claiming,
        Serving, Looping, Exiting
<1>1. OneClaims' /\ Named' /\ UnlinkOwned'
  OBVIOUS
<1>2. NotLeaving'
  OBVIOUS
<1> QED
  BY <1>1, <1>2

LEMMA GuardedStep == IInv /\ [Next]_vars => Guarded'
<1> SUFFICES ASSUME IInv, [Next]_vars PROVE Guarded'
  OBVIOUS
<1>t. TypeOK
  BY DEF IInv
<1> USE DEF Memory, Environment, daemonVars, Goto
<1> DEFINE Parts == OneClaims /\ Named /\ UnlinkOwned /\ NotLeaving
<1>u. ASSUME UNCHANGED <<proc, pidfile, unguarded>> PROVE Guarded'
  BY <1>u DEF IInv, Guarded, OneClaims, Named, UnlinkOwned, NotLeaving
<1>1. ASSUME NEW p \in Pids, Start(p) PROVE Guarded'
  BY <1>1, QuietStep DEF Start, Claiming, Serving, Looping, Exiting
<1>2. ASSUME NEW p \in Pids, ReadPid(p) PROVE Guarded'
  <2> SUFFICES ASSUME ~unguarded' PROVE Parts'
    BY DEF Guarded
  <2> USE DEF TypeOK, OneClaims, Named, UnlinkOwned, NotLeaving, Claiming, Serving,
          Looping, Exiting, Lmapd, Starting
  <2>1. ~unguarded /\ Parts /\ \A q \in Pids : proc[q] \notin {"open", "print"}
    BY <1>2 DEF ReadPid, IInv, Guarded
  <2>2. CASE PidRead = Null
    <3>1. proc' = [proc EXCEPT ![p] = "open"] /\ pidfile' = pidfile
      BY <1>2, <2>2 DEF ReadPid
    <3>2. \A q \in Pids : proc[q] # "free" => pidfile # q
      BY <2>2, DaemonAssumption DEF PidRead
    <3> QED
      BY <1>t, <2>1, <3>1, <3>2
  <2>3. CASE PidRead # Null
    <3>1. proc' = [proc EXCEPT ![p] = "exit"] /\ pidfile' = pidfile /\ proc[p] = "check"
      BY <1>2, <2>3 DEF ReadPid
    <3> QED
      BY <1>t, <2>1, <3>1
  <2> QED
    BY <2>2, <2>3
<1>3. ASSUME NEW p \in Pids, OpenPid(p) PROVE Guarded'
  BY <1>3, <1>t, DaemonAssumption
     DEF OpenPid, IInv, Guarded, TypeOK, OneClaims, Named, UnlinkOwned, NotLeaving, Claiming,
         Serving, Looping, Exiting
<1>4. ASSUME NEW p \in Pids, PrintPid(p) PROVE Guarded'
  BY <1>4, <1>t
     DEF PrintPid, IInv, Guarded, TypeOK, OneClaims, Named, UnlinkOwned, NotLeaving, Claiming,
         Serving, Looping, Exiting
<1>5. ASSUME NEW p \in Pids, OpenFails(p) \/ PrintPidFails(p) PROVE Guarded'
  BY <1>5 DEF OpenFails, PrintPidFails, Guarded
<1>6. ASSUME NEW p \in Pids, ReadConfig(p) PROVE Guarded'
  <2>1. \E at \in {"init", "exit"} : proc' = [proc EXCEPT ![p] = at]
    BY <1>6 DEF ReadConfig
  <2> QED
    BY <1>6, <2>1, QuietStep DEF ReadConfig, Serving
<1>7. ASSUME NEW p \in Pids, Run(p) \/ RunFails(p) PROVE Guarded'
  BY <1>7, QuietStep DEF Run, RunFails, Serving, Looping
<1>8. ASSUME NEW p \in Pids, SigInt(p) \/ SigTerm(p) \/ SigHup(p) PROVE Guarded'
  BY <1>8, QuietStep DEF SigInt, SigTerm, SigHup, LmapdStop, LmapdRestart, Take, Serving, Looping
<1>9. ASSUME NEW p \in Pids, OpenStatus(p) \/ PrintStatus(p) PROVE Guarded'
  BY <1>9, QuietStep DEF OpenStatus, PrintStatus, Take, Serving, Looping
<1>9a. ASSUME NEW p \in Pids, PrintFails(p) PROVE Guarded'
  BY <1>9a, QuietStep DEF PrintFails, Serving, Looping
<1>10. ASSUME NEW p \in Pids,
              StatusFails(p) \/ Clean(p) \/ Cleanup(p) \/ Spawn(p) \/ ChildExits(p)
       PROVE Guarded'
  BY <1>10, <1>u DEF StatusFails, Clean, Cleanup, Spawn, ChildExits
<1>11. ASSUME NEW p \in Pids, LeaveLoop(p) PROVE Guarded'
  BY <1>11, QuietStep DEF LeaveLoop, Serving, Looping
<1>12. ASSUME NEW p \in Pids, Again(p) PROVE Guarded'
  <2>1. \E at \in {"config", "exit"} : proc' = [proc EXCEPT ![p] = at]
    BY <1>12 DEF Again
  <2> QED
    BY <1>12, <2>1, QuietStep DEF Again, Serving
<1>g. ASSUME NEW p \in Pids, Gone(p), pidfile' = pidfile, unguarded' = unguarded PROVE Guarded'
  BY <1>g, QuietStep DEF Gone, Claiming, Serving, Looping, Exiting
<1>13. ASSUME NEW p \in Pids, ExitCheck(p) PROVE Guarded'
  <2>1. CASE PidCheck(p)
    <3>1. pidfile = p /\ proc[p] = "exit" /\ pidfile' = pidfile /\ unguarded' = unguarded
      BY <1>13, <2>1, DaemonAssumption DEF ExitCheck, PidCheck, PidRead
    <3>2. proc' = [proc EXCEPT ![p] = "unlink"]
      BY <1>13, <2>1 DEF ExitCheck
    <3> QED
      BY <1>t, <3>1, <3>2 DEF IInv, Guarded, TypeOK, OneClaims, Named, UnlinkOwned,
         NotLeaving, Claiming, Serving, Looping, Exiting
  <2>2. CASE ~PidCheck(p)
    BY <1>13, <2>2, <1>g DEF ExitCheck
  <2> QED
    BY <2>1, <2>2
<1>14. ASSUME NEW p \in Pids, ExitUnlink(p) PROVE Guarded'
  BY <1>14, <1>t, DaemonAssumption
     DEF ExitUnlink, Gone, IInv, Guarded, TypeOK, OneClaims, Named, UnlinkOwned, NotLeaving,
         Claiming, Serving, Looping, Exiting
<1>15. ASSUME NEW p \in Pids, Crash(p) PROVE Guarded'
  BY <1>15, <1>g DEF Crash
<1>16. ASSUME NEW p \in Pids, Reuse(p) PROVE Guarded'
  BY <1>16, QuietStep DEF Reuse, Claiming, Serving, Looping, Exiting
<1>17. ASSUME NEW p \in Pids, Interrupt(p) PROVE Guarded'
  BY <1>17, <1>u, <1>g DEF Interrupt
<1>18. ASSUME NEW b \in BOOLEAN, Edit(b) PROVE Guarded'
  BY <1>18, <1>u DEF Edit
<1>19. ASSUME NEW cmd \in Command, Ask(cmd) PROVE Guarded'
  BY <1>19, <1>u DEF Ask
<1>20. CASE Send
  <2>1. ctl.pid \in Pids
    BY <1>20, <1>t DEF Send, TypeOK
  <2> QED
    BY <1>20, <2>1, <1>u, <1>g DEF Send
<1>21. CASE ReadState
  BY <1>21, <1>u DEF ReadState
<1>22. CASE UNCHANGED vars
  BY <1>22, <1>u DEF vars
<1> QED
  BY <1>1, <1>2, <1>3, <1>4, <1>5, <1>6, <1>7, <1>8, <1>9, <1>9a, <1>10, <1>11, <1>12, <1>13,
     <1>14, <1>15, <1>16, <1>17, <1>18, <1>19, <1>20, <1>21, <1>22
     DEF Next, Step, Command, CleanCmd, ReloadCmd, RunningCmd, ShutdownCmd, StatusCmd

LEMMA InvariantHolds == Spec => []IInv
<1>1. Init => IInv
  BY InitType DEF Init, IInv, Guarded, OneClaims, Named,
     UnlinkOwned, NotLeaving, Claiming, Serving, Looping, Exiting
<1>2. IInv /\ [Next]_vars => IInv'
  BY TypeStep, GuardedStep DEF IInv
<1> QED
  BY <1>1, <1>2, PTL DEF Spec

(* Unless start-ups overlap or the pid file cannot be written, the file    *)
(* names the daemon that serves, so there is at most one.                  *)
THEOREM ServingNamed == Spec => []ServingIsNamed
<1>1. IInv => ServingIsNamed
  BY DEF IInv, Guarded, Named, ServingIsNamed
<1> QED
  BY <1>1, InvariantHolds, PTL

(* Only the process that the pid file names removes it.                    *)
THEOREM OwnerRemoves == Spec => RemovedByOwner
<1>1. IInv /\ [Next]_vars =>
        [pidfile' = Null /\ pidfile # Null /\ ~unguarded
           => pidfile \in Pids /\ proc[pidfile] = "unlink"]_vars
  <2> SUFFICES ASSUME IInv, Next, pidfile' = Null, pidfile # Null, ~unguarded
               PROVE pidfile \in Pids /\ proc[pidfile] = "unlink"
    OBVIOUS
  <2>1. PICK p \in Pids : ExitUnlink(p)
    BY DaemonAssumption DEF Next, Step, Start, ReadPid, OpenPid, PrintPid, OpenFails, PrintPidFails,
       ReadConfig, Run, RunFails, SigInt, SigTerm, SigHup, LmapdStop, LmapdRestart,
       OpenStatus, PrintStatus, StatusFails, PrintFails, Clean, Cleanup,
       Spawn, ChildExits, LeaveLoop, Again, ExitCheck, Crash, Reuse, Interrupt, Edit, Ask,
       CleanCmd, ReloadCmd, RunningCmd, ShutdownCmd, StatusCmd, Send, ReadState, daemonVars
  <2> QED
    BY <2>1 DEF ExitUnlink, IInv, Guarded, UnlinkOwned
<1> QED
  BY <1>1, InvariantHolds, PTL DEF Spec, RemovedByOwner

-----------------------------------------------------------------------------
(* What a request waits for is undisturbed by a step that changes neither  *)
(* the request nor the status file and keeps its daemon at the same stage, *)
(* or moves it out of its event loop, or towards its end.                  *)
LEMMA AnswerKept ==
  ASSUME IInv, Answer, IInv', ctl' = ctl, status' = status, rendered' = rendered,
         unguarded => unguarded', unwritten' = unwritten, \A p \in Pids : gen'[p] >= gen[p],
         ctl.at = "wait" =>
           \/ proc'[ctl.pid] \notin Looping
           \/ gen'[ctl.pid] # gen[ctl.pid]
           \/ /\ proc[ctl.pid] \in Looping /\ proc[ctl.pid] # "dump"
              /\ "USR1" \in pending'[ctl.pid] \/ "USR1" \notin pending[ctl.pid]
           \/ /\ proc'[ctl.pid] = proc[ctl.pid]
              /\ "USR1" \in pending'[ctl.pid] \/ "USR1" \notin pending[ctl.pid]
  PROVE  Answer'
<1> SUFFICES ASSUME ctl.at = "wait" PROVE Answer'
  BY DEF Answer
<1>1. ctl.pid \in Pids /\ ctl.gen \in Nat /\ ctl.since \in Nat
      /\ gen \in [Pids -> Nat] /\ gen' \in [Pids -> Nat] /\ unguarded' \in BOOLEAN
  BY DEF IInv, TypeOK
<1>2. ctl.gen =< gen'[ctl.pid]
  BY <1>1 DEF Answer
<1>3. gen'[ctl.pid] = ctl.gen => gen[ctl.pid] = ctl.gen
  BY <1>1 DEF Answer
<1> QED
  BY <1>1, <1>2, <1>3 DEF Answer

LEMMA AnswerStep == IInv /\ IInv' /\ Answer /\ [Next]_vars => Answer'
<1> SUFFICES ASSUME IInv, IInv', Answer, [Next]_vars PROVE Answer'
  OBVIOUS
<1>t. TypeOK /\ TypeOK' /\ (ctl.at = "wait" => ctl.pid \in Pids)
  BY DEF IInv, TypeOK
<1>y. /\ proc \in [Pids -> {"free", "other"} \cup Lmapd] /\ pending \in [Pids -> SUBSET Signal]
      /\ gen \in [Pids -> Nat] /\ rendered \in Nat
  BY <1>t DEF TypeOK
<1> USE DEF Memory, Environment, daemonVars, Goto, Looping
<1>u. ASSUME UNCHANGED <<proc, gen, ctl, status, rendered, unguarded, unwritten>>,
             \A p \in Pids : "USR1" \in pending[p] => "USR1" \in pending'[p]
      PROVE Answer'
  BY <1>u, <1>t, <1>y, AnswerKept
<1>m. ASSUME NEW p \in Pids, NEW at, proc' = [proc EXCEPT ![p] = at], at \notin Looping,
             UNCHANGED <<gen, ctl, status, rendered, unwritten>>, unguarded => unguarded',
             \A q \in Pids \ {p} : pending'[q] = pending[q]
      PROVE Answer'
  BY <1>m, <1>t, <1>y, AnswerKept
<1>1. ASSUME NEW p \in Pids, Start(p) PROVE Answer'
  BY <1>1, <1>m DEF Start
<1>2. ASSUME NEW p \in Pids, ReadPid(p) PROVE Answer'
  <2>1. \E at \in {"open", "exit"} : proc' = [proc EXCEPT ![p] = at]
    BY <1>2 DEF ReadPid
  <2> QED
    BY <1>2, <2>1, <1>m DEF ReadPid
<1>3. ASSUME NEW p \in Pids, OpenPid(p) \/ PrintPid(p) \/ OpenFails(p) \/ PrintPidFails(p) PROVE Answer'
  BY <1>3, <1>m DEF OpenPid, PrintPid, OpenFails, PrintPidFails
<1>4. ASSUME NEW p \in Pids, ReadConfig(p) PROVE Answer'
  <2>1. \E at \in {"init", "exit"} : proc' = [proc EXCEPT ![p] = at]
    BY <1>4 DEF ReadConfig
  <2> QED
    BY <1>4, <2>1, <1>m DEF ReadConfig
<1>5. ASSUME NEW p \in Pids, Run(p) PROVE Answer'
  BY <1>5, <1>t, <1>y, AnswerKept DEF Run
<1>6. ASSUME NEW p \in Pids, RunFails(p) PROVE Answer'
  BY <1>6, <1>m DEF RunFails
<1>7. ASSUME NEW p \in Pids, SigInt(p) \/ SigTerm(p) \/ SigHup(p) PROVE Answer'
  <2>1. PICK sig \in {"INT", "TERM", "HUP"} : Take(p, sig) /\ Dispatched(p, sig)
    BY <1>7 DEF SigInt, SigTerm, SigHup, LmapdStop, LmapdRestart
  <2>2. \A q \in Pids : "USR1" \in pending[q] => "USR1" \in pending'[q]
    BY <2>1, <1>y DEF Dispatched
  <2>3. proc' = [proc EXCEPT ![p] = "left"] /\ UNCHANGED <<gen, ctl, status, rendered, unguarded, unwritten>>
    BY <1>7 DEF SigInt, SigTerm, SigHup, LmapdStop, LmapdRestart
  <2> QED
    BY <2>1, <2>2, <2>3, <1>t, <1>y, AnswerKept DEF Take
<1>8. ASSUME NEW p \in Pids, OpenStatus(p) PROVE Answer'
  <2> SUFFICES ASSUME ctl.at = "wait" PROVE Answer'
    BY <1>8 DEF OpenStatus, Answer
  <2>1. /\ rendered' = rendered + 1 /\ ctl' = ctl /\ gen' = gen /\ unguarded' = unguarded
        /\ unwritten' = unwritten
        /\ proc' = [proc EXCEPT ![p] = "dump"] /\ proc[p] = "run"
        /\ ctl.since \in Nat /\ ctl.pid \in Pids
    BY <1>8, <1>t DEF OpenStatus, TypeOK, Take
  <2>2. ctl.pid # p /\ ~unguarded => proc[ctl.pid] \notin Looping
    BY <2>1 DEF IInv, Guarded, OneClaims, Claiming, Serving
  <2> QED
    BY <2>1, <2>2, <1>y DEF Answer
<1>9. ASSUME NEW p \in Pids, PrintStatus(p) PROVE Answer'
  <2> SUFFICES ASSUME ctl.at = "wait" PROVE Answer'
    BY <1>9 DEF PrintStatus, Answer
  <2>1. /\ UNCHANGED <<rendered, ctl, gen, pending, unguarded, unwritten>> /\ status' = rendered
        /\ proc' = [proc EXCEPT ![p] = "run"] /\ proc[p] = "dump"
        /\ ctl.since \in Nat /\ ctl.pid \in Pids
    BY <1>9, <1>t DEF PrintStatus, TypeOK
  <2>2. ctl.pid # p /\ ~unguarded => proc[ctl.pid] \notin Looping
    BY <2>1 DEF IInv, Guarded, OneClaims, Claiming, Serving
  <2> QED
    BY <2>1, <2>2, <1>y DEF Answer
<1>9a. ASSUME NEW p \in Pids, StatusFails(p) \/ PrintFails(p) PROVE Answer'
  BY <1>9a DEF StatusFails, PrintFails, Answer
<1>10. ASSUME NEW p \in Pids, Clean(p) \/ Cleanup(p) PROVE Answer'
  BY <1>10, <1>u, <1>y DEF Clean, Cleanup, Dispatched
<1>11. ASSUME NEW p \in Pids, Spawn(p) \/ ChildExits(p) PROVE Answer'
  BY <1>11, <1>u, <1>y DEF Spawn, ChildExits
<1>12. ASSUME NEW p \in Pids, LeaveLoop(p) PROVE Answer'
  BY <1>12, <1>m, <1>y DEF LeaveLoop
<1>13. ASSUME NEW p \in Pids, Again(p) PROVE Answer'
  <2>1. \E at \in {"config", "exit"} : proc' = [proc EXCEPT ![p] = at]
    BY <1>13 DEF Again
  <2> QED
    BY <1>13, <2>1, <1>m DEF Again
<1>g. ASSUME NEW p \in Pids, Gone(p), UNCHANGED <<gen, ctl, status, rendered, unguarded, unwritten>>
      PROVE Answer'
  BY <1>g, <1>m, <1>y DEF Gone
<1>14. ASSUME NEW p \in Pids, ExitCheck(p) PROVE Answer'
  <2>1. CASE PidCheck(p)
    BY <1>14, <2>1, <1>m DEF ExitCheck
  <2>2. CASE ~PidCheck(p)
    BY <1>14, <2>2, <1>g DEF ExitCheck
  <2> QED
    BY <2>1, <2>2
<1>15. ASSUME NEW p \in Pids, ExitUnlink(p) \/ Crash(p) PROVE Answer'
  BY <1>15, <1>g DEF ExitUnlink, Crash
<1>16. ASSUME NEW p \in Pids, Reuse(p) PROVE Answer'
  <2>1. \E at \in {"other", "free"} : proc' = [proc EXCEPT ![p] = at]
    BY <1>16 DEF Reuse
  <2> QED
    BY <1>16, <2>1, <1>m DEF Reuse
<1>17. ASSUME NEW p \in Pids, Interrupt(p) PROVE Answer'
  <2>1. CASE proc[p] \in Looping
    BY <1>17, <2>1, <1>u, <1>y DEF Interrupt
  <2>2. CASE proc[p] \notin Looping
    BY <1>17, <2>2, <1>g DEF Interrupt
  <2> QED
    BY <2>1, <2>2
<1>18. ASSUME NEW b \in BOOLEAN, Edit(b) PROVE Answer'
  BY <1>18, <1>u DEF Edit
<1>19. ASSUME NEW cmd \in Command, Ask(cmd) PROVE Answer'
  BY <1>19 DEF Ask, Answer
<1>20. CASE Send
  <2>1. ctl.pid \in Pids /\ ctl \in [at : {"idle", "kill", "wait"}, cmd : Command,
                                     pid : Pids \cup {Null}, since : Nat, gen : Nat]
    BY <1>20, <1>t DEF Send, TypeOK
  <2> SUFFICES ASSUME ctl'.at = "wait" PROVE Answer'
    BY DEF Answer
  <2>2. /\ ctl.cmd = "status" /\ proc[ctl.pid] # "free"
        /\ ctl' = [ctl EXCEPT !.at = "wait", !.since = rendered, !.gen = gen[ctl.pid]]
    BY <1>20 DEF Send, Idle
  <2>3. ctl'.pid = ctl.pid /\ ctl'.since = rendered /\ ctl'.gen = gen[ctl.pid]
    BY <2>1, <2>2
  <2>4. UNCHANGED <<gen, rendered>>
    BY <1>20 DEF Send
  <2>5. CASE proc[ctl.pid] \in Looping
    <3>1. pending' = [pending EXCEPT ![ctl.pid] = @ \cup {SignalOf[ctl.cmd]}]
      BY <1>20, <2>2, <2>5 DEF Send
    <3>2. "USR1" \in pending'[ctl.pid]
      BY <3>1, <2>1, <2>2, <1>y DEF SignalOf
    <3> QED
      BY <3>2, <2>1, <2>3, <2>4, <1>y DEF Answer
  <2>6. CASE proc[ctl.pid] \notin Looping
    <3>1. proc' = [proc EXCEPT ![ctl.pid] = "free"]
      BY <1>20, <2>2, <2>6 DEF Send, Gone
    <3> QED
      BY <3>1, <2>1, <2>3, <2>4, <1>y DEF Answer
  <2> QED
    BY <2>5, <2>6
<1>21. CASE ReadState
  BY <1>21 DEF ReadState, Answer, Idle
<1>22. CASE UNCHANGED vars
  BY <1>22, <1>u DEF vars
<1> QED
  BY <1>1, <1>2, <1>3, <1>4, <1>5, <1>6, <1>7, <1>8, <1>9, <1>9a, <1>10, <1>11, <1>12, <1>13,
     <1>14, <1>15, <1>16, <1>17, <1>18, <1>19, <1>20, <1>21, <1>22
     DEF Next, Step, Command, CleanCmd, ReloadCmd, RunningCmd, ShutdownCmd, StatusCmd

(* A request for the status that the event loop has dealt with was         *)
(* answered by a complete file rendered after the request.                 *)
THEOREM StatusIsAnswered == Spec => []StatusAnswered
<1>1. Init => Answer
  BY DEF Init, Answer, Idle
<1>2. IInv /\ Answer => StatusAnswered
  <2> SUFFICES ASSUME IInv, Answer, ctl.at = "wait", ~unguarded, ~unwritten,
                      proc[ctl.pid] = "run",
                      gen[ctl.pid] = ctl.gen, "USR1" \notin pending[ctl.pid]
               PROVE  status \notin {Null, Empty} /\ status > ctl.since
    BY DEF StatusAnswered
  <2>1. status = rendered /\ rendered > ctl.since
    BY DEF Answer, Looping
  <2> QED
    BY <2>1, DaemonAssumption DEF IInv, TypeOK
<1> QED
  BY <1>1, <1>2, AnswerStep, InvariantHolds, PTL DEF Spec

-----------------------------------------------------------------------------
(* Reloads.  A signal is pending only while the handlers are installed: it *)
(* reaches neither the next configuration nor a later process.             *)
Caught == \A p \in Pids : pending[p] # {} => proc[p] \in Looping

(* The edits up to v are owed to the daemon p: its event loop has caught a *)
(* SIGHUP, or p has left the loop and not yet read its configuration.      *)
Owed(p, v) ==
  /\ config.edit >= v
  /\ "HUP" \in pending[p] \/ proc[p] \in {"left", "down", "config"}

(* The debt is kept until it is paid or the daemon ends.                   *)
KeptOrPaid ==
  \A p \in Pids : \A v \in Nat :
    Owed(p, v) => Owed(p, v)' \/ loaded'[p] >= v \/ proc'[p] \notin Serving

(* No step of any process breaks either.                                   *)
LEMMA ReloadStep == TypeOK /\ Caught /\ [Next]_vars => Caught' /\ KeptOrPaid
<1> SUFFICES ASSUME TypeOK, Caught, [Next]_vars PROVE Caught' /\ KeptOrPaid
  OBVIOUS
<1>t. /\ proc \in [Pids -> {"free", "other"} \cup Lmapd] /\ pending \in [Pids -> SUBSET Signal]
      /\ loaded \in [Pids -> Nat] /\ config.edit \in Nat
  BY DEF TypeOK
<1> USE DEF Memory, Environment, daemonVars, Goto
<1> DEFINE Good == Caught' /\ KeptOrPaid
<1>u. ASSUME UNCHANGED <<proc, pending, config>> PROVE Good
  BY <1>u DEF Caught, KeptOrPaid, Owed
(* A process that ends, or that goes on without having caught a signal.    *)
<1>m. ASSUME NEW p \in Pids, NEW at, proc' = [proc EXCEPT ![p] = at], config' = config,
             \/ pending' = pending /\ proc[p] \notin Looping
             \/ pending' = [pending EXCEPT ![p] = {}],
             \/ at \in {"left", "down", "config"}
             \/ at \notin Serving
             \/ proc[p] \notin Looping \cup {"down", "config"}
      PROVE Good
  <2>1. Caught'
    BY <1>m, <1>t DEF Caught
  <2>2. \A q \in Pids \ {p} : proc'[q] = proc[q] /\ pending'[q] = pending[q]
    BY <1>m, <1>t
  <2>3. proc'[p] = at
    BY <1>m, <1>t
  <2>4. proc[p] \notin Looping => pending[p] = {}
    BY DEF Caught
  <2> QED
    BY <1>m, <1>t, <2>1, <2>2, <2>3, <2>4 DEF KeptOrPaid, Owed, Looping
(* A process in its event loop that stays there or leaves it.              *)
<1>l. ASSUME NEW p \in Pids, NEW at \in Looping, proc' = [proc EXCEPT ![p] = at],
             proc[p] \in Looping, config' = config, NEW sigs,
             pending' = [pending EXCEPT ![p] = sigs],
             at = "left" \/ ("HUP" \in pending[p] => "HUP" \in sigs), proc[p] # "left"
      PROVE Good
  <2>1. Caught'
    BY <1>l, <1>t DEF Caught
  <2>2. \A q \in Pids \ {p} : proc'[q] = proc[q] /\ pending'[q] = pending[q]
    BY <1>l, <1>t
  <2>3. proc'[p] = at /\ pending'[p] = sigs
    BY <1>l, <1>t
  <2> QED
    BY <1>l, <1>t, <2>1, <2>2, <2>3 DEF KeptOrPaid, Owed, Looping
<1>g. ASSUME NEW p \in Pids, Gone(p), config' = config PROVE Good
  BY <1>g, <1>m DEF Gone, Serving, Looping
(* Signals that come, and signals other than SIGHUP that are dealt with.   *)
<1>s. ASSUME NEW p \in Pids, NEW sigs, pending' = [pending EXCEPT ![p] = sigs],
             UNCHANGED <<proc, config>>, sigs = {} \/ proc[p] \in Looping,
             "HUP" \in pending[p] => "HUP" \in sigs
      PROVE Good
  <2>1. \A q \in Pids \ {p} : pending'[q] = pending[q]
    BY <1>s, <1>t
  <2>2. pending'[p] = sigs
    BY <1>s, <1>t
  <2> QED
    BY <1>s, <1>t, <2>1, <2>2 DEF Caught, KeptOrPaid, Owed
<1>1. ASSUME NEW p \in Pids, Start(p) PROVE Good
  BY <1>1, <1>m DEF Start, Serving, Looping
<1>2. ASSUME NEW p \in Pids, ReadPid(p) PROVE Good
  <2>1. \E at \in {"open", "exit"} : proc' = [proc EXCEPT ![p] = at]
    BY <1>2 DEF ReadPid
  <2> QED
    BY <1>2, <2>1, <1>m DEF ReadPid, Serving, Looping
<1>3. ASSUME NEW p \in Pids, OpenPid(p) \/ PrintPid(p) \/ OpenFails(p) \/ PrintPidFails(p) PROVE Good
  BY <1>3, <1>m DEF OpenPid, PrintPid, OpenFails, PrintPidFails, Serving, Looping
<1>4. ASSUME NEW p \in Pids, ReadConfig(p) PROVE Good
  <2>1. CASE config.usable
    <3>1. /\ proc' = [proc EXCEPT ![p] = "init"] /\ loaded' = [loaded EXCEPT ![p] = config.edit]
          /\ UNCHANGED <<pending, config>> /\ proc[p] = "config"
      BY <1>4, <2>1 DEF ReadConfig
    <3>2. Caught'
      BY <1>t, <3>1 DEF Caught, Looping
    <3>3. loaded'[p] = config.edit /\ \A q \in Pids \ {p} : proc'[q] = proc[q]
      BY <1>t, <3>1
    <3> QED
      BY <1>t, <3>1, <3>2, <3>3 DEF KeptOrPaid, Owed
  <2>2. CASE ~config.usable
    BY <1>4, <2>2, <1>m DEF ReadConfig, Serving, Looping
  <2> QED
    BY <2>1, <2>2
<1>5. ASSUME NEW p \in Pids, Run(p) \/ RunFails(p) PROVE Good
  BY <1>5, <1>m DEF Run, RunFails, Serving, Looping
<1>6. ASSUME NEW p \in Pids, SigInt(p) \/ SigTerm(p) \/ SigHup(p) PROVE Good
  <2>1. PICK sig \in {"INT", "TERM", "HUP"} : Take(p, sig) /\ Dispatched(p, sig)
    BY <1>6 DEF SigInt, SigTerm, SigHup, LmapdStop, LmapdRestart
  <2>2. proc' = [proc EXCEPT ![p] = "left"] /\ config' = config
    BY <1>6 DEF SigInt, SigTerm, SigHup, LmapdStop, LmapdRestart
  <2> QED
    BY <2>1, <2>2, <1>l DEF Take, Dispatched, Looping
<1>7. ASSUME NEW p \in Pids, OpenStatus(p) PROVE Good
  BY <1>7, <1>l DEF OpenStatus, Take, Dispatched, Looping
<1>8. ASSUME NEW p \in Pids, PrintStatus(p) \/ PrintFails(p) PROVE Good
  <2>1. /\ proc' = [proc EXCEPT ![p] = "run"] /\ proc[p] = "dump" /\ config' = config
        /\ pending' = pending
    BY <1>8 DEF PrintStatus, PrintFails
  <2>2. pending' = [pending EXCEPT ![p] = pending[p]]
    BY <1>t, <2>1
  <2> QED
    BY <2>1, <2>2, <1>l DEF Looping
<1>9. ASSUME NEW p \in Pids, StatusFails(p) \/ Clean(p) \/ Cleanup(p) PROVE Good
  <2>1. PICK sig \in {"USR1", "USR2", "CHLD"} : Take(p, sig) /\ Dispatched(p, sig)
    BY <1>9 DEF StatusFails, Clean, Cleanup
  <2>2. UNCHANGED <<proc, config>>
    BY <1>9 DEF StatusFails, Clean, Cleanup
  <2> QED
    BY <2>1, <2>2, <1>s DEF Take, Dispatched, Looping
<1>10. ASSUME NEW p \in Pids, Spawn(p) PROVE Good
  BY <1>10, <1>u DEF Spawn
<1>11. ASSUME NEW p \in Pids, ChildExits(p) PROVE Good
  <2> DEFINE sigs == pending[p] \cup (IF proc[p] \in Looping THEN {"CHLD"} ELSE {})
  <2>1. pending' = [pending EXCEPT ![p] = sigs] /\ UNCHANGED <<proc, config>>
    BY <1>11 DEF ChildExits
  <2>2. sigs = {} \/ proc[p] \in Looping
    BY <1>t DEF Caught
  <2>3. "HUP" \in pending[p] => "HUP" \in sigs
    OBVIOUS
  <2> HIDE DEF sigs
  <2> QED
    BY <2>1, <2>2, <2>3, <1>s
<1>12. ASSUME NEW p \in Pids, LeaveLoop(p) PROVE Good
  BY <1>12, <1>m DEF LeaveLoop
<1>13. ASSUME NEW p \in Pids, Again(p) PROVE Good
  <2>1. \E at \in {"config", "exit"} : proc' = [proc EXCEPT ![p] = at]
    BY <1>13 DEF Again
  <2> QED
    BY <1>13, <2>1, <1>m DEF Again, Serving, Looping
<1>14. ASSUME NEW p \in Pids, ExitCheck(p) PROVE Good
  <2>1. CASE PidCheck(p)
    BY <1>14, <2>1, <1>m DEF ExitCheck, Serving, Looping
  <2>2. CASE ~PidCheck(p)
    BY <1>14, <2>2, <1>g DEF ExitCheck
  <2> QED
    BY <2>1, <2>2
<1>15. ASSUME NEW p \in Pids, ExitUnlink(p) \/ Crash(p) PROVE Good
  BY <1>15, <1>g DEF ExitUnlink, Crash
<1>16. ASSUME NEW p \in Pids, Reuse(p) PROVE Good
  <2>1. \E at \in {"other", "free"} : proc' = [proc EXCEPT ![p] = at]
    BY <1>16 DEF Reuse
  <2> QED
    BY <1>16, <2>1, <1>m DEF Reuse, Serving, Looping
<1>17. ASSUME NEW p \in Pids, Interrupt(p) PROVE Good
  <2>1. CASE proc[p] \in Looping
    BY <1>17, <2>1, <1>s DEF Interrupt
  <2>2. CASE proc[p] \notin Looping
    BY <1>17, <2>2, <1>g DEF Interrupt
  <2> QED
    BY <2>1, <2>2
<1>18. ASSUME NEW b \in BOOLEAN, Edit(b) PROVE Good
  BY <1>18, <1>t DEF Edit, Caught, KeptOrPaid, Owed
<1>19. ASSUME NEW cmd \in Command, Ask(cmd) PROVE Good
  BY <1>19, <1>u DEF Ask
<1>20. CASE Send
  <2>1. ctl.pid \in Pids /\ config' = config
    BY <1>20 DEF Send, TypeOK
  <2>2. CASE proc[ctl.pid] = "free"
    <3>1. UNCHANGED <<proc, pending>>
      BY <1>20, <2>2 DEF Send, Looping
    <3> QED
      BY <2>1, <3>1, <1>u
  <2>3. CASE proc[ctl.pid] \in Looping
    <3>1. /\ pending' = [pending EXCEPT ![ctl.pid] = pending[ctl.pid] \cup {SignalOf[ctl.cmd]}]
          /\ UNCHANGED <<proc, config>>
      BY <1>20, <2>3 DEF Send, Looping
    <3> QED
      BY <2>1, <2>3, <3>1, <1>s
  <2>4. CASE proc[ctl.pid] # "free" /\ proc[ctl.pid] \notin Looping
    BY <1>20, <2>1, <2>4, <1>g DEF Send
  <2> QED
    BY <2>2, <2>3, <2>4
<1>21. CASE ReadState
  BY <1>21, <1>u DEF ReadState
<1>22. CASE UNCHANGED vars
  BY <1>22, <1>u DEF vars
<1> QED
  BY <1>1, <1>2, <1>3, <1>4, <1>5, <1>6, <1>7, <1>8, <1>9, <1>10, <1>11, <1>12, <1>13,
     <1>14, <1>15, <1>16, <1>17, <1>18, <1>19, <1>20, <1>21, <1>22
     DEF Next, Step, Command, CleanCmd, ReloadCmd, RunningCmd, ShutdownCmd, StatusCmd

(* The safety part of ReloadApplied, for any number of edits, signals,     *)
(* crashes and failing starts: once its event loop has caught a SIGHUP, a  *)
(* daemon loads the edits made until then before anything else becomes of  *)
(* it, or it ends; no other signal, command or edit makes it forget.       *)
THEOREM ReloadNotForgotten ==
  Spec => /\ [](\A p \in Pids : "HUP" \in pending[p] => Owed(p, config.edit))
          /\ [][KeptOrPaid]_vars
<1>1. Init => Caught
  BY DEF Init, Caught
<1>2. TypeOK => \A p \in Pids : "HUP" \in pending[p] => Owed(p, config.edit)
  BY DEF TypeOK, Owed
<1> QED
  BY <1>1, <1>2, TypeCorrect, ReloadStep, PTL DEF Spec

(* No signal outlives the event loop that caught it: a later configuration *)
(* of the daemon, and a later process with its pid, begin with none.       *)
THEOREM SignalsDieWithTheLoop == Spec => []Caught
<1>1. Init => Caught
  BY DEF Init, Caught
<1> QED
  BY <1>1, TypeCorrect, ReloadStep, PTL DEF Spec
=============================================================================
