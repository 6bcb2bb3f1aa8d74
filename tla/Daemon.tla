------------------------------- MODULE Daemon -------------------------------
(***************************************************************************)
(* The life cycle of the daemon as the operating system and lmapctl see    *)
(* it: src/src/lmapd.c, src/src/pidfile.c, src/src/signals.c and the       *)
(* commands of src/src/lmapctl.c that talk to a running daemon.            *)
(*                                                                         *)
(* Several processes may be started as lmapd on one run directory; pids    *)
(* are reused, by lmapd and by unrelated programs.  The pid file is the    *)
(* only thing that keeps two daemons apart, and the only way lmapctl finds *)
(* one.  Signals have a handler only while the event loop is set up;       *)
(* before and after that, also in the middle of a reload, they have their  *)
(* default disposition and kill the process.                               *)
(*                                                                         *)
(* What the daemon does in its event loop is the subject of Runner, Queue  *)
(* and Events; here its children are two counters.                         *)
(***************************************************************************)
EXTENDS Integers

CONSTANTS
  Pids,        \* the process identifiers
  Null,        \* no pid file, no status file
  Empty,       \* a file that was truncated and not yet written
  MaxStarts,   \* bound on the number of times lmapd is started
  MaxCommands, \* bound on the number of lmapctl commands
  MaxVersion,  \* bound on the number of edits of the configuration
  MaxRunning,  \* bound on the children of a process that run
  MaxZombies   \* zombies are counted up to this bound

ASSUME DaemonAssumption ==
  /\ MaxStarts \in Nat /\ MaxCommands \in Nat /\ MaxVersion \in Nat
  /\ MaxRunning \in Nat /\ MaxZombies \in Nat \ {0}
  /\ Null \notin Pids /\ Empty \notin Pids /\ Null # Empty
  /\ Null \notin Nat /\ Empty \notin Nat

VARIABLES
  proc,      \* what the process with this pid is doing
  pidfile,   \* the contents of the pid file
  pending,   \* signals caught and not yet dispatched by the event loop
  restart,   \* LMAPD_FLAG_RESTART
  config,    \* configuration and capabilities on disk: edits so far, parse and valid
  loaded,    \* the edit of the configuration the process runs with
  kids,      \* children that run, and children that exited and were not waited for
  status,    \* the contents of the status file: the number of a rendering
  rendered,  \* renderings of the state so far
  ctl,       \* the lmapctl command in progress
  starts, commands,  \* counters for the bounds
  gen,       \* history: how often the process entered its event loop
  unguarded, \* history: a start-up overlapped another one or could not write its pid
  unwritten  \* history: a status file could not be rendered, opened or written

daemonVars == <<proc, pidfile, pending, restart, loaded, kids, gen, unguarded>>
vars == <<proc, pidfile, pending, restart, config, loaded, kids, status, rendered,
          ctl, starts, commands, gen, unguarded, unwritten>>

Signal  == {"INT", "TERM", "HUP", "USR1", "USR2", "CHLD"}
Command == {"clean", "reload", "running", "shutdown", "status"}

(* The signal a command sends; "running" sends none.                       *)
SignalOf == [clean |-> "USR2", reload |-> "HUP", shutdown |-> "TERM", status |-> "USR1"]

(* Stages of main(): up to the pid file, the loop, the event loop of       *)
(* lmapd_run(), and the atexit handler.                                    *)
Starting == {"check", "open", "print"}
Looping  == {"run", "dump", "left"}           \* signal handlers are installed
Serving  == {"config", "init", "down"} \cup Looping
Exiting  == {"exit", "unlink"}
Lmapd    == Starting \cup Serving \cup Exiting

Idle == [at |-> "idle", cmd |-> "running", pid |-> Null, since |-> 0, gen |-> 0]

TypeOK ==
  /\ proc \in [Pids -> {"free", "other"} \cup Lmapd]
  /\ pidfile \in Pids \cup {Null, Empty}
  /\ pending \in [Pids -> SUBSET Signal]
  /\ restart \in [Pids -> BOOLEAN]
  /\ config \in [edit : Nat, usable : BOOLEAN]
  /\ loaded \in [Pids -> Nat]
  /\ kids \in [Pids -> [running : Nat, zombies : Nat]]
  /\ status \in Nat \cup {Null, Empty} /\ rendered \in Nat
  /\ ctl \in [at : {"idle", "kill", "wait"}, cmd : Command, pid : Pids \cup {Null},
              since : Nat, gen : Nat]
  /\ ctl.at # "idle" => ctl.pid \in Pids /\ ctl.cmd # "running"
  /\ starts \in Nat /\ commands \in Nat
  /\ gen \in [Pids -> Nat] /\ unguarded \in BOOLEAN /\ unwritten \in BOOLEAN

Init ==
  /\ proc = [p \in Pids |-> "free"]
  /\ pidfile = Null /\ status = Null /\ rendered = 0
  /\ pending = [p \in Pids |-> {}]
  /\ restart = [p \in Pids |-> FALSE]
  /\ config = [edit |-> 0, usable |-> TRUE]
  /\ loaded = [p \in Pids |-> 0]
  /\ kids = [p \in Pids |-> [running |-> 0, zombies |-> 0]]
  /\ ctl = Idle /\ starts = 0 /\ commands = 0
  /\ gen = [p \in Pids |-> 0] /\ unguarded = FALSE /\ unwritten = FALSE

(***************************************************************************)
(* The pid file.                                                           *)
(***************************************************************************)

(* lmapd_pid_read(): a missing or unparsable file, or one that names no    *)
(* live process, counts as no daemon; any live process counts as one.      *)
PidRead == IF pidfile \in Pids /\ proc[pidfile] # "free" THEN pidfile ELSE Null

(* Mutant of PidCheck: the file is taken for the process's own whenever it *)
(* names some live process.                                                *)
PidCheckAny(p) == PidRead # Null

(* lmapd_pid_check()                                                       *)
PidCheck(p) == PidRead = p

(***************************************************************************)
(* The process.  Its memory is gone when it ends; its children are         *)
(* inherited by init.                                                      *)
(***************************************************************************)
Gone(p) ==
  /\ proc' = [proc EXCEPT ![p] = "free"]
  /\ pending' = [pending EXCEPT ![p] = {}]
  /\ restart' = [restart EXCEPT ![p] = FALSE]
  /\ loaded' = [loaded EXCEPT ![p] = 0]
  /\ kids' = [kids EXCEPT ![p] = [running |-> 0, zombies |-> 0]]

Goto(p, at) == proc' = [proc EXCEPT ![p] = at]

Environment == <<config, status, rendered, ctl, starts, commands, unwritten>>
Memory == <<pending, restart, loaded, kids>>

Start(p) ==
  /\ starts < MaxStarts
  /\ proc[p] = "free"
  /\ Goto(p, "check")
  /\ starts' = starts + 1
  /\ UNCHANGED <<pidfile, Memory, gen, unguarded, config, status, rendered, ctl, commands, unwritten>>

(* Mutant of ReadPid: a daemon that is already running is only warned of.  *)
ReadPidWarns(p) ==
  /\ proc[p] = "check"
  /\ Goto(p, "open")
  /\ unguarded' = (unguarded \/ \E q \in Pids : proc[q] \in {"open", "print"})
  /\ UNCHANGED <<pidfile, Memory, gen, Environment>>

(* main(): "already running" ends the process through its atexit handler.  *)
ReadPid(p) ==
  /\ proc[p] = "check"
  /\ Goto(p, IF PidRead = Null THEN "open" ELSE "exit")
  /\ unguarded' = (unguarded \/ \E q \in Pids : proc[q] \in {"open", "print"})
  /\ UNCHANGED <<pidfile, Memory, gen, Environment>>

(* lmapd_pid_write() truncates the file when it opens it...                *)
OpenPid(p) ==
  /\ proc[p] = "open"
  /\ pidfile' = Empty
  /\ Goto(p, "print")
  /\ UNCHANGED <<Memory, gen, unguarded, Environment>>

(* ... and writes the pid.                                                 *)
PrintPid(p) ==
  /\ proc[p] = "print"
  /\ pidfile' = p
  /\ Goto(p, "config")
  /\ UNCHANGED <<Memory, gen, unguarded, Environment>>

(* lmapd_pid_write() fails to open the file, which main() ignores...       *)
OpenFails(p) ==
  /\ proc[p] = "open"
  /\ unguarded' = TRUE
  /\ Goto(p, "config")
  /\ UNCHANGED <<pidfile, Memory, gen, Environment>>

(* ... or to write the pid (fprintf() or the flush): the file is left as   *)
(* it was opened.                                                          *)
PrintPidFails(p) ==
  /\ proc[p] = "print"
  /\ unguarded' = TRUE
  /\ Goto(p, "config")
  /\ UNCHANGED <<pidfile, Memory, gen, Environment>>

(* Mutant of ReadConfig: a configuration that cannot be used is skipped    *)
(* over and the daemon goes on with the one it has.                        *)
KeepConfig(p) ==
  /\ proc[p] = "config"
  /\ Goto(p, "init")
  /\ loaded' = [loaded EXCEPT ![p] = IF config.usable THEN config.edit ELSE @]
  /\ UNCHANGED <<pidfile, pending, restart, kids, gen, unguarded, Environment>>

(* read_config() and lmap_valid(): the daemon ends if the configuration or *)
(* the capabilities cannot be read or are invalid, also on a reload.       *)
ReadConfig(p) ==
  /\ proc[p] = "config"
  /\ IF config.usable
       THEN Goto(p, "init") /\ loaded' = [loaded EXCEPT ![p] = config.edit]
       ELSE Goto(p, "exit") /\ UNCHANGED loaded
  /\ UNCHANGED <<pidfile, pending, restart, kids, gen, unguarded, Environment>>

(* lmapd_workspace_init() and lmapd_run() up to the installed handlers.    *)
Run(p) ==
  /\ proc[p] = "init"
  /\ Goto(p, "run")
  /\ gen' = [gen EXCEPT ![p] = @ + 1]
  /\ UNCHANGED <<pidfile, Memory, unguarded, Environment>>

(* lmapd_run() without an event base returns at once.                      *)
RunFails(p) ==
  /\ proc[p] = "init"
  /\ Goto(p, "down")
  /\ UNCHANGED <<pidfile, Memory, gen, unguarded, Environment>>

Take(p, sig) == proc[p] = "run" /\ sig \in pending[p]
Dispatched(p, sig) == pending' = [pending EXCEPT ![p] = @ \ {sig}]

(* lmapd_stop(); event_base_loopbreak() leaves the callbacks that are      *)
(* still due undone.  The children are killed; see Runner.                 *)
LmapdStop(p) ==
  /\ restart' = [restart EXCEPT ![p] = FALSE]
  /\ Goto(p, "left")
  /\ UNCHANGED <<pidfile, loaded, kids, gen, unguarded, Environment>>

(* lmapd_restart()                                                         *)
LmapdRestart(p) ==
  /\ restart' = [restart EXCEPT ![p] = TRUE]
  /\ Goto(p, "left")
  /\ UNCHANGED <<pidfile, loaded, kids, gen, unguarded, Environment>>

SigInt(p)  == Take(p, "INT") /\ Dispatched(p, "INT") /\ LmapdStop(p)
SigTerm(p) == Take(p, "TERM") /\ Dispatched(p, "TERM") /\ LmapdStop(p)
SigHup(p)  == Take(p, "HUP") /\ Dispatched(p, "HUP") /\ LmapdRestart(p)

(* lmapd_sigusr1_cb(): the state is rendered and the status file           *)
(* truncated...                                                            *)
OpenStatus(p) ==
  /\ Take(p, "USR1") /\ Dispatched(p, "USR1")
  /\ rendered' = rendered + 1
  /\ status' = Empty
  /\ Goto(p, "dump")
  /\ UNCHANGED <<pidfile, restart, loaded, kids, gen, unguarded, config, ctl, starts, commands,
                 unwritten>>

(* Mutant of PrintStatus: the file is closed without a flush and stays     *)
(* truncated.                                                              *)
PrintNothing(p) ==
  /\ proc[p] = "dump"
  /\ Goto(p, "run")
  /\ UNCHANGED <<pidfile, Memory, gen, unguarded, Environment>>

(* ... and written.                                                        *)
PrintStatus(p) ==
  /\ proc[p] = "dump"
  /\ status' = rendered
  /\ Goto(p, "run")
  /\ UNCHANGED <<pidfile, Memory, gen, unguarded, config, rendered, ctl, starts, commands,
                 unwritten>>

(* The state cannot be rendered or the file not be opened: nothing is      *)
(* written.                                                                *)
StatusFails(p) ==
  /\ Take(p, "USR1") /\ Dispatched(p, "USR1")
  /\ unwritten' = TRUE
  /\ UNCHANGED <<proc, pidfile, restart, loaded, kids, gen, unguarded, config, status, rendered,
                 ctl, starts, commands>>

(* The file cannot be written, and stays truncated.                        *)
PrintFails(p) ==
  /\ proc[p] = "dump"
  /\ unwritten' = TRUE
  /\ Goto(p, "run")
  /\ UNCHANGED <<pidfile, Memory, gen, unguarded, config, status, rendered, ctl, starts, commands>>

(* lmapd_sigusr2_cb(): the workspace is cleaned; see Runner.               *)
Clean(p) ==
  /\ Take(p, "USR2") /\ Dispatched(p, "USR2")
  /\ UNCHANGED <<proc, pidfile, restart, loaded, kids, gen, unguarded, Environment>>

(* Mutant of Cleanup: one child is waited for, not all of them.            *)
CleanupOne(p) ==
  /\ Take(p, "CHLD") /\ Dispatched(p, "CHLD")
  /\ kids' = [kids EXCEPT ![p].zombies = IF @ = 0 THEN 0 ELSE @ - 1]
  /\ UNCHANGED <<proc, pidfile, restart, loaded, gen, unguarded, Environment>>

(* lmapd_sigchld_cb(), lmapd_cleanup(): every child that exited is waited  *)
(* for, also one that an earlier configuration started.                    *)
Cleanup(p) ==
  /\ Take(p, "CHLD") /\ Dispatched(p, "CHLD")
  /\ kids' = [kids EXCEPT ![p].zombies = 0]
  /\ UNCHANGED <<proc, pidfile, restart, loaded, gen, unguarded, Environment>>

(* Some schedule starts an action.                                         *)
Spawn(p) ==
  /\ proc[p] = "run" /\ kids[p].running < MaxRunning
  /\ kids' = [kids EXCEPT ![p].running = @ + 1]
  /\ UNCHANGED <<proc, pidfile, pending, restart, loaded, gen, unguarded, Environment>>

(* A child exits; without a handler SIGCHLD is ignored.                    *)
ChildExits(p) ==
  /\ kids[p].running > 0
  /\ kids' = [kids EXCEPT ![p] = [running |-> @.running - 1,
                                 zombies |-> IF @.zombies < MaxZombies THEN @.zombies + 1
                                             ELSE MaxZombies]]
  /\ pending' = [pending EXCEPT ![p] = @ \cup (IF proc[p] \in Looping THEN {"CHLD"} ELSE {})]
  /\ UNCHANGED <<proc, pidfile, restart, loaded, gen, unguarded, Environment>>

(* The end of lmapd_run(): the handlers are removed; what was caught and   *)
(* not dispatched is lost.                                                 *)
LeaveLoop(p) ==
  /\ proc[p] = "left"
  /\ pending' = [pending EXCEPT ![p] = {}]
  /\ Goto(p, "down")
  /\ UNCHANGED <<pidfile, restart, loaded, kids, gen, unguarded, Environment>>

(* The loop of main(): the flag is never reset by a reload.                *)
Again(p) ==
  /\ proc[p] = "down"
  /\ Goto(p, IF restart[p] THEN "config" ELSE "exit")
  /\ UNCHANGED <<pidfile, Memory, gen, unguarded, Environment>>

(* atexit_cb(): the check...                                               *)
ExitCheck(p) ==
  /\ proc[p] = "exit"
  /\ IF PidCheck(p) THEN Goto(p, "unlink") /\ UNCHANGED Memory ELSE Gone(p)
  /\ UNCHANGED <<pidfile, gen, unguarded, Environment>>

(* ... and the removal of the pid file.                                    *)
ExitUnlink(p) ==
  /\ proc[p] = "unlink"
  /\ pidfile' = Null
  /\ Gone(p)
  /\ UNCHANGED <<gen, unguarded, Environment>>

(* SIGKILL, a crash, a power failure: no atexit handler.                   *)
Crash(p) ==
  /\ proc[p] \in Lmapd
  /\ Gone(p)
  /\ UNCHANGED <<pidfile, gen, unguarded, Environment>>

(* An unrelated program gets the pid, and ends.                            *)
Reuse(p) ==
  /\ proc[p] \in {"free", "other"}
  /\ Goto(p, IF proc[p] = "free" THEN "other" ELSE "free")
  /\ UNCHANGED <<pidfile, Memory, gen, unguarded, Environment>>

(* The operator edits the configuration or the capabilities.               *)
Edit(usable) ==
  /\ config.edit < MaxVersion
  /\ config' = [edit |-> config.edit + 1, usable |-> usable]
  /\ UNCHANGED <<daemonVars, status, rendered, ctl, starts, commands, unwritten>>

(***************************************************************************)
(* lmapctl.                                                                *)
(***************************************************************************)

(* Mutant of Ask: the command goes on without a pid.                       *)
AskAnyway(cmd) ==
  /\ commands < MaxCommands
  /\ commands' = commands + 1
  /\ ctl.at = "idle"
  /\ ctl' = IF cmd = "running" THEN ctl
            ELSE [at |-> "kill", cmd |-> cmd, pid |-> PidRead, since |-> 0, gen |-> 0]
  /\ UNCHANGED <<daemonVars, config, status, rendered, starts, unwritten>>

(* A command up to its test of the pid: without one it fails.  "running"   *)
(* ends there.                                                             *)
Ask(cmd) ==
  /\ commands < MaxCommands
  /\ commands' = commands + 1
  /\ ctl.at = "idle"
  /\ ctl' = IF cmd = "running" \/ PidRead = Null THEN ctl
            ELSE [at |-> "kill", cmd |-> cmd, pid |-> PidRead, since |-> 0, gen |-> 0]
  /\ UNCHANGED <<daemonVars, config, status, rendered, starts, unwritten>>

CleanCmd    == Ask("clean")
ReloadCmd   == Ask("reload")
RunningCmd  == Ask("running")
ShutdownCmd == Ask("shutdown")
StatusCmd   == Ask("status")

(* kill(): the process may be another one by now; without a handler the    *)
(* signal ends the process.                                                *)
Send ==
  /\ ctl.at = "kill"
  /\ LET p == ctl.pid
         sig == SignalOf[ctl.cmd]
     IN /\ CASE proc[p] = "free"     -> UNCHANGED <<proc, Memory>>
             [] proc[p] \in Looping  -> /\ pending' = [pending EXCEPT ![p] = @ \cup {sig}]
                                        /\ UNCHANGED <<proc, restart, loaded, kids>>
             [] OTHER                -> Gone(p)
        /\ ctl' = IF ctl.cmd = "status" /\ proc[p] # "free"
                  THEN [ctl EXCEPT !.at = "wait", !.since = rendered, !.gen = gen[p]]
                  ELSE Idle
  /\ UNCHANGED <<pidfile, gen, unguarded, config, status, rendered, starts, commands, unwritten>>

(* status_cmd() after its nap of 87 ms: read_state() and the display.      *)
ReadState ==
  /\ ctl.at = "wait"
  /\ ctl' = Idle
  /\ UNCHANGED <<daemonVars, config, status, rendered, starts, commands, unwritten>>

(* SIGINT from the terminal.                                               *)
Interrupt(p) ==
  /\ commands < MaxCommands
  /\ commands' = commands + 1
  /\ proc[p] \in Lmapd
  /\ IF proc[p] \in Looping
       THEN /\ pending' = [pending EXCEPT ![p] = @ \cup {"INT"}]
            /\ UNCHANGED <<proc, restart, loaded, kids>>
       ELSE Gone(p)
  /\ UNCHANGED <<pidfile, gen, unguarded, config, status, rendered, ctl, starts, unwritten>>

(* The steps the process takes by itself.                                  *)
Step(p) ==
  \/ ReadPid(p) \/ OpenPid(p) \/ PrintPid(p) \/ ReadConfig(p) \/ Run(p)
  \/ SigInt(p) \/ SigTerm(p) \/ SigHup(p)
  \/ OpenStatus(p) \/ PrintStatus(p) \/ Clean(p) \/ Cleanup(p)
  \/ LeaveLoop(p) \/ Again(p) \/ ExitCheck(p) \/ ExitUnlink(p)

Next ==
  \/ \E p \in Pids :
        \/ Start(p) \/ Step(p) \/ OpenFails(p) \/ PrintPidFails(p)
        \/ RunFails(p) \/ StatusFails(p) \/ PrintFails(p)
        \/ Spawn(p) \/ ChildExits(p) \/ Crash(p) \/ Reuse(p) \/ Interrupt(p)
  \/ \E usable \in BOOLEAN : Edit(usable)
  \/ CleanCmd \/ ReloadCmd \/ RunningCmd \/ ShutdownCmd \/ StatusCmd
  \/ Send \/ ReadState

(* A process that can go on does, and the event loop gets to every signal  *)
(* it caught (libevent runs all active events before it polls again).      *)
(* Schedules keep starting actions and actions come to an end.  Nothing is *)
(* assumed of operators and crashes; event_base_new() does not fail for    *)
(* ever.                                                                   *)
Fairness ==
  \A p \in Pids :
    /\ WF_vars(Step(p))
    /\ WF_vars(SigInt(p) \/ SigTerm(p)) /\ WF_vars(SigHup(p)) /\ WF_vars(Cleanup(p))
    /\ SF_vars(Run(p))
    /\ WF_vars(Spawn(p)) /\ WF_vars(ChildExits(p))

Spec == Init /\ [][Next]_vars /\ Fairness

-----------------------------------------------------------------------------
(***************************************************************************)
(* Safety.                                                                 *)
(***************************************************************************)

(* As long as no two start-ups overlap between reading and writing the pid *)
(* file, the file names the daemon that serves, through reloads, refused   *)
(* starts, crashes and reused pids: lmapctl reaches it and a second one is *)
(* refused.  With an overlap two daemons can serve and the file is that of *)
(* the last writer (main(), lmapd.c:408-413).                              *)
ServingIsNamed ==
  ~unguarded => \A p \in Pids : proc[p] \in Serving => pidfile = p

(* A pid file is removed only by the process it names: neither a refused   *)
(* start nor the exit of another process takes it away (atexit_cb()).      *)
RemovedByOwner ==
  [][pidfile' = Null /\ pidfile # Null /\ ~unguarded
       => pidfile \in Pids /\ proc[pidfile] = "unlink"]_vars

(* lmapctl status: once the daemon that was signalled is back in its event *)
(* loop with nothing left of the request, the file holds a rendering made  *)
(* after the request, never a truncated file or an older one.  A reload in *)
(* between loses the request, and before the handler ran lmapctl reads the *)
(* file of an earlier one (status_cmd(), lmapctl.c:487-492).               *)
StatusAnswered ==
  /\ ctl.at = "wait" /\ ~unguarded /\ ~unwritten
  /\ proc[ctl.pid] = "run" /\ gen[ctl.pid] = ctl.gen
  /\ "USR1" \notin pending[ctl.pid]
  => status \notin {Null, Empty} /\ status > ctl.since

(***************************************************************************)
(* Liveness.                                                               *)
(***************************************************************************)

(* A SIGHUP the event loop caught is followed by the edit it was sent for, *)
(* or by the end of the daemon: a daemon never goes on serving a           *)
(* configuration older than the last reload that reached it, and never     *)
(* hangs between two configurations.                                       *)
ReloadApplied ==
  \A p \in Pids : \A v \in 0..MaxVersion :
    "HUP" \in pending[p] /\ config.edit = v
      ~> loaded[p] >= v \/ proc[p] \notin Serving

(* A child is waited for even if it exits while the daemon reloads and no  *)
(* handler for SIGCHLD is installed: the cleanup for a child of the new    *)
(* configuration waits for all of them.  It is never lost for good.        *)
ZombiesReaped ==
  \A p \in Pids : kids[p].zombies > 0 ~> kids[p].zombies = 0
=============================================================================
