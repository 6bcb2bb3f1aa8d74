------------------------------- MODULE Queue -------------------------------
(***************************************************************************)
(* The input queue of one schedule at the level of files and system calls  *)
(* (src/src/workspace.c), with crashes of the daemon between any two of    *)
(* them, reloads, and every link and unlink failing.                       *)
(*                                                                         *)
(* A result is a .meta and a .data file.  Actions of other schedules       *)
(* deliver results to the "_incoming" directory; when the schedule starts, *)
(* complete results are moved to its active directory; when it succeeds,   *)
(* the active directory is emptied.  The file names hold the start time    *)
(* and the names of schedule and action: they are taken to be unique, and  *)
(* every delivery is a result of its own.                                  *)
(***************************************************************************)
EXTENDS Integers, FiniteSets

CONSTANTS
  NResults,     \* results are 1..NResults, in the order they are produced
  MaxCrashes,   \* bound on the number of crashes
  MaxReloads,   \* bound on the number of reloads
  MaxFails,     \* bound, for every result, on the unlinks counted in failed
  LinkFails     \* whether linkat() may fail for another reason than EEXIST

ASSUME QueueAssumption ==
  /\ NResults \in Nat \ {0} /\ LinkFails \in BOOLEAN
  /\ MaxCrashes \in Nat /\ MaxReloads \in Nat /\ MaxFails \in Nat

Result == 1..NResults
File   == Result \X {"meta", "data"}

VARIABLES
  incoming, active,  \* the files of the two directories
  op,                \* the next system call of the daemon
  list,              \* the directory entries its loop has still to handle
  cur,               \* the result schedule_move is at
  consumer,          \* whether the schedule's action runs
  orphans,           \* runs of it that the daemon has forgotten
  next,              \* the number of the next result
  received,          \* results whose two files were linked to incoming
  processed,         \* how often a successful run found the result
  crashes, reloads,  \* crashes and reloads so far
  failed             \* for every result: the unlinks of it in the active directory
                     \* that failed, and the moves that could not unlink either file

faults == <<crashes, reloads, failed>>
vars == <<incoming, active, op, list, cur, consumer, orphans, next, received, processed, faults>>

Op == {"idle", "deliver", "scan", "linkdata", "linkmeta", "unlinkmeta", "unlinkdata",
       "unlinkdata-only", "purge"}

Meta(r) == <<r, "meta">>

(* The name of the .data file that goes with a .meta file.                 *)
Data(r) == <<r, "data">>

Complete(dir) == {r \in Result : Meta(r) \in dir /\ Data(r) \in dir}
Files(r) == {Meta(r), Data(r)}

Init ==
  /\ incoming = {} /\ active = {}
  /\ op = "idle" /\ list = {} /\ cur = 1
  /\ consumer = "none" /\ orphans = 0
  /\ next = 1 /\ received = {}
  /\ processed = [r \in Result |-> 0]
  /\ crashes = 0 /\ reloads = 0
  /\ failed = [r \in Result |-> 0]

(* A failing unlink that leaves something of result r to be found again.   *)
UnlinkFails(r) == failed[r] < MaxFails /\ failed' = [failed EXCEPT ![r] = @ + 1]

-----------------------------------------------------------------------------
(* Delivery by lmapd_workspace_action_move: readdir gives the two files in *)
(* any order; an error does not end the loop.                              *)
ActionMove ==
  /\ op = "idle" /\ next <= NResults
  /\ op' = "deliver" /\ list' = Files(next) /\ next' = next + 1
  /\ UNCHANGED <<incoming, active, cur, consumer, orphans, received, processed, faults>>

DeliverFile(f) ==
  /\ op = "deliver" /\ f \in list
  /\ \/ incoming' = incoming \cup {f}
     \/ LinkFails /\ UNCHANGED incoming
  /\ list' = list \ {f}
  /\ op' = IF list' = {} THEN "idle" ELSE "deliver"
  /\ received' = received \cup (Complete(incoming') \cap {f[1]})
  /\ UNCHANGED <<active, cur, consumer, orphans, next, processed, faults>>

-----------------------------------------------------------------------------
(* Mutant of ScheduleMove: execute_cb starts a schedule that is running.   *)
MoveAnyTime ==
  /\ op = "idle"
  /\ op' = "scan" /\ list' = {f \in incoming : f[2] = "meta"}
  /\ UNCHANGED <<incoming, active, cur, consumer, orphans, next, received, processed, faults>>

(* lmapd_workspace_schedule_move, called when the schedule is started.     *)
ScheduleMove ==
  /\ op = "idle" /\ consumer = "none"
  /\ op' = "scan" /\ list' = {f \in incoming : f[2] = "meta"}
  /\ UNCHANGED <<incoming, active, cur, consumer, orphans, next, received, processed, faults>>

(* Results without a .data file are skipped.                               *)
ScanEntry(r) ==
  /\ op = "scan" /\ Meta(r) \in list
  /\ list' = list \ {Meta(r)}
  /\ cur' = r
  /\ op' = IF Data(r) \in incoming THEN "linkdata" ELSE "scan"
  /\ UNCHANGED <<incoming, active, consumer, orphans, next, received, processed, faults>>

(* Mutant of LinkData: the file is renamed into the active directory.      *)
RenameData ==
  /\ op = "linkdata"
  /\ active' = active \cup {Data(cur)} /\ incoming' = incoming \ {Data(cur)}
  /\ op' = "linkmeta"
  /\ UNCHANGED <<list, cur, consumer, orphans, next, received, processed, faults>>

LinkData ==
  /\ op = "linkdata"
  /\ \/ /\ Data(cur) \notin active
        /\ active' = active \cup {Data(cur)} /\ op' = "linkmeta"
     \/ /\ Data(cur) \in active \/ LinkFails
        /\ op' = "scan" /\ UNCHANGED active
  /\ UNCHANGED <<incoming, list, cur, consumer, orphans, next, received, processed, faults>>

(* Mutant of Rollback: the first link is not undone.                       *)
NoRollback(dir) == dir

Rollback(dir) == dir \ {Data(cur)}

(* A failure rolls the first link back, which may fail too, and ends the   *)
(* scan.                                                                   *)
LinkMeta ==
  /\ op = "linkmeta"
  /\ \/ /\ Meta(cur) \notin active
        /\ active' = active \cup {Meta(cur)} /\ op' = "unlinkmeta"
        /\ UNCHANGED <<list, failed>>
     \/ /\ Meta(cur) \in active \/ LinkFails
        /\ \/ active' = Rollback(active) /\ UNCHANGED failed
           \/ UnlinkFails(cur) /\ UNCHANGED active
        /\ op' = "scan" /\ list' = {}
  /\ UNCHANGED <<incoming, cur, consumer, orphans, next, received, processed, crashes, reloads>>

UnlinkMeta ==
  /\ op = "unlinkmeta"
  /\ \/ incoming' = incoming \ {Meta(cur)} /\ op' = "unlinkdata"
     \/ op' = "unlinkdata-only" /\ UNCHANGED incoming
  /\ UNCHANGED <<active, list, cur, consumer, orphans, next, received, processed, faults>>

(* Mutant of UnlinkData: short-circuit, no second unlink if the first one  *)
(* failed.                                                                 *)
UnlinkDataIfMeta ==
  /\ op \in {"unlinkdata", "unlinkdata-only"} /\ op' = "scan"
  /\ incoming' = IF op = "unlinkdata" THEN incoming \ {Data(cur)} ELSE incoming
  /\ UNCHANGED <<active, list, cur, consumer, orphans, next, received, processed, faults>>

(* Done also if the first unlink failed: "if we unlink either one, we      *)
(* already avoid double processing them".  Both may fail.                  *)
UnlinkData ==
  /\ op \in {"unlinkdata", "unlinkdata-only"} /\ op' = "scan"
  /\ \/ incoming' = incoming \ {Data(cur)} /\ UNCHANGED failed
     \/ op = "unlinkdata" /\ UNCHANGED <<incoming, failed>>
     \/ op = "unlinkdata-only" /\ UnlinkFails(cur) /\ UNCHANGED incoming
  /\ UNCHANGED <<active, list, cur, consumer, orphans, next, received, processed, crashes, reloads>>

(* End of the scan: schedule_exec forks the action.                        *)
RunConsumer ==
  /\ op = "scan" /\ list = {}
  /\ op' = "idle" /\ consumer' = "running"
  /\ UNCHANGED <<incoming, active, list, cur, orphans, next, received, processed, faults>>

-----------------------------------------------------------------------------
(* What the action finds and reports: lmapd_workspace_read_results reads   *)
(* every .meta file with its .data file.                                   *)
Reported == [r \in Result |-> IF r \in Complete(active) THEN processed[r] + 1 ELSE processed[r]]

(* lmapd_cleanup: schedule_clean after success, nothing after a failure.   *)
ConsumerExit(status) ==
  /\ op = "idle" /\ consumer = "running"
  /\ consumer' = "none"
  /\ IF status = "ok"
     THEN /\ processed' = Reported
          /\ list' = active
          /\ op' = IF active = {} THEN "idle" ELSE "purge"
     ELSE UNCHANGED <<processed, list, op>>
  /\ UNCHANGED <<incoming, active, cur, orphans, next, received, faults>>

(* Mutant of PurgeFile: only the .meta files are removed.                  *)
PurgeMeta(f) ==
  /\ op = "purge" /\ f \in list
  /\ active' = active \ ({f} \cap {Meta(r) : r \in Result})
  /\ list' = list \ {f}
  /\ op' = IF list' = {} THEN "idle" ELSE "purge"
  /\ UNCHANGED <<incoming, cur, consumer, orphans, next, received, processed, faults>>

(* lmapd_workspace_schedule_clean, in the order of readdir; what cannot be *)
(* removed stays and the loop goes on.                                     *)
PurgeFile(f) ==
  /\ op = "purge" /\ f \in list
  /\ \/ active' = active \ {f} /\ UNCHANGED failed
     \/ UnlinkFails(f[1]) /\ UNCHANGED active
  /\ list' = list \ {f}
  /\ op' = IF list' = {} THEN "idle" ELSE "purge"
  /\ UNCHANGED <<incoming, cur, consumer, orphans, next, received, processed, crashes, reloads>>

-----------------------------------------------------------------------------
(* The daemon no longer knows the run that may be on its way.              *)
ForgetConsumer ==
  /\ consumer' = "none"
  /\ orphans' = IF consumer = "running" THEN orphans + 1 ELSE orphans

(* The daemon dies and is started again: lmapd_workspace_init leaves the   *)
(* existing directories alone.                                             *)
Crash ==
  /\ crashes < MaxCrashes /\ crashes' = crashes + 1
  /\ op' = "idle" /\ list' = {}
  /\ ForgetConsumer
  /\ UNCHANGED <<incoming, active, cur, next, received, processed, reloads, failed>>

(* SIGHUP, handled between two callbacks: the children are sent SIGTERM,   *)
(* the configuration is read anew with no pids in it, and the active       *)
(* directory stays as it is.                                               *)
Reload ==
  /\ op = "idle" /\ reloads < MaxReloads /\ reloads' = reloads + 1
  /\ ForgetConsumer
  /\ UNCHANGED <<incoming, active, op, list, cur, next, received, processed, crashes, failed>>

(* A forgotten run reads its input, at any time, and succeeds, or it ends  *)
(* without success; nothing is cleaned: "ignoring pid".                    *)
OrphanExit ==
  /\ orphans > 0 /\ orphans' = orphans - 1
  /\ processed' \in {processed, Reported}
  /\ UNCHANGED <<incoming, active, op, list, cur, consumer, next, received, faults>>

-----------------------------------------------------------------------------
Move == \/ \E r \in Result : ScanEntry(r)
        \/ LinkData \/ LinkMeta \/ UnlinkMeta \/ UnlinkData \/ RunConsumer

Next ==
  \/ ActionMove
  \/ \E f \in File : DeliverFile(f)
  \/ ScheduleMove
  \/ Move
  \/ \E status \in {"ok", "failed"} : ConsumerExit(status)
  \/ \E f \in File : PurgeFile(f)
  \/ Crash \/ Reload \/ OrphanExit

Spec == Init /\ [][Next]_vars

(* Fairness: the daemon goes on with a loop it is in, the schedule is      *)
(* started again and again, and neither link() nor the action fails for    *)
(* ever; the bounds on crashes, reloads and failed say that they end.      *)
Fairness ==
  /\ WF_vars(\E f \in File : DeliverFile(f)) /\ WF_vars(\E f \in File : PurgeFile(f))
  /\ WF_vars(Move) /\ SF_vars(ScheduleMove)
  /\ SF_vars(LinkData /\ op' = "linkmeta") /\ SF_vars(LinkMeta /\ op' = "unlinkmeta")
  /\ SF_vars(ConsumerExit("ok"))

FairSpec == Spec /\ Fairness

-----------------------------------------------------------------------------
(* Properties                                                              *)

(* Types; the daemon's loop works on directory entries.                    *)
TypeOK ==
  /\ incoming \in SUBSET File /\ active \in SUBSET File
  /\ op \in Op /\ list \in SUBSET File /\ cur \in Result
  /\ consumer \in {"none", "running"} /\ orphans \in Nat
  /\ next \in 1..NResults + 1 /\ received \in SUBSET Result
  /\ processed \in [Result -> Nat]
  /\ crashes \in 0..MaxCrashes /\ reloads \in 0..MaxReloads
  /\ failed \in [Result -> 0..MaxFails]

(* No result that reached the incoming queue is lost, wherever the daemon  *)
(* crashes and whichever call fails: until a run of the schedule has       *)
(* processed it, one of the two directories holds both of its files.       *)
NoLoss ==
  \A r \in received : processed[r] = 0 => r \in Complete(incoming) \cup Complete(active)

(* A delivered result is processed by at most one successful run, plus one *)
(* for every crash, every reload (a run the daemon has forgotten may       *)
(* succeed, but its input is not cleaned) and every failure of its own     *)
(* files counted in failed.  One failing unlink in the incoming queue is   *)
(* not among these: the order of the links and unlinks covers it.          *)
ProcessedOnce == \A r \in Result : processed[r] <= 1 + crashes + reloads + failed[r]

(* As long as the daemon has not crashed, a run of the schedule finds half *)
(* a result only if an unlink of that result failed: no failing link, no   *)
(* single failing unlink in the incoming queue and no reload is enough.    *)
ActiveComplete ==
  crashes = 0 /\ consumer = "running" =>
     \A r \in Result : Files(r) \cap active # {} /\ failed[r] = 0 => r \in Complete(active)

Mail == INSTANCE Mailbox WITH
  accepted <- received,
  held <- Complete(incoming) \cup Complete(active),
  running <- consumer = "running",
  batch <- IF consumer = "running" THEN Complete(active) ELSE {},
  strays <- orphans,
  done <- {r \in Result : processed[r] > 0}

(* The files implement the mailbox the runner and the tasks rely on, with  *)
(* crashes, reloads and failing calls: nothing is accepted twice or is     *)
(* dropped before it is processed, and what a run finds stays as it is     *)
(* until the run ends or is forgotten.                                     *)
ImplementsMailbox == Mail!MailSpec

(* Every result that reached the incoming queue is processed in the end,   *)
(* also when a crash has left an orphan file that blocks its move.         *)
ReceivedProcessed == \A r \in Result : r \in received ~> processed[r] > 0
=============================================================================
