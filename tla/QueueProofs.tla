---------------------------- MODULE QueueProofs ----------------------------
(***************************************************************************)
(* The queue loses no result, processes none more often than crashes,      *)
(* reloads and failing unlinks explain, and shows no half result without a *)
(* crash or a failing unlink, for any number of results and any sequence   *)
(* of crashes, reloads and failing calls.                                  *)
(***************************************************************************)
EXTENDS Queue, TLAPS

(* What the daemon knows in the middle of its loops.                       *)
LoopInv ==
  /\ op # "idle" /\ op # "deliver" /\ op # "purge" =>
        list \subseteq incoming \cap {Meta(r) : r \in Result}
  /\ op \in {"linkdata", "linkmeta", "unlinkmeta", "unlinkdata", "unlinkdata-only"} =>
        Meta(cur) \notin list
  /\ op \in {"linkdata", "linkmeta"} => cur \in Complete(incoming)
  /\ op = "linkmeta" => Data(cur) \in active
  /\ op \in {"unlinkmeta", "unlinkdata", "unlinkdata-only"} => cur \in Complete(active)
  /\ op = "purge" => \A r \in Complete(active) : processed[r] > 0

QInv == TypeOK /\ LoopInv /\ NoLoss

(* A failing unlink is counted, within the bound.                          *)
LEMMA FailedType ==
  ASSUME TypeOK, NEW r \in Result, UnlinkFails(r)
  PROVE  /\ failed' \in [Result -> 0..MaxFails]
         /\ failed'[r] = failed[r] + 1 /\ failed'[r] > 0
         /\ \A q \in Result : q # r => failed'[q] = failed[q]
BY QueueAssumption DEF TypeOK, UnlinkFails

(* Every step keeps the types.                                             *)
LEMMA QueueTypeStep == TypeOK /\ [Next]_vars => TypeOK'
<1> SUFFICES ASSUME TypeOK, [Next]_vars PROVE TypeOK'
  OBVIOUS
<1> USE DEF TypeOK, Op, Result, File, faults
<1>1. CASE ActionMove
  <2>1. next' \in 1..NResults + 1
    BY <1>1, QueueAssumption DEF ActionMove
  <2>2. list' \subseteq File
    BY <1>1, QueueAssumption DEF ActionMove, Files, Meta, Data
  <2> QED
    BY <1>1, <2>1, <2>2 DEF ActionMove
<1>2. ASSUME NEW f \in File, DeliverFile(f) PROVE TypeOK'
  BY <1>2 DEF DeliverFile
<1>3. CASE ScheduleMove
  BY <1>3 DEF ScheduleMove
<1>4. ASSUME NEW r \in Result, ScanEntry(r) PROVE TypeOK'
  BY <1>4 DEF ScanEntry
<1>5. CASE LinkData
  BY <1>5 DEF LinkData, Data
<1>6. CASE LinkMeta
  <2>1. active' \subseteq File /\ list' \subseteq File
    BY <1>6 DEF LinkMeta, Meta, Rollback
  <2>2. failed' \in [Result -> 0..MaxFails]
    BY <1>6, FailedType DEF LinkMeta
  <2> QED
    BY <1>6, <2>1, <2>2 DEF LinkMeta
<1>7. CASE UnlinkMeta
  BY <1>7 DEF UnlinkMeta
<1>8. CASE UnlinkData
  BY <1>8, FailedType DEF UnlinkData
<1>9. CASE RunConsumer
  BY <1>9 DEF RunConsumer
<1>10. ASSUME NEW status \in {"ok", "failed"}, ConsumerExit(status) PROVE TypeOK'
  BY <1>10 DEF ConsumerExit, Reported
<1>11. ASSUME NEW f \in File, PurgeFile(f) PROVE TypeOK'
  BY <1>11, FailedType DEF PurgeFile
<1>12. CASE Crash \/ Reload
  <2>1. crashes' \in 0..MaxCrashes /\ reloads' \in 0..MaxReloads /\ orphans' \in Nat
    <3>1. CASE Crash
      BY <3>1, QueueAssumption DEF Crash, ForgetConsumer
    <3>2. CASE Reload
      BY <3>2, QueueAssumption DEF Reload, ForgetConsumer
    <3> QED
      BY <1>12, <3>1, <3>2
  <2> QED
    BY <1>12, <2>1 DEF Crash, Reload, ForgetConsumer
<1>13. CASE OrphanExit
  <2>1. processed' \in [Result -> Nat] /\ orphans' \in Nat
    BY <1>13 DEF OrphanExit, Reported
  <2> QED
    BY <1>13, <2>1 DEF OrphanExit
<1>14. CASE UNCHANGED vars
  BY <1>14 DEF vars
<1> QED
  BY <1>1, <1>2, <1>3, <1>4, <1>5, <1>6, <1>7, <1>8, <1>9, <1>10, <1>11, <1>12, <1>13, <1>14
  DEF Next, Move

(* The directories hold result files only, whatever half of a result the   *)
(* moves and crashes leave behind, and the loop is at a known system call. *)
THEOREM QueueTypeCorrect == Spec => []TypeOK
<1>1. Init => TypeOK
  BY QueueAssumption DEF Init, TypeOK, Op, Result
<1> QED
  BY <1>1, QueueTypeStep, PTL DEF Spec

(* Every step keeps the complete copies of a result.                       *)
LEMMA QueueStep == QInv /\ [Next]_vars => QInv'
<1> SUFFICES ASSUME QInv, [Next]_vars PROVE LoopInv' /\ NoLoss'
  BY QueueTypeStep DEF QInv
<1> USE DEF QInv, LoopInv, NoLoss, Complete, Meta, Data
<1>1. CASE ActionMove
  BY <1>1 DEF ActionMove
<1>2. ASSUME NEW f \in File, DeliverFile(f) PROVE LoopInv' /\ NoLoss'
  BY <1>2 DEF DeliverFile, TypeOK, File
<1>3. CASE ScheduleMove
  BY <1>3 DEF ScheduleMove, TypeOK, File
<1>4. ASSUME NEW r \in Result, ScanEntry(r) PROVE LoopInv' /\ NoLoss'
  BY <1>4 DEF ScanEntry
<1>5. CASE LinkData
  BY <1>5 DEF LinkData
<1>6. CASE LinkMeta
  <2>1. CASE active' = active \cup {Meta(cur)} /\ op' = "unlinkmeta" /\ list' = list
    <3>1. Data(cur) \in active
      BY <1>6 DEF LinkMeta
    <3> QED
      BY <1>6, <2>1, <3>1 DEF LinkMeta, TypeOK
  <2>2. CASE active' = Rollback(active) /\ op' = "scan" /\ list' = {}
    <3>1. LoopInv'
      BY <1>6, <2>2 DEF LinkMeta
    <3>2. cur \in Complete(incoming)
      BY <1>6 DEF LinkMeta
    <3>3. \A r \in Complete(active) : r # cur => r \in Complete(active')
      BY <2>2 DEF Rollback
    <3>4. NoLoss'
      BY <1>6, <3>2, <3>3 DEF LinkMeta
    <3> QED
      BY <3>1, <3>4
  <2>3. CASE active' = active /\ op' = "scan" /\ list' = {}
    BY <1>6, <2>3 DEF LinkMeta
  <2> QED
    BY <1>6, <2>1, <2>2, <2>3 DEF LinkMeta
<1>7. CASE UnlinkMeta
  BY <1>7 DEF UnlinkMeta, TypeOK
<1>8. CASE UnlinkData
  BY <1>8 DEF UnlinkData, TypeOK
<1>9. CASE RunConsumer
  BY <1>9 DEF RunConsumer
<1>10. ASSUME NEW status \in {"ok", "failed"}, ConsumerExit(status)
       PROVE LoopInv' /\ NoLoss'
  BY <1>10 DEF ConsumerExit, Reported, TypeOK
<1>11. ASSUME NEW f \in File, PurgeFile(f) PROVE LoopInv' /\ NoLoss'
  BY <1>11 DEF PurgeFile, TypeOK
<1>12. CASE Crash \/ Reload
  BY <1>12 DEF Crash, Reload
<1>13. CASE OrphanExit
  <2>1. \A r \in Result : processed[r] > 0 => processed'[r] > 0
    <3>1. CASE processed' = Reported
      BY <3>1 DEF Reported, TypeOK
    <3> QED
      BY <1>13, <3>1 DEF OrphanExit
  <2>2. \A r \in Result : processed'[r] = 0 => processed[r] = 0
    BY <1>13, <2>1 DEF OrphanExit, TypeOK, Reported
  <2> QED
    BY <1>13, <2>1, <2>2 DEF OrphanExit, TypeOK
<1>14. CASE UNCHANGED vars
  BY <1>14 DEF vars
<1> HIDE DEF QInv, LoopInv, NoLoss, Complete, Meta, Data
<1> QED
  BY <1>1, <1>2, <1>3, <1>4, <1>5, <1>6, <1>7, <1>8, <1>9, <1>10, <1>11, <1>12, <1>13, <1>14
  DEF Next, Move

(* No received result is lost before it has been processed, wherever the   *)
(* daemon crashes and whichever link() or unlink() fails.                  *)
THEOREM NothingLost == Spec => []NoLoss
<1>1. Init => QInv
  BY QueueAssumption DEF Init, QInv, TypeOK, LoopInv, NoLoss, Op, Result
<1>2. QInv /\ [Next]_vars => QInv'
  BY QueueStep
<1>3. QInv => NoLoss
  BY DEF QInv
<1> QED
  BY <1>1, <1>2, <1>3, PTL DEF Spec

-----------------------------------------------------------------------------
(* Completeness of the active directory while the daemon has not crashed:  *)
(* what is there in halves is the trace of a failing unlink.               *)

Halves(dir) == {r \in Result : Files(r) \cap dir # {} /\ r \notin Complete(dir)}

Excused(dir) == \A r \in Halves(dir) : failed[r] > 0

WholeInv ==
  /\ consumer = "running" => op \in {"idle", "deliver"}
  /\ crashes = 0 =>
       /\ op \notin {"linkmeta", "purge"} => Excused(active)
       /\ op = "linkmeta" =>
            Excused(active \ {Data(cur)}) /\ (failed[cur] = 0 => Meta(cur) \notin active)
       /\ op = "purge" => \A r \in Result : Files(r) \cap (active \ list) # {} => failed[r] > 0

(* Every step keeps the active directory whole, outside the two loops that *)
(* change it and but for the failing unlinks.                              *)
LEMMA WholeStep ==
  ASSUME TypeOK, LoopInv, WholeInv, [Next]_vars
  PROVE  WholeInv'
<1> USE DEF WholeInv
<1>0. cur \in Result /\ \A f \in File : f[1] \in Result /\ \A r \in Result : f \in Files(r) <=> r = f[1]
  BY DEF TypeOK, File, Files, Meta, Data
<1>1. CASE ActionMove \/ ScheduleMove
  BY <1>1 DEF ActionMove, ScheduleMove, Excused, faults
<1>2. ASSUME NEW f \in File, DeliverFile(f) PROVE WholeInv'
  BY <1>2 DEF DeliverFile, Excused, faults
<1>4. ASSUME NEW r \in Result, ScanEntry(r) PROVE WholeInv'
  BY <1>4 DEF ScanEntry, Excused, faults
<1>5. CASE LinkData
  <2>1. CASE Data(cur) \notin active /\ active' = active \cup {Data(cur)} /\ op' = "linkmeta"
    <3>1. active' \ {Data(cur)} = active /\ cur' = cur /\ consumer' = consumer /\ failed' = failed
      BY <1>5, <2>1 DEF LinkData, faults
    <3>2. crashes = 0 /\ failed[cur] = 0 => Meta(cur) \notin active'
      BY <1>0, <1>5, <2>1 DEF LinkData, Excused, Halves, Files, Complete, Meta, Data
    <3>3. crashes = 0 => Excused(active)
      BY <1>5 DEF LinkData
    <3> QED
      BY <1>5, <2>1, <3>1, <3>2, <3>3 DEF LinkData, Excused, faults
  <2>2. CASE op' = "scan" /\ active' = active
    BY <1>5, <2>2 DEF LinkData, Excused, faults
  <2> QED
    BY <1>5, <2>1, <2>2 DEF LinkData
<1>6. CASE LinkMeta
  <2>1. crashes = 0 => Excused(active \ {Data(cur)})
    BY <1>6 DEF LinkMeta
  <2>2. ASSUME NEW r \in Result, r # cur, r \in Halves(active')
        PROVE  r \in Halves(active \ {Data(cur)})
    BY <1>0, <1>6, <2>2 DEF LinkMeta, Rollback, Halves, Files, Complete, Meta, Data
  <2>3. CASE active' = active \cup {Meta(cur)} /\ op' = "unlinkmeta" /\ failed' = failed
    <3>1. cur \in Complete(active')
      BY <1>0, <1>6, <2>3 DEF LinkMeta, LoopInv, Complete
    <3>2. crashes = 0 => \A r \in Halves(active') : failed'[r] > 0
      BY <2>1, <2>2, <2>3, <3>1 DEF Excused, Halves
    <3> QED
      BY <1>6, <2>3, <3>2 DEF LinkMeta, Excused
  <2>4. CASE active' = Rollback(active) /\ op' = "scan" /\ failed' = failed
    BY <1>6, <2>1, <2>4 DEF LinkMeta, Rollback, Excused
  <2>5. CASE UnlinkFails(cur) /\ active' = active /\ op' = "scan"
    <3>1. failed'[cur] > 0 /\ \A q \in Result : q # cur => failed'[q] = failed[q]
      BY <1>0, <2>5, FailedType
    <3>2. crashes = 0 => \A r \in Halves(active') : failed'[r] > 0
      BY <2>1, <2>2, <3>1 DEF Excused, Halves
    <3> QED
      BY <1>6, <2>5, <3>2 DEF LinkMeta, Excused
  <2> QED
    BY <1>6, <2>3, <2>4, <2>5 DEF LinkMeta
<1>7. CASE UnlinkMeta
  BY <1>7 DEF UnlinkMeta, Excused, faults
<1>8. CASE UnlinkData
  <2>1. \A r \in Result : failed[r] > 0 => failed'[r] > 0
    BY <1>0, <1>8, FailedType DEF UnlinkData, TypeOK
  <2> QED
    BY <1>8, <2>1 DEF UnlinkData, Excused, Halves
<1>9. CASE RunConsumer
  BY <1>9 DEF RunConsumer, Excused, faults
<1>10. ASSUME NEW status \in {"ok", "failed"}, ConsumerExit(status) PROVE WholeInv'
  BY <1>10 DEF ConsumerExit, Excused, faults
<1>11. ASSUME NEW f \in File, PurgeFile(f) PROVE WholeInv'
  <2>1. ASSUME crashes = 0, NEW r \in Result, Files(r) \cap (active' \ list') # {}
        PROVE  failed'[r] > 0
    <3>1. CASE active' = active \ {f} /\ failed' = failed
      BY <1>11, <2>1, <3>1 DEF PurgeFile
    <3>2. CASE UnlinkFails(f[1]) /\ active' = active
      BY <1>0, <1>11, <2>1, <3>2, FailedType DEF PurgeFile
    <3> QED
      BY <1>11, <3>1, <3>2 DEF PurgeFile
  <2>2. list' = {} /\ crashes = 0 => \A r \in Halves(active') : failed'[r] > 0
    BY <2>1 DEF Halves
  <2>3. crashes' = crashes /\ consumer' = consumer /\ op' = IF list' = {} THEN "idle" ELSE "purge"
    BY <1>11 DEF PurgeFile
  <2>4. consumer # "running"
    BY <1>11 DEF PurgeFile
  <2> QED
    BY <2>1, <2>2, <2>3, <2>4 DEF Excused
<1>12. CASE Crash
  BY <1>12 DEF Crash, ForgetConsumer, TypeOK
<1>13. CASE Reload \/ OrphanExit
  BY <1>13 DEF Reload, OrphanExit, ForgetConsumer, Excused, faults
<1>14. CASE UNCHANGED vars
  BY <1>14 DEF vars, Excused, faults
<1> QED
  BY <1>1, <1>2, <1>4, <1>5, <1>6, <1>7, <1>8, <1>9, <1>10, <1>11, <1>12, <1>13, <1>14
  DEF Next, Move

(* Without a crash, an action finds half a result in its queue only if an  *)
(* unlink of that result in the active directory, or both of its unlinks   *)
(* in the incoming queue, failed.  Rollback and clean may both fail; links *)
(* fail at will, and reloads happen at any time.                           *)
THEOREM OnlyWholeResults == Spec => []ActiveComplete
<1>1. Init => QInv /\ WholeInv
  <2>1. Init => QInv
    BY QueueAssumption DEF Init, QInv, TypeOK, LoopInv, NoLoss, Op, Result
  <2>2. Init => WholeInv
    BY DEF Init, WholeInv, Excused, Halves
  <2> QED
    BY <2>1, <2>2
<1>2. QInv /\ WholeInv /\ [Next]_vars => (QInv /\ WholeInv)'
  BY QueueStep, WholeStep DEF QInv
<1>3. QInv /\ WholeInv => ActiveComplete
  BY DEF QInv, TypeOK, WholeInv, ActiveComplete, Excused, Halves
<1> QED
  BY <1>1, <1>2, <1>3, PTL DEF Spec

-----------------------------------------------------------------------------
(* Double processing.  InActive(r) and InIncoming(r) count the copies of a *)
(* result that a later run can still process; the copy the daemon is about *)
(* to make or to remove does not count, and only a crash turns it into one.*)

Undelivered(r) == r >= next \/ (op = "deliver" /\ r = next - 1)

(* A purge leaves what it could not remove.                                *)
InActive(r) ==
  IF /\ r \in Complete(IF op = "purge" THEN active \ list ELSE active)
     /\ ~(op = "linkmeta" /\ r = cur)
  THEN 1 ELSE 0

InIncoming(r) ==
  IF \/ Undelivered(r)
     \/ r \in Complete(incoming) /\ ~(op \in {"unlinkmeta", "unlinkdata-only"} /\ r = cur)
  THEN 1 ELSE 0

Copies(r) == InActive(r) + InIncoming(r)
Bounded(r) == processed[r] + Copies(r) + orphans <= 1 + crashes + reloads + failed[r]

OnceInv ==
  /\ \A r \in Result : Files(r) \cap incoming # {} => r < next
  /\ op = "deliver" => list \subseteq Files(next - 1)
  /\ op = "unlinkdata" => Meta(cur) \notin incoming
  /\ \A r \in Result : Bounded(r)

(* The copies are counted in 0..2.                                         *)
LEMMA CopiesType ==
  ASSUME NEW r
  PROVE  /\ InActive(r) \in 0..1 /\ InIncoming(r) \in 0..1 /\ Copies(r) \in 0..2
         /\ InActive(r)' \in 0..1 /\ InIncoming(r)' \in 0..1 /\ Copies(r)' \in 0..2
BY DEF Copies, InActive, InIncoming

(* A step that adds no copy, or a copy for a failing unlink, is bounded.   *)
LEMMA CopiesKept ==
  ASSUME TypeOK, OnceInv, TypeOK', processed' = processed, orphans' = orphans,
         crashes' = crashes, reloads' = reloads,
         \A r \in Result : Copies(r)' + failed[r] <= Copies(r) + failed'[r]
  PROVE  \A r \in Result : Bounded(r)'
<1> SUFFICES ASSUME NEW r \in Result PROVE Bounded(r)'
  OBVIOUS
<1>1. /\ processed[r] \in Nat /\ crashes \in Nat /\ reloads \in Nat /\ orphans \in Nat
      /\ failed[r] \in Nat /\ failed'[r] \in Nat
      /\ Copies(r) \in Nat /\ Copies(r)' \in Nat
  BY CopiesType DEF TypeOK
<1>2. Copies(r)' + failed[r] <= Copies(r) + failed'[r]
  OBVIOUS
<1>3. Bounded(r)
  BY DEF OnceInv
<1> QED
  BY <1>1, <1>2, <1>3 DEF Bounded

(* A failing unlink of r pays for one more copy of r.                      *)
LEMMA CopyPaid ==
  ASSUME TypeOK, NEW r \in Result, UnlinkFails(r), Copies(r)' <= Copies(r) + 1,
         \A q \in Result : q # r => Copies(q)' <= Copies(q)
  PROVE  \A q \in Result : Copies(q)' + failed[q] <= Copies(q) + failed'[q]
<1> SUFFICES ASSUME NEW q \in Result PROVE Copies(q)' + failed[q] <= Copies(q) + failed'[q]
  OBVIOUS
<1>1. failed[q] \in Nat /\ Copies(q) \in Nat /\ Copies(q)' \in Nat
  BY CopiesType DEF TypeOK
<1>2. CASE q = r
  BY <1>1, <1>2, FailedType
<1>3. CASE q # r
  BY <1>1, <1>3, FailedType
<1> QED
  BY <1>2, <1>3

(* A step without a failing unlink may not add a copy.                     *)
LEMMA CopyUnpaid ==
  ASSUME TypeOK, failed' = failed, \A q \in Result : Copies(q)' <= Copies(q)
  PROVE  \A q \in Result : Copies(q)' + failed[q] <= Copies(q) + failed'[q]
<1> SUFFICES ASSUME NEW q \in Result PROVE Copies(q)' + failed[q] <= Copies(q) + failed[q]
  OBVIOUS
<1> QED
  BY CopiesType DEF TypeOK

(* Every step keeps the bound.                                             *)
LEMMA OnceStep ==
  ASSUME QInv, WholeInv, OnceInv, [Next]_vars
  PROVE  OnceInv'
<1>0. TypeOK /\ TypeOK' /\ LoopInv /\ cur \in Result
  BY QueueTypeStep DEF QInv, TypeOK
<1> DEFINE Fewer == \A r \in Result : Copies(r)' <= Copies(r)
<1> DEFINE Paid == \A r \in Result : Copies(r)' + failed[r] <= Copies(r) + failed'[r]
<1>f. ASSUME failed' = failed, Fewer PROVE Paid
  BY <1>0, <1>f, CopyUnpaid
<1> HIDE DEF Paid
<1>k. ASSUME processed' = processed, orphans' = orphans, crashes' = crashes, reloads' = reloads, Paid
      PROVE  \A r \in Result : Bounded(r)'
  BY <1>0, <1>k, CopiesKept DEF Paid
<1>1. CASE ActionMove
  <2>1. Fewer
    BY <1>1, <1>0 DEF ActionMove, Copies, InActive, InIncoming, Undelivered, TypeOK, Result
  <2>2. \A r \in Result : Files(r) \cap incoming' # {} => r < next'
    BY <1>1, <1>0 DEF ActionMove, OnceInv, TypeOK, Result
  <2>3. op' = "deliver" /\ list' = Files(next' - 1)
    BY <1>1, <1>0 DEF ActionMove, TypeOK
  <2> QED
    BY <1>1, <1>f, <1>k, <2>1, <2>2, <2>3 DEF ActionMove, OnceInv, faults
<1>2. ASSUME NEW f \in File, DeliverFile(f) PROVE OnceInv'
  <2>1. \A r \in Result : r # next - 1 /\ r \in Complete(incoming') => r \in Complete(incoming)
    BY <1>2 DEF DeliverFile, OnceInv, Complete, Files, Meta, Data
  <2>2. \A r \in Result : InActive(r)' <= InActive(r) /\ InIncoming(r)' <= InIncoming(r)
    BY <1>2, <1>0, <2>1 DEF DeliverFile, InActive, InIncoming, Undelivered, TypeOK, Result
  <2>3. Fewer
    BY <2>2, CopiesType DEF Copies
  <2> QED
    <3>1. next' = next /\ next - 1 < next
      BY <1>2, <1>0 DEF DeliverFile, TypeOK
    <3>2. \A r \in Result : f \in Files(r) => r = next - 1
      BY <1>2 DEF DeliverFile, OnceInv, Files, Meta, Data
    <3>3. \A r \in Result : Files(r) \cap incoming' # {} => r < next'
      BY <1>2, <3>1, <3>2 DEF DeliverFile, OnceInv
    <3>4. \A r \in Result : Bounded(r)'
      BY <1>2, <1>f, <1>k, <2>3 DEF DeliverFile, faults
    <3> QED
      BY <1>2, <3>3, <3>4 DEF DeliverFile, OnceInv
<1>3. CASE ScheduleMove
  <2>1. Fewer
    BY <1>3, CopiesType DEF ScheduleMove, Copies, InActive, InIncoming, Undelivered
  <2> QED
    BY <1>3, <1>f, <1>k, <2>1 DEF ScheduleMove, OnceInv, faults
<1>4. ASSUME NEW r \in Result, ScanEntry(r) PROVE OnceInv'
  <2>1. Fewer
    BY <1>4 DEF ScanEntry, Copies, InActive, InIncoming, Undelivered
  <2> QED
    BY <1>4, <1>f, <1>k, <2>1 DEF ScanEntry, OnceInv, faults
<1>5. CASE LinkData
  <2>1. \A r \in Result : r # cur => (r \in Complete(active') <=> r \in Complete(active))
    BY <1>5 DEF LinkData, Complete, Meta, Data
  <2>2. Fewer
    BY <1>5, <2>1 DEF LinkData, Copies, InActive, InIncoming, Undelivered
  <2> QED
    BY <1>5, <1>f, <1>k, <2>2 DEF LinkData, OnceInv, faults
<1>6. CASE LinkMeta
  <2> SUFFICES ASSUME NEW c \in Result, c = cur, c = cur' PROVE OnceInv'
    BY <1>0, <1>6 DEF LinkMeta
  <2>1. \A r \in Result : r # cur => (r \in Complete(active') <=> r \in Complete(active))
    BY <1>6 DEF LinkMeta, Rollback, Complete, Meta, Data
  <2>2. cur \in Complete(incoming)
    BY <1>6, <1>0 DEF LinkMeta, LoopInv
  <2>3. ASSUME NEW r \in Result, r # c PROVE Copies(r)' = Copies(r)
    BY <1>6, <2>1, <2>3 DEF LinkMeta, Copies, InActive, InIncoming, Undelivered
  <2>4. InActive(c) = 0 /\ InIncoming(c) = 1 /\ Copies(c) = 1
    BY <1>6, <2>2 DEF LinkMeta, Copies, InActive, InIncoming
  <2>6. CASE op' = "unlinkmeta" /\ failed' = failed
    <3>1. cur \in Result /\ cur < next
      BY <1>0, <2>2 DEF OnceInv, Complete, Files
    <3>2. InIncoming(c)' = 0
      BY <1>0, <1>6, <2>6, <3>1 DEF LinkMeta, InIncoming, Undelivered, TypeOK, Result
    <3>3. Copies(c)' <= Copies(c)
      BY <2>4, <3>2, CopiesType DEF Copies
    <3>4. Paid
      BY <1>f, <2>3, <3>3, <2>6, CopiesType
    <3> QED
      BY <1>6, <1>k, <2>6, <3>4 DEF LinkMeta, OnceInv
  <2>7. CASE active' = Rollback(active) /\ op' = "scan" /\ failed' = failed
    <3>1. InActive(c)' = 0
      BY <2>7 DEF InActive, Rollback, Complete
    <3>2. Copies(c)' <= Copies(c)
      BY <2>4, <3>1, CopiesType DEF Copies
    <3>3. Paid
      BY <1>f, <2>3, <3>2, <2>7, CopiesType
    <3> QED
      BY <1>6, <1>k, <2>7, <3>3 DEF LinkMeta, OnceInv
  <2>8. CASE UnlinkFails(c) /\ op' = "scan"
    <3>1. Copies(c)' <= Copies(c) + 1
      BY <2>4, CopiesType
    <3>2. Paid
      BY <1>0, <2>3, <2>8, <3>1, CopyPaid, CopiesType DEF Paid
    <3> QED
      BY <1>6, <1>k, <2>8, <3>2 DEF LinkMeta, OnceInv
  <2> QED
    BY <1>6, <2>6, <2>7, <2>8 DEF LinkMeta
<1>7. CASE UnlinkMeta
  <2>1. \A r \in Result : r \in Complete(incoming') => r \in Complete(incoming)
    BY <1>7 DEF UnlinkMeta, Complete
  <2>2. op' = "unlinkdata" => Meta(cur) \notin incoming' /\ cur \notin Complete(incoming')
    BY <1>7 DEF UnlinkMeta, Complete
  <2>3. Fewer
    BY <1>7, <2>1, <2>2 DEF UnlinkMeta, Copies, InActive, InIncoming, Undelivered
  <2> QED
    BY <1>7, <1>f, <1>k, <2>2, <2>3 DEF UnlinkMeta, OnceInv, faults
<1>8. CASE UnlinkData
  <2> SUFFICES ASSUME NEW c \in Result, c = cur, c = cur' PROVE OnceInv'
    BY <1>0, <1>8 DEF UnlinkData
  <2>1. \A r \in Result : r \in Complete(incoming') => r \in Complete(incoming)
    BY <1>8 DEF UnlinkData, Complete
  <2>2. \A r \in Result : r # c => Copies(r)' <= Copies(r)
    BY <1>8, <2>1 DEF UnlinkData, Copies, InActive, InIncoming, Undelivered
  <2>3. InActive(c)' = InActive(c)
    BY <1>8 DEF UnlinkData, InActive
  <2>4. CASE c \notin Complete(incoming') /\ failed' = failed
    <3>1. InIncoming(c)' <= InIncoming(c)
      BY <1>8, <2>4 DEF UnlinkData, InIncoming, Undelivered
    <3>2. Copies(c)' <= Copies(c)
      BY <2>3, <3>1, CopiesType DEF Copies
    <3>3. Paid
      BY <1>f, <2>2, <2>4, <3>2
    <3> QED
      BY <1>8, <1>k, <2>4, <3>3 DEF UnlinkData, OnceInv
  <2>5. CASE UnlinkFails(c)
    <3>1. Copies(c)' <= Copies(c) + 1
      BY <2>3, CopiesType DEF Copies
    <3>2. Paid
      BY <1>0, <2>2, <2>5, <3>1, CopyPaid DEF Paid
    <3> QED
      BY <1>8, <1>k, <2>5, <3>2 DEF UnlinkData, OnceInv
  <2> QED
    BY <1>8, <2>4, <2>5 DEF UnlinkData, OnceInv, Complete
<1>9. CASE RunConsumer
  <2>1. Fewer
    BY <1>9 DEF RunConsumer, Copies, InActive, InIncoming, Undelivered
  <2> QED
    BY <1>9, <1>f, <1>k, <2>1 DEF RunConsumer, OnceInv, faults
<1>10. ASSUME NEW status \in {"ok", "failed"}, ConsumerExit(status) PROVE OnceInv'
  <2>1. CASE status = "ok"
    <3>1. ASSUME NEW r \in Result PROVE Bounded(r)'
      <4>1. InIncoming(r)' = InIncoming(r)
        BY <1>10, <2>1 DEF ConsumerExit, InIncoming, Undelivered
      <4>2. InActive(r)' = 0
        BY <1>10, <2>1 DEF ConsumerExit, InActive, Complete
      <4>3. processed'[r] = processed[r] + InActive(r)
        BY <1>0, <1>10, <2>1 DEF ConsumerExit, InActive, Reported, TypeOK
      <4>4. processed'[r] + Copies(r)' = processed[r] + Copies(r)
        BY <1>0, <4>1, <4>2, <4>3, CopiesType DEF Copies, TypeOK
      <4> QED
        BY <1>10, <4>4 DEF ConsumerExit, OnceInv, Bounded, faults
    <3> QED
      BY <1>10, <2>1, <3>1 DEF ConsumerExit, OnceInv
  <2>2. CASE status # "ok"
    <3>1. Fewer
      BY <1>10, <2>2 DEF ConsumerExit, Copies, InActive, InIncoming, Undelivered
    <3> QED
      BY <1>10, <1>f, <1>k, <2>2, <3>1 DEF ConsumerExit, OnceInv, faults
  <2> QED
    BY <2>1, <2>2
<1>11. ASSUME NEW f \in File, PurgeFile(f) PROVE OnceInv'
  <2>1. \A r \in Result : InIncoming(r)' = InIncoming(r)
    BY <1>11 DEF PurgeFile, InIncoming, Undelivered
  <2>2. /\ \A r \in Result : InActive(r)  = IF r \in Complete(active \ list) THEN 1 ELSE 0
        /\ \A r \in Result : InActive(r)' = IF r \in Complete(active' \ list') THEN 1 ELSE 0
    <3>1. list' = {} => active' \ list' = active'
      OBVIOUS
    <3> QED
      BY <1>11, <3>1 DEF PurgeFile, InActive
  <2>3. \A r \in Result : InActive(r)' <= InActive(r) => Copies(r)' <= Copies(r)
    BY <2>1, CopiesType DEF Copies
  <2>4. CASE active' = active \ {f} /\ failed' = failed
    <3>1. active' \ list' = active \ list
      BY <1>11, <2>4 DEF PurgeFile
    <3>2. Fewer
      BY <2>2, <2>3, <3>1, CopiesType
    <3> QED
      BY <1>11, <1>f, <1>k, <2>4, <3>2 DEF PurgeFile, OnceInv
  <2>5. CASE UnlinkFails(f[1]) /\ active' = active
    <3>1. f[1] \in Result
      BY DEF File
    <3>2. \A r \in Result : r # f[1] =>
            (r \in Complete(active' \ list') <=> r \in Complete(active \ list))
      BY <1>11, <2>5 DEF PurgeFile, Complete, Meta, Data
    <3>3. \A r \in Result : r # f[1] => Copies(r)' <= Copies(r)
      BY <2>2, <2>3, <3>2
    <3>4. Copies(f[1])' <= Copies(f[1]) + 1
      BY <2>1, <3>1, CopiesType DEF Copies
    <3>5. Paid
      BY <1>0, <2>5, <3>1, <3>3, <3>4, CopyPaid DEF Paid
    <3> QED
      BY <1>11, <1>k, <3>5 DEF PurgeFile, OnceInv
  <2> QED
    BY <1>11, <2>4, <2>5 DEF PurgeFile
<1>12. CASE Crash
  <2>1. ASSUME NEW r \in Result PROVE Bounded(r)'
    <3>1. Bounded(r)
      BY DEF OnceInv
    <3>2. CASE consumer = "running"
      <4>1. op \in {"idle", "deliver"}
        BY <3>2 DEF WholeInv
      <4>2. InActive(r)' = InActive(r) /\ InIncoming(r)' <= InIncoming(r)
        BY <1>12, <4>1 DEF Crash, InActive, InIncoming, Undelivered
      <4>3. orphans' = orphans + 1 /\ Copies(r)' <= Copies(r)
        BY <1>12, <3>2, <4>2, CopiesType DEF Crash, ForgetConsumer, Copies
      <4> QED
        BY <1>0, <1>12, <3>1, <4>3, CopiesType DEF Crash, Bounded, TypeOK
    <3>3. CASE consumer # "running"
      <4>1. InActive(r)' + InIncoming(r)' <= InActive(r) + InIncoming(r) + 1
        BY <1>12, <1>0 DEF Crash, InActive, InIncoming, Undelivered, LoopInv, Complete
      <4>2. orphans' = orphans /\ Copies(r)' <= Copies(r) + 1
        BY <1>12, <3>3, <4>1 DEF Crash, ForgetConsumer, Copies
      <4> QED
        BY <1>0, <1>12, <3>1, <4>2, CopiesType DEF Crash, Bounded, TypeOK
    <3> QED
      BY <3>2, <3>3
  <2> QED
    BY <1>12, <2>1 DEF Crash, OnceInv
<1>13. CASE Reload
  <2>1. ASSUME NEW r \in Result PROVE Bounded(r)'
    <3>1. Bounded(r) /\ Copies(r)' = Copies(r)
      BY <1>13 DEF OnceInv, Reload, Copies, InActive, InIncoming, Undelivered
    <3>2. orphans' <= orphans + 1
      BY <1>0, <1>13 DEF Reload, ForgetConsumer, TypeOK
    <3> QED
      BY <1>0, <1>13, <3>1, <3>2, CopiesType DEF Reload, Bounded, TypeOK
  <2> QED
    BY <1>13, <2>1 DEF Reload, OnceInv
<1>14. CASE OrphanExit
  <2>1. ASSUME NEW r \in Result PROVE Bounded(r)'
    <3>1. Bounded(r) /\ Copies(r)' = Copies(r)
      BY <1>14 DEF OnceInv, OrphanExit, Copies, InActive, InIncoming, Undelivered
    <3>2. processed'[r] <= processed[r] + 1
      BY <1>0, <1>14 DEF OrphanExit, Reported, TypeOK
    <3>3. orphans' = orphans - 1 /\ UNCHANGED <<crashes, reloads, failed>>
      BY <1>14 DEF OrphanExit, faults
    <3> QED
      BY <1>0, <3>1, <3>2, <3>3, CopiesType DEF Bounded, TypeOK
  <2> QED
    BY <1>14, <2>1 DEF OrphanExit, OnceInv
<1>15. CASE UNCHANGED vars
  <2>1. Fewer
    BY <1>15 DEF vars, Copies, InActive, InIncoming, Undelivered
  <2> QED
    BY <1>15, <1>f, <1>k, <2>1 DEF vars, OnceInv, faults
<1> QED
  BY <1>1, <1>2, <1>3, <1>4, <1>5, <1>6, <1>7, <1>8, <1>9, <1>10, <1>11, <1>12, <1>13, <1>14,
     <1>15 DEF Next, Move

(* A result is processed by one successful run, and by at most one more    *)
(* for every crash of the daemon, every reload, and every failing unlink   *)
(* of the result in the active directory or pair of failing unlinks in the *)
(* incoming queue: each of these leaves at most one more copy of it, or    *)
(* one more run, behind.                                                   *)
THEOREM NoDoubleProcessing == Spec => []ProcessedOnce
<1>1. Init => QInv /\ WholeInv /\ OnceInv
  <2>1. Init => QInv
    BY QueueAssumption DEF Init, QInv, TypeOK, LoopInv, NoLoss, Op, Result
  <2>2. Init => WholeInv
    BY DEF Init, WholeInv, Excused, Halves
  <2>3. Init => OnceInv
    BY DEF Init, OnceInv, Bounded, Copies, InActive, InIncoming, Complete
  <2> QED
    BY <2>1, <2>2, <2>3
<1>2. QInv /\ WholeInv /\ OnceInv /\ [Next]_vars => (QInv /\ WholeInv /\ OnceInv)'
  BY QueueStep, WholeStep, OnceStep DEF QInv
<1>3. QInv /\ OnceInv => ProcessedOnce
  <2> SUFFICES ASSUME QInv, OnceInv, NEW r \in Result
               PROVE  processed[r] <= 1 + crashes + reloads + failed[r]
    BY DEF ProcessedOnce
  <2>1. Bounded(r)
    BY DEF OnceInv
  <2> QED
    BY <2>1, CopiesType DEF QInv, TypeOK, Bounded
<1> QED
  BY <1>1, <1>2, <1>3, PTL DEF Spec

-----------------------------------------------------------------------------
(* The refinement of the mailbox.  A result reaches the queue once, with   *)
(* the second of its files; only received results are ever moved or        *)
(* processed.                                                              *)

FreshInv ==
  /\ \A r \in received : r < next
  /\ op = "deliver" => list # {} /\ list \cap incoming = {} /\ next - 1 \notin received
  /\ Complete(incoming) \subseteq received
  /\ \A r \in Result : Files(r) \cap active # {} \/ processed[r] > 0 => r \in received

MInv == QInv /\ WholeInv /\ OnceInv /\ FreshInv

(* The mailbox, as Queue implements it.                                    *)
Held  == Complete(incoming) \cup Complete(active)
Batch == IF consumer = "running" THEN Complete(active) ELSE {}
Done  == {r \in Result : processed[r] > 0}

(* Only complete results are moved, and only results that were moved are   *)
(* processed.                                                              *)
LEMMA FreshStep ==
  ASSUME MInv, [Next]_vars
  PROVE  FreshInv'
<1>0. /\ TypeOK /\ LoopInv /\ OnceInv /\ FreshInv
  BY DEF MInv, QInv
<1> USE DEF FreshInv, Complete, Files, Meta, Data
<1>1. CASE ActionMove
  <2>1. next \in Result /\ next' = next + 1 /\ op' = "deliver" /\ list' = Files(next)
    BY <1>0, <1>1 DEF ActionMove, TypeOK, Result
  <2>2. list' \cap incoming = {}
    BY <1>0, <2>1 DEF OnceInv, TypeOK, Result
  <2>3. \A r \in received : r < next /\ r \in Nat
    BY <1>0 DEF TypeOK, Result
  <2>4. (\A r \in received : r < next') /\ next' - 1 \notin received
    BY <1>0, <2>1, <2>3 DEF TypeOK, Result
  <2> QED
    BY <1>0, <1>1, <2>1, <2>2, <2>4 DEF ActionMove
<1>2. ASSUME NEW f \in File, DeliverFile(f) PROVE FreshInv'
  <2>1. f \in Files(next - 1) /\ f[1] = next - 1 /\ next - 1 < next /\ f \notin incoming
    BY <1>0, <1>2 DEF DeliverFile, OnceInv, TypeOK
  <2>2. \A r \in received' : r < next'
    BY <1>0, <1>2, <2>1 DEF DeliverFile
  <2>3. Complete(incoming') \subseteq received'
    BY <1>0, <1>2, <2>1 DEF DeliverFile
  <2>4. ASSUME op' = "deliver"
        PROVE  list' # {} /\ list' \cap incoming' = {} /\ next' - 1 \notin received'
    <3>1. list' # {} /\ list' \cap incoming' = {}
      BY <1>0, <1>2, <2>4 DEF DeliverFile
    <3>2. PICK g \in list' : g \in Files(next - 1) /\ g \notin incoming'
      BY <1>0, <1>2, <3>1 DEF DeliverFile, OnceInv
    <3>3. next - 1 \notin Complete(incoming')
      BY <3>2
    <3> QED
      BY <1>0, <1>2, <3>1, <3>3 DEF DeliverFile
  <2> QED
    BY <1>0, <1>2, <2>2, <2>3, <2>4 DEF DeliverFile
<1>3. CASE ScheduleMove
  BY <1>0, <1>3 DEF ScheduleMove
<1>4. ASSUME NEW r \in Result, ScanEntry(r) PROVE FreshInv'
  BY <1>0, <1>4 DEF ScanEntry
<1>5. CASE LinkData
  BY <1>0, <1>5 DEF LinkData, LoopInv
<1>6. CASE LinkMeta
  BY <1>0, <1>6 DEF LinkMeta, Rollback, LoopInv
<1>7. CASE UnlinkMeta
  BY <1>0, <1>7 DEF UnlinkMeta
<1>8. CASE UnlinkData
  BY <1>0, <1>8 DEF UnlinkData
<1>9. CASE RunConsumer
  BY <1>0, <1>9 DEF RunConsumer
<1>10. ASSUME NEW status \in {"ok", "failed"}, ConsumerExit(status) PROVE FreshInv'
  BY <1>0, <1>10 DEF ConsumerExit, Reported
<1>11. ASSUME NEW f \in File, PurgeFile(f) PROVE FreshInv'
  BY <1>0, <1>11 DEF PurgeFile
<1>12. CASE Crash \/ Reload
  BY <1>0, <1>12 DEF Crash, Reload
<1>13. CASE OrphanExit
  <2>1. \A r \in Result : processed'[r] > 0 => processed[r] > 0 \/ r \in Complete(active)
    BY <1>0, <1>13 DEF OrphanExit, Reported, TypeOK
  <2> QED
    BY <1>0, <1>13, <2>1 DEF OrphanExit
<1>14. CASE UNCHANGED vars
  BY <1>0, <1>14 DEF vars
<1> HIDE DEF FreshInv, Complete, Files, Meta, Data
<1> QED
  BY <1>1, <1>2, <1>3, <1>4, <1>5, <1>6, <1>7, <1>8, <1>9, <1>10, <1>11, <1>12, <1>13, <1>14
  DEF Next, Move

(* A step that shows to nobody outside.                                    *)
LEMMA MailStutter ==
  ASSUME UNCHANGED <<received, Held, consumer, Batch, orphans, Done>>
  PROVE  [Mail!MailNext]_(Mail!mailVars)
BY DEF Mail!mailVars, Held, Batch, Done

(* Every system call is a step of the mailbox or does not show.            *)
LEMMA MailStep ==
  ASSUME MInv, [Next]_vars
  PROVE  [Mail!MailNext]_(Mail!mailVars)
<1>0. TypeOK /\ LoopInv /\ WholeInv /\ OnceInv /\ FreshInv
  BY DEF MInv, QInv
<1> USE DEF Held, Batch, Done, Complete, Meta, Data
<1>1. CASE ActionMove \/ ScheduleMove
  BY <1>1, MailStutter DEF ActionMove, ScheduleMove
<1>2. ASSUME NEW f \in File, DeliverFile(f) PROVE [Mail!MailNext]_(Mail!mailVars)
  <2>1. f[1] = next - 1 /\ f[1] \in Result /\ f[1] \notin received
    BY <1>0, <1>2 DEF DeliverFile, OnceInv, FreshInv, Files, File
  <2>2. UNCHANGED <<consumer, orphans, active, processed>>
    BY <1>2 DEF DeliverFile
  <2>3. \A r \in Result : r # f[1] => (r \in Complete(incoming') <=> r \in Complete(incoming))
    BY <1>2 DEF DeliverFile
  <2>4. f[1] \notin Complete(incoming)
    BY <1>0, <2>1 DEF FreshInv
  <2>5. CASE f[1] \in Complete(incoming')
    <3>1. received' = received \cup {f[1]}
      BY <1>2, <2>5 DEF DeliverFile
    <3>2. Complete(incoming') = Complete(incoming) \cup {f[1]}
      BY <2>1, <2>3, <2>5
    <3> HIDE DEF Complete
    <3>3. Held' = Held \cup {f[1]} /\ Batch' = Batch /\ Done' = Done
      BY <2>2, <3>2 DEF Complete
    <3>4. Mail!Accept
      BY <2>1, <2>2, <3>1, <3>3 DEF Mail!Accept
    <3> QED
      BY <3>4 DEF Mail!MailNext
  <2>6. CASE f[1] \notin Complete(incoming')
    <3>1. received' = received
      BY <1>2, <2>6 DEF DeliverFile
    <3>2. Complete(incoming') = Complete(incoming)
      BY <2>3, <2>4, <2>6
    <3> QED
      BY <2>2, <3>1, <3>2, MailStutter
  <2> QED
    BY <2>5, <2>6
<1>3. ASSUME NEW r \in Result, ScanEntry(r) PROVE [Mail!MailNext]_(Mail!mailVars)
  BY <1>3, MailStutter DEF ScanEntry
<1>4. CASE LinkData \/ LinkMeta
  <2>1. cur \in Complete(incoming) /\ consumer # "running"
    BY <1>0, <1>4 DEF LinkData, LinkMeta, LoopInv, WholeInv
  <2>2. \A r \in Result : r # cur => (r \in Complete(active') <=> r \in Complete(active))
    BY <1>4 DEF LinkData, LinkMeta, Rollback
  <2>3. UNCHANGED <<incoming, consumer, orphans, received, processed>>
    BY <1>4 DEF LinkData, LinkMeta
  <2>4. Held' = Held
    BY <2>1, <2>2, <2>3
  <2> QED
    BY <2>1, <2>3, <2>4, MailStutter
<1>5. CASE UnlinkMeta \/ UnlinkData
  <2>1. cur \in Complete(active)
    BY <1>0, <1>5 DEF UnlinkMeta, UnlinkData, LoopInv
  <2>2. \A r \in Result : r # cur => (r \in Complete(incoming') <=> r \in Complete(incoming))
    BY <1>5 DEF UnlinkMeta, UnlinkData
  <2>3. UNCHANGED <<active, consumer, orphans, received, processed>>
    BY <1>5 DEF UnlinkMeta, UnlinkData
  <2>4. Held' = Held
    BY <2>1, <2>2, <2>3
  <2> QED
    BY <2>3, <2>4, MailStutter
<1>6. CASE RunConsumer
  <2>1. consumer # "running" /\ consumer' = "running"
    BY <1>0, <1>6 DEF RunConsumer, WholeInv
  <2>2. UNCHANGED <<incoming, active, orphans, received, processed>>
    BY <1>6 DEF RunConsumer
  <2>3. Mail!Begin
    BY <2>1, <2>2 DEF Mail!Begin
  <2> QED
    BY <2>3 DEF Mail!MailNext
<1>7. ASSUME UNCHANGED <<incoming, active, orphans, received>>, consumer = "running",
             consumer' = "none", processed' = processed \/ processed' = Reported
      PROVE  [Mail!MailNext]_(Mail!mailVars)
  <2>1. Done' \in {Done, Done \cup Complete(active)}
    BY <1>0, <1>7 DEF Reported, TypeOK
  <2>2. Mail!Finish
    BY <1>7, <2>1 DEF Mail!Finish
  <2> QED
    BY <2>2 DEF Mail!MailNext
<1>8. ASSUME NEW status \in {"ok", "failed"}, ConsumerExit(status)
      PROVE  [Mail!MailNext]_(Mail!mailVars)
  BY <1>7, <1>8 DEF ConsumerExit
<1>9. ASSUME NEW f \in File, PurgeFile(f) PROVE [Mail!MailNext]_(Mail!mailVars)
  <2>1. consumer # "running" /\ \A r \in Complete(active) : r \in Done
    BY <1>0, <1>9 DEF PurgeFile, WholeInv, LoopInv
  <2>2. UNCHANGED <<incoming, consumer, orphans, received, processed>>
    BY <1>9 DEF PurgeFile
  <2>3. /\ Complete(active') \subseteq Complete(active)
        /\ \A r \in Complete(active) : r # f[1] => r \in Complete(active')
    BY <1>9 DEF PurgeFile
  <2>4. CASE Held' = Held
    BY <2>1, <2>2, <2>4, MailStutter
  <2>5. CASE Held' # Held
    <3>1. f[1] \in Complete(active) /\ Held' = Held \ {f[1]}
      BY <2>2, <2>3, <2>5
    <3>2. Mail!Drop
      BY <2>1, <2>2, <3>1 DEF Mail!Drop
    <3> QED
      BY <3>2 DEF Mail!MailNext
  <2> QED
    BY <2>4, <2>5
<1>10. CASE Crash \/ Reload
  <2>1. UNCHANGED <<incoming, active, received, processed>> /\ ForgetConsumer
    BY <1>10 DEF Crash, Reload
  <2>2. CASE consumer = "running"
    <3>1. Mail!Forget
      BY <2>1, <2>2 DEF ForgetConsumer, Mail!Forget
    <3> QED
      BY <3>1 DEF Mail!MailNext
  <2>3. CASE consumer # "running"
    BY <1>0, <2>1, <2>3, MailStutter DEF ForgetConsumer, TypeOK
  <2> QED
    BY <2>2, <2>3
<1>11. CASE OrphanExit
  <2>1. UNCHANGED <<incoming, active, received, consumer>>
    BY <1>11 DEF OrphanExit
  <2>2. Done' \in {Done, Done \cup Complete(active)}
    BY <1>0, <1>11 DEF OrphanExit, Reported, TypeOK
  <2>3. \E found \in SUBSET Held : Done' = Done \cup found
    <3> HIDE DEF Done
    <3>1. CASE Done' = Done
      <4>1. {} \in SUBSET Held /\ Done' = Done \cup {}
        BY <3>1
      <4> QED
        BY <4>1
    <3>2. CASE Done' = Done \cup Complete(active)
      BY <3>2
    <3> QED
      BY <2>2, <3>1, <3>2
  <2>4. Mail!StrayEnd
    BY <1>11, <2>1, <2>3 DEF OrphanExit, Mail!StrayEnd
  <2> QED
    BY <2>4 DEF Mail!MailNext
<1>12. CASE UNCHANGED vars
  BY <1>12, MailStutter DEF vars
<1> QED
  BY <1>1, <1>2, <1>3, <1>4, <1>5, <1>6, <1>8, <1>9, <1>10, <1>11, <1>12 DEF Next, Move

(* The files and system calls implement the mailbox, for any number of     *)
(* results, crashes at any point, reloads and whichever link or unlink     *)
(* fails.                                                                  *)
THEOREM QueueIsMailbox == Spec => ImplementsMailbox
<1>1. Init => MInv /\ Mail!MailInit
  <2>1. Init => QInv
    BY QueueAssumption DEF Init, QInv, TypeOK, LoopInv, NoLoss, Op, Result
  <2>2. Init => WholeInv
    BY DEF Init, WholeInv, Excused, Halves
  <2>3. Init => OnceInv
    BY DEF Init, OnceInv, Bounded, Copies, InActive, InIncoming, Complete
  <2>4. Init => FreshInv
    BY DEF Init, FreshInv, Complete
  <2>5. Init => Mail!MailInit
    BY DEF Init, Mail!MailInit, Complete
  <2> QED
    BY <2>1, <2>2, <2>3, <2>4, <2>5 DEF MInv
<1>2. MInv /\ [Next]_vars => MInv'
  BY QueueStep, WholeStep, OnceStep, FreshStep DEF MInv, QInv
<1>3. MInv /\ [Next]_vars => [Mail!MailNext]_(Mail!mailVars)
  BY MailStep
<1> QED
  BY <1>1, <1>2, <1>3, PTL DEF Spec, ImplementsMailbox, Mail!MailSpec
=============================================================================
