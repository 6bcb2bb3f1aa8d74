------------------------------ MODULE Mailbox ------------------------------
(***************************************************************************)
(* What a schedule's input queue promises to the runner and to the tasks:  *)
(* a result is accepted once and held until a successful run has had it in *)
(* its batch; the batch does not change under the feet of the run.  A run  *)
(* need not see all that is held: what could not be moved waits for a      *)
(* later one.  A run may be forgotten; it then ends unnoticed, having read *)
(* whatever is held.  Queue implements it with links and unlinks of files. *)
(***************************************************************************)
EXTENDS Naturals

CONSTANT Result

VARIABLES
  accepted,   \* the results that reached the queue
  held,       \* the ones a run can still process
  running,    \* whether a run of the schedule is on its way
  batch,      \* what that run finds
  strays,     \* the number of runs that were forgotten
  done        \* the results a successful run has found

mailVars == <<accepted, held, running, batch, strays, done>>

MailInit == accepted = {} /\ held = {} /\ running = FALSE /\ batch = {} /\ strays = 0 /\ done = {}

Accept ==
  \E r \in Result \ accepted :
     /\ accepted' = accepted \cup {r} /\ held' = held \cup {r}
     /\ UNCHANGED <<running, batch, strays, done>>

Begin ==
  /\ ~running /\ running' = TRUE
  /\ batch' \in SUBSET held
  /\ UNCHANGED <<accepted, held, strays, done>>

(* The run ends, with or without success.                                  *)
Finish ==
  /\ running /\ running' = FALSE /\ batch' = {}
  /\ done' \in {done, done \cup batch}
  /\ UNCHANGED <<accepted, held, strays>>

(* The run goes on without anybody knowing.                                *)
Forget ==
  /\ running /\ running' = FALSE /\ batch' = {}
  /\ strays' = strays + 1
  /\ UNCHANGED <<accepted, held, done>>

StrayEnd ==
  /\ strays > 0 /\ strays' = strays - 1
  /\ \E found \in SUBSET held : done' = done \cup found
  /\ UNCHANGED <<accepted, held, running, batch>>

Drop ==
  /\ ~running
  /\ \E r \in held \cap done : held' = held \ {r}
  /\ UNCHANGED <<accepted, running, batch, strays, done>>

MailNext == Accept \/ Begin \/ Finish \/ Forget \/ StrayEnd \/ Drop

MailSpec == MailInit /\ [][MailNext]_mailVars
=============================================================================
