---------------------------- MODULE RunnerClaims ----------------------------
(***************************************************************************)
(* What the data model says of the runner and the code does not do.  The   *)
(* property is refuted by a run of its own; the README explains the        *)
(* counterexample.                                                         *)
(***************************************************************************)
EXTENDS Runner

(* ietf-lmap-control: "If 'stop-running' is false, running Schedules and   *)
(* Actions will not be affected if Suppression is activated."              *)
StopRunningFalseSpares ==
  [][\A u \in Supp :
       uState[u] = "enabled" /\ uState'[u] = "active" /\ StopRunning[u] = "false"
       => term' = term]_vars
=============================================================================
