---------------------------- MODULE EventSource ----------------------------
(***************************************************************************)
(* What the runner relies on when it handles events: a source that is      *)
(* armed by lmapd_run fires any number of times until it ends or lmapd is  *)
(* reloaded; a one-shot source (one-off, immediate, startup) fires at most *)
(* once each time it is armed.  Runner has these steps as Fire, SighupCb   *)
(* and ReloadDone; Events implements them with timers.                     *)
(***************************************************************************)
EXTENDS Naturals

VARIABLES
  once,    \* whether the source is one-shot
  armed,   \* whether it can still fire
  fires    \* how often it fired

sourceVars == <<once, armed, fires>>

SourceInit == once \in BOOLEAN /\ armed = FALSE /\ fires = 0

Enable  == ~armed /\ armed' = TRUE /\ UNCHANGED <<once, fires>>
Disable == armed /\ armed' = FALSE /\ UNCHANGED <<once, fires>>

Occur ==
  /\ armed /\ fires' = fires + 1
  /\ armed' \in BOOLEAN /\ (once => ~armed')
  /\ UNCHANGED once

SourceNext == Enable \/ Disable \/ Occur

SourceSpec == SourceInit /\ [][SourceNext]_sourceVars
=============================================================================
