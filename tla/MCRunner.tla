------------------------------ MODULE MCRunner ------------------------------
(***************************************************************************)
(* Configurations of Runner for TLC.  Every configuration is an instance   *)
(* of an lmapd configuration file; the .cfg files pick one by its prefix.  *)
(***************************************************************************)
EXTENDS RunnerClaims, TLC

CONSTANTS s1, s2, s3, a1, a2, b1, b2, e1, e2, eU, eV, p1, p2, p3

PidSymmetry == Permutations(Pid)

(* Suppression patterns are globs: "all*" also matches the tag "all-b".    *)
MCFnmatch == {<<"x", "x">>, <<"y", "y">>, <<"all*", "all-b">>, <<"all*", "all-a">>}

-----------------------------------------------------------------------------
(* Chain: a1; a2 in sequence, feeding b1 of a second schedule and, from    *)
(* a2, their own schedule.  Suppression 1 stops running schedules,         *)
(* suppression 2 begins on the event that ends suppression 1 and ends on   *)
(* the event that starts the second schedule.                              *)
ChainSchedOf  == a1 :> s1 @@ a2 :> s1 @@ b1 :> s2
ChainFirstAct == s1 :> a1 @@ s2 :> b1
ChainNextAct  == a1 :> a2 @@ a2 :> NoAction @@ b1 :> NoAction
ChainMode     == s1 :> "sequential" @@ s2 :> "parallel"
ChainStart    == s1 :> e1 @@ s2 :> e2
ChainEnd      == s1 :> NoEvent @@ s2 :> e1
ChainEvType   == e1 :> "periodic" @@ e2 :> "calendar" @@ eU :> "periodic" @@ eV :> "periodic"
LiveEvType    == e1 :> "periodic" @@ e2 :> "calendar"
ChainDest     == a1 :> {s2} @@ a2 :> {s1, s2} @@ b1 :> {}
ChainSuppStart == <<eU, eV>>
ChainSuppEnd   == <<eV, e2>>
ChainSuppMatch == <<{"x"}, {"y", "all*"}>>
ChainStop      == <<"true", "unset">>
ChainStopFalse == <<"false", "unset">>
ChainSchedTags == s1 :> {"x", "all-a"} @@ s2 :> {"z"}
ChainActTags   == a1 :> {} @@ a2 :> {"y"} @@ b1 :> {"x", "all-b"}

(* No suppression matches an empty list of patterns.                       *)
NoSupp == <<>>

-----------------------------------------------------------------------------
(* Boot: the one-shot events.  A sequential schedule runs at startup and   *)
(* feeds itself and a parallel one; the runner refuses the pipelined one,  *)
(* which has no action.  The operator reloads and cleans.                  *)
BootSchedOf  == a1 :> s1 @@ a2 :> s1 @@ b1 :> s2 @@ b2 :> s2
BootFirstAct == s1 :> a1 @@ s2 :> b1 @@ s3 :> NoAction
BootNextAct  == a1 :> a2 @@ a2 :> NoAction @@ b1 :> b2 @@ b2 :> NoAction
BootMode     == s1 :> "sequential" @@ s2 :> "parallel" @@ s3 :> "pipelined"
BootStart    == s1 :> e1 @@ s2 :> e2 @@ s3 :> e2
BootEnd      == s1 :> NoEvent @@ s2 :> eV @@ s3 :> NoEvent
BootEvType   == e1 :> "startup" @@ e2 :> "periodic" @@ eU :> "one-off" @@ eV :> "immediate"
BootDest     == a1 :> {s1, s2} @@ a2 :> {} @@ b1 :> {} @@ b2 :> {}
BootSuppStart == <<eU>>
BootSuppEnd   == <<eV>>
BootSuppMatch == <<{"x"}>>
BootStop      == <<"unset">>
BootSchedTags == s1 :> {} @@ s2 :> {} @@ s3 :> {"x"}
BootActTags   == a1 :> {} @@ a2 :> {"x"} @@ b1 :> {} @@ b2 :> {}
=============================================================================
