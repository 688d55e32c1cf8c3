---------------------------- MODULE MCTimerTest ----------------------------
(***************************************************************************)
(* The timer as tests/routine_sync_timer_test.cc uses it: timers are added *)
(* at chosen time points, never reset, cancelled or stopped.               *)
(***************************************************************************)
EXTENDS RoutineSyncTimer

TestNext == (\E i \in Ids : Add(i)) \/ Run \/ RunSpuriousWake \/ Start \/ Tick

TestSpec == Init /\ [][TestNext]_vars /\ WF_vars(Run) /\ WF_vars(Tick)

=============================================================================
