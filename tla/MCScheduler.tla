---------------------------- MODULE MCScheduler ----------------------------
(***************************************************************************)
(* Tasks are interchangeable; processors are not, the scheduler goes       *)
(* through them in the order of their index.  While no task suspends,      *)
(* nothing reads Task::processor_, nothing ever tells a task that ended    *)
(* from one that threw, and no step reads the two counters, of which       *)
(* CountCovers sees the sum: states that differ in these are the same.     *)
(***************************************************************************)
EXTENDS Scheduler

Symmetry == Permutations(Tasks)

View ==
    <<queVars, loopVars, condVars, active, slice, lastActive, calls, taskCount + hidden,
      balanceVars, [t \in Tasks |-> IF state[t] = "EXCEPT" THEN "DONE" ELSE state[t]]>>

=============================================================================
