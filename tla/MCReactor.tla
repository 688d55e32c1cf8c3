----------------------------- MODULE MCReactor -----------------------------
(***************************************************************************)
(* Two tasks on one descriptor: a reads through DoIo with a time limit, b  *)
(* writes through DoIo or waits, with Reactor::add, for IN and OUT.        *)
(***************************************************************************)
EXTENDS Reactor

CONSTANTS a, b

Call(want, timed, io) == [want |-> want, timed |-> timed, io |-> io]

MCOps == [t \in {a, b} |->
    IF t = a THEN {Call({"in"}, TRUE, TRUE)}
             ELSE {Call({"in"}, FALSE, TRUE), Call({"in", "out"}, FALSE, FALSE)}]

=============================================================================
