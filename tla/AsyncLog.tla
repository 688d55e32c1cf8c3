------------------------------- MODULE AsyncLog -------------------------------
(***************************************************************************)
(* What a file log promises: lines come out in the order they were logged, *)
(* each once, and every one does as long as the process lives.             *)
(***************************************************************************)
EXTENDS Naturals, SequencesExt

VARIABLES
    logged,   \* the lines that were logged
    written,  \* the lines that are in the file
    alive     \* whether the process lives

vars == <<logged, written, alive>>

Init == logged = <<>> /\ written = <<>> /\ alive = TRUE

Log ==
    /\ alive
    /\ logged # logged' /\ IsPrefix(logged, logged') /\ Len(logged') = Len(logged) + 1
    /\ UNCHANGED <<written, alive>>

Write ==
    /\ alive
    /\ written' # written /\ IsPrefix(written, written') /\ IsPrefix(written', logged)
    /\ UNCHANGED <<logged, alive>>

Die == alive' = FALSE /\ UNCHANGED <<logged, written>>

Next == Log \/ Write \/ Die

\* Lines that are logged do not wait for ever in a process that lives: WF_vars(Write),
\* with ENABLED spelled out.
WritesGoOn == []<>(logged = written \/ ~alive) \/ []<><<Write>>_vars

Spec == Init /\ [][Next]_vars /\ WritesGoOn
=============================================================================
