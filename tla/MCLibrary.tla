------------------------------ MODULE MCLibrary -------------------------------
(***************************************************************************)
(* Parts of the library that have no step in common, side by side: the log *)
(* file, a configuration variable and a ByteArray.  A behaviour is one of  *)
(* the part it begins with; the variables of the others keep an initial    *)
(* value.                                                                  *)
(***************************************************************************)
EXTENDS FileLogAppender, ConfigVar, ByteArray

VARIABLE part   \* the part that runs

ASSUME LibraryAssumption ==
    CapacityAssumption /\ InitialAssumption /\ BlockSizeAssumption

vars == <<part, logVars, configVars, bytesVars>>

Parts == {"log", "config", "bytes"}

Init ==
    /\ part \in Parts /\ LogInit /\ ConfigInit /\ BytesInit
    /\ firstSize = BlockSize \/ part = "bytes"

Next ==
    \/ part = "log" /\ LogNext /\ UNCHANGED <<part, configVars, bytesVars>>
    \/ part = "config" /\ ConfigNext /\ UNCHANGED <<part, logVars, bytesVars>>
    \/ part = "bytes" /\ BytesNext /\ UNCHANGED <<part, logVars, configVars>>

\* The fairness of FileLogAppender, which binds only a behaviour of that part.
Fairness ==
    /\ WF_logVars(part = "log" /\ Consume)
    /\ WF_logVars(part = "log" /\ Start)
    /\ WF_logVars(part = "log" /\ Destroy)

Spec == Init /\ [][Next]_vars /\ Fairness

-----------------------------------------------------------------------------

\* The variables of every part keep their types.
LibraryTypeOK ==
    CASE part = "log" -> LogTypeOK
      [] part = "config" -> ConfigTypeOK
      [] part = "bytes" -> BytesTypeOK
=============================================================================
