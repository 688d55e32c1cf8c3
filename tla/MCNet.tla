-------------------------------- MODULE MCNet ---------------------------------
(***************************************************************************)
(* The parts of the network library that have no step in common, side by   *)
(* side: URIs, a connection of the server, a response at the client, the   *)
(* client's pool.  A behaviour is one of the part it begins with; the      *)
(* variables of the others keep an initial value.                          *)
(***************************************************************************)
EXTENDS HttpSession, HttpConnection, HttpConnectionPool

CONSTANT Inputs   \* the strings for UriParser

VARIABLE part   \* the part that runs

VARIABLES parts, uriStr, p, cs, mark, uri, outcome
uriVars == <<parts, uriStr, p, cs, mark, uri, outcome>>
Uri == INSTANCE UriParser
UriData == INSTANCE MCUriInputs
MCInputs == UriData!MCInputs

SessionData == INSTANCE MCHttpPlans
MCPlans == SessionData!MCPlans
MCServlets == SessionData!MCServlets
MCGlobServlets == SessionData!MCGlobServlets

ClientData == INSTANCE MCClientResponses
MCResponses == ClientData!MCResponses

ASSUME NetAssumption ==
    /\ BuffSizeAssumption /\ PlansAssumption
    /\ ResponseBuffSizeAssumption /\ ResponsesAssumption /\ NoConnectionAssumption

vars == <<part, uriVars, sessionVars, connVars, poolVars>>

Parts == {"uri", "session", "client", "pool"}

\* The initial states differ in the inputs of the part that runs only.
Varied(name, set) == IF part = name THEN set ELSE { CHOOSE x \in set : TRUE }

Init ==
    /\ part \in Parts
    /\ parts \in Varied("uri", Inputs) /\ Uri!Init
    /\ plan \in Varied("session", Plans) /\ pipelined \in Varied("session", BOOLEAN) /\ SessionInit
    /\ sent \in Varied("client", Responses) /\ ConnInit
    /\ PoolInit

Next ==
    \/ part = "uri" /\ Uri!Next /\ UNCHANGED <<part, sessionVars, connVars, poolVars>>
    \/ part = "session" /\ SessionNext /\ UNCHANGED <<part, uriVars, connVars, poolVars>>
    \/ part = "client" /\ ConnNext /\ UNCHANGED <<part, uriVars, sessionVars, poolVars>>
    \/ part = "pool" /\ PoolNext /\ UNCHANGED <<part, uriVars, sessionVars, connVars>>

\* The fairness of HttpSession, which binds only a behaviour of this part.
Spec == Init /\ [][Next]_vars /\ WF_sessionVars(part = "session" /\ Server)

-----------------------------------------------------------------------------

\* The variables of every part keep their types.
NetTypeOK ==
    CASE part = "uri" -> Uri!UriTypeOK
      [] part = "session" -> SessionTypeOK
      [] part = "client" -> ConnectionTypeOK
      [] part = "pool" -> PoolTypeOK

\* Create stores every part of a URI as it was written.
PartsAsWritten == part = "uri" => Uri!PartsAsWritten

\* Create breaks its promise of a Uri or nullptr at a port only.
PromiseKeptButAtPort == part = "uri" => Uri!PromiseKeptButAtPort

\* What Create answers, it refuses for a malformed address, and for one that RFC 3986 (the
\* grammar that uri.rl:10 names) allows and uri.rl does not; it accepts everything else.
\* The second is a divergence, which MCUriExamples shows.
NullWhenRefused ==
    part = "uri" /\ outcome \in {"uri", "null"} =>
        (outcome = "null" <=> parts["host"] \in UriData!Malformed \cup UriData!Refused)
=============================================================================
