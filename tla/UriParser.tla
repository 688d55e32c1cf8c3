------------------------------ MODULE UriParser ------------------------------
(***************************************************************************)
(* Uri::Create (src/net/uri.rl): the machine of UriGrammar run over a      *)
(* string.  Mark sets the pointer mark to the current character, the other *)
(* actions store what lies between mark and the current character.         *)
(***************************************************************************)
EXTENDS UriGrammar

CONSTANTS Inputs   \* what is parsed: the parts of a URI, with their delimiters

\* The order in which the parts of an input are written.
PartOrder == <<"scheme", "slashes", "user", "host", "port", "path", "query", "fragment">>

VARIABLES parts,   \* the input
          uriStr,  \* the argument of Create: its parts in order
          p,       \* the current character
          cs,      \* the state of the machine
          mark,    \* what mark points to, Null if nothing
          uri,     \* what the setters have stored: part -> string
          outcome  \* "running", then how Create ends

vars == <<parts, uriStr, p, cs, mark, uri, outcome>>

Null == 0

\* Whether a string is a uint16_t.
IsPort(str) == ToSet(str) \subseteq Digit /\ Lit!Number(str) < 65536

\* Mark one character late.
DoLate(r, act) == IF act = "Mark" THEN [r EXCEPT !.mark = p + 1] ELSE r

\* The actions of the grammar. r holds mark, uri and outcome; LexicalCast converts
\* everything from mark to the end of the string and throws if it is not a number;
\* a string that begins at a null pointer is undefined.
Do(r, act) ==
    LET text == SubSeq(uriStr, r.mark, p - 1)
        keep(part) == [r EXCEPT !.uri[part] = text, !.mark = Null]
        last == [Path |-> "path", Query |-> "query", Fragment |-> "fragment"]
    IN IF r.outcome # "running" THEN r
       ELSE CASE act = "Mark" -> [r EXCEPT !.mark = p]
              [] act = "Scheme" -> keep("scheme")
              [] act = "UserInfo" -> IF r.mark = Null THEN r ELSE keep("user")
              [] act = "Host" -> IF r.mark = Null THEN r ELSE [r EXCEPT !.uri["host"] = text]
              [] act = "Port" ->
                     IF p = r.mark THEN [r EXCEPT !.mark = Null]
                     ELSE IF IsPort(SubSeq(uriStr, r.mark, Len(uriStr))) THEN keep("port")
                     ELSE [r EXCEPT !.outcome = "throws"]
              [] act \in DOMAIN last ->
                     IF r.mark = Null THEN [r EXCEPT !.outcome = "undefined"] ELSE keep(last[act])

Run(acts) == FoldLeft(Do, [mark |-> mark, uri |-> uri, outcome |-> outcome], acts)

\* The string with the parts of f.
Written(f) == FlattenSeq([i \in 1..Len(PartOrder) |-> f[PartOrder[i]]])

\* A new Uri.
NothingStored ==
    [part \in {"scheme", "user", "host", "port", "path", "query", "fragment"} |-> <<>>]

Init ==
    /\ parts \in Inputs
    /\ uriStr = Written(parts)
    /\ p = 1
    /\ cs = <<"start">>
    /\ mark = Null
    /\ uri = NothingStored
    /\ outcome = "running"

\* One character.
Read ==
    /\ outcome = "running" /\ p <= Len(uriStr)
    /\ \E e \in Moves(cs, uriStr[p]) :
        LET r == Run(e.do) IN
        /\ cs' = e.to /\ p' = p + 1
        /\ mark' = r.mark /\ uri' = r.uri /\ outcome' = r.outcome
    /\ UNCHANGED <<parts, uriStr>>

\* A character that nothing allows: the error state, and Create returns nullptr.
Refuse ==
    /\ outcome = "running" /\ p <= Len(uriStr)
    /\ Moves(cs, uriStr[p]) = {}
    /\ outcome' = "null"
    /\ UNCHANGED <<parts, uriStr, p, cs, mark, uri>>

\* The end of the string.
Create ==
    /\ outcome = "running" /\ p > Len(uriStr)
    /\ LET r == Run(IF Final(cs) THEN Eof(cs) ELSE <<>>) IN
        /\ mark' = r.mark /\ uri' = r.uri
        /\ outcome' = IF r.outcome # "running" THEN r.outcome
                      ELSE IF Final(cs) THEN "uri" ELSE "null"
    /\ UNCHANGED <<parts, uriStr, p, cs>>

Next == Read \/ Refuse \/ Create

Spec == Init /\ [][Next]_vars

-----------------------------------------------------------------------------

UriTypeOK ==
    /\ parts \in Inputs
    /\ p \in 1..Len(uriStr) + 1
    /\ mark \in 0..p
    /\ \A part \in DOMAIN uri : ToSet(uri[part]) \subseteq Char
    /\ outcome \in {"running", "uri", "null", "throws", "undefined"}

\* Names a part is written without.
Bare(part) == IF part \in {"scheme", "user"} THEN Front(parts[part]) ELSE Tail(parts[part])

\* What Create returns holds every part as it was written, whatever the parts around
\* it: the copies of the grammar for a user, a host and a dotted quad share one mark
\* and store what may turn out to be something else. The path is stored after a
\* scheme and an authority only, and a user whose colon a digit follows loses what
\* stands before the digit: the mark that an authority's port would need moves there.
PartsAsWritten ==
    outcome = "uri" =>
        /\ \A part \in {"scheme", "port", "query", "fragment"} :
              uri[part] = IF parts[part] = <<>> THEN <<>> ELSE Bare(part)
        /\ uri["host"] = parts["host"]
        /\ uri["path"] = IF parts["scheme"] # <<>> /\ parts["slashes"] # <<>>
                         THEN parts["path"] ELSE <<>>
        /\ parts["user"] # <<>> => \E n \in 0..Len(parts["user"]) :
              /\ uri["user"] = SubSeq(Bare("user"), n + 1, Len(parts["user"]) - 1)
              /\ n > 0 => parts["user"][n] = ":" /\ parts["user"][n + 1] \in Digit

\* What stands after the port.
AfterPort == parts["path"] \o parts["query"] \o parts["fragment"]

\* Create promises a Uri or nullptr (include/net/uri.h:29) and breaks the promise at a
\* port only. It throws only where the port is no uint16_t or something follows it:
\* save_port converts everything from the port to the end of the string, and this is
\* wrong (MCUriExamples). It reads from a null pointer only where an empty port in a URI
\* with a scheme clears the mark that the path needs. No other order in which the copies
\* of the grammar set and clear their one mark leaves an action without it.
PromiseKeptButAtPort ==
    /\ outcome = "throws" => Len(parts["port"]) > 1 /\ ~IsPort(Tail(parts["port"]) \o AfterPort)
    /\ outcome = "undefined" => Len(parts["port"]) = 1 /\ parts["scheme"] # <<>>
=============================================================================
