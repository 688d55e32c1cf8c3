----------------------------- MODULE UriGrammar ------------------------------
(***************************************************************************)
(* The machine that Ragel makes of src/net/uri.rl (uri.rl.cc).  A state of *)
(* the machine is a tuple named after the piece of the grammar it is in;   *)
(* the many generated states that differ in nothing else are one.  "rel"   *)
(* is the authority of a reference without a scheme, "abs" the authority   *)
(* that follows "scheme:": the generated machine has a copy of the states  *)
(* for each, with different actions.  An edge does its actions in order.   *)
(*                                                                         *)
(* The characters are one or two of each class that the machine            *)
(* distinguishes; control characters are left out.                         *)
(***************************************************************************)
EXTENDS Sequences, SequencesExt, FiniteSets, Integers

\* The octet without the bound on "25".
UriOctetUnbounded(o, c) == IF o = "" /\ c # "0" THEN "1" ELSE IF o \in {"1", "short"} THEN "short" ELSE "-"

\* An octet of a dotted quad; "25" may grow by 0 to 5 only, the others by any digit.
UriOctet(o, c) ==
    CASE o = "" -> (CASE c = "0" -> "full" [] c \in {"1", "2"} -> c [] OTHER -> "short")
      [] o = "1" -> "short"
      [] o = "2" -> IF c = "5" THEN "25" ELSE "full"
      [] o = "25" -> IF c = "9" THEN "-" ELSE "full"
      [] o = "short" -> "full"
      [] OTHER -> "-"

UriOctets == {"1", "2", "25", "short", "full"}

\* After "::" the grammar wants exactly the groups that are missing, unless the
\* address begins with it.
UriAfter(gap) ==
    CASE gap = 9 -> {8}
      [] gap = 0 -> 0..7
      [] OTHER -> {7 - gap}

Lit == INSTANCE Ip6Address WITH After <- UriAfter, Endless <- FALSE,
                                OctetStep <- UriOctet, OctetDone <- UriOctets

Digit == Lit!Digit
Hex == Lit!Hex
Alpha == {"a", "g", "v"}
Schemec == Alpha \cup Digit \cup {"-", "."}
Reg == Schemec \cup {"!"}
UserInfo == Reg \cup {":"}
High == {"X"}
Pchar == UserInfo \cup High \cup {"@"}
Char == Pchar \cup {"/", "?", "#", "[", "]", "%"}

Edge(s, on, do, t) == [from |-> s, on |-> on, do |-> do, to |-> t]

\* "%" xdigit xdigit, then back to t.
Pct(s, do, t) ==
    { Edge(s, {"%"}, do, <<"%", t>>),
      Edge(<<"%", t>>, Hex, <<>>, <<"%x", t>>),
      Edge(<<"%x", t>>, Hex, <<>>, t) }

\* What may follow a path: a query or a fragment.
AfterPath(s, do) ==
    { Edge(s, {"?"}, do, <<"query0">>), Edge(s, {"#"}, do, <<"frag0">>) }

\* The first character; a first segment that may still become a scheme.
Start ==
    { Edge(<<"start">>, Alpha, <<"Mark">>, <<"scheme">>),
      Edge(<<"start">>, (Pchar \ Alpha) \ {":"}, <<>>, <<"rel">>),
      Edge(<<"start">>, {"/"}, <<>>, <<"slash">>) }
    \cup AfterPath(<<"start">>, <<>>) \cup Pct(<<"start">>, <<>>, <<"rel">>)

Scheme ==
    { Edge(<<"scheme">>, Schemec, <<>>, <<"scheme">>),
      Edge(<<"scheme">>, (Pchar \ Schemec) \ {":"}, <<>>, <<"rel">>),
      Edge(<<"scheme">>, {":"}, <<"Scheme">>, <<"colon">>),
      Edge(<<"scheme">>, {"/"}, <<>>, <<"path">>) }
    \cup AfterPath(<<"scheme">>, <<>>) \cup Pct(<<"scheme">>, <<>>, <<"rel">>)

\* A relative path whose first segment has no colon.
RelativePath ==
    { Edge(<<"rel">>, Pchar \ {":"}, <<>>, <<"rel">>),
      Edge(<<"rel">>, {"/"}, <<>>, <<"path">>) }
    \cup AfterPath(<<"rel">>, <<>>) \cup Pct(<<"rel">>, <<>>, <<"rel">>)

\* Every path that no authority precedes. Nothing stores it.
Path ==
    { Edge(<<"path">>, Pchar \cup {"/"}, <<>>, <<"path">>) }
    \cup AfterPath(<<"path">>, <<>>) \cup Pct(<<"path">>, <<>>, <<"path">>)

\* One slash, at the beginning or after "scheme:"; a second one begins an authority.
Slash ==
    UNION {
        { Edge(s, Pchar, <<>>, <<"path">>) }
            \cup AfterPath(s, <<>>) \cup Pct(s, <<>>, <<"path">>) :
        s \in {<<"slash">>, <<"colon">>, <<"colon/">>} }
    \cup { Edge(<<"slash">>, {"/"}, <<>>, <<"auth", "rel">>),
           Edge(<<"colon">>, {"/"}, <<>>, <<"colon/">>),
           Edge(<<"colon/">>, {"/"}, <<>>, <<"auth", "abs">>) }

Query ==
    { Edge(<<"query0">>, Pchar \cup {"/", "?"}, <<"Mark">>, <<"query">>),
      Edge(<<"query0">>, {"#"}, <<"Mark", "Query">>, <<"frag0">>),
      Edge(<<"query">>, Pchar \cup {"/", "?"}, <<>>, <<"query">>),
      Edge(<<"query">>, {"#"}, <<"Query">>, <<"frag0">>) }
    \cup Pct(<<"query0">>, <<"Mark">>, <<"query">>) \cup Pct(<<"query">>, <<>>, <<"query">>)

Fragment ==
    { Edge(<<"frag0">>, Pchar \cup {"/", "?"}, <<"Mark">>, <<"frag">>),
      Edge(<<"frag">>, Pchar \cup {"/", "?"}, <<>>, <<"frag">>) }
    \cup Pct(<<"frag0">>, <<"Mark">>, <<"frag">>) \cup Pct(<<"frag">>, <<>>, <<"frag">>)

\* What ends an authority, where an absolute URI's path is not marked.
EndUnmarked(s, x, do) ==
    IF x = "rel"
    THEN { Edge(s, {"/"}, do, <<"path">>) } \cup AfterPath(s, do)
    ELSE { Edge(s, {"/"}, do, <<"abspath">>) } \cup AfterPath(s, do \o <<"Path">>)

\* What ends an authority. In "rel" a path follows that nothing stores; in "abs" the
\* path is marked after do, and stored empty if the URI has none.
End(s, x, do) ==
    IF x = "rel"
    THEN { Edge(s, {"/"}, do, <<"path">>) } \cup AfterPath(s, do)
    ELSE { Edge(s, {"/"}, do \o <<"Mark">>, <<"abspath">>) }
         \cup AfterPath(s, do \o <<"Mark", "Path">>)

\* A colon without a port: the mark is the end of what is stored, and is cleared.
EmptyPort(s, x) ==
    IF x = "rel"
    THEN { Edge(s, {"/"}, <<"Mark", "Port">>, <<"path">>) } \cup AfterPath(s, <<"Mark", "Port">>)
    ELSE { Edge(s, {"/"}, <<"Mark", "Port">>, <<"abspath">>) }
         \cup AfterPath(s, <<"Mark", "Port", "Path">>)

AbsPath ==
    { Edge(<<"abspath">>, Pchar \cup {"/"}, <<>>, <<"abspath">>) }
    \cup AfterPath(<<"abspath">>, <<"Path">>) \cup Pct(<<"abspath">>, <<>>, <<"abspath">>)

\* The authority's first character; what is read may be a user or a host.
Authority(x) ==
    LET s == <<"auth", x>> IN
    { Edge(s, Reg \ Digit, <<"Mark">>, <<"name", x>>),
      Edge(s, {":"}, <<"Mark", "Host">>, <<"user:", x>>),
      Edge(s, {"@"}, <<"Mark", "UserInfo">>, <<"host", x>>),
      Edge(s, {"["}, <<"Mark">>, Lit!Open(x)) }
    \cup End(s, x, <<"Mark", "Host">>) \cup Pct(s, <<"Mark">>, <<"name", x>>)

Name(x) ==
    LET s == <<"name", x>> IN
    { Edge(s, Reg, <<>>, s),
      Edge(s, {":"}, <<"Host">>, <<"user:", x>>),
      Edge(s, {"@"}, <<"UserInfo">>, <<"host", x>>) }
    \cup End(s, x, <<"Host">>) \cup Pct(s, <<>>, s)

\* After the colon: a port, or the rest of the user. A port that is empty when a path
\* begins is marked after the path was, and clears the path's mark.
UserOrPort(x) ==
    LET s == <<"user:", x>> t == <<"userport", x>> u == <<"user", x>> IN
    { Edge(s, Digit, <<"Mark">>, t), Edge(t, Digit, <<>>, t),
      Edge(s, UserInfo \ Digit, <<>>, u), Edge(t, UserInfo \ Digit, <<>>, u),
      Edge(u, UserInfo, <<>>, u) }
    \cup { Edge(v, {"@"}, <<"UserInfo">>, <<"host", x>>) : v \in {s, t, u} }
    \cup UNION { Pct(v, <<>>, u) : v \in {s, t, u} }
    \cup EmptyPort(s, x) \cup End(t, x, <<"Port">>)

\* The host after "@" without its own mark.
HostUnmarked(x) ==
    LET s == <<"host", x>> t == <<"hostname", x>> IN
    { Edge(s, Reg, <<>>, t), Edge(t, Reg, <<>>, t), Edge(t, {":"}, <<"Host">>, <<"port0", x>>) }
    \cup End(s, x, <<"Host">>) \cup End(t, x, <<"Host">>) \cup Pct(t, <<>>, t)

\* After "@".
Host(x) ==
    LET s == <<"host", x>> t == <<"hostname", x>> IN
    { Edge(s, Reg \ Digit, <<"Mark">>, t),
      Edge(s, {":"}, <<"Mark", "Host">>, <<"port0", x>>),
      Edge(s, {"["}, <<"Mark">>, Lit!Open(x)),
      Edge(t, Reg, <<>>, t),
      Edge(t, {":"}, <<"Host">>, <<"port0", x>>) }
    \cup End(s, x, <<"Mark", "Host">>) \cup End(t, x, <<"Host">>)
    \cup Pct(s, <<"Mark">>, t) \cup Pct(t, <<>>, t)

Port(x) ==
    LET s == <<"port0", x>> t == <<"port", x>> c == Lit!Closed(x) IN
    { Edge(s, Digit, <<"Mark">>, t), Edge(t, Digit, <<>>, t),
      Edge(c, {":"}, <<"Host">>, s) }
    \cup EmptyPort(s, x) \cup End(t, x, <<"Port">>) \cup End(c, x, <<"Host">>)

\* A host or user that begins like a dotted quad: q is the state it falls back to.
\* The fourth octet is read as a name.
QuadState(x, q, j, o) == <<"quad", x, q, j, o>>

QuadDigits(x, q, j, o) ==
    { Edge(QuadState(x, q, j, o), {c}, <<>>,
           IF UriOctet(o, c) = "-" THEN <<q, x>> ELSE QuadState(x, q, j, UriOctet(o, c))) :
        c \in Digit }
    \cup { Edge(QuadState(x, q, j, o), {"."}, <<>>,
                IF o = "" \/ j = 3 THEN <<q, x>> ELSE QuadState(x, q, j + 1, "")) }

\* Whatever else leaves a name leaves these states too.
QuadAsName(x, q, s) ==
    { Edge(s, e.on \ (Digit \cup {"."}), e.do, e.to) :
        e \in { f \in Name(x) \cup Host(x) : f.from = <<q, x>> } }

Quad(x, q, first) ==
    { Edge(<<first, x>>, {c}, <<"Mark">>, QuadState(x, q, 1, UriOctet("", c))) : c \in Digit }
    \cup UNION { QuadDigits(x, q, k[1], k[2]) \cup QuadAsName(x, q, QuadState(x, q, k[1], k[2])) :
                    k \in (1..3) \X (UriOctets \cup {""}) }

UserQuadRel == Quad("rel", "name", "auth")
HostQuadRel == Quad("rel", "hostname", "host")
UserQuadAbs == Quad("abs", "name", "auth")
HostQuadAbs == Quad("abs", "hostname", "host")

\* The copy of the authority's states that "scheme://" leads to.
AbsAuthority == Authority("abs")
AbsName == Name("abs")
AbsUserOrPort == UserOrPort("abs")
AbsHost == Host("abs")
AbsPort == Port("abs")

Edges ==
    Start \cup Scheme \cup RelativePath \cup Path \cup Slash \cup Query \cup Fragment
    \cup Authority("rel") \cup Name("rel") \cup UserOrPort("rel") \cup Host("rel") \cup Port("rel")
    \cup AbsAuthority \cup AbsName \cup AbsUserOrPort \cup AbsHost \cup AbsPort \cup AbsPath

\* The digits that begin an authority or a host lead to the dotted quads.
Table ==
    { [e EXCEPT !.on = IF e.from[1] \in {"auth", "host"} THEN @ \ Digit ELSE @] : e \in Edges }
    \cup UserQuadRel \cup HostQuadRel \cup UserQuadAbs \cup HostQuadAbs

From == [s \in { e.from : e \in Table } |-> { e \in Table : e.from = s }]

\* The edges that leave s on c, at most one.
Moves(s, c) ==
    { e \in IF s \in DOMAIN From THEN From[s] ELSE {} : c \in e.on }
    \cup { Edge(s, {c}, <<>>, t) : t \in Lit!Address(s, c, UserInfo) }

\* The actions a state is left with at the end of the input (the eof actions).
Eof(s) ==
    CASE s[1] = "frag0" -> <<"Mark", "Fragment">>
      [] s[1] = "frag"  -> <<"Fragment">>
      [] OTHER -> IF Moves(s, "#") = {} THEN <<>> ELSE (CHOOSE e \in Moves(s, "#") : TRUE).do

Final(s) == s[1] \notin {"%", "%x", "user", "ip6", "ip6:", "ip4", "ipv"}
=============================================================================
