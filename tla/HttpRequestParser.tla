-------------------------- MODULE HttpRequestParser --------------------------
(***************************************************************************)
(* The parser of HTTP requests: the machine http_parser that Ragel makes   *)
(* of src/net/http/http11_parser.rl, and HttpRequestParser                 *)
(* (src/net/http/http_parser.cc), whose callbacks store what it reports.   *)
(*                                                                         *)
(* A state of the machine is a tuple named after the piece of the grammar  *)
(* it is in.  "uri" is the target of a request, "json" the path of a       *)
(* socket request "@path {...}": the generated machine has a copy of the   *)
(* path's states for each.  An edge does its actions in order.  The        *)
(* characters are one or two of each class that the machine distinguishes. *)
(* Those that have no sign of their own have a name: SP, CR, LF, NUL, and   *)
(* LBR and RBR for the braces.                                             *)
(***************************************************************************)
EXTENDS HttpParser

\* "1" digit{0,2}, "20" digit or "250": in the source 2 and 25 are followed by the
\* bytes 0 to 4 and 0 to 5 where digits were meant.
HttpOctet(o, c) ==
    CASE o = "" -> (CASE c \in {"1", "2"} -> c [] OTHER -> "full")
      [] o = "1" -> "short"
      [] o = "short" -> "full"
      [] o = "2" -> (CASE c = "0" -> "20" [] c = "5" -> "25" [] OTHER -> "-")
      [] o = "20" -> "full"
      [] o = "25" -> IF c = "0" THEN "full" ELSE "-"
      [] OTHER -> "-"

HttpAfter(gap) ==
    CASE gap = 9 -> {}
      [] gap = 0 -> 0..3
      [] gap \in 1..3 -> {}
      [] OTHER -> 7 - gap..3

Lit == INSTANCE Ip6Address WITH After <- HttpAfter, Endless <- TRUE, OctetStep <- HttpOctet,
                                OctetDone <- {"1", "2", "short", "full"}

Digit == Lit!Digit
Hex == Lit!Hex
Upper == {"P", "U", "T", "H"}
Alpha == Upper \cup {"a", "g", "v"}
Schemec == Alpha \cup Digit \cup {"-", "."}
Reg == Schemec \cup {"!"}
UserInfo == Reg \cup {":"}
Pchar == UserInfo \cup {"@", "X"}
Char == Pchar \cup {"/", "?", "#", "[", "]", "%", "SP", "CR", "LF", "NUL", "LBR", "RBR", "<", ">"}

\* A token is everything in ascii but NUL and the separators. CR and LF are among it:
\* "(0 - 31)" in the source is the byte 0 without the byte 31.
Tok == Schemec \cup {"!", "#", "%", "CR", "LF"}

\* "%" xdigit xdigit, then back to t.
Pct(s, do, t) ==
    { Edge(s, {"%"}, do, <<"%", t>>),
      Edge(<<"%", t>>, Hex, <<>>, <<"%x", t>>),
      Edge(<<"%x", t>>, Hex, <<>>, t) }

\* What ends a path; do comes first.
EndPath(s, x, do) ==
    IF x = "json"
    THEN { Edge(s, {"SP"}, do \o <<"Path">>, <<"json0">>) }
    ELSE { Edge(s, {"SP"}, do \o <<"Path", "Uri">>, <<"version", 0>>),
           Edge(s, {"#"}, do \o <<"Path", "Uri">>, <<"frag0">>),
           Edge(s, {"?"}, do \o <<"Path">>, <<"query0">>) }

\* The first character tells a request from the two socket requests.
Method ==
    { Edge(<<"start">>, Upper \cup Digit, <<"Mark">>, <<"method", 1>>),
      Edge(<<"start">>, {"<"}, <<"Mark">>, <<"xml0">>),
      Edge(<<"start">>, {"@"}, <<"Mark">>, <<"target", "json">>) }
    \cup { Edge(<<"method", k>>, Upper \cup Digit, <<>>, <<"method", k + 1>>) : k \in 1..19 }
    \cup { Edge(<<"method", k>>, {"SP"}, <<"Method">>, <<"target", "uri">>) : k \in 1..20 }

\* The first character of a target. Only a request's may have a scheme, and only it
\* marks the beginning.
Target ==
    LET s == <<"target", "uri">> IN
    { Edge(s, {"/"}, <<"Mark">>, <<"slash", "uri">>),
      Edge(s, Alpha, <<"Mark">>, <<"scheme">>),
      Edge(s, (Reg \cup {"@"}) \ Alpha, <<"Mark">>, <<"rel", "uri">>) }
    \cup EndPath(s, "uri", <<"Mark">>) \cup Pct(s, <<"Mark">>, <<"rel", "uri">>)

SocketTarget ==
    LET s == <<"target", "json">> IN
    { Edge(s, {"/"}, <<>>, <<"slash", "json">>),
      Edge(s, Reg \cup {"@"}, <<>>, <<"rel", "json">>) }
    \cup EndPath(s, "json", <<>>) \cup Pct(s, <<>>, <<"rel", "json">>)

\* A first segment without a colon.
RelativePath(x) ==
    LET s == <<"rel", x>> IN
    { Edge(s, Reg \cup {"@"}, <<>>, s), Edge(s, {"/"}, <<>>, <<"path", x>>) }
    \cup EndPath(s, x, <<>>) \cup Pct(s, <<>>, s)

Path(x) ==
    LET s == <<"path", x>> IN
    { Edge(s, Pchar \cup {"/"}, <<>>, s) } \cup EndPath(s, x, <<>>) \cup Pct(s, <<>>, s)

\* A slash; another one begins an authority.
Slash(x) ==
    LET s == <<"slash", x>> IN
    { Edge(s, Pchar, <<>>, <<"path", x>>), Edge(s, {"/"}, <<>>, <<"auth", x>>) }
    \cup EndPath(s, x, <<>>) \cup Pct(s, <<>>, <<"path", x>>)

\* A first segment that may be a scheme; what follows the scheme is marked anew.
Scheme ==
    LET s == <<"scheme">> c == <<"colon">> IN
    { Edge(s, Schemec, <<>>, s),
      Edge(s, (Reg \cup {"@"}) \ Schemec, <<>>, <<"rel", "uri">>),
      Edge(s, {"/"}, <<>>, <<"path", "uri">>),
      Edge(s, {":"}, <<>>, c),
      Edge(c, {"/"}, <<"Mark">>, <<"slash", "uri">>),
      Edge(c, Pchar, <<"Mark">>, <<"path", "uri">>) }
    \cup EndPath(s, "uri", <<>>) \cup EndPath(c, "uri", <<"Mark">>)
    \cup Pct(s, <<>>, <<"rel", "uri">>) \cup Pct(c, <<"Mark">>, <<"path", "uri">>)

\* The authority's parts are read but not stored.
AuthorityFrom(s, x) ==
    { Edge(s, Reg, <<>>, <<"name", x>>), Edge(s, {":"}, <<>>, <<"user:", x>>),
      Edge(s, {"@"}, <<>>, <<"host", x>>), Edge(s, {"/"}, <<>>, <<"path", x>>) }
    \cup EndPath(s, x, <<>>) \cup Pct(s, <<>>, <<"name", x>>)

Authority(x) ==
    AuthorityFrom(<<"auth", x>>, x) \cup AuthorityFrom(<<"name", x>>, x)
    \cup { Edge(<<"auth", x>>, {"["}, <<>>, Lit!Open(x)) }

UserOrPort(x) ==
    LET s == <<"user:", x>> u == <<"user", x>> IN
    { Edge(s, Digit, <<>>, s), Edge(s, UserInfo \ Digit, <<>>, u), Edge(u, UserInfo, <<>>, u),
      Edge(s, {"@"}, <<>>, <<"host", x>>), Edge(u, {"@"}, <<>>, <<"host", x>>),
      Edge(s, {"/"}, <<>>, <<"path", x>>) }
    \cup EndPath(s, x, <<>>) \cup Pct(s, <<>>, u) \cup Pct(u, <<>>, u)

HostFrom(s, x) ==
    { Edge(s, Reg, <<>>, <<"hostname", x>>), Edge(s, {":"}, <<>>, <<"port", x>>),
      Edge(s, {"/"}, <<>>, <<"path", x>>) }
    \cup EndPath(s, x, <<>>) \cup Pct(s, <<>>, <<"hostname", x>>)

Host(x) ==
    HostFrom(<<"host", x>>, x) \cup HostFrom(<<"hostname", x>>, x)
    \cup { Edge(<<"host", x>>, {"["}, <<>>, Lit!Open(x)) }

Port(x) ==
    { Edge(<<"port", x>>, Digit, <<>>, <<"port", x>>), Edge(Lit!Closed(x), {":"}, <<>>, <<"port", x>>) }
    \cup UNION { { Edge(s, {"/"}, <<>>, <<"path", x>>) } \cup EndPath(s, x, <<>>) :
                    s \in {<<"port", x>>, Lit!Closed(x)} }

\* s: the state at the first character and the state behind it, which does nothing first.
QueryFrom(s, do) ==
    { Edge(s, Pchar \cup {"/", "?"}, do, <<"query">>),
      Edge(s, {"SP"}, do \o <<"Query", "Uri">>, <<"version", 0>>),
      Edge(s, {"#"}, do \o <<"Query", "Uri">>, <<"frag0">>) }
    \cup Pct(s, do, <<"query">>)

Query == QueryFrom(<<"query0">>, <<"StartQuery">>) \cup QueryFrom(<<"query">>, <<>>)

FragmentFrom(s, do) ==
    { Edge(s, Pchar \cup {"/", "?"}, do, <<"frag">>),
      Edge(s, {"SP"}, do \o <<"Fragment">>, <<"version", 0>>) }
    \cup Pct(s, do, <<"frag">>)

Fragment == FragmentFrom(<<"frag0">>, <<"Mark">>) \cup FragmentFrom(<<"frag">>, <<>>)

HTTP1 == <<"H", "T", "T", "P", "/", "1", ".">>

Version ==
    { Edge(<<"version", k - 1>>, {HTTP1[k]}, IF k = 1 THEN <<"Mark">> ELSE <<>>, <<"version", k>>) :
        k \in 1..7 }
    \cup { Edge(<<"version", 7>>, {"0", "1"}, <<>>, <<"version", 8>>),
           Edge(<<"version", 8>>, {"LF"}, <<"Version">>, <<"line">>),
           Edge(<<"version", 8>>, {"CR"}, <<"Version">>, <<"cr">>) }

\* A header line, or the blank line that ends the headers. A line without a colon
\* takes the lines after it into the field's name, the blank line too.
Header ==
    LET blank == {"CR", "LF"} IN
    { Edge(<<"line">>, Tok \ blank, <<"StartField">>, <<"field">>),
      Edge(<<"line">>, {"CR"}, <<"StartField">>, <<"line-cr">>),
      Edge(<<"line">>, {"LF"}, <<"StartField", "Done">>, <<"done">>),
      Edge(<<"line-cr">>, {"LF"}, <<"Done">>, <<"done">>),
      Edge(<<"line-cr">>, Tok \ {"LF"}, <<>>, <<"field">>),
      Edge(<<"field">>, Tok, <<>>, <<"field">>),
      Edge(<<"cr">>, {"LF"}, <<>>, <<"line">>) }
    \cup { Edge(s, {":"}, <<"WriteField">>, <<"value0">>) : s \in {<<"field">>, <<"line-cr">>} }

ValueFrom(s, do) ==
    { Edge(s, {"LF"}, do \o <<"WriteValue">>, <<"line">>),
      Edge(s, {"CR"}, do \o <<"WriteValue">>, <<"cr">>),
      Edge(s, Char \ {"NUL", "SP", "CR", "LF"}, do, <<"value">>) }

Value ==
    ValueFrom(<<"value0">>, <<"Mark">>) \cup ValueFrom(<<"value">>, <<>>)
    \cup { Edge(<<"value0">>, {"SP"}, <<"Mark">>, <<"value0">>),
           Edge(<<"value">>, {"SP"}, <<>>, <<"value">>) }

\* "<name ...>" NUL
Xml ==
    LET name == Schemec IN
    { Edge(<<"xml0">>, name, <<>>, <<"xmlname">>),
      Edge(<<"xmlname">>, name, <<>>, <<"xmlname">>),
      Edge(<<"xmlname">>, {"SP", "/", ">", "CR", "LF"}, <<"Path">>, <<"xml">>),
      Edge(<<"xml">>, Char \ {">"}, <<>>, <<"xml">>),
      Edge(<<"xml">>, {">"}, <<>>, <<"xml>">>),
      Edge(<<"xml>">>, Char \ {">", "NUL"}, <<>>, <<"xml">>),
      Edge(<<"xml>">>, {">"}, <<>>, <<"xml>">>),
      Edge(<<"xml>">>, {"NUL"}, <<"Xml", "Done">>, <<"done">>) }

\* "@path {...}" NUL
Json ==
    { Edge(<<"json0">>, {"LBR"}, <<"Mark">>, <<"json">>),
      Edge(<<"json">>, Char \ {"RBR"}, <<>>, <<"json">>),
      Edge(<<"json">>, {"RBR"}, <<>>, <<"json>">>),
      Edge(<<"json>">>, Char \ {"RBR", "NUL"}, <<>>, <<"json">>),
      Edge(<<"json>">>, {"RBR"}, <<>>, <<"json>">>),
      Edge(<<"json>">>, {"NUL"}, <<"Json", "Done">>, <<"done">>) }

\* The copy of the path's states for a socket request.
SocketPath ==
    RelativePath("json") \cup Path("json") \cup Slash("json")
SocketAuthority == Authority("json")
SocketUser == UserOrPort("json")
SocketHost == Host("json") \cup Port("json")

Table ==
    Method \cup Target \cup SocketTarget \cup Scheme \cup Query \cup Fragment \cup Version \cup Header
    \cup Value \cup Xml \cup Json \cup SocketPath \cup SocketAuthority \cup SocketUser
    \cup SocketHost \cup RelativePath("uri") \cup Path("uri") \cup Slash("uri") \cup Authority("uri")
    \cup UserOrPort("uri") \cup Host("uri") \cup Port("uri")

From == [s \in { e.from : e \in Table } |-> { e \in Table : e.from = s }]

\* The edges that leave s on c, at most one.
Moves(s, c) ==
    { e \in IF s \in DOMAIN From THEN From[s] ELSE {} : c \in e.on }
    \cup { Edge(s, {c}, <<>>, t) : t \in Lit!Address(s, c, UserInfo) }

-----------------------------------------------------------------------------

\* The first of HTTP_METHOD_MAP, and those that begin with a letter of Upper, in its order.
Methods ==
    << <<"D", "E", "L", "E", "T", "E">>, <<"H", "E", "A", "D">>, <<"P", "O", "S", "T">>,
       <<"P", "U", "T">>, <<"T", "R", "A", "C", "E">>, <<"P", "A", "T", "C", "H">>,
       <<"P", "U", "R", "G", "E">>, <<"U", "N", "L", "I", "N", "K">> >>

InvalidMethod == <<>>

\* The first method that begins with text, the invalid one if there is none:
\* strncasecmp compares no more characters than text has.
String2HttpMethod(text) ==
    LET same == { i \in DOMAIN Methods : IsPrefix(text, Methods[i]) }
    IN IF same = {} THEN InvalidMethod ELSE Methods[Min(same)]

\* A new parser with its HttpRequest; <<>> stands for the method and version a request
\* has by default. queryStart is not initialised before it is set.
HttpRequestParserNew ==
    [cs |-> <<"start">>, queryStart |-> 0, error |-> FALSE, undefined |-> FALSE,
     request |-> [method |-> <<>>, path |-> <<"/">>, query |-> <<>>, fragment |-> <<>>,
                  version |-> <<>>, headers |-> NoHeaders, body |-> <<>>]]

OnRequestMethod(r) ==
    LET method == String2HttpMethod(Text(r, r.mark)) IN
    IF method = InvalidMethod THEN [r EXCEPT !.error = TRUE] ELSE [r EXCEPT !.request.method = method]

OnRequestPath(r) == [r EXCEPT !.request.path = Text(r, r.mark)]

OnRequestFragment(r) == [r EXCEPT !.request.fragment = Text(r, r.mark)]

\* A negative length makes a view of the whole address space.
OnRequestQuery(r) ==
    IF r.queryStart > r.p THEN [r EXCEPT !.undefined = TRUE]
    ELSE [r EXCEPT !.request.query = Text(r, r.queryStart)]

\* "HTTP/1." is compared for as many characters as there are, less the last.
OnRequestVersion(r) ==
    LET text == Text(r, r.mark) IN
    IF text # <<>> /\ IsPrefix(Front(text), HTTP1) /\ Last(text) \in {"0", "1"}
    THEN [r EXCEPT !.request.version = <<Last(text)>>]
    ELSE [r EXCEPT !.error = TRUE]

OnRequestHttpField(r) ==
    LET name == SubSeq(r.buf, r.fieldStart + 1, r.fieldStart + r.fieldLen) IN
    IF name = <<>> THEN r
    ELSE [r EXCEPT !.request.headers =
             [n \in DOMAIN @ \cup {name} |-> IF n = name THEN Text(r, r.mark) ELSE @[n]]]

Do(r, act) ==
    CASE act = "Mark" -> [r EXCEPT !.mark = r.p]
      [] act = "StartField" -> [r EXCEPT !.fieldStart = r.p]
      [] act = "WriteField" -> [r EXCEPT !.fieldLen = r.p - r.fieldStart]
      [] act = "StartQuery" -> [r EXCEPT !.queryStart = r.p]
      [] act = "Method" -> OnRequestMethod(r)
      [] act = "Path" -> OnRequestPath(r)
      [] act = "Query" -> OnRequestQuery(r)
      [] act = "Fragment" -> OnRequestFragment(r)
      [] act = "Version" -> OnRequestVersion(r)
      [] act = "WriteValue" -> OnRequestHttpField(r)
      [] act = "Done" -> [r EXCEPT !.stop = TRUE]
      [] act \in {"Uri", "Xml", "Json"} -> r

\* One character. Done leaves the loop after it, an error before it.
Step(r, c) ==
    IF r.stop THEN r
    ELSE LET m == Moves(r.cs, c) IN
         IF m = {} THEN [r EXCEPT !.cs = <<"error">>, !.error = TRUE, !.stop = TRUE]
         ELSE LET e == CHOOSE e \in m : TRUE
                  d == FoldLeft(Do, r, e.do)
              IN [d EXCEPT !.cs = e.to, !.p = d.p + 1]

\* HttpRequestParser::execute: the marks begin at 0 in every call, what they meant in the
\* buffer of the call before is forgotten; p is what the call has parsed.
Execute(parser, buffer) ==
    LET begin == [cs |-> parser.cs, queryStart |-> parser.queryStart, error |-> parser.error,
                  undefined |-> parser.undefined, request |-> parser.request,
                  buf |-> buffer, p |-> 0, mark |-> 0, fieldStart |-> 0, fieldLen |-> 0,
                  stop |-> FALSE]
        run[i \in 0..Len(buffer)] ==
            IF i = 0 THEN begin ELSE CHOOSE t \in { Step(r, buffer[i]) : r \in {run[i - 1]} } : TRUE
    IN run[Len(buffer)]

Parser(r) == [cs |-> r.cs, queryStart |-> r.queryStart, error |-> r.error,
              undefined |-> r.undefined, request |-> r.request]

IsFinished(parser) == parser.cs = <<"done">>

\* Where a buffer may end and nothing that has begun is forgotten: before a mark.
BetweenTokens(cs) ==
    cs \in { <<"start">>, <<"target", "uri">>, <<"query0">>, <<"frag0">>, <<"version", 0>>,
             <<"cr">>, <<"line">>, <<"line-cr">>, <<"done">> }

ContentLength == <<"g", "-", "g">>
Connection == <<"a", "-", "a">>
KeepAlive == <<"v", "-", "v">>

\* getHeaderAs<size_t>: 0 if the header is missing or not a number.
GetContentLength(request) ==
    LET value == GetHeader(request, ContentLength, <<>>) IN
    IF value = <<>> \/ ~(ToSet(value) \subseteq Digit) THEN 0
    ELSE Lit!Number(value)
=============================================================================
