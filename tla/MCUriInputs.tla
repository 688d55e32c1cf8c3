----------------------------- MODULE MCUriInputs -----------------------------
(***************************************************************************)
(* What UriParser is run on: combinations of the parts below.              *)
(***************************************************************************)
EXTENDS UriGrammar

Users == { <<>>, <<"@">>, <<"g", "@">>, <<"g", ":", "@">>, <<"a", ":", "9", "@">>,
           <<"9", ":", "g", "5", "@">>, <<"1", ".", "2", "@">>, <<"%", "2", "a", "!", "@">> }

Quads == { <<"9", ".", "9", ".", "9", ".", "9">>, <<"2", "5", ".", "1", "9", ".", "2", "5", "5", ".", "1">>,
           <<"2", "5", "9", ".", "1">>, <<"1", ".", ".", "1">> }

Names == { <<>>, <<"g">>, <<"a", "%", "a", "0">>, <<"v", ".", "-">>, <<"1">> }

Groups(n) == FlattenSeq([i \in 1..n |-> <<"a", ":">>])

Literals ==
    { <<"[">> \o a \o <<"]">> : a \in
        { <<":", ":">>, <<":", ":", "9">>, <<":", ":", "1", ".", "1", ".", "1", ".", "1">>,
          Groups(7) \o <<"0">>, Groups(6) \o <<"1", ".", "2", ".", "5", ".", "2", "5">>,
          Groups(6) \o <<":", "a">>, Groups(1) \o <<":">> \o Groups(4) \o <<"1", ".", "1", ".", "1", ".", "1">>,
          Groups(7) \o <<":">>,
          <<"v", "9", ".", "g">> } }

\* Addresses that RFC 3986 does not know: fewer groups than eight without a gap, an octet
\* beyond 255.
Malformed ==
    { <<"[">> \o a \o <<"]">> : a \in
        { <<"9", ":", "9">>, <<":", ":", "2", "5", "9", ".", "1", ".", "1", ".", "1">> } }

\* Addresses that RFC 3986 knows and the grammar does not: a gap behind a group that stands
\* for more than one group. The RFC writes *5( h16 ":" ), up to five, where uri.rl has {5}.
Refused == { <<"[", "a", ":", ":", "1", "]">> }

Paths == { <<>>, <<"/">>, <<"/", "a", "%", "9", "9", "/", "@">>, <<"/", "/", "g">> }
Queries == { <<>>, <<"?">>, <<"?", "a", "?", "/">> }
Fragments == { <<>>, <<"#">>, <<"#", "X", "9">> }
Ports == { <<>>, <<":">>, <<":", "9">>, <<":", "9", "9", "9", "9", "9">> }

MCInputs ==
    { f \in [scheme : { <<>>, <<"a", "9", ":">> },
             slashes : { <<"/", "/">> },
             user : Users, host : Names \cup Quads, port : Ports,
             path : Paths, query : Queries, fragment : { <<>> }] :
        f.query = <<>> \/ (f.path = <<"/">> /\ f.user = <<>>) }
    \cup [scheme : { <<>>, <<"g", ":">> }, slashes : { <<"/", "/">> },
           user : { <<>>, <<"g", "@">> }, host : Literals \cup Malformed \cup Refused, port : Ports,
           path : { <<>>, <<"/">> }, query : { <<>> }, fragment : Fragments]
    \cup [scheme : { <<>>, <<"a", ":">> }, slashes : { <<>> },
           user : { <<>> }, host : { <<>> }, port : { <<>> },
           path : (Paths \ { <<"/", "/", "g">> }) \cup { <<"a", "/", "9">>, <<"9", "@">> },
           query : Queries, fragment : Fragments]
=============================================================================
