---------------------------- MODULE MCUriExamples ----------------------------
(***************************************************************************)
(* Uri::Create called, in turn, for two URIs that are well-formed: the     *)
(* example at the head of include/net/uri.h, and an authority with one of  *)
(* the compressed IPv6 addresses of RFC 3986, which uri.rl:10 names as its *)
(* grammar.  The letters stand for their classes in UriGrammar.            *)
(***************************************************************************)
EXTENDS UriParser

VARIABLE answers   \* how the calls that have returned ended

\* foo://user@baidu.com:80/over/there?name=ferret#fragment, then //[a::1]
Examples ==
    << [scheme |-> <<"g", "a", ":">>, slashes |-> <<"/", "/">>, user |-> <<"g", "@">>,
        host |-> <<"g", ".", "a">>, port |-> <<":", "9", "0">>, path |-> <<"/", "a", "/", "g">>,
        query |-> <<"?", "a">>, fragment |-> <<"#", "a">>],
       [scheme |-> <<>>, slashes |-> <<"/", "/">>, user |-> <<>>,
        host |-> <<"[", "a", ":", ":", "1", "]">>, port |-> <<>>, path |-> <<>>,
        query |-> <<>>, fragment |-> <<>>] >>

MCExamples == ToSet(Examples)

ExampleInit == answers = <<>> /\ parts = Examples[1] /\ Init

Answer ==
    /\ outcome # "running" /\ Len(answers) < Len(Examples)
    /\ answers' = Append(answers, outcome)
    /\ IF Len(answers') < Len(Examples)
       THEN /\ parts' = Examples[Len(answers') + 1] /\ uriStr' = Written(parts')
            /\ p' = 1 /\ cs' = <<"start">> /\ mark' = Null
            /\ uri' = NothingStored /\ outcome' = "running"
       ELSE UNCHANGED vars

ExampleSpec == ExampleInit /\ [][(Next /\ UNCHANGED answers) \/ Answer]_<<vars, answers>>

\* "Returns a Uri if the string could be parsed, nullptr otherwise" (include/net/uri.h:29):
\* Create returns a Uri for both, and throws for neither.
UrisAreCreated ==
    Len(answers) = Len(Examples) => \A i \in DOMAIN answers : answers[i] = "uri"
=============================================================================
