----------------------------- MODULE MCHttpPlans -----------------------------
(***************************************************************************)
(* What the clients of HttpSession send: one or two requests.              *)
(***************************************************************************)
EXTENDS HttpRequestParser

Plain ==
    [kind |-> "http", ok |-> TRUE, method |-> <<"P", "U", "T">>, scheme |-> <<>>, path |-> <<"/", "a">>,
     query |-> <<>>, fragment |-> <<>>, version |-> <<"1">>, headers |-> <<>>, body |-> <<>>,
     eol |-> <<"CR", "LF">>]

Alive == <<Connection, KeepAlive>>

\* Two requests on a connection, with and without a body.
Short == [Plain EXCEPT !.headers = <<Alive>>, !.eol = <<"LF">>, !.path = <<"/">>]
Post == [Short EXCEPT !.headers = <<Alive, <<ContentLength, <<"2">>>>>>, !.body = <<"P", "SP">>]

Targets ==
    { [Plain EXCEPT !.method = <<"P">>] }
    \cup { [Plain EXCEPT !.path = t] : t \in
        { <<"g", "/", "a">>, <<"9", "@">>, <<"/", "/", "g", ":", "9", "@", "a", ":", "5", "/", "a">>,
          <<"/", "/", "a", "%", "9", "a", ":", "g", "@", "[", ":", ":", "1", "]", "/">>,
          <<"/", "/", "[", "v", "1", ".", "g", "]", ":", "9">>,
          <<"/", "/", "[", ":", ":", "9", ".", "1", "0", ".", "2", "5", "0", ".", "1", "]">> } }
    \cup { [Plain EXCEPT !.scheme = <<"g", "9", ":">>, !.path = t] : t \in { <<"/", "/", "a", "/">>, <<"a">> } }
    \cup { [Plain EXCEPT !.query = q, !.fragment = f] :
            q \in { <<"?">>, <<"?", "a", "/", "?">>, <<>> }, f \in { <<>>, <<"#">>, <<"#", "X", "a">> } }

Heads ==
    { [Plain EXCEPT !.version = <<"0">>, !.headers = h] : h \in
        { << <<<<"a", "#">>, <<>>>>, <<<<"a", "#">>, <<"/", ":", "SP">>>> >>,
          << <<<<"T">>, <<"X">>>>, Alive >> } }

Sockets ==
    { [Plain EXCEPT !.kind = "json", !.method = <<>>, !.version = <<>>, !.path = <<"@", "/", "g">>,
                    !.body = <<"SP", "LBR", "RBR", "a", "RBR", "NUL">>],
      [Plain EXCEPT !.kind = "json", !.method = <<>>, !.version = <<>>,
                    !.path = <<"@", "/", "/", "a", ":", "9">>, !.body = <<"SP", "LBR", "RBR", "NUL">>],
      [Plain EXCEPT !.kind = "xml", !.method = <<>>, !.version = <<>>, !.path = <<"<", "g", "-">>,
                    !.body = <<"SP", ">", ">", "a", ">", "NUL">>] }

\* No such method; a group of an address without its gap; a header line without a colon,
\* alone and before one with a colon; a space in the target.
Bad ==
    { [Plain EXCEPT !.ok = FALSE, !.method = <<"U", "T">>],
      [Plain EXCEPT !.ok = FALSE, !.path = <<"/", "/", "[", "a", "]">>],
      [Plain EXCEPT !.ok = FALSE, !.path = <<"/", "SP", "a">>],
      [Plain EXCEPT !.ok = FALSE, !.version = <<"2">>],
      [Plain EXCEPT !.ok = FALSE, !.body = <<"g", "CR", "LF", "CR", "LF">>, !.eol = <<"LF">>, !.headers = <<>>,
                    !.version = <<"1", "LF", "g">>] }

MCPlans ==
    { <<r>> : r \in Targets \cup Heads \cup Sockets \cup Bad }
    \cup { <<Short, Plain>>, <<Post, Short>>, <<Post, Post>>, <<Plain, Short>> }

MCServlets == { <<"/", "a">> }
MCGlobServlets == { <<"/", "g">> }
=============================================================================
