----------------------------- MODULE HttpParser -----------------------------
(***************************************************************************)
(* What the parsers of requests and of responses share: the edges of their *)
(* machines, the text behind a mark, and the headers of a message.         *)
(***************************************************************************)
EXTENDS Sequences, SequencesExt, FiniteSets, Integers

\* On a character of on the machine goes from s to t and runs the actions do.
Edge(s, on, do, t) == [from |-> s, on |-> on, do |-> do, to |-> t]

\* What lies between a mark and the current character, in the buffer of this call.
Text(r, from) == SubSeq(r.buf, from + 1, r.p)

NoHeaders == [name \in {} |-> <<>>]

GetHeader(message, name, default) ==
    IF name \in DOMAIN message.headers THEN message.headers[name] ELSE default
=============================================================================
