----------------------------- MODULE Ip6Address -----------------------------
(***************************************************************************)
(* The bracketed addresses of an authority, as the two Ragel machines of   *)
(* the repository read them: uri_parser (src/net/uri.rl.cc) and            *)
(* http_parser (src/net/http/http11_parser.rl.cc).  The generated states   *)
(* of an address are the tuples                                            *)
(*     <<"ip6", x, gap, n, d, o>>                                          *)
(* x: the authority the address belongs to (a machine has several copies   *)
(* of the states); gap: how many groups precede "::", NoGap before it is   *)
(* read; n: groups completed since the bracket or since "::"; d: digits of *)
(* the group being read; o: how far these digits are an octet of a dotted  *)
(* quad, "-" if they are not.                                              *)
(*                                                                         *)
(* The machines differ in After(gap), the numbers of groups they accept    *)
(* after "::", and in the octets.  http11_parser.rl writes 6( h16 ":" )    *)
(* for a repetition, which Ragel reads as the byte 6 before one group:     *)
(* control bytes are left out of the alphabet, and these edges with them.  *)
(***************************************************************************)
EXTENDS Naturals, Sequences, SequencesExt

CONSTANTS After(_),       \* gap -> set of numbers of groups
          Endless,        \* whether the groups before "::" have no limit
          OctetStep(_,_), \* how an octet grows by a digit
          OctetDone       \* the octets that a dot or the bracket may follow

NoGap == 9

Digit == {"0", "1", "2", "5", "9"}
Hex == Digit \cup {"a"}

\* The number that a sequence of digits is.
Value == [c \in Digit |->
            CASE c = "0" -> 0 [] c = "1" -> 1 [] c = "2" -> 2 [] c = "5" -> 5 [] c = "9" -> 9]
Number(digits) == FoldLeft(LAMBDA n, c : 10 * n + Value[c], 0, digits)

Ip6(x, gap, n, d, o) == <<"ip6", x, gap, n, d, o>>
Ip4(x, j, o) == <<"ip4", x, j, o>>
Closed(x) == <<"closed", x>>

\* After "[".
Open(x) == Ip6(x, NoGap, 0, 0, "")

\* Whether another group may come when n are complete.
Room(gap, n) ==
    IF gap = NoGap /\ Endless THEN TRUE ELSE \E t \in After(gap) : t > n

\* A digit of a group (h16): up to four. If two more groups would end the address,
\* the digits may as well be the first octet of a dotted quad.
Group(s, c) ==
    LET quad == s[4] + 2 \in After(s[3]) /\ c \in Digit
    IN {t \in {Ip6(s[2], s[3], s[4], s[5] + 1, IF quad THEN OctetStep(s[6], c) ELSE "-")} :
            c \in Hex /\ s[5] < 4 /\ Room(s[3], s[4])}

\* The colon after a group, if another group or a gap may come.
Colon(s, c) ==
    {t \in {Ip6(s[2], s[3], IF s[4] = 7 THEN 7 ELSE s[4] + 1, 0, "")} :
        /\ c = ":" /\ s[5] > 0
        /\ \/ Room(s[3], s[4] + 1)
           \/ s[3] = NoGap /\ s[4] < 7}

\* "::", after the bracket (in two steps) or after the colon of a group.
Gap(s, c) ==
    {t \in {<<"ip6:", s[2]>>} : c = ":" /\ s = Open(s[2])}
    \cup {t \in {Ip6(s[2], s[4], 0, 0, "")} :
            c = ":" /\ s[3] = NoGap /\ s[5] = 0 /\ s[4] > 0}

\* "]", when the number of groups is one the grammar accepts.
Close(s, c) ==
    {t \in {Closed(s[2])} :
        /\ c = "]"
        /\ \/ s[5] > 0 /\ s[4] + 1 \in After(s[3])
           \/ s[5] = 0 /\ s[4] = 0 /\ s[3] # NoGap /\ 0 \in After(s[3])}

\* The dot that makes the digits read the first octet of a quad; then three more octets.
Quad(s, c) ==
    {t \in {Ip4(s[2], 2, "")} : c = "." /\ s[5] > 0 /\ s[6] \in OctetDone}

Octets(s, c) ==
    {t \in {Ip4(s[2], s[3], OctetStep(s[4], c))} : c \in Digit /\ t[4] # "-"}
    \cup {t \in {Ip4(s[2], s[3] + 1, "")} : c = "." /\ s[4] \in OctetDone /\ s[3] < 4}
    \cup {t \in {Closed(s[2])} : c = "]" /\ s[4] \in OctetDone /\ s[3] = 4}

\* IPvFuture: "v", digits, a dot, and any name.
Future(s, c, name) ==
    {t \in {<<"ipv", s[2], 0>>} : c = "v" /\ s[1] = "ip6" /\ s = Open(s[2])}
    \cup {t \in {<<"ipv", s[2], 1>>} : s[1] = "ipv" /\ s[3] \in {0, 1} /\ c \in Hex}
    \cup {t \in {<<"ipv", s[2], 2>>} : s = <<"ipv", s[2], 1>> /\ c = "."}
    \cup {t \in {<<"ipv", s[2], 3>>} : s[1] = "ipv" /\ s[3] \in {2, 3} /\ c \in name}
    \cup {t \in {Closed(s[2])} : s = <<"ipv", s[2], 3>> /\ c = "]"}

\* The states that follow s on c; name: the characters of IPvFuture.
Address(s, c, name) ==
    CASE s[1] = "ip6"  -> Group(s, c) \cup Colon(s, c) \cup Gap(s, c) \cup Close(s, c)
                            \cup Quad(s, c) \cup Future(s, c, name)
      [] s[1] = "ip6:" -> {t \in {Ip6(s[2], 0, 0, 0, "")} : c = ":"}
      [] s[1] = "ip4"  -> Octets(s, c)
      [] s[1] = "ipv"  -> Future(s, c, name)
      [] OTHER -> {}
=============================================================================
