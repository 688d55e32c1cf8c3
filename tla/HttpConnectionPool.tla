-------------------------- MODULE HttpConnectionPool --------------------------
(***************************************************************************)
(* HttpConnectionPool (src/net/http/http_connection.cc): callers in        *)
(* different coroutines send requests over connections that are kept open. *)
(* A connection stays in connections_ while it is used, so callers share   *)
(* it.  createTime_ is never set: no connection is ever too old, and       *)
(* maxSize_ and maxRequest_ are not looked at.                             *)
(*                                                                         *)
(* A connection is put at the end of connections_ (emplace_back at :323)   *)
(* without the mutex that the loop of getConnection holds.  A push that is *)
(* overlapped by another access to the list, and any push after it, may    *)
(* link a node that the loop does not come by: it is never erased.         *)
(*                                                                         *)
(* The server answers the requests of a connection in order, late or not   *)
(* at all.  A request is named by its caller and its number.               *)
(***************************************************************************)
EXTENDS Integers, Sequences, SequencesExt, FiniteSets

CONSTANTS
    Callers,
    Connections,   \* the connections there are to create
    NoConnection,  \* nullptr
    MaxRequests    \* bound: requests of one caller

NoConnectionAssumption == NoConnection \notin Connections

VARIABLES
    connections,  \* connections_, in order
    created,      \* the connections that exist or have existed
    connected,    \* those whose socket is open
    requests,     \* what has arrived at the server, by connection
    answers,      \* what has arrived at the client and was not read
    step,         \* where each caller is in doRequest
    connection,   \* what getConnection has returned to it
    number,       \* how many requests it has made
    destroyed,    \* the connections that were erased from connections_
    tornList,         \* whether a push was overlapped by another access to connections_
    shared,       \* the connections that two callers have used at once
    mistaken      \* whether a caller took an answer to another request for its own

poolVars == <<connections, created, connected, requests, answers, step, connection, number,
              destroyed, tornList, shared, mistaken>>

Using(c) == { k \in Callers : connection[k] = c }

PoolTypeOK ==
    /\ connections \in Seq(Connections) /\ IsInjective(connections)
    /\ ToSet(connections) \subseteq created /\ connected \subseteq created
    /\ step \in [Callers -> {"idle", "connect", "push", "send", "recv", "closed"}]
    /\ \A k \in Callers : (connection[k] = NoConnection) = (step[k] \in {"idle", "connect"})
    /\ number \in [Callers -> 0..MaxRequests]
    /\ destroyed \subseteq created /\ shared \subseteq created /\ tornList \in BOOLEAN

PoolInit ==
    /\ connections = <<>> /\ created = {} /\ connected = {}
    /\ requests = [c \in Connections |-> <<>>] /\ answers = [c \in Connections |-> <<>>]
    /\ step = [k \in Callers |-> "idle"]
    /\ connection = [k \in Callers |-> NoConnection]
    /\ number = [k \in Callers |-> 0]
    /\ destroyed = {} /\ tornList = FALSE /\ shared = {} /\ mistaken = {}

Take(k, c) ==
    /\ connection' = [connection EXCEPT ![k] = c]
    /\ step' = [step EXCEPT ![k] = "send"]
    /\ shared' = IF Using(c) = {} THEN shared ELSE shared \cup {c}

\* doRequest returns.
Return(k) ==
    /\ connection' = [connection EXCEPT ![k] = NoConnection]
    /\ step' = [step EXCEPT ![k] = "idle"]
    /\ UNCHANGED shared

\* Another caller is in its emplace_back.
Pushes(k) == \E j \in Callers \ {k} : step[j] = "push"

\* The loop of getConnection, under the mutex: closed connections at the front are
\* erased, and so destroyed; the first open one is returned.
GetConnection(k) ==
    /\ step[k] = "idle" /\ number[k] < MaxRequests
    /\ number' = [number EXCEPT ![k] = @ + 1]
    /\ LET open == { i \in DOMAIN connections : connections[i] \in connected } IN
        IF open = {}
        THEN /\ connections' = <<>>
             /\ step' = [step EXCEPT ![k] = "connect"]
             /\ UNCHANGED <<connection, shared>>
        ELSE LET first == CHOOSE i \in open : \A j \in open : i <= j
             IN /\ connections' = SubSeq(connections, first, Len(connections))
                /\ Take(k, connections[first])
    /\ destroyed' = destroyed \cup (ToSet(connections) \ ToSet(connections'))
    /\ tornList' = (tornList \/ Pushes(k))
    /\ UNCHANGED <<created, connected, requests, answers, mistaken>>

\* The rest of getConnection, without the mutex: a new connection.
Connect(k) ==
    /\ step[k] = "connect" /\ step' = [step EXCEPT ![k] = "push"]
    /\ \E c \in Connections \ created :
        /\ created' = created \cup {c} /\ connected' = connected \cup {c}
        /\ connection' = [connection EXCEPT ![k] = c]
    /\ UNCHANGED <<connections, requests, answers, number, destroyed, tornList, shared, mistaken>>

\* emplace_back, which other callers may overlap.
Push(k) ==
    /\ step[k] = "push" /\ step' = [step EXCEPT ![k] = "send"]
    /\ tornList' = (tornList \/ Pushes(k))
    /\ \/ connections' = Append(connections, connection[k])
       \/ tornList' /\ UNCHANGED connections
    /\ UNCHANGED <<created, connected, requests, answers, connection, number, destroyed, shared,
                   mistaken>>

\* The address cannot be resolved, or nobody accepts.
ConnectFail(k) ==
    /\ step[k] = "connect"
    /\ Return(k)
    /\ UNCHANGED <<connections, created, connected, requests, answers, number, destroyed, tornList,
                   mistaken>>

Send(k) ==
    /\ step[k] = "send" /\ connection[k] \in connected
    /\ requests' = [requests EXCEPT ![connection[k]] = Append(@, <<k, number[k]>>)]
    /\ step' = [step EXCEPT ![k] = "recv"]
    /\ UNCHANGED <<connections, created, connected, answers, connection, number, destroyed,
                   tornList, shared, mistaken>>

\* The write fails: the connection stays as it is. Nothing the server answers can follow.
SendFail(k) ==
    /\ step[k] = "send"
    /\ answers' = [answers EXCEPT ![connection[k]] = <<>>]
    /\ requests' = [requests EXCEPT ![connection[k]] = <<>>]
    /\ Return(k)
    /\ UNCHANGED <<connections, created, connected, number, destroyed, tornList, mistaken>>

\* recvResponse with an answer that has arrived.
RecvResponse(k) ==
    /\ step[k] = "recv" /\ connection[k] \in connected /\ answers[connection[k]] # <<>>
    /\ LET answer == Head(answers[connection[k]]) IN
        mistaken' = IF answer = <<k, number[k]>> THEN mistaken ELSE mistaken \cup {connection[k]}
    /\ answers' = [answers EXCEPT ![connection[k]] = Tail(@)]
    /\ Return(k)
    /\ UNCHANGED <<connections, created, connected, requests, number, destroyed, tornList>>

\* A connection that is left open for the next request.
RecvTimeoutOpen(k) ==
    /\ step[k] = "recv" /\ step' = [step EXCEPT ![k] = "closed"]
    /\ UNCHANGED <<connections, created, connected, requests, answers, connection, number,
                   destroyed, tornList, shared, mistaken>>

\* The receive timeout passes, the peer closes, or another caller has closed the socket:
\* recvResponse closes it.
RecvTimeout(k) ==
    /\ step[k] = "recv" /\ step' = [step EXCEPT ![k] = "closed"]
    /\ connected' = connected \ {connection[k]}
    /\ UNCHANGED <<connections, created, requests, answers, connection, number, destroyed, tornList,
                   shared, mistaken>>

\* The caller asks the socket for its address and returns a timeout. A connection that was
\* destroyed since it was closed is read after it was freed: whatever text that gives, the
\* caller returns, or the program ends here.
ReturnTimeout(k) ==
    /\ step[k] = "closed"
    /\ Return(k)
    /\ UNCHANGED <<connections, created, connected, requests, answers, number, destroyed, tornList,
                   mistaken>>

\* The server answers the oldest request of a connection.
Answer(c) ==
    /\ requests[c] # <<>>
    /\ answers' = [answers EXCEPT ![c] = Append(@, Head(requests[c]))]
    /\ requests' = [requests EXCEPT ![c] = Tail(@)]
    /\ UNCHANGED <<connections, created, connected, step, connection, number, destroyed, tornList,
                   shared, mistaken>>

PoolNext ==
    \/ \E k \in Callers :
        \/ GetConnection(k) \/ Connect(k) \/ Push(k) \/ ConnectFail(k)
        \/ Send(k) \/ SendFail(k) \/ RecvResponse(k) \/ RecvTimeout(k) \/ ReturnTimeout(k)
    \/ \E c \in Connections : Answer(c)

PoolSpec == PoolInit /\ [][PoolNext]_poolVars

-----------------------------------------------------------------------------

\* On a connection that no two callers have used at once, every answer is taken by the
\* request it answers, also after timeouts: an answer that is late is never read by the
\* next request, because the connection it would arrive on has been closed. And nobody sends
\* or receives over a connection that getConnection has destroyed, also when connections_ was
\* torn. A caller that has closed its connection still asks it for its address (:408), and
\* another caller's getConnection (:289) may have destroyed it by then: nothing is said of it.
OwnAnswer ==
    \A c \in created \ shared :
        /\ c \notin mistaken
        /\ \A k \in Using(c) : step[k] # "closed" => c \notin destroyed
=============================================================================
