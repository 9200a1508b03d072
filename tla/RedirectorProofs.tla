-------------------------- MODULE RedirectorProofs --------------------------
(***************************************************************************)
(* Proofs about Redirector for any sockets, addresses, ports, endpoints    *)
(* and map sizes.                                                          *)
(*                                                                         *)
(* The inductive invariant has four parts.  TypeOK, Sane and Ported hold   *)
(* in general: Sane says what a socket's state implies about its record,   *)
(* Ported that ports, and the pointers of a query that nothing has         *)
(* refilled, lead only to sockets that have the port.                      *)
(* Linked holds when a port identifies a connection (Undisturbed): it ties *)
(* the two maps to the connections that wait for their query.              *)
(***************************************************************************)
EXTENDS Redirector, TLAPS

\* What run() has done by the time it serves.
Booted ==
  /\ stage \in {"getsockopt", "listening", "serving"} =>
       "getsockopt" \in attached
  /\ stage = "serving" => map_config = ProxyConfig

\* A socket that has not connected is in no map and has no destination; one
\* that has connected has an address, a port and a destination; the proxy
\* has nothing to do with a connection before it is established.
Phases ==
  \A s \in Sock :
    /\ sockState[s] = "new" => map_socks[s] = NoDst /\ orig[s] = NoDst
    /\ sockState[s] # "new" =>
         orig[s] \in Dst /\ src_addr[s] \in Addr /\ src_port[s] \in Port
    /\ sockState[s] \in {"new", "syn"} => srv[s] = "none" /\ ~ known[s]
    /\ srv[s] \in {"none", "pending", "cookie", "sock"} => target[s] = NoDst

\* What map_socks holds for a cookie is the destination of that socket, and
\* the socket was redirected.
Recorded ==
  \A s \in Sock :
    map_socks[s] # NoDst =>
      map_socks[s] = orig[s] /\ peer[s] \in {ProxyEndpoint, ZeroEndpoint}

\* No two live connections have the same endpoints.
TuplesDistinct ==
  \A s, t \in Sock :
    s # t /\ Live(s) /\ Live(t) /\ peer[s] = peer[t] =>
      ~ (src_addr[s] = src_addr[t] /\ src_port[s] = src_port[t])

Sane == Booted /\ Phases /\ Recorded /\ TuplesDistinct /\ NoSelfProxy

\* An element of map_ports names a socket that connected from that port,
\* whether or not that connection is still there.
PortsOwned ==
  \A p \in Port :
    map_ports[p] # NoSock =>
      sockState[map_ports[p]] # "new" /\ src_port[map_ports[p]] = p

\* What the two pointers of a running query see: some socket's cookie and
\* destination, and as long as nothing was refilled under the query those of
\* a socket with the port asked for.
PointersOwned ==
  \A s \in Sock :
    /\ srv[s] \in Running =>
         cookieAt[s] \in Sock /\ sockState[cookieAt[s]] # "new"
    /\ srv[s] = "sock" => sockAt[s] \in Sock /\ sockState[sockAt[s]] # "new"
    /\ srv[s] = "cookie" /\ ~ misled[s] =>
         src_port[cookieAt[s]] = src_port[s]
    /\ srv[s] = "sock" /\ ~ misled[s] => src_port[sockAt[s]] = src_port[s]

\* An answer is the destination of some socket that has connected.
AnswerSomeones ==
  \A s \in Sock :
    srv[s] \in Answered /\ target[s] # NoDst =>
      \E t \in Sock : sockState[t] # "new" /\ orig[t] = target[s]

Ported == PortsOwned /\ PointersOwned /\ AnswerSomeones /\ AnswerSharesPort

\* A connection that waits for its query, or whose query is running, is
\* established with the proxy, and the query works on its own elements.
Waiting ==
  \A s \in Sock :
    /\ srv[s] \in Asking => sockState[s] = "est" /\ peer[s] = ProxyEndpoint
    /\ srv[s] \in Running => cookieAt[s] = s /\ known[s]
    /\ srv[s] = "sock" => sockAt[s] = s

\* An element of map_ports belongs to a recorded connection that waits and
\* has that port.
PortsPending ==
  \A p \in Port :
    map_ports[p] # NoSock =>
      /\ src_port[map_ports[p]] = p
      /\ srv[map_ports[p]] \in Asking \ {"deleting"}
      /\ known[map_ports[p]]

\* A recorded connection keeps both elements until its query deletes them.
RecordedPending ==
  \A s \in Sock :
    srv[s] \in Asking /\ known[s] =>
      /\ srv[s] # "deleting" => map_ports[src_port[s]] = s
      /\ map_socks[s] = orig[s]

\* The answer to a query.
AnswerRight ==
  \A s \in Sock :
    srv[s] \in Answered => target[s] = IF known[s] THEN orig[s] ELSE NoDst

\* The cookie of a recorded connection is gone after its query.
CookiesGone ==
  \A s \in Sock : map_socks[s] # NoDst /\ known[s] => srv[s] \in Asking

Linked ==
  Waiting /\ PortsPending /\ RecordedPending /\ AnswerRight /\ CookiesGone

Inv == TypeOK /\ Sane /\ Ported /\ (Undisturbed => Linked)

-----------------------------------------------------------------------------
\* What an insertion into map_socks does to the pointers of other queries.
LEMMA SocksRefilled ==
  ASSUME TypeOK, NEW s \in Sock, NEW d \in Dst, RefillSocks(s, d)
  PROVE  /\ sockAt' \in [Sock -> Sock \cup {NoSock}]
         /\ misled' \in [Sock -> BOOLEAN]
         /\ \A t \in Sock :
              \/ sockAt'[t] = sockAt[t] /\ misled'[t] = misled[t]
              \/ sockAt'[t] = s /\ misled'[t] /\ srv[t] = "sock"
<1>1. CASE UNCHANGED <<sockAt, misled>>
  BY <1>1 DEF TypeOK
<1>2. CASE ~ UNCHANGED <<sockAt, misled>>
  <2>1. PICK old :
          LET hit == {q \in Sock : srv[q] = "sock" /\ sockAt[q] \in old}
          IN /\ sockAt' = [q \in Sock |-> IF q \in hit THEN s ELSE sockAt[q]]
             /\ misled' = [q \in Sock |-> misled[q] \/ q \in hit]
    BY <1>2 DEF RefillSocks
  <2> DEFINE hit == {q \in Sock : srv[q] = "sock" /\ sockAt[q] \in old}
  <2>2. sockAt' = [q \in Sock |-> IF q \in hit THEN s ELSE sockAt[q]]
    BY <2>1
  <2>3. misled' = [q \in Sock |-> misled[q] \/ q \in hit]
    BY <2>1
  <2>4. \A q \in hit : q \in Sock /\ srv[q] = "sock"
    OBVIOUS
  <2> HIDE DEF hit
  <2>5. misled' \in [Sock -> BOOLEAN]
    BY <2>3, Zenon DEF TypeOK
  <2>6. \A t \in Sock : misled'[t] <=> misled[t] \/ t \in hit
    BY <2>3
  <2>7. \A t \in Sock : misled[t] \in BOOLEAN /\ misled'[t] \in BOOLEAN
    BY <2>5 DEF TypeOK
  <2>8. sockAt' \in [Sock -> Sock \cup {NoSock}]
    BY <2>2 DEF TypeOK
  <2>9. ASSUME NEW t \in Sock, t \notin hit
        PROVE  sockAt'[t] = sockAt[t] /\ misled'[t] = misled[t]
    <3>1. misled'[t] <=> misled[t]
      BY <2>6, <2>9
    <3>. QED
      BY <2>2, <2>7, <2>9, <3>1
  <2>10. ASSUME NEW t \in Sock, t \in hit
         PROVE  sockAt'[t] = s /\ misled'[t] /\ srv[t] = "sock"
    BY <2>2, <2>4, <2>6, <2>10
  <2>. QED
    BY <2>5, <2>8, <2>9, <2>10
<1>. QED
  BY <1>1, <1>2

\* What an insertion into map_ports does to the pointers of other queries.
LEMMA PortsRefilled ==
  ASSUME TypeOK, NEW s \in Sock, RefillPorts(s)
  PROVE  /\ cookieAt' \in [Sock -> Sock \cup {NoSock}]
         /\ misled' \in [Sock -> BOOLEAN]
         /\ \A t \in Sock :
              \/ cookieAt'[t] = cookieAt[t] /\ misled'[t] = misled[t]
              \/ cookieAt'[t] = s /\ (srv[t] = "cookie" => misled'[t])
                   /\ (misled[t] => misled'[t])
<1>1. CASE UNCHANGED <<cookieAt, misled>>
  BY <1>1 DEF TypeOK
<1>2. CASE ~ UNCHANGED <<cookieAt, misled>>
  <2>1. PICK old :
          LET hit == {q \in Sock : srv[q] \in Running /\ cookieAt[q] \in old}
          IN /\ cookieAt' = [q \in Sock |-> IF q \in hit THEN s ELSE cookieAt[q]]
             /\ misled' = [q \in Sock |->
                  misled[q] \/ (q \in hit /\ srv[q] = "cookie")]
    BY <1>2 DEF RefillPorts
  <2> DEFINE hit == {q \in Sock : srv[q] \in Running /\ cookieAt[q] \in old}
  <2>2. cookieAt' = [q \in Sock |-> IF q \in hit THEN s ELSE cookieAt[q]]
    BY <2>1
  <2>3. misled' = [q \in Sock |->
                    misled[q] \/ (q \in hit /\ srv[q] = "cookie")]
    BY <2>1
  <2> HIDE DEF hit
  <2>4. misled' \in [Sock -> BOOLEAN]
    BY <2>3, Zenon DEF TypeOK
  <2>5. \A t \in Sock : misled'[t] <=> misled[t] \/ (t \in hit /\ srv[t] = "cookie")
    BY <2>3
  <2>6. \A t \in Sock : misled[t] \in BOOLEAN /\ misled'[t] \in BOOLEAN
    BY <2>4 DEF TypeOK
  <2>7. cookieAt' \in [Sock -> Sock \cup {NoSock}]
    BY <2>2 DEF TypeOK
  <2>8. ASSUME NEW t \in Sock, t \notin hit
        PROVE  cookieAt'[t] = cookieAt[t] /\ misled'[t] = misled[t]
    <3>1. misled'[t] <=> misled[t]
      BY <2>5, <2>8
    <3>. QED
      BY <2>2, <2>6, <2>8, <3>1
  <2>9. ASSUME NEW t \in Sock, t \in hit
        PROVE  /\ cookieAt'[t] = s
               /\ srv[t] = "cookie" => misled'[t]
               /\ misled[t] => misled'[t]
    BY <2>2, <2>5, <2>9
  <2>. QED
    BY <2>4, <2>7, <2>8, <2>9
<1>. QED
  BY <1>1, <1>2

-----------------------------------------------------------------------------
\* Every step keeps the types; Sane and Ported are needed because a query
\* indexes map_ports with the port of a connected socket and reads through
\* its pointers.
LEMMA TypeStep == TypeOK /\ Sane /\ Ported /\ Next => TypeOK'
<1> SUFFICES ASSUME TypeOK, Sane, Ported, Next PROVE TypeOK'
  OBVIOUS
<1> USE SocketAssumption, EndpointAssumption
<1>1. CASE AttachConnect4 \/ AttachSockOps \/ AttachGetsockopt
  BY <1>1 DEF TypeOK, AttachConnect4, AttachSockOps, AttachGetsockopt,
              AttachStep, Stages, Hooks, mapVars, tcpVars, askVars,
              ptrVars
<1>2. CASE Listen \/ UpdateConfig \/ Restart
  BY <1>2 DEF TypeOK, Listen, UpdateConfig, Restart, Stages, mapVars, tcpVars,
              askVars, ptrVars
<1>3. CASE Exit
  BY <1>3 DEF TypeOK, Exit, Stages, EmptySocks, EmptyPorts, SrvStates,
              SockStates, ptrVars
<1>4. ASSUME NEW s \in Sock, NEW d \in Dst, NEW a \in Addr, NEW p \in Port,
             Connect(s, d, a, p)
      PROVE TypeOK'
  <2>1. sockAt' \in [Sock -> Sock \cup {NoSock}] /\ misled' \in [Sock -> BOOLEAN]
    BY <1>4, SocksRefilled DEF Connect
  <2>2. /\ map_socks' \in [Sock -> Dst \cup {ZeroEndpoint, NoDst}]
        /\ peer' \in [Sock -> Dst \cup {ZeroEndpoint, NoDst}]
    BY <1>4 DEF TypeOK, Connect, cg_connect4, PeerOf, MapUpdate, ZeroConfig,
                ProxyConfig, Dst
  <2>3. /\ sockState' \in [Sock -> SockStates]
        /\ orig' \in [Sock -> Dst \cup {NoDst}]
        /\ src_addr' \in [Sock -> Addr \cup {NoAddr}]
        /\ src_port' \in [Sock -> Port \cup {NoPort}]
        /\ UNCHANGED <<stage, attached, map_config, map_ports, srv, target,
                       cookieAt, known>>
    BY <1>4 DEF TypeOK, Connect, SockStates, bootVars
  <2>. QED
    BY <2>1, <2>2, <2>3 DEF TypeOK
<1>5. ASSUME NEW s \in Sock, Establish(s) PROVE TypeOK'
  <2>1. map_ports' \in [Port -> Sock \cup {NoSock}]
    BY <1>5 DEF TypeOK, Establish, cg_sock_ops, MapUpdate
  <2>2. known' \in [Sock -> BOOLEAN]
    <3>1. HasRoom(map_ports, NoSock, src_port[s]) \in BOOLEAN
      BY DEF HasRoom
    <3>. QED
      BY <1>5, <3>1 DEF TypeOK, Establish, cg_sock_ops
  <2>3. /\ cookieAt' \in [Sock -> Sock \cup {NoSock}]
        /\ misled' \in [Sock -> BOOLEAN]
    BY <1>5, PortsRefilled DEF Establish
  <2>. QED
    BY <1>5, <2>1, <2>2, <2>3 DEF TypeOK, Establish, SockStates, SrvStates,
                                  Asking, bootVars
<1>6. ASSUME NEW s \in Sock, Refuse(s) \/ Close(s) PROVE TypeOK'
  BY <1>6 DEF TypeOK, Refuse, Close, SockStates, bootVars, mapVars, askVars,
              ptrVars
<1>7. ASSUME NEW s \in Sock, LookupPort(s) \/ LookupSock(s) PROVE TypeOK'
  <2>1. srv[s] = "pending" => src_port[s] \in Port
    BY DEF Sane, Phases, TypeOK
  <2>. QED
    BY <1>7, <2>1 DEF TypeOK, LookupPort, LookupSock, SrvStates, Asking,
                      Running, bootVars, mapVars, tcpVars
<1>8. ASSUME NEW s \in Sock, Answer(s) PROVE TypeOK'
  <2>1. sockAt[s] \in Sock
    BY <1>8 DEF Answer, Ported, PointersOwned
  <2>. QED
    BY <1>8, <2>1 DEF TypeOK, Answer, Content, SrvStates, Asking, Running,
                      bootVars, mapVars, tcpVars, ptrVars, Dst
<1>9. ASSUME NEW s \in Sock,
             DeletePort(s) \/ DeleteSock(s) \/ NoOriginalTarget(s)
      PROVE TypeOK'
  BY <1>9 DEF TypeOK, DeletePort, DeleteSock, NoOriginalTarget, SrvStates,
              Asking, Running, bootVars, mapVars, tcpVars, ptrVars
<1>. QED
  BY <1>1, <1>2, <1>3, <1>4, <1>5, <1>6, <1>7, <1>8, <1>9
     DEF Next, Boot, Network, Worker, ClientConnect, ProxyDial

-----------------------------------------------------------------------------
\* Every step keeps the general facts about sockets and configuration.
LEMMA SaneStep == TypeOK /\ Sane /\ Next => Sane'
<1> SUFFICES ASSUME TypeOK, Sane, Next PROVE Sane'
  OBVIOUS
<1> USE SocketAssumption, EndpointAssumption
<1>1. CASE AttachConnect4 \/ AttachSockOps \/ AttachGetsockopt
  <2>1. Booted'
    BY <1>1 DEF Sane, Booted, AttachConnect4, AttachSockOps, AttachGetsockopt,
                AttachStep
  <2>. QED
    BY <1>1, <2>1 DEF Sane, Phases, Recorded, TuplesDistinct, NoSelfProxy, Live,
                AttachConnect4, AttachSockOps, AttachGetsockopt, AttachStep,
                mapVars, tcpVars, askVars
<1>2. CASE Listen \/ UpdateConfig \/ Restart
  <2>1. Booted'
    BY <1>2 DEF Sane, Booted, Listen, UpdateConfig, Restart
  <2>. QED
    BY <1>2, <2>1 DEF Sane, Phases, Recorded, TuplesDistinct, NoSelfProxy, Live,
                Listen, UpdateConfig, Restart, mapVars, tcpVars, askVars
<1>3. CASE Exit
  <2>1. Booted'
    BY <1>3 DEF Exit, Booted
  <2>2. Phases'
    BY <1>3 DEF TypeOK, Sane, Phases, Exit, EmptySocks
  <2>3. Recorded'
    BY <1>3 DEF Recorded, Exit, EmptySocks
  <2>4. TuplesDistinct'
    BY <1>3 DEF TypeOK, Sane, TuplesDistinct, Exit, Live
  <2>5. NoSelfProxy'
    BY <1>3 DEF TypeOK, Sane, Phases, NoSelfProxy, Exit, Sock
  <2>. QED
    BY <2>1, <2>2, <2>3, <2>4, <2>5 DEF Sane
<1>4. ASSUME NEW s \in Sock, NEW d \in Dst, NEW a \in Addr, NEW p \in Port,
             ClientConnect(s, d, a, p) \/ ProxyDial(s, d, a, p)
      PROVE Sane'
  <2>1. Connect(s, d, a, p)
    BY <1>4 DEF ClientConnect, ProxyDial
  <2>2. Booted'
    BY <2>1 DEF Sane, Booted, Connect, bootVars
  <2>3. Phases'
    BY <2>1 DEF TypeOK, Sane, Phases, Connect, cg_connect4, MapUpdate
  <2>4. Recorded'
    BY <2>1 DEF TypeOK, Sane, Phases, Recorded, Connect, cg_connect4, PeerOf,
                MapUpdate, ZeroConfig, ProxyConfig
  <2>5. TuplesDistinct'
    BY <2>1 DEF TypeOK, Sane, TuplesDistinct, Connect, cg_connect4, TupleFree,
                Live
  <2>6. NoSelfProxy'
    <3>1. s \in ProxySock => PeerOf(s, d) = d
      BY <1>4 DEF ClientConnect, ProxyDial, Sane, Booted, PeerOf, Redirects,
                  Pid, ProxyConfig
    <3>. QED
      BY <2>1, <3>1 DEF TypeOK, Sane, NoSelfProxy, Connect, cg_connect4, Sock
  <2>. QED
    BY <2>2, <2>3, <2>4, <2>5, <2>6 DEF Sane
<1>5. ASSUME NEW s \in Sock, Establish(s) PROVE Sane'
  <2>1. Phases'
    BY <1>5 DEF TypeOK, Sane, Phases, Establish, cg_sock_ops
  <2>2. TuplesDistinct'
    BY <1>5 DEF TypeOK, Sane, TuplesDistinct, Establish, Live
  <2>. QED
    BY <1>5, <2>1, <2>2 DEF TypeOK, Sane, Booted, Recorded, NoSelfProxy,
                            Establish, bootVars, Sock
<1>6. ASSUME NEW s \in Sock, Refuse(s) \/ Close(s) PROVE Sane'
  <2>1. Phases'
    BY <1>6 DEF TypeOK, Sane, Phases, Refuse, Close, mapVars, askVars
  <2>2. TuplesDistinct'
    BY <1>6 DEF TypeOK, Sane, TuplesDistinct, Refuse, Close, Live
  <2>. QED
    BY <1>6, <2>1, <2>2 DEF TypeOK, Sane, Booted, Recorded, NoSelfProxy,
                            Refuse, Close, bootVars, mapVars, Sock
<1>7. ASSUME NEW s \in Sock,
             \/ LookupPort(s) \/ LookupSock(s) \/ Answer(s)
             \/ DeletePort(s) \/ DeleteSock(s) \/ NoOriginalTarget(s)
      PROVE Sane'
  <2>1. Phases'
    <3>1. sockState[s] \notin {"new", "syn"}
      BY <1>7 DEF Sane, Phases, LookupPort, LookupSock, Answer, DeletePort,
                  DeleteSock, NoOriginalTarget, Unresolved
    <3>. QED
      BY <1>7, <3>1 DEF TypeOK, Sane, Phases, LookupPort, LookupSock, Answer,
         DeletePort, DeleteSock, NoOriginalTarget, Unresolved, mapVars, tcpVars
  <2>2. Recorded'
    BY <1>7 DEF TypeOK, Sane, Recorded, LookupPort, LookupSock, Answer,
                DeletePort, DeleteSock, NoOriginalTarget, mapVars, tcpVars
  <2>. QED
    BY <1>7, <2>1, <2>2 DEF Sane, Booted, TuplesDistinct, NoSelfProxy, Live,
                LookupPort, LookupSock, Answer, DeletePort, DeleteSock,
                NoOriginalTarget, bootVars, tcpVars
<1>. QED
  BY <1>1, <1>2, <1>3, <1>4, <1>5, <1>6, <1>7 DEF Next, Boot, Network, Worker

-----------------------------------------------------------------------------
\* A socket connects once: its port and destination never change after.
LEMMA ConnectsOnce ==
  ASSUME TypeOK, Next, NEW t \in Sock, sockState[t] # "new"
  PROVE  /\ sockState'[t] # "new"
         /\ src_port'[t] = src_port[t]
         /\ orig'[t] = orig[t]
<1>1. CASE Boot
  BY <1>1 DEF Boot, AttachConnect4, AttachSockOps, AttachGetsockopt, AttachStep,
              Listen, UpdateConfig, Restart, Exit, tcpVars
<1>2. ASSUME NEW s \in Sock, NEW d \in Dst, NEW a \in Addr, NEW p \in Port,
             Connect(s, d, a, p)
      PROVE /\ sockState'[t] # "new"
            /\ src_port'[t] = src_port[t]
            /\ orig'[t] = orig[t]
  BY <1>2 DEF TypeOK, Connect
<1>3. ASSUME NEW s \in Sock, Establish(s) \/ Refuse(s) \/ Close(s)
      PROVE /\ sockState'[t] # "new"
            /\ src_port'[t] = src_port[t]
            /\ orig'[t] = orig[t]
  BY <1>3 DEF TypeOK, Establish, Refuse, Close
<1>4. CASE Worker
  BY <1>4 DEF Worker, LookupPort, LookupSock, Answer, DeletePort, DeleteSock,
              NoOriginalTarget, tcpVars
<1>. QED
  BY <1>1, <1>2, <1>3, <1>4 DEF Next, Network, ClientConnect, ProxyDial

\* Every step keeps the ports leading to sockets that have them: only
\* cg_sock_ops adds an element of map_ports.
LEMMA PortsStep == TypeOK /\ Sane /\ PortsOwned /\ Next => PortsOwned'
<1> SUFFICES ASSUME TypeOK, Sane, PortsOwned, Next,
                    NEW p \in Port, map_ports'[p] # NoSock
             PROVE  /\ sockState'[map_ports'[p]] # "new"
                    /\ src_port'[map_ports'[p]] = p
  BY DEF PortsOwned
<1> USE SocketAssumption
<1>1. CASE map_ports'[p] = map_ports[p]
  BY <1>1, ConnectsOnce DEF TypeOK, PortsOwned
<1>2. ASSUME NEW s \in Sock, Establish(s), map_ports'[p] # map_ports[p]
      PROVE  map_ports'[p] = s /\ src_port[s] = p /\ sockState[s] = "syn"
  <2>1. src_port[s] \in Port
    BY <1>2 DEF Establish, Sane, Phases
  <2>. QED
    BY <1>2, <2>1 DEF TypeOK, Establish, cg_sock_ops, MapUpdate
<1>3. CASE Boot
  BY <1>1, <1>3 DEF Boot, AttachConnect4, AttachSockOps, AttachGetsockopt,
       AttachStep, Listen, UpdateConfig, Restart, Exit, EmptyPorts, mapVars
<1>4. ASSUME NEW s \in Sock,
             \/ LookupPort(s) \/ LookupSock(s) \/ Answer(s) \/ DeletePort(s)
             \/ DeleteSock(s) \/ NoOriginalTarget(s) \/ Refuse(s) \/ Close(s)
      PROVE  map_ports'[p] = map_ports[p]
  BY <1>4 DEF TypeOK, LookupPort, LookupSock, Answer, DeletePort, DeleteSock,
              NoOriginalTarget, Refuse, Close, mapVars
<1>5. ASSUME NEW s \in Sock, NEW d \in Dst, NEW a \in Addr, NEW q \in Port,
             Connect(s, d, a, q)
      PROVE  map_ports'[p] = map_ports[p]
  BY <1>5 DEF Connect
<1>. QED
  BY <1>1, <1>2, <1>3, <1>4, <1>5, ConnectsOnce
     DEF Next, Network, Worker, ClientConnect, ProxyDial

\* Every step keeps the pointers of running queries at sockets that have
\* connected, and at sockets with the port asked for unless it refills the
\* element under the query.
LEMMA PointersStep == TypeOK /\ Sane /\ Ported /\ Next => PointersOwned'
<1> SUFFICES ASSUME TypeOK, Sane, Ported, Next PROVE PointersOwned'
  OBVIOUS
<1> USE SocketAssumption
<1>1. \A t \in Sock : sockState[t] # "new" =>
        sockState'[t] # "new" /\ src_port'[t] = src_port[t]
  BY ConnectsOnce
<1>2. \A t \in Sock : srv[t] \in Asking => sockState[t] # "new"
  BY DEF Sane, Phases, Asking, Running
<1>3. ASSUME UNCHANGED ptrVars,
             \A t \in Sock : srv'[t] \in Running => srv'[t] = srv[t]
      PROVE  PointersOwned'
  BY <1>1, <1>2, <1>3 DEF Ported, PointersOwned, ptrVars, Asking, Running
<1>4. CASE Boot
  BY <1>3, <1>4 DEF Boot, AttachConnect4, AttachSockOps, AttachGetsockopt,
       AttachStep, Listen, UpdateConfig, Restart, Exit, askVars, Running
<1>5. ASSUME NEW s \in Sock, Refuse(s) \/ Close(s) \/ NoOriginalTarget(s)
      PROVE  PointersOwned'
  BY <1>3, <1>5 DEF TypeOK, Refuse, Close, NoOriginalTarget, askVars, Running
<1>6. ASSUME NEW s \in Sock, NEW d \in Dst, NEW a \in Addr, NEW q \in Port,
             Connect(s, d, a, q)
      PROVE  PointersOwned'
  <2>1. sockState'[s] = "syn" /\ UNCHANGED <<srv, cookieAt>>
    BY <1>6 DEF TypeOK, Connect
  <2>2. \A t \in Sock :
          \/ sockAt'[t] = sockAt[t] /\ misled'[t] = misled[t]
          \/ sockAt'[t] = s /\ misled'[t] /\ srv[t] = "sock"
    BY <1>6, SocksRefilled DEF Connect
  <2>. QED
    BY <1>1, <1>2, <2>1, <2>2 DEF Ported, PointersOwned, Asking, Running
<1>7. ASSUME NEW s \in Sock, Establish(s) PROVE PointersOwned'
  <2>1. sockState[s] = "syn" /\ UNCHANGED sockAt
    BY <1>7 DEF Establish
  <2>2. \A t \in Sock : srv'[t] \in Running => srv'[t] = srv[t]
    BY <1>7 DEF TypeOK, Establish, Running
  <2>3. \A t \in Sock :
          \/ cookieAt'[t] = cookieAt[t] /\ misled'[t] = misled[t]
          \/ cookieAt'[t] = s /\ (srv[t] = "cookie" => misled'[t])
               /\ (misled[t] => misled'[t])
    BY <1>7, PortsRefilled DEF Establish
  <2>. QED
    BY <1>1, <1>2, <2>1, <2>2, <2>3 DEF Ported, PointersOwned, Asking, Running
<1>8. ASSUME NEW s \in Sock, LookupPort(s) PROVE PointersOwned'
  <2> DEFINE c == map_ports[src_port[s]]
  <2>1. src_port[s] \in Port
    BY <1>8 DEF LookupPort, Sane, Phases
  <2>2. c \in Sock /\ sockState[c] # "new" /\ src_port[c] = src_port[s]
    BY <1>8, <2>1 DEF LookupPort, PortFound, TypeOK, Ported, PortsOwned
  <2>3. /\ srv' = [srv EXCEPT ![s] = "cookie"]
        /\ cookieAt' = [cookieAt EXCEPT ![s] = c]
        /\ UNCHANGED <<sockState, src_port, sockAt, misled>>
    BY <1>8 DEF LookupPort, tcpVars
  <2>. QED
    BY <2>2, <2>3 DEF TypeOK, Ported, PointersOwned, Running
<1>9. ASSUME NEW s \in Sock, LookupSock(s) PROVE PointersOwned'
  <2>1. /\ srv[s] = "cookie" /\ srv' = [srv EXCEPT ![s] = "sock"]
        /\ sockAt' = [sockAt EXCEPT ![s] = cookieAt[s]]
        /\ UNCHANGED <<sockState, src_port, cookieAt, misled>>
    BY <1>9 DEF LookupSock, tcpVars
  <2>. QED
    BY <2>1 DEF TypeOK, Ported, PointersOwned, Running
<1>10. ASSUME NEW s \in Sock, Answer(s) \/ DeletePort(s) \/ DeleteSock(s)
       PROVE  PointersOwned'
  <2>1. /\ srv[s] \in Running /\ srv'[s] \notin {"cookie", "sock"}
        /\ \A t \in Sock \ {s} : srv'[t] = srv[t]
        /\ UNCHANGED <<sockState, src_port, cookieAt, sockAt, misled>>
    BY <1>10 DEF TypeOK, Answer, DeletePort, DeleteSock, tcpVars, ptrVars,
                 Running
  <2>. QED
    BY <2>1 DEF Ported, PointersOwned
<1>. QED
  BY <1>4, <1>5, <1>6, <1>7, <1>8, <1>9, <1>10
     DEF Next, Network, Worker, ClientConnect, ProxyDial

\* What an answer shows: the query's pointer led to the element of some
\* socket, and to one with the port asked for if nothing was refilled.
LEMMA AnswerFrom ==
  ASSUME TypeOK, Sane, Ported, NEW s \in Sock, Answer(s)
  PROVE  /\ sockAt[s] \in Sock /\ sockState[sockAt[s]] # "new"
         /\ target' = [target EXCEPT ![s] = orig[sockAt[s]]]
         /\ ~ misled[s] => src_port[sockAt[s]] = src_port[s]
<1>1. srv[s] = "sock" /\ target' = [target EXCEPT ![s] = Content(sockAt[s])]
  BY DEF Answer
<1>2. /\ sockAt[s] \in Sock /\ sockState[sockAt[s]] # "new"
      /\ ~ misled[s] => src_port[sockAt[s]] = src_port[s]
  BY <1>1 DEF Ported, PointersOwned
<1>3. Content(sockAt[s]) = orig[sockAt[s]]
  BY <1>2 DEF Content, Sane, Recorded
<1>. QED
  BY <1>1, <1>2, <1>3

\* An answer is given once, and only by Answer.
LEMMA AnsweredBefore ==
  ASSUME TypeOK, Sane, Next, NEW s \in Sock, ~ Answer(s),
         srv'[s] \in Answered, target'[s] # NoDst
  PROVE  /\ srv[s] \in Answered /\ target'[s] = target[s]
         /\ misled[s] => misled'[s]
<1> USE DEF Answered
<1>1. CASE Boot
  BY <1>1 DEF TypeOK, Boot, AttachConnect4, AttachSockOps, AttachGetsockopt,
       AttachStep, Listen, UpdateConfig, Restart, Exit, askVars, ptrVars
<1>2. ASSUME NEW u \in Sock, NEW d \in Dst, NEW a \in Addr, NEW q \in Port,
             Connect(u, d, a, q)
      PROVE  /\ srv[s] \in Answered /\ target'[s] = target[s]
             /\ misled[s] => misled'[s]
  BY <1>2 DEF TypeOK, Connect, RefillSocks
<1>3. ASSUME NEW u \in Sock, Establish(u)
      PROVE  /\ srv[s] \in Answered /\ target'[s] = target[s]
             /\ misled[s] => misled'[s]
  BY <1>3 DEF TypeOK, Establish, RefillPorts
<1>4. ASSUME NEW u \in Sock, Refuse(u) \/ Close(u)
      PROVE  /\ srv[s] \in Answered /\ target'[s] = target[s]
             /\ misled[s] => misled'[s]
  BY <1>4 DEF Refuse, Close, askVars, ptrVars
<1>5. ASSUME NEW u \in Sock,
             \/ LookupPort(u) \/ LookupSock(u) \/ DeletePort(u)
             \/ DeleteSock(u) \/ (Answer(u) /\ u # s)
      PROVE  /\ srv[s] \in Answered /\ target'[s] = target[s]
             /\ misled[s] => misled'[s]
  BY <1>5 DEF TypeOK, LookupPort, LookupSock, DeletePort, DeleteSock, Answer,
              ptrVars
<1>6. ASSUME NEW u \in Sock, NoOriginalTarget(u)
      PROVE  /\ srv[s] \in Answered /\ target'[s] = target[s]
             /\ misled[s] => misled'[s]
  <2>1. target[u] = NoDst
    BY <1>6 DEF NoOriginalTarget, Unresolved, Sane, Phases
  <2>. QED
    BY <1>6, <2>1 DEF TypeOK, NoOriginalTarget, ptrVars
<1>. QED
  BY <1>1, <1>2, <1>3, <1>4, <1>5, <1>6
     DEF Next, Network, Worker, ClientConnect, ProxyDial

\* Every step keeps the answers destinations of connected sockets, with the
\* port asked for where the query was not misled.
LEMMA PortedStep == TypeOK /\ Sane /\ Ported /\ Next => Ported'
<1> SUFFICES ASSUME TypeOK, Sane, Ported, Next PROVE Ported'
  OBVIOUS
<1>1. PortsOwned' /\ PointersOwned'
  BY PortsStep, PointersStep DEF Ported
<1>2. AnswerSomeones'
  <2> SUFFICES ASSUME NEW s \in Sock, srv'[s] \in Answered, target'[s] # NoDst
               PROVE  \E t \in Sock :
                        sockState'[t] # "new" /\ orig'[t] = target'[s]
    BY DEF AnswerSomeones, Answered
  <2>1. \E t \in Sock : sockState[t] # "new" /\ orig[t] = target'[s]
    <3>1. CASE Answer(s)
      BY <3>1, AnswerFrom DEF TypeOK
    <3>2. CASE ~ Answer(s)
      BY <3>2, AnsweredBefore DEF Ported, AnswerSomeones
    <3>. QED
      BY <3>1, <3>2
  <2>. QED
    BY <2>1, ConnectsOnce
<1>3. AnswerSharesPort'
  <2> SUFFICES ASSUME NEW s \in Sock, srv'[s] \in Answered,
                      target'[s] # NoDst, ~ misled'[s]
               PROVE  \E t \in Sock : /\ sockState'[t] # "new"
                                      /\ src_port'[t] = src_port'[s]
                                      /\ orig'[t] = target'[s]
    BY DEF AnswerSharesPort, Answered
  <2>1. \E t \in Sock : /\ sockState[t] # "new"
                        /\ src_port[t] = src_port[s]
                        /\ orig[t] = target'[s]
    <3>1. CASE Answer(s)
      <4>1. ~ misled[s]
        BY <3>1 DEF Answer, ptrVars
      <4>. QED
        BY <3>1, <4>1, AnswerFrom DEF TypeOK
    <3>2. CASE ~ Answer(s)
      BY <3>2, AnsweredBefore DEF Ported, AnswerSharesPort
    <3>. QED
      BY <3>1, <3>2
  <2>2. sockState[s] # "new"
    <3>1. CASE Answer(s)
      BY <3>1 DEF Answer, Sane, Phases
    <3>2. CASE ~ Answer(s)
      BY <3>2, AnsweredBefore DEF Answered, Sane, Phases
    <3>. QED
      BY <3>1, <3>2
  <2>. QED
    BY <2>1, <2>2, ConnectsOnce
<1>. QED
  BY <1>1, <1>2, <1>3 DEF Ported

-----------------------------------------------------------------------------
\* Two connections that wait with the proxy have different ports.
LEMMA PortsDiffer ==
  ASSUME TypeOK, Sane, Waiting, PortIdentifies,
         NEW s \in Sock, NEW t \in Sock, s # t,
         srv[s] \in Asking,
         sockState[t] \in {"syn", "est"}, peer[t] = ProxyEndpoint
  PROVE  src_port[s] # src_port[t]
<1>1. sockState[s] = "est" /\ peer[s] = ProxyEndpoint
  BY DEF Waiting
<1>2. src_addr[s] \in Addr /\ src_addr[t] \in Addr
  BY <1>1 DEF Sane, Phases
<1>3. src_addr[s] = src_addr[t]
  BY <1>2 DEF PortIdentifies
<1>. QED
  BY <1>1, <1>3 DEF Sane, TuplesDistinct, Live

\* The port of a waiting connection leads to its own cookie or to none, and
\* to its own exactly when the connection was recorded.
LEMMA PortLeadsHome ==
  ASSUME TypeOK, Sane, Linked, PortIdentifies,
         NEW s \in Sock, srv[s] = "pending"
  PROVE  /\ src_port[s] \in Port
         /\ map_ports[src_port[s]] \in {s, NoSock}
         /\ map_ports[src_port[s]] = s <=> known[s]
<1>1. sockState[s] = "est" /\ peer[s] = ProxyEndpoint
  BY DEF Linked, Waiting, Asking
<1>2. src_port[s] \in Port
  BY <1>1 DEF Sane, Phases
<1>3. ASSUME map_ports[src_port[s]] # NoSock PROVE map_ports[src_port[s]] = s
  <2> DEFINE u == map_ports[src_port[s]]
  <2>1. u \in Sock /\ src_port[u] = src_port[s] /\ srv[u] \in Asking
    BY <1>2, <1>3 DEF TypeOK, Linked, PortsPending
  <2>2. u # s => src_port[u] # src_port[s]
    BY <1>1, <2>1, PortsDiffer DEF Linked
  <2>. QED
    BY <2>1, <2>2
<1>4. known[s] => map_ports[src_port[s]] = s
  BY DEF Linked, RecordedPending, Asking
<1>5. map_ports[src_port[s]] = s => known[s]
  BY <1>2, SocketAssumption DEF Linked, PortsPending
<1>. QED
  BY <1>2, <1>3, <1>4, <1>5

\* Every step keeps the maps tied to the waiting connections, as long as a
\* port stands for one connection and no freed element is refilled.
LEMMA LinkedStep ==
  TypeOK /\ Sane /\ Linked /\ Undisturbed /\ Next => Linked'
<1> SUFFICES ASSUME TypeOK, Sane, Linked, PortIdentifies, ~ SlotReuse, Next
             PROVE Linked'
  BY DEF Undisturbed
<1> USE SocketAssumption, EndpointAssumption
<1>1. CASE \/ AttachConnect4 \/ AttachSockOps \/ AttachGetsockopt
           \/ Listen \/ UpdateConfig \/ Restart
  BY <1>1 DEF Linked, Waiting, PortsPending, RecordedPending, AnswerRight,
              CookiesGone, AttachConnect4, AttachSockOps, AttachGetsockopt,
              AttachStep, Listen, UpdateConfig, Restart, mapVars, tcpVars,
              askVars, ptrVars
<1>2. CASE Exit
  <2>1. \A s \in Sock : srv'[s] \in {"none", "gone"}
    BY <1>2 DEF TypeOK, Exit
  <2>. QED
    BY <1>2, <2>1 DEF Exit, EmptySocks, EmptyPorts, Linked, Waiting,
              PortsPending, RecordedPending, AnswerRight, CookiesGone, Asking,
              Running, Answered
<1>3. ASSUME NEW s \in Sock, NEW d \in Dst, NEW a \in Addr, NEW p \in Port,
             Connect(s, d, a, p)
      PROVE Linked'
  <2>1. srv[s] = "none" /\ ~ known[s]
    BY <1>3 DEF Connect, Sane, Phases
  <2>2. \A t \in Sock \ {s} :
          /\ map_socks'[t] = map_socks[t] /\ orig'[t] = orig[t]
          /\ src_port'[t] = src_port[t] /\ peer'[t] = peer[t]
          /\ sockState'[t] = sockState[t]
    BY <1>3 DEF TypeOK, Connect, cg_connect4, MapUpdate
  <2>3. UNCHANGED <<map_ports, srv, target, cookieAt, sockAt, known>>
    BY <1>3 DEF Connect, RefillSocks
  <2>4. Waiting'
    BY <2>1, <2>2, <2>3 DEF Linked, Waiting, Asking, Running
  <2>5. PortsPending'
    BY <2>1, <2>2, <2>3 DEF TypeOK, Linked, PortsPending, Asking, Running
  <2>6. RecordedPending'
    BY <2>1, <2>2, <2>3 DEF Linked, RecordedPending, Asking, Running
  <2>7. AnswerRight' /\ CookiesGone'
    BY <2>1, <2>2, <2>3 DEF Linked, AnswerRight, CookiesGone, Answered
  <2>. QED
    BY <2>4, <2>5, <2>6, <2>7 DEF Linked
<1>4. ASSUME NEW s \in Sock, Establish(s) PROVE Linked'
  <2>1. srv[s] = "none" /\ ~ known[s] /\ src_port[s] \in Port
    BY <1>4 DEF Establish, Sane, Phases
  <2>2. UNCHANGED <<map_socks, orig, peer, src_port, target, cookieAt, sockAt>>
    BY <1>4 DEF Establish, RefillPorts
  <2>3. \A t \in Sock \ {s} :
          /\ srv'[t] = srv[t] /\ known'[t] = known[t]
          /\ sockState'[t] = sockState[t]
    BY <1>4 DEF TypeOK, Establish, cg_sock_ops
  <2>4. CASE Records(s) /\ HasRoom(map_ports, NoSock, src_port[s])
    <3>1. peer[s] = ProxyEndpoint
      BY <1>4, <2>4 DEF Establish, Records, Reachable, Sane, Recorded
    <3>2. /\ map_ports' = [map_ports EXCEPT ![src_port[s]] = s]
          /\ known'[s] /\ srv'[s] = "pending" /\ sockState'[s] = "est"
      BY <1>4, <2>4, <3>1 DEF TypeOK, Establish, cg_sock_ops, MapUpdate
    <3>3. \A t \in Sock \ {s} : srv[t] \in Asking => src_port[t] # src_port[s]
      BY <1>4, <3>1, PortsDiffer DEF Linked, Establish
    <3>4. Waiting'
      BY <2>2, <2>3, <3>1, <3>2 DEF Linked, Waiting, Asking, Running
    <3>5. PortsPending'
      BY <2>1, <2>2, <2>3, <3>2
         DEF TypeOK, Linked, PortsPending, Asking, Running
    <3>6. RecordedPending'
      <4>1. map_socks[s] = orig[s]
        BY <2>4 DEF Records, Sane, Recorded
      <4>. QED
        BY <2>1, <2>2, <2>3, <3>2, <3>3, <4>1
           DEF TypeOK, Linked, RecordedPending, Asking, Running
    <3>7. AnswerRight' /\ CookiesGone'
      BY <2>2, <2>3, <3>2 DEF Linked, AnswerRight, CookiesGone, Asking, Answered
    <3>. QED
      BY <3>4, <3>5, <3>6, <3>7 DEF Linked
  <2>5. CASE ~ (Records(s) /\ HasRoom(map_ports, NoSock, src_port[s]))
    <3>1. map_ports' = map_ports /\ ~ known'[s]
      BY <1>4, <2>1, <2>5 DEF TypeOK, Establish, cg_sock_ops, MapUpdate
    <3>2. /\ sockState'[s] = "est"
          /\ srv'[s] = IF peer[s] = ProxyEndpoint THEN "pending" ELSE "none"
      BY <1>4, <2>1 DEF TypeOK, Establish
    <3>3. Waiting'
      BY <2>2, <2>3, <3>2 DEF Linked, Waiting, Asking, Running
    <3>4. PortsPending'
      BY <2>1, <2>2, <2>3, <3>1
         DEF TypeOK, Linked, PortsPending, Asking, Running
    <3>5. RecordedPending' /\ AnswerRight' /\ CookiesGone'
      BY <2>2, <2>3, <3>1, <3>2
         DEF Linked, RecordedPending, AnswerRight, CookiesGone, Answered
    <3>. QED
      BY <3>3, <3>4, <3>5 DEF Linked
  <2>. QED
    BY <2>4, <2>5
<1>5. ASSUME NEW s \in Sock, Refuse(s) \/ Close(s) PROVE Linked'
  <2>1. Waiting'
    BY <1>5 DEF TypeOK, Sane, Phases, Linked, Waiting, PortIdentifies, Refuse,
                Close, askVars, ptrVars, Asking, Running
  <2>. QED
    BY <1>5, <2>1 DEF Linked, PortsPending, RecordedPending, AnswerRight,
                      CookiesGone, Refuse, Close, mapVars, askVars
<1>6. ASSUME NEW s \in Sock, LookupPort(s) PROVE Linked'
  <2>1. map_ports[src_port[s]] = s /\ known[s]
    BY <1>6, PortLeadsHome DEF LookupPort, PortFound
  <2>2. /\ srv[s] = "pending" /\ srv' = [srv EXCEPT ![s] = "cookie"]
        /\ cookieAt' = [cookieAt EXCEPT ![s] = s]
        /\ UNCHANGED <<map_socks, map_ports, sockState, orig, peer, src_port,
                       target, sockAt, known>>
    BY <1>6, <2>1 DEF LookupPort, mapVars, tcpVars
  <2>3. Waiting'
    BY <2>1, <2>2 DEF TypeOK, Linked, Waiting, Asking, Running
  <2>4. PortsPending' /\ RecordedPending'
    BY <2>2 DEF TypeOK, Linked, PortsPending, RecordedPending, Asking, Running
  <2>5. AnswerRight' /\ CookiesGone'
    BY <2>2 DEF TypeOK, Linked, AnswerRight, CookiesGone, Asking, Running,
                Answered
  <2>. QED
    BY <2>3, <2>4, <2>5 DEF Linked
<1>7. ASSUME NEW s \in Sock, LookupSock(s) PROVE Linked'
  <2>1. cookieAt[s] = s
    BY <1>7 DEF LookupSock, Linked, Waiting, Running
  <2>2. /\ srv[s] = "cookie" /\ srv' = [srv EXCEPT ![s] = "sock"]
        /\ sockAt' = [sockAt EXCEPT ![s] = s]
        /\ UNCHANGED <<map_socks, map_ports, sockState, orig, peer, src_port,
                       target, cookieAt, known>>
    BY <1>7, <2>1 DEF LookupSock, mapVars, tcpVars
  <2>3. Waiting'
    BY <2>1, <2>2 DEF TypeOK, Linked, Waiting, Asking, Running
  <2>4. PortsPending' /\ RecordedPending'
    BY <2>2 DEF TypeOK, Linked, PortsPending, RecordedPending, Asking, Running
  <2>5. AnswerRight' /\ CookiesGone'
    BY <2>2 DEF TypeOK, Linked, AnswerRight, CookiesGone, Asking, Running,
                Answered
  <2>. QED
    BY <2>3, <2>4, <2>5 DEF Linked
<1>8. ASSUME NEW s \in Sock, Answer(s) PROVE Linked'
  <2>1. sockAt[s] = s /\ known[s]
    BY <1>8 DEF Answer, Linked, Waiting, Running
  <2>2. Content(s) = orig[s]
    BY DEF Content, Sane, Recorded
  <2>3. /\ srv[s] = "sock" /\ srv' = [srv EXCEPT ![s] = "answered"]
        /\ target' = [target EXCEPT ![s] = orig[s]]
        /\ UNCHANGED <<map_socks, map_ports, sockState, orig, peer, src_port,
                       cookieAt, sockAt, known>>
    BY <1>8, <2>1, <2>2 DEF Answer, mapVars, tcpVars, ptrVars
  <2>4. Waiting'
    BY <2>3 DEF TypeOK, Linked, Waiting, Asking, Running
  <2>5. PortsPending' /\ RecordedPending'
    BY <2>3 DEF TypeOK, Linked, PortsPending, RecordedPending, Asking, Running
  <2>6. AnswerRight' /\ CookiesGone'
    BY <2>1, <2>3 DEF TypeOK, Linked, AnswerRight, CookiesGone, Asking, Running,
                      Answered
  <2>. QED
    BY <2>4, <2>5, <2>6 DEF Linked
<1>9. ASSUME NEW s \in Sock, DeletePort(s) PROVE Linked'
  <2>1. known[s] /\ sockState[s] = "est"
    BY <1>9 DEF DeletePort, Linked, Waiting, Asking, Running
  <2>2. map_ports[src_port[s]] = s /\ src_port[s] \in Port
    BY <1>9, <2>1 DEF DeletePort, Linked, RecordedPending, Asking, Running,
                      Sane, Phases
  <2>3. /\ srv[s] = "answered" /\ srv' = [srv EXCEPT ![s] = "deleting"]
        /\ map_ports' = [map_ports EXCEPT ![src_port[s]] = NoSock]
        /\ UNCHANGED <<map_socks, sockState, orig, peer, src_port, target,
                       cookieAt, sockAt, known>>
    BY <1>9 DEF DeletePort, tcpVars, ptrVars
  <2>4. Waiting'
    BY <2>3 DEF TypeOK, Linked, Waiting, Asking, Running
  <2>5. PortsPending'
    BY <2>2, <2>3 DEF TypeOK, Linked, PortsPending, Asking, Running
  <2>6. RecordedPending'
    <3>1. \A t \in Sock \ {s} :
            srv[t] \in Asking \ {"deleting"} /\ known[t] =>
              src_port[t] # src_port[s]
      BY <2>2 DEF Linked, RecordedPending
    <3>. QED
      BY <2>1, <2>3, <3>1 DEF TypeOK, Linked, RecordedPending, Asking, Running
  <2>7. AnswerRight' /\ CookiesGone'
    BY <2>3 DEF TypeOK, Linked, AnswerRight, CookiesGone, Asking, Running,
                Answered
  <2>. QED
    BY <2>4, <2>5, <2>6, <2>7 DEF Linked
<1>10. ASSUME NEW s \in Sock, DeleteSock(s) PROVE Linked'
  <2>1. cookieAt[s] = s
    BY <1>10 DEF DeleteSock, Linked, Waiting, Running
  <2>2. /\ srv[s] = "deleting" /\ srv' = [srv EXCEPT ![s] = "asked"]
        /\ map_socks' = [map_socks EXCEPT ![s] = NoDst]
        /\ UNCHANGED <<map_ports, sockState, orig, peer, src_port, target,
                       cookieAt, sockAt, known>>
    BY <1>10, <2>1 DEF DeleteSock, tcpVars, ptrVars
  <2>3. Waiting' /\ PortsPending'
    BY <2>2 DEF TypeOK, Linked, Waiting, PortsPending, Asking, Running
  <2>4. RecordedPending' /\ AnswerRight' /\ CookiesGone'
    BY <2>2 DEF TypeOK, Linked, RecordedPending, AnswerRight, CookiesGone,
                Asking, Running, Answered
  <2>. QED
    BY <2>3, <2>4 DEF Linked
<1>11. ASSUME NEW s \in Sock, NoOriginalTarget(s) PROVE Linked'
  <2>1. sockState[s] = "est"
    BY <1>11 DEF NoOriginalTarget, Unresolved, Linked, Waiting, Asking, Running
  <2>2. orig[s] # NoDst
    BY <2>1 DEF Sane, Phases
  <2>3. srv[s] = "pending"
    <3>1. ASSUME srv[s] = "cookie" PROVE SockFound(s)
      BY <2>2, <3>1 DEF SockFound, Linked, Waiting, RecordedPending, Asking,
                        Running
    <3>. QED
      BY <1>11, <3>1 DEF NoOriginalTarget, Unresolved
  <2>4. ~ known[s]
    <3>1. stage = "serving" /\ ~ PortFound(s)
      BY <1>11, <2>3 DEF NoOriginalTarget, Unresolved
    <3>2. "getsockopt" \in attached
      BY <3>1 DEF Sane, Booted
    <3>. QED
      BY <2>3, <3>1, <3>2 DEF PortFound, Linked, RecordedPending, Asking
  <2>5. target[s] = NoDst
    BY <2>3 DEF Sane, Phases
  <2>6. /\ srv' = [srv EXCEPT ![s] = "asked"]
        /\ UNCHANGED <<map_socks, map_ports, sockState, orig, peer, src_port,
                       target, cookieAt, sockAt, known>>
    BY <1>11 DEF NoOriginalTarget, mapVars, tcpVars, ptrVars
  <2>7. Waiting' /\ PortsPending'
    BY <2>4, <2>6 DEF TypeOK, Linked, Waiting, PortsPending, Asking, Running
  <2>8. RecordedPending' /\ AnswerRight' /\ CookiesGone'
    BY <2>4, <2>5, <2>6 DEF TypeOK, Linked, RecordedPending, AnswerRight,
                            CookiesGone, Asking, Running, Answered
  <2>. QED
    BY <2>7, <2>8 DEF Linked
<1>. QED
  BY <1>1, <1>2, <1>3, <1>4, <1>5, <1>6, <1>7, <1>8, <1>9, <1>10, <1>11
     DEF Next, Boot, Network, Worker, ClientConnect, ProxyDial

-----------------------------------------------------------------------------
\* The invariant holds when the objects have been loaded.
LEMMA InitInv == Init => Inv
<1> SUFFICES ASSUME Init PROVE Inv
  OBVIOUS
<1> USE SocketAssumption, EndpointAssumption
<1>1. TypeOK
  BY DEF Init, TypeOK, Stages, SockStates, SrvStates, Asking, EmptySocks,
         EmptyPorts
<1>2. Sane
  BY DEF Init, Sane, Booted, Phases, Recorded, TuplesDistinct, NoSelfProxy,
         Live, EmptySocks, Sock
<1>3. Linked
  BY DEF Init, Linked, Waiting, PortsPending, RecordedPending, AnswerRight,
         CookiesGone, EmptySocks, EmptyPorts, Asking, Running, Answered
<1>4. Ported
  BY DEF Init, Ported, PortsOwned, PointersOwned, AnswerSomeones,
         AnswerSharesPort, EmptyPorts, Running, Answered
<1>. QED
  BY <1>1, <1>2, <1>3, <1>4 DEF Inv

\* The invariant is inductive.
LEMMA NextInv == Inv /\ [Next]_vars => Inv'
<1> SUFFICES ASSUME Inv, [Next]_vars PROVE Inv'
  OBVIOUS
<1>1. CASE Next
  BY <1>1, TypeStep, SaneStep, PortedStep, LinkedStep
     DEF Inv, Undisturbed, PortIdentifies
<1>2. CASE UNCHANGED vars
  <2>1. TypeOK'
    BY <1>2 DEF Inv, TypeOK, vars, bootVars, mapVars, tcpVars, askVars,
                ptrVars
  <2>2. Sane'
    BY <1>2 DEF Inv, Sane, Booted, Phases, Recorded, TuplesDistinct,
                NoSelfProxy, Live, vars, bootVars, mapVars, tcpVars, askVars,
                ptrVars
  <2>3. Linked => Linked'
    BY <1>2 DEF Linked, Waiting, PortsPending, RecordedPending, AnswerRight,
                CookiesGone, vars, bootVars, mapVars, tcpVars, askVars,
                ptrVars
  <2>4. Ported'
    BY <1>2 DEF Inv, Ported, PortsOwned, PointersOwned, AnswerSomeones,
                AnswerSharesPort, vars, bootVars, mapVars, tcpVars, askVars,
                ptrVars
  <2>. QED
    BY <2>1, <2>2, <2>3, <2>4 DEF Inv, Undisturbed, PortIdentifies
<1>. QED
  BY <1>1, <1>2

\* The inductive invariant holds in every behaviour of the hooks, the
\* loader and the workers.
THEOREM Invariance == Spec => []Inv
  BY InitInv, NextInv, PTL DEF Spec

\* Every map element, socket record and answer keeps its type.
THEOREM TypeCorrect == Spec => []TypeOK
<1>1. Inv => TypeOK
  BY DEF Inv
<1>. QED
  BY <1>1, Invariance, PTL

\* A connection the proxy opens is never redirected to the proxy, for any
\* number of connections and restarts (the pid check of cg_connect4 and the
\* order in which run publishes the configuration).
THEOREM ProxyNeverProxiesItself == Spec => []NoSelfProxy
<1>1. Inv => NoSelfProxy
  BY DEF Inv, Sane
<1>. QED
  BY <1>1, Invariance, PTL

\* As long as a client port stands for one connection, the answer of
\* cg_sock_opt is the destination the client asked for, or none if the
\* connection was not recorded.
THEOREM AnswersAreOriginal == Spec => []AnsweredIsOriginal
<1>1. Inv => AnsweredIsOriginal
  BY DEF Inv, Linked, AnswerRight, AnsweredIsOriginal
<1>. QED
  BY <1>1, Invariance, PTL

\* Under the same condition no step for another connection makes a recorded
\* connection unresolvable before its own query.
THEOREM PendingStaysResolvable == Spec => []PendingResolvable
<1>1. Inv => PendingResolvable
  BY DEF Inv, Linked, RecordedPending, PendingResolvable, Asking, Running
<1>. QED
  BY <1>1, Invariance, PTL

\* Under the same condition a query removes everything that was recorded
\* for its connection from both maps.
THEOREM QueriesCleanUp == Spec => []RecordedLeavesNothing
<1>1. Inv => RecordedLeavesNothing
  BY DEF Inv, Linked, PortsPending, CookiesGone, RecordedLeavesNothing
<1>. QED
  BY <1>1, Invariance, PTL

\* Whatever clients do with their ports and wherever the kernel puts map
\* elements, a query whose own elements were not refilled between lookup and
\* use returns nothing or the destination of a connection made from the same
\* source port: no other query's deletions and no reused port mix up two
\* ports (cg_sock_opt).
THEOREM AnswersShareThePort == Spec => []AnswerSharesPort
<1>1. Inv => AnswerSharesPort
  BY DEF Inv, Ported
<1>. QED
  BY <1>1, Invariance, PTL

-----------------------------------------------------------------------------
(* Refinement of OriginalDst.                                              *)

\* A query that is answered gives its connection an answer OriginalDst
\* allows.
LEMMA QueryRefines ==
  ASSUME Inv, Inv', NEW s \in Sock, Answer(s) \/ NoOriginalTarget(s)
  PROVE  Destinations!Answer(s)
<1> DEFINE q == [t \in Sock |-> Query(t)]
<1>1. /\ srv[s] \in {"pending", "cookie", "sock"}
      /\ orig' = orig /\ known' = known
      /\ srv'[s] \in {"answered", "asked"}
      /\ \A t \in Sock \ {s} : srv'[t] = srv[t]
  BY DEF Answer, NoOriginalTarget, Unresolved, tcpVars, Inv, TypeOK
<1>2. q[s] = "waiting" /\ q' = [q EXCEPT ![s] = "answered"]
  <2>1. Query(s) = "waiting" /\ Query(s)' = "answered"
    BY <1>1 DEF Query, Answered
  <2>2. \A t \in Sock \ {s} : Query(t)' = Query(t)
    BY <1>1 DEF Query
  <2>. QED
    BY <2>1, <2>2
<1>3. target' = [target EXCEPT ![s] = target'[s]]
  <2>1. CASE Answer(s)
    BY <2>1 DEF Answer, Inv, TypeOK
  <2>2. CASE NoOriginalTarget(s)
    BY <2>2 DEF NoOriginalTarget, Inv, TypeOK
  <2>. QED
    BY <2>1, <2>2
<1>4. target'[s] \in Destinations!Answers(s)
  <2>1. CASE Undisturbed
    <3>1. Linked'
      BY <2>1 DEF Inv, Undisturbed, PortIdentifies
    <3>2. target'[s] = IF known[s] THEN orig[s] ELSE NoDst
      BY <1>1, <3>1 DEF Linked, AnswerRight, Answered
    <3>. QED
      BY <2>1, <3>2 DEF Destinations!Answers
  <2>2. CASE ~ Undisturbed
    <3>1. target'[s] = NoDst \/ \E t \in Sock : orig'[t] = target'[s]
      BY <1>1 DEF Inv, Ported, AnswerSomeones, Answered
    <3>. QED
      BY <1>1, <2>2, <3>1 DEF Destinations!Answers
  <2>. QED
    BY <2>1, <2>2
<1>. QED
  BY <1>1, <1>2, <1>3, <1>4 DEF Destinations!Answer

\* A connection that is established either reaches the proxy, or OriginalDst
\* does not see it: a connection elsewhere is in neither map.
LEMMA EstablishRefines ==
  ASSUME Inv, Inv', NEW s \in Sock, Establish(s)
  PROVE  \/ \E r \in BOOLEAN : Destinations!Arrive(s, r)
         \/ UNCHANGED Destinations!dvars
<1> DEFINE q == [t \in Sock |-> Query(t)]
<1> USE EndpointAssumption
<1>1. /\ sockState[s] = "syn" /\ srv[s] = "none" /\ ~ known[s]
      /\ orig[s] # NoDst /\ orig' = orig /\ target' = target
  BY DEF Establish, Inv, Sane, Phases, TypeOK
<1>2. CASE peer[s] = ProxyEndpoint
  <2>1. srv' = [srv EXCEPT ![s] = "pending"]
    BY <1>2 DEF Establish
  <2>2. Query(s) = "none" /\ Query(s)' = "waiting"
    BY <1>1, <2>1 DEF Query, Inv, TypeOK, Answered
  <2>3. \A t \in Sock \ {s} : Query(t)' = Query(t)
    BY <2>1 DEF Query, Inv, TypeOK
  <2>4. q' = [q EXCEPT ![s] = "waiting"]
    BY <2>2, <2>3
  <2>5. known' = [known EXCEPT ![s] = known'[s]] /\ known'[s] \in BOOLEAN
    BY DEF Establish, cg_sock_ops, Inv, TypeOK
  <2>. QED
    BY <1>1, <2>2, <2>4, <2>5 DEF Destinations!Arrive
<1>3. CASE peer[s] # ProxyEndpoint
  <2>1. map_socks[s] = NoDst
    BY <1>3 DEF Establish, Reachable, Inv, Sane, Recorded
  <2>2. srv' = srv /\ known' = known
    BY <1>3, <2>1 DEF Establish, cg_sock_ops, Records
  <2>3. q' = q
    BY <2>2 DEF Query
  <2>. QED
    BY <1>1, <2>2, <2>3 DEF Destinations!dvars
<1>. QED
  BY <1>2, <1>3

\* A step of the hooks, the loader or a worker is a step of OriginalDst or
\* one it cannot see.
LEMMA StepRefines ==
  ASSUME Inv, Inv', Next
  PROVE  Destinations!Next \/ UNCHANGED Destinations!dvars
<1> DEFINE q == [t \in Sock |-> Query(t)]
<1>1. ASSUME UNCHANGED <<orig, known, srv, target>>
      PROVE  UNCHANGED Destinations!dvars
  <2>1. q' = q
    BY <1>1 DEF Query
  <2>. QED
    BY <1>1, <2>1 DEF Destinations!dvars
<1>2. CASE Boot
  <2>1. CASE Exit
    <3>1. UNCHANGED <<orig, known, target>>
      BY <2>1 DEF Exit
    <3>2. \A s \in Sock :
            Query(s)' = IF Query(s) = "none" THEN "none" ELSE "lost"
      <4> SUFFICES ASSUME NEW s \in Sock
                   PROVE  Query(s)' = IF Query(s) = "none" THEN "none" ELSE "lost"
        OBVIOUS
      <4>1. srv'[s] = IF srv[s] = "none" THEN "none" ELSE "gone"
        BY <2>1 DEF Exit
      <4>2. srv[s] \in SrvStates
        BY DEF Inv, TypeOK
      <4>3. Query(s) = "none" <=> srv[s] = "none"
        BY <4>2 DEF Query, SrvStates, Asking, Running, Answered
      <4>. QED
        BY <4>1, <4>3 DEF Query, Answered
    <3>3. q' = [s \in Sock |-> IF q[s] = "none" THEN "none" ELSE "lost"]
      BY <3>2
    <3>. QED
      BY <3>1, <3>3 DEF Destinations!LoseAll, Destinations!Next
  <2>2. CASE ~ Exit
    <3>1. UNCHANGED <<orig, known, srv, target>>
      BY <1>2, <2>2 DEF Boot, AttachConnect4, AttachSockOps, AttachGetsockopt,
           AttachStep, Listen, UpdateConfig, Restart, tcpVars, askVars
    <3>. QED
      BY <1>1, <3>1
  <2>. QED
    BY <2>1, <2>2
<1>3. ASSUME NEW s \in Sock, NEW d \in Dst, NEW a \in Addr, NEW p \in Port,
             Connect(s, d, a, p)
      PROVE  Destinations!Next
  <2>1. /\ orig' = [orig EXCEPT ![s] = d]
        /\ known' = known /\ srv' = srv /\ target' = target
    BY <1>3 DEF Connect
  <2>2. orig[s] = NoDst
    BY <1>3 DEF Connect, Inv, Sane, Phases
  <2>3. q' = q
    BY <2>1 DEF Query
  <2>4. Destinations!Connect(s, d)
    BY <2>1, <2>2, <2>3 DEF Destinations!Connect
  <2>. QED
    BY <2>4 DEF Destinations!Next
<1>4. ASSUME NEW s \in Sock, Refuse(s) \/ Close(s)
      PROVE  UNCHANGED Destinations!dvars
  BY <1>1, <1>4 DEF Refuse, Close, askVars
<1>5. ASSUME NEW s \in Sock,
             LookupPort(s) \/ LookupSock(s) \/ DeletePort(s) \/ DeleteSock(s)
      PROVE  UNCHANGED Destinations!dvars
  <2>1. /\ \/ srv[s] = "pending" /\ srv'[s] = "cookie"
           \/ srv[s] = "cookie" /\ srv'[s] = "sock"
           \/ srv[s] \in Answered /\ srv'[s] \in Answered
        /\ \A t \in Sock \ {s} : srv'[t] = srv[t]
        /\ UNCHANGED <<orig, known, target>>
    BY <1>5 DEF LookupPort, LookupSock, DeletePort, DeleteSock, tcpVars, Inv,
                TypeOK, Answered
  <2>2. Query(s)' = Query(s) /\ \A t \in Sock \ {s} : Query(t)' = Query(t)
    BY <2>1 DEF Query, Answered
  <2>3. q' = q
    BY <2>2
  <2>. QED
    BY <2>1, <2>3 DEF Destinations!dvars
<1>6. CASE Network
  BY <1>3, <1>4, <1>6, EstablishRefines
     DEF Network, ClientConnect, ProxyDial, Destinations!Next
<1>7. CASE Worker
  BY <1>5, <1>7, QueryRefines DEF Worker, Destinations!Next
<1>. QED
  BY <1>2, <1>6, <1>7 DEF Next

\* The hooks, their maps and the query implement OriginalDst for any
\* sockets, ports and map sizes, through exits and restarts: one answer for
\* each connection, its own destination when a port identifies it.
THEOREM HooksImplementOriginalDst == Spec => ImplementsOriginalDst
<1>1. Init => Destinations!Init
  BY DEF Init, Destinations!Init, Query, Answered
<1>2. Inv /\ Inv' /\ [Next]_vars => [Destinations!Next]_Destinations!dvars
  <2>1. ASSUME UNCHANGED vars PROVE UNCHANGED Destinations!dvars
    <3>1. UNCHANGED <<orig, known, srv, target>>
      BY <2>1 DEF vars, tcpVars, askVars
    <3>2. [s \in Sock |-> Query(s)]' = [s \in Sock |-> Query(s)]
      BY <3>1 DEF Query
    <3>. QED
      BY <3>1, <3>2 DEF Destinations!dvars
  <2>. QED
    BY <2>1, StepRefines
<1>. QED
  BY <1>1, <1>2, Invariance, PTL
     DEF Spec, ImplementsOriginalDst, Destinations!Spec

=============================================================================
