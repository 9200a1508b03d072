----------------------------- MODULE Redirector -----------------------------
(***************************************************************************)
(* The kernel side of the transparent proxy: the three cgroup hooks of     *)
(* proxy.c, the three BPF maps they share, the part of run() in main.go    *)
(* that attaches the hooks and publishes the configuration, and            *)
(* getOriginalTargetFromConn, with which a worker asks for the original    *)
(* destination of a connection it has accepted.                            *)
(*                                                                         *)
(* A socket stands for its cookie: the kernel never gives a cookie twice,  *)
(* so a socket connects once and a new connection is a new socket.  The    *)
(* TCP steps themselves (port allocation, handshake, refusal, close) are   *)
(* the kernel's and are modelled from what the hooks see of them.          *)
(***************************************************************************)
EXTENDS Naturals, FiniteSets

CONSTANTS
  ClientSock,       \* sockets opened by any process but the proxy
  ProxySock,        \* sockets the proxy opens to reach a target
  Addr,             \* local addresses a client socket may be bound to
  Port,             \* local ports
  StorageDst,       \* IPv4 TCP endpoints with port 9000
  OtherDst,         \* every other endpoint, the proxy's own among them
  ProxyEndpoint,    \* 127.0.0.1:PROXY_PORT
  ZeroEndpoint,     \* 127.0.0.1:0, what a zeroed configuration redirects to
  NoDst,            \* 0.0.0.0:0, the zeroed SockAddrIn; an absent map value
  NoSock,           \* an absent value of map_ports
  NoPort,           \* the port of a socket that has not connected
  NoAddr,           \* the address of a socket that has not connected
  MAX_CONNECTIONS,  \* max_entries of map_socks and of map_ports
  EarlyClose,       \* may a client give up before the proxy has asked?
  SlotReuse         \* may a freed map element be refilled while cg_sock_opt
                    \* still holds a pointer to it?

Sock == ClientSock \cup ProxySock
Dst == StorageDst \cup OtherDst

ASSUME SocketAssumption ==
  /\ ClientSock \cap ProxySock = {}
  /\ NoSock \notin Sock
  /\ NoPort \notin Port
  /\ NoAddr \notin Addr

ASSUME EndpointAssumption ==
  /\ StorageDst \cap OtherDst = {}
  /\ ProxyEndpoint \in OtherDst
  /\ ZeroEndpoint \notin Dst
  /\ NoDst \notin Dst
  /\ NoDst # ZeroEndpoint

ASSUME BoundAssumption ==
  /\ MAX_CONNECTIONS \in Nat
  /\ EarlyClose \in BOOLEAN
  /\ SlotReuse \in BOOLEAN

VARIABLES
  stage,       \* how far run() has come
  attached,    \* the hooks attached to the root cgroup
  map_config,  \* element 0 of the array map
  map_socks,   \* cookie -> original destination, NoDst when absent
  map_ports,   \* client port -> cookie, NoSock when absent
  sockState,   \* TCP state of the connecting end
  orig,        \* destination passed to connect()
  peer,        \* destination after the connect4 hook
  src_addr,    \* local address given at connect
  src_port,    \* local port given at connect
  srv,         \* the proxy's end of a connection to ProxyEndpoint
  target,      \* what getOriginalTargetFromConn returned
  cookieAt,    \* what the pointer "cookie" of cg_sock_opt points to
  sockAt,      \* whose element of map_socks its pointer "sock" points to
  known,       \* auxiliary: both maps held the connection when established
  misled       \* auxiliary: an element was refilled between its lookup and
               \* the use of the pointer for the answer

mapVars == <<map_socks, map_ports>>
bootVars == <<stage, attached, map_config>>
tcpVars == <<sockState, orig, peer, src_addr, src_port>>
ptrVars == <<cookieAt, sockAt, misled>>
askVars == <<srv, target, ptrVars, known>>
vars == <<bootVars, mapVars, tcpVars, askVars>>

Hooks == {"connect4", "sockops", "getsockopt"}
Stages == {"loaded", "connect4", "sockops", "getsockopt", "listening",
           "serving", "exited"}
SockStates == {"new", "syn", "est", "closed", "refused"}

\* A query goes from "pending" through the lookup of the cookie, the lookup
\* of the socket, the answer and the two deletions.
Running == {"cookie", "sock", "answered", "deleting"}
Asking == Running \cup {"pending"}
Answered == {"answered", "deleting", "asked"}
SrvStates == Asking \cup {"none", "asked", "gone"}

\* The array map is zero-filled when the objects are loaded.
ZeroConfig == [proxy_port |-> ZeroEndpoint, proxy_pid |-> "none"]
ProxyConfig == [proxy_port |-> ProxyEndpoint, proxy_pid |-> "proxy"]

Pid(s) == IF s \in ProxySock THEN "proxy" ELSE "client"

EmptySocks == [s \in Sock |-> NoDst]
EmptyPorts == [p \in Port |-> NoSock]

TypeOK ==
  /\ stage \in Stages
  /\ attached \in SUBSET Hooks
  /\ map_config \in {ZeroConfig, ProxyConfig}
  /\ map_socks \in [Sock -> Dst \cup {ZeroEndpoint, NoDst}]
  /\ map_ports \in [Port -> Sock \cup {NoSock}]
  /\ sockState \in [Sock -> SockStates]
  /\ orig \in [Sock -> Dst \cup {NoDst}]
  /\ peer \in [Sock -> Dst \cup {ZeroEndpoint, NoDst}]
  /\ src_addr \in [Sock -> Addr \cup {NoAddr}]
  /\ src_port \in [Sock -> Port \cup {NoPort}]
  /\ srv \in [Sock -> SrvStates]
  /\ target \in [Sock -> Dst \cup {ZeroEndpoint, NoDst}]
  /\ cookieAt \in [Sock -> Sock \cup {NoSock}]
  /\ sockAt \in [Sock -> Sock \cup {NoSock}]
  /\ known \in [Sock -> BOOLEAN]
  /\ misled \in [Sock -> BOOLEAN]

Init ==
  /\ stage = "loaded"
  /\ attached = {}
  /\ map_config = ZeroConfig
  /\ map_socks = EmptySocks
  /\ map_ports = EmptyPorts
  /\ sockState = [s \in Sock |-> "new"]
  /\ orig = [s \in Sock |-> NoDst]
  /\ peer = [s \in Sock |-> NoDst]
  /\ src_addr = [s \in Sock |-> NoAddr]
  /\ src_port = [s \in Sock |-> NoPort]
  /\ srv = [s \in Sock |-> "none"]
  /\ target = [s \in Sock |-> NoDst]
  /\ cookieAt = [s \in Sock |-> NoSock]
  /\ sockAt = [s \in Sock |-> NoSock]
  /\ known = [s \in Sock |-> FALSE]
  /\ misled = [s \in Sock |-> FALSE]

-----------------------------------------------------------------------------
(* BPF hash maps.  bpf_map_update_elem with flags 0 overwrites a key that  *)
(* is present and fails when a new key meets a full map; the hooks ignore  *)
(* its result.                                                             *)

Used(m, absent) == {k \in DOMAIN m : m[k] # absent}

HasRoom(m, absent, k) ==
  \/ m[k] # absent
  \/ Cardinality(Used(m, absent)) < MAX_CONNECTIONS

MapUpdate(m, absent, k, v) ==
  IF HasRoom(m, absent, k) THEN [m EXCEPT ![k] = v] ELSE m

-----------------------------------------------------------------------------
(* run() in main.go.  A hook that cannot be attached is logged, and the    *)
(* "defer link.Close()" on the nil link that follows panics at once; a     *)
(* listener or a configuration that fails is fatal.  Both are Exit.        *)

AttachStep(from, hook) ==
  /\ stage = from
  /\ stage' = hook
  /\ attached' = attached \cup {hook}
  /\ UNCHANGED <<map_config, mapVars, tcpVars, askVars>>

AttachConnect4 == AttachStep("loaded", "connect4")
AttachSockOps == AttachStep("connect4", "sockops")
AttachGetsockopt == AttachStep("sockops", "getsockopt")

Listen ==
  /\ stage = "getsockopt"
  /\ stage' = "listening"
  /\ UNCHANGED <<attached, map_config, mapVars, tcpVars, askVars>>

\* Fault: the pid is left out of the published configuration.
UpdateConfigNoPid ==
  /\ stage = "listening"
  /\ stage' = "serving"
  /\ map_config' = [ZeroConfig EXCEPT !.proxy_port = ProxyEndpoint]
  /\ UNCHANGED <<attached, mapVars, tcpVars, askVars>>

UpdateConfig ==
  /\ stage = "listening"
  /\ stage' = "serving"
  /\ map_config' = ProxyConfig
  /\ UNCHANGED <<attached, mapVars, tcpVars, askVars>>

\* log.Fatalf, os.Exit(0) in the signal handler, or a panic.  The kernel
\* closes the file descriptors, which detaches the links, frees the maps
\* and resets every connection of the process.
Exit ==
  /\ stage # "exited"
  /\ stage' = "exited"
  /\ attached' = {}
  /\ map_config' = ZeroConfig
  /\ map_socks' = EmptySocks
  /\ map_ports' = EmptyPorts
  /\ srv' = [s \in Sock |-> IF srv[s] = "none" THEN "none" ELSE "gone"]
  /\ sockState' = [s \in Sock |->
       IF \/ srv[s] # "none"
          \/ s \in ProxySock /\ sockState[s] \in {"syn", "est"}
       THEN "closed" ELSE sockState[s]]
  /\ UNCHANGED <<orig, peer, src_addr, src_port, target, ptrVars, known>>

\* The operator starts the program again: new objects, new maps.
Restart ==
  /\ stage = "exited"
  /\ stage' = "loaded"
  /\ UNCHANGED <<attached, map_config, mapVars, tcpVars, askVars>>

-----------------------------------------------------------------------------
(* connect().                                                              *)

\* Fault: the check against proxy_pid is missing.
RedirectsAnyone(s, d) == "connect4" \in attached /\ d \in StorageDst

\* The conditions under which cg_connect4 does not return early.  The
\* lookup in the one-element array map always finds the element.
Redirects(s, d) ==
  /\ "connect4" \in attached
  /\ d \in StorageDst
  /\ Pid(s) # map_config.proxy_pid

PeerOf(s, d) == IF Redirects(s, d) THEN map_config.proxy_port ELSE d

\* Fault: the destination is read from ctx after it has been rewritten.
cg_connect4_late_read(s, d) ==
  /\ peer' = [peer EXCEPT ![s] = PeerOf(s, d)]
  /\ IF Redirects(s, d)
     THEN map_socks' = MapUpdate(map_socks, NoDst, s, map_config.proxy_port)
     ELSE UNCHANGED map_socks

cg_connect4(s, d) ==
  /\ peer' = [peer EXCEPT ![s] = PeerOf(s, d)]
  /\ IF Redirects(s, d)
     THEN map_socks' = MapUpdate(map_socks, NoDst, s, d)
     ELSE UNCHANGED map_socks

\* A lookup returns a pointer into the map, and nothing keeps the element it
\* points to: once deleted or replaced, the element may be given to the next
\* insertion on any CPU, and every pointer to it then sees the new content.
\* A cookie is inserted into each map once, so the cookie that a pointer
\* sees identifies the element.
Freed(pointed, present) == {{}} \cup {{c} : c \in pointed \ present}

\* The element of map_socks that the insertion for s takes.
RefillSocks(s, d) ==
  LET pointed == {sockAt[q] : q \in {r \in Sock : srv[r] = "sock"}}
      inserts == Redirects(s, d) /\ HasRoom(map_socks, NoDst, s)
  IN IF SlotReuse /\ inserts
     THEN \E old \in Freed(pointed, Used(map_socks, NoDst)) :
            LET hit == {q \in Sock : srv[q] = "sock" /\ sockAt[q] \in old}
            IN /\ sockAt' = [q \in Sock |-> IF q \in hit THEN s ELSE sockAt[q]]
               /\ misled' = [q \in Sock |-> misled[q] \/ q \in hit]
     ELSE UNCHANGED <<sockAt, misled>>

Live(s) == sockState[s] \in {"syn", "est"}

\* The kernel gives a connecting socket a local address and port that no
\* live socket with the same remote endpoint has.
TupleFree(s, d, a, p) ==
  \A t \in Sock \ {s} :
    Live(t) /\ peer[t] = d => ~ (src_addr[t] = a /\ src_port[t] = p)

Connect(s, d, a, p) ==
  /\ sockState[s] = "new"
  /\ TupleFree(s, PeerOf(s, d), a, p)
  /\ sockState' = [sockState EXCEPT ![s] = "syn"]
  /\ orig' = [orig EXCEPT ![s] = d]
  /\ src_addr' = [src_addr EXCEPT ![s] = a]
  /\ src_port' = [src_port EXCEPT ![s] = p]
  /\ cg_connect4(s, d)
  /\ RefillSocks(s, d)
  /\ UNCHANGED <<bootVars, map_ports, srv, target, cookieAt, known>>

ClientConnect(s, d, a, p) == s \in ClientSock /\ Connect(s, d, a, p)

\* A worker dials the target it was given for a connection it serves.
ProxyDial(s, d, a, p) ==
  /\ s \in ProxySock
  /\ stage = "serving"
  /\ \E c \in ClientSock : srv[c] = "asked" /\ target[c] = d
  /\ Connect(s, d, a, p)

-----------------------------------------------------------------------------
(* BPF_SOCK_OPS_ACTIVE_ESTABLISHED_CB.                                     *)

Records(s) == "sockops" \in attached /\ map_socks[s] # NoDst

\* The element of map_ports that the insertion for s takes.  From line 165
\* on only the last deletion reads the cookie again.
RefillPorts(s) ==
  LET pointed == {cookieAt[q] : q \in {r \in Sock : srv[r] \in Running}}
      inserts == Records(s) /\ HasRoom(map_ports, NoSock, src_port[s])
  IN IF SlotReuse /\ inserts
     THEN \E old \in Freed(pointed, {map_ports[p] : p \in Port}) :
            LET hit == {q \in Sock : srv[q] \in Running /\ cookieAt[q] \in old}
            IN /\ cookieAt' = [q \in Sock |-> IF q \in hit THEN s ELSE cookieAt[q]]
               /\ misled' = [q \in Sock |->
                    misled[q] \/ (q \in hit /\ srv[q] = "cookie")]
     ELSE UNCHANGED <<cookieAt, misled>>

cg_sock_ops(s) ==
  IF Records(s)
  THEN /\ map_ports' = MapUpdate(map_ports, NoSock, src_port[s], s)
       /\ known' = [known EXCEPT ![s] =
            HasRoom(map_ports, NoSock, src_port[s])]
  ELSE UNCHANGED <<map_ports, known>>

Reachable(d) ==
  /\ d \in Dst
  /\ d = ProxyEndpoint => stage \in {"listening", "serving"}

\* The handshake completes; a connection to the proxy waits to be accepted.
Establish(s) ==
  /\ sockState[s] = "syn"
  /\ Reachable(peer[s])
  /\ sockState' = [sockState EXCEPT ![s] = "est"]
  /\ srv' = IF peer[s] = ProxyEndpoint
            THEN [srv EXCEPT ![s] = "pending"] ELSE srv
  /\ cg_sock_ops(s)
  /\ RefillPorts(s)
  /\ UNCHANGED <<bootVars, map_socks, orig, peer, src_addr, src_port, target,
                 sockAt>>

\* The connection is refused or times out.  No hook sees it.
Refuse(s) ==
  /\ sockState[s] = "syn"
  /\ sockState' = [sockState EXCEPT ![s] = "refused"]
  /\ UNCHANGED <<bootVars, mapVars, orig, peer, src_addr, src_port, askVars>>

\* The connecting end closes; its local port may be given out again while
\* the proxy still holds the accepted socket.
Close(s) ==
  /\ sockState[s] = "est"
  /\ EarlyClose \/ srv[s] \notin Asking
  /\ sockState' = [sockState EXCEPT ![s] = "closed"]
  /\ UNCHANGED <<bootVars, mapVars, orig, peer, src_addr, src_port, askVars>>

-----------------------------------------------------------------------------
(* getsockopt(SO_ORIGINAL_DST).                                            *)

(* A worker has taken the connection and asks for its destination.  The    *)
(* hooks of several connections run on several CPUs at once, so each use   *)
(* of a map or of a pointer into one is a step.                            *)

PortFound(s) ==
  "getsockopt" \in attached /\ map_ports[src_port[s]] # NoSock

LookupPort(s) ==
  /\ stage = "serving"
  /\ srv[s] = "pending"
  /\ PortFound(s)
  /\ srv' = [srv EXCEPT ![s] = "cookie"]
  /\ cookieAt' = [cookieAt EXCEPT ![s] = map_ports[src_port[s]]]
  /\ UNCHANGED <<bootVars, mapVars, tcpVars, target, sockAt, known, misled>>

SockFound(s) == map_socks[cookieAt[s]] # NoDst

LookupSock(s) ==
  /\ srv[s] = "cookie"
  /\ SockFound(s)
  /\ srv' = [srv EXCEPT ![s] = "sock"]
  /\ sockAt' = [sockAt EXCEPT ![s] = cookieAt[s]]
  /\ UNCHANGED <<bootVars, mapVars, tcpVars, target, cookieAt, known, misled>>

\* A freed element keeps the destination that was stored in it.
Content(c) == IF map_socks[c] # NoDst THEN map_socks[c] ELSE orig[c]

Answer(s) ==
  /\ srv[s] = "sock"
  /\ srv' = [srv EXCEPT ![s] = "answered"]
  /\ target' = [target EXCEPT ![s] = Content(sockAt[s])]
  /\ UNCHANGED <<bootVars, mapVars, tcpVars, ptrVars, known>>

\* Fault: the element of map_ports is left in place.
DeletePortForgotten(s) ==
  /\ srv[s] = "answered"
  /\ srv' = [srv EXCEPT ![s] = "deleting"]
  /\ UNCHANGED <<bootVars, mapVars, tcpVars, target, ptrVars, known>>

DeletePort(s) ==
  /\ srv[s] = "answered"
  /\ srv' = [srv EXCEPT ![s] = "deleting"]
  /\ map_ports' = [map_ports EXCEPT ![src_port[s]] = NoSock]
  /\ UNCHANGED <<bootVars, map_socks, tcpVars, target, ptrVars, known>>

\* Fault: only the element of map_ports is deleted.
DeleteSockForgotten(s) ==
  /\ srv[s] = "deleting"
  /\ srv' = [srv EXCEPT ![s] = "asked"]
  /\ UNCHANGED <<bootVars, mapVars, tcpVars, target, ptrVars, known>>

\* The cookie is read through the pointer once more.
DeleteSock(s) ==
  /\ srv[s] = "deleting"
  /\ srv' = [srv EXCEPT ![s] = "asked"]
  /\ map_socks' = [map_socks EXCEPT ![cookieAt[s]] = NoDst]
  /\ UNCHANGED <<bootVars, map_ports, tcpVars, target, ptrVars, known>>

\* One of the two lookups fails.
Unresolved(s) ==
  \/ stage = "serving" /\ srv[s] = "pending" /\ ~ PortFound(s)
  \/ srv[s] = "cookie" /\ ~ SockFound(s)

\* Fault: originalDst is shared and still holds an earlier answer.
NoOriginalTargetStale(s) ==
  /\ Unresolved(s)
  /\ srv' = [srv EXCEPT ![s] = "asked"]
  /\ \E t \in Sock : target' = [target EXCEPT ![s] = target[t]]
  /\ UNCHANGED <<bootVars, mapVars, tcpVars, ptrVars, known>>

\* Fault: a failed query drops the connection without an answer.
NoOriginalTargetDrops(s) ==
  /\ Unresolved(s)
  /\ srv' = [srv EXCEPT ![s] = "gone"]
  /\ UNCHANGED <<bootVars, mapVars, tcpVars, target, ptrVars, known>>

\* The hook leaves the kernel's error in place.  getOriginalTargetFromConn
\* logs it and returns the zeroed address with a nil error.
NoOriginalTarget(s) ==
  /\ Unresolved(s)
  /\ srv' = [srv EXCEPT ![s] = "asked"]
  /\ UNCHANGED <<bootVars, mapVars, tcpVars, target, ptrVars, known>>

-----------------------------------------------------------------------------
Boot ==
  \/ AttachConnect4 \/ AttachSockOps \/ AttachGetsockopt
  \/ Listen \/ UpdateConfig \/ Exit \/ Restart

Network ==
  \E s \in Sock :
    \/ \E d \in Dst, a \in Addr, p \in Port :
         ClientConnect(s, d, a, p) \/ ProxyDial(s, d, a, p)
    \/ Establish(s) \/ Refuse(s) \/ Close(s)

Worker ==
  \E s \in Sock :
    \/ LookupPort(s) \/ LookupSock(s) \/ Answer(s)
    \/ DeletePort(s) \/ DeleteSock(s) \/ NoOriginalTarget(s)

Next == Boot \/ Network \/ Worker

Spec == Init /\ [][Next]_vars

-----------------------------------------------------------------------------
(* Properties.                                                             *)

\* A client port stands for one connection: clients wait for their answer
\* and share one local address.
PortIdentifies == ~ EarlyClose /\ \A a, b \in Addr : a = b

Undisturbed == PortIdentifies /\ ~ SlotReuse

\* What the SO_ORIGINAL_DST hook tells a worker is the destination that
\* very client passed to connect() whenever both maps had recorded the
\* connection, and nothing otherwise: never another connection's
\* destination, however full the maps are, however often the proxy was
\* restarted and whatever other hooks do between the two lookups and the
\* answer (cg_sock_opt, proxy.c).
AnsweredIsOriginal ==
  Undisturbed =>
    \A s \in Sock :
      srv[s] \in Answered => target[s] = IF known[s] THEN orig[s] ELSE NoDst

\* A connection that was recorded when it was established stays resolvable
\* until its own query has answered: no query, insertion or deletion for
\* another connection takes its two map elements away.  Without SlotReuse:
\* line 184 of another query may read this connection's cookie through a
\* refilled element and delete its destination (cg_sock_ops, cg_sock_opt).
PendingResolvable ==
  Undisturbed =>
    \A s \in Sock :
      srv[s] \in {"pending", "cookie", "sock"} /\ known[s] =>
        map_ports[src_port[s]] = s /\ map_socks[s] = orig[s]

\* A connection of the proxy is never redirected to the proxy: by the time
\* a worker can dial, the configuration holds the proxy's pid, also after a
\* restart ("This prevents the proxy from proxying itself", proxy.c).
NoSelfProxy ==
  \A s \in ProxySock : sockState[s] # "new" => peer[s] = orig[s]

\* An answered query leaves nothing behind: map_ports holds only ports of
\* connections still waiting for theirs, and a cookie that was recorded is
\* gone from map_socks once its query is over.  What leaks are cookies that
\* never were recorded: those of refused connections, and of connections
\* established when map_ports was full (proxy.c).
RecordedLeavesNothing ==
  Undisturbed =>
    /\ \A p \in Port : map_ports[p] # NoSock =>
         /\ src_port[map_ports[p]] = p
         /\ srv[map_ports[p]] \in Asking \ {"deleting"}
    /\ \A s \in Sock : map_socks[s] # NoDst /\ known[s] => srv[s] \in Asking

\* What is left when clients give up early, share a port on several
\* addresses and map elements are refilled under running queries: a worker
\* gets no answer, or the destination of a connection that has its client's
\* source port, unless the very element it had found was refilled before it
\* was read (cg_sock_opt, getOriginalTargetFromConn).
AnswerSharesPort ==
  \A s \in Sock :
    srv[s] \in Answered /\ target[s] # NoDst /\ ~ misled[s] =>
      \E t \in Sock :
        /\ sockState[t] # "new"
        /\ src_port[t] = src_port[s]
        /\ orig[t] = target[s]

Query(s) ==
  CASE srv[s] = "none" -> "none"
    [] srv[s] \in {"pending", "cookie", "sock"} -> "waiting"
    [] srv[s] \in Answered -> "answered"
    [] srv[s] = "gone" -> "lost"

Destinations == INSTANCE OriginalDst WITH
  Exact <- Undisturbed,
  dst <- orig,
  recorded <- known,
  query <- [s \in Sock |-> Query(s)],
  answer <- target

\* Hooks, maps and query together keep what OriginalDst promises a worker:
\* each connection that reaches the proxy is answered once and for good,
\* nothing that happens to the maps shows in an answer, and only the exit
\* of the process takes a connection away (cg_connect4, cg_sock_ops,
\* cg_sock_opt, getOriginalTargetFromConn).
ImplementsOriginalDst == Destinations!Spec

-----------------------------------------------------------------------------
(* What the comments of proxy.c say, and the code does not always do.      *)

\* "It redirect the connection to the transparent proxy": a redirected
\* connection goes to the endpoint the proxy listens on (cg_connect4).
RedirectedToProxy ==
  \A s \in Sock : Live(s) => peer[s] \in {orig[s], ProxyEndpoint}

\* "uses the source port of the client to retrieve the socket's cookie":
\* the source port of a recorded connection leads to its own cookie and
\* destination as long as it waits for its query (cg_sock_opt).
RecordedIsResolvable ==
  \A s \in Sock :
    srv[s] = "pending" /\ known[s] /\ sockState[s] = "est" =>
      map_ports[src_port[s]] = s /\ map_socks[s] = orig[s]

=============================================================================
