----------------------------- MODULE ByteOrder -----------------------------
(***************************************************************************)
(* How the hooks of proxy.c move addresses and ports between byte orders,  *)
(* field widths and the Go program.  Redirector treats an endpoint as one  *)
(* value; this module follows the bytes of one connection through          *)
(* cg_connect4, cg_sock_ops, cg_sock_opt and getOriginalTargetFromConn.    *)
(*                                                                         *)
(* bpf2go compiles proxy.c once for little-endian and once for big-endian  *)
(* machines; the macros of bpf-utils.h differ between the two builds.  A   *)
(* number in a register is the tuple of its bytes, the most significant    *)
(* one first, so that it keeps its width; a field in memory is the tuple   *)
(* of its bytes in the order of their addresses.                           *)
(***************************************************************************)
EXTENDS Integers

CONSTANTS
  Address,    \* IPv4 addresses in network order
  Port,       \* ports in network order
  PROXY_PORT

Byte == 0..255
Word == 0..65535
Bytes2 == Byte \X Byte
Bytes4 == Byte \X Byte \X Byte \X Byte

ASSUME BytesAssumption ==
  /\ Address \subseteq Bytes4
  /\ Port \subseteq Bytes2
  /\ PROXY_PORT \in Word

VARIABLES
  build,     \* "little" or "big"
  dst,       \* the address and port the client passed to connect()
  src_port,  \* the client's local port
  ctx,       \* what the hook leaves of dst in the context, in memory
  sock,      \* struct Socket in map_socks
  key,       \* the key of map_ports the connection is recorded under
  sa,        \* SockAddrIn as the hook fills it in
  pc

vars == <<build, dst, src_port, ctx, sock, key, sa, pc>>

Endpoint == [addr : Bytes4, port : Bytes2]

TypeOK ==
  /\ build \in {"little", "big"}
  /\ dst \in [addr : Address, port : Port]
  /\ src_port \in Port
  /\ ctx \in Endpoint
  /\ sock \in [dst_addr : Bytes4, dst_port : Bytes2]
  /\ key \in Bytes2
  /\ sa \in Endpoint
  /\ pc \in {"connect", "passed", "redirected", "recorded", "answered",
             "unknown"}

Init ==
  /\ build \in {"little", "big"}
  /\ dst \in [addr : Address, port : Port]
  /\ src_port \in Port
  /\ ctx = dst
  /\ sock = [dst_addr |-> <<0, 0, 0, 0>>, dst_port |-> <<0, 0>>]
  /\ key = <<0, 0>>
  /\ sa = [addr |-> <<0, 0, 0, 0>>, port |-> <<0, 0>>]
  /\ pc = "connect"

-----------------------------------------------------------------------------
(* bpf-utils.h.                                                            *)

bswap16(x) == <<x[2], x[1]>>
bswap32(x) == <<x[4], x[3], x[2], x[1]>>

\* Fault: ntohs is left out.
ntohs_identity(x) == x

ntohs(x) == IF build = "little" THEN bswap16(x) ELSE x
htons(x) == IF build = "little" THEN bswap16(x) ELSE x

\* Fault: the two halves are exchanged, not the four bytes.
ntohl_halves(x) == IF build = "little" THEN <<x[3], x[4], x[1], x[2]>> ELSE x

ntohl(x) == IF build = "little" THEN bswap32(x) ELSE x
htonl(x) == IF build = "little" THEN bswap32(x) ELSE x

-----------------------------------------------------------------------------
(* Loads, stores and shifts.                                               *)

Load16(m) == IF build = "little" THEN bswap16(m) ELSE m
Load32(m) == IF build = "little" THEN bswap32(m) ELSE m
Store16(x) == IF build = "little" THEN bswap16(x) ELSE x
Store32(x) == IF build = "little" THEN bswap32(x) ELSE x

Extend(x) == <<0, 0, x[1], x[2]>>  \* __u16 to __u32
Low16(x) == <<x[3], x[4]>>         \* __u32 to __u16
ShiftLeft16(x) == <<x[3], x[4], 0, 0>>
ShiftRight16(x) == <<0, 0, x[1], x[2]>>

Literal16(n) == <<n \div 256, n % 256>>
Number16(x) == x[1] * 256 + x[2]

-----------------------------------------------------------------------------
(* cg_connect4.  The context's 32-bit user_port lies over the two bytes of *)
(* sin_port: the kernel extends a read and stores the low half of a write. *)

LoadPort(m) == Extend(Load16(m))
StorePort(x) == Store16(Low16(x))

\* Fault: the port is compared with 9000 in host order.
IsStoragePortHostOrder(m) == LoadPort(m) = Extend(Literal16(9000))

IsStoragePort(m) == LoadPort(m) = Extend(htons(Literal16(9000)))

PassOn ==
  /\ pc = "connect"
  /\ ~ IsStoragePort(ctx.port)
  /\ pc' = "passed"
  /\ UNCHANGED <<build, dst, src_port, ctx, sock, key, sa>>

Socket(c) ==
  [dst_addr |-> ntohl(Load32(c.addr)),
   dst_port |-> Low16(ShiftRight16(ntohl(LoadPort(c.port))))]

\* Fault: the port is not shifted before it is swapped.
ProxyCtxUnshifted ==
  [addr |-> Store32(htonl(<<127, 0, 0, 1>>)),
   port |-> StorePort(htonl(Extend(Literal16(PROXY_PORT))))]

ProxyCtx ==
  [addr |-> Store32(htonl(<<127, 0, 0, 1>>)),
   port |-> StorePort(htonl(ShiftLeft16(Extend(Literal16(PROXY_PORT)))))]

Redirect ==
  /\ pc = "connect"
  /\ IsStoragePort(ctx.port)
  /\ pc' = "redirected"
  /\ sock' = Socket(ctx)
  /\ ctx' = ProxyCtx
  /\ UNCHANGED <<build, dst, src_port, key, sa>>

-----------------------------------------------------------------------------
(* cg_sock_ops, cg_sock_opt and getOriginalTargetFromConn.                 *)

\* Fault: the key has the width of local_port.
RecordWide ==
  /\ pc = "redirected"
  /\ pc' = "recorded"
  /\ key' = Extend(src_port)
  /\ UNCHANGED <<build, dst, src_port, ctx, sock, sa>>

\* The context's 32-bit local_port is a number in host order.
Record ==
  /\ pc = "redirected"
  /\ pc' = "recorded"
  /\ key' = Low16(Extend(src_port))
  /\ UNCHANGED <<build, dst, src_port, ctx, sock, sa>>

\* sk->dst_port of the accepted socket holds the client's port in network
\* order.
LookupKey == ntohs(Load16(src_port))

\* Without an element of map_ports the zeroed SockAddrIn stays.
Query ==
  /\ pc = "recorded"
  /\ IF LookupKey = key
     THEN /\ pc' = "answered"
          /\ sa' = [addr |-> Store32(htonl(sock.dst_addr)),
                    port |-> Store16(htons(sock.dst_port))]
     ELSE pc' = "unknown" /\ UNCHANGED sa
  /\ UNCHANGED <<build, dst, src_port, ctx, sock, key>>

\* The Go program takes the bytes one by one.
TargetAddr == sa.addr
TargetPort == sa.port[1] * 256 + sa.port[2]

Next == PassOn \/ Redirect \/ Record \/ Query

Spec == Init /\ [][Next]_vars

-----------------------------------------------------------------------------
(* Properties.                                                             *)

\* Only connections to port 9000 are redirected, and all of them are, by
\* the code of both builds (cg_connect4).
OnlyStorageRedirected ==
  /\ pc = "passed" => Number16(dst.port) # 9000
  /\ pc \notin {"connect", "passed"} => Number16(dst.port) = 9000

\* A redirected connection goes to 127.0.0.1, and in the little-endian
\* build to the port the proxy listens on: the shift before the 32-bit swap
\* leaves the swapped port in the half of user_port that is stored.
RedirectedToProxyPort ==
  pc \in {"redirected", "recorded", "answered"} =>
    /\ ctx.addr = <<127, 0, 0, 1>>
    /\ build = "little" => Number16(ctx.port) = PROXY_PORT

\* The address a worker reads is byte for byte the one the client passed to
\* connect(), in both builds, and so is the port in the little-endian one,
\* through every load, swap, shift and store of the three hooks and the Go
\* program's own decoding.
OriginalSurvives ==
  pc = "answered" =>
    /\ TargetAddr = dst.addr
    /\ build = "little" => TargetPort = Number16(dst.port)

\* The key cg_sock_ops writes, taken from a field in host byte order, is
\* the key cg_sock_opt looks up, taken from one in network byte order, for
\* every port and in both builds.
KeyIsFound == pc # "unknown"

=============================================================================
