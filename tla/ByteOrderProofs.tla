-------------------------- MODULE ByteOrderProofs --------------------------
(* Proofs about ByteOrder, for every address and port.                     *)
EXTENDS ByteOrder, TLAPS

-----------------------------------------------------------------------------
(* What the conversions do to tuples of bytes.                             *)

\* Every swap turns tuples of bytes into tuples of bytes of the same width.
LEMMA SwapTypes ==
  /\ \A x \in Bytes2 : bswap16(x) \in Bytes2
  /\ \A x \in Bytes4 : bswap32(x) \in Bytes4
  BY DEF Bytes2, Bytes4, bswap16, bswap32

\* A second swap undoes the first.
LEMMA SwapInvolution ==
  /\ \A x \in Bytes2 : bswap16(bswap16(x)) = x
  /\ \A x \in Bytes4 : bswap32(bswap32(x)) = x
  BY DEF Bytes2, Bytes4, bswap16, bswap32

\* Division with remainder by 256, for numbers of two bytes.
LEMMA DivMod ==
  ASSUME NEW n \in Word
  PROVE  /\ n \div 256 \in Byte
         /\ n % 256 \in Byte
         /\ (n \div 256) * 256 + (n % 256) = n
  <1>1. n \in Int /\ 0 <= n /\ n <= 65535
    BY SMT DEF Word
  <1>2. n \div 256 \in Int /\ n % 256 \in 0..255
    BY <1>1, SMT
  <1>3. (n \div 256) * 256 + (n % 256) = n
    BY <1>1, SMT
  <1>4. QED
    BY <1>1, <1>2, <1>3, SMT DEF Byte

\* A 16-bit number is split into its two bytes.
LEMMA Literals ==
  ASSUME NEW n \in Word
  PROVE  /\ Literal16(n) \in Bytes2
         /\ Number16(Literal16(n)) = n
  <1>1. PICK q \in Byte, r \in Byte :
          q = n \div 256 /\ r = n % 256 /\ q * 256 + r = n
    BY DivMod, SMT
  <1>2. Literal16(n) = <<q, r>>
    BY <1>1, SMT DEF Literal16
  <1>3. <<q, r>> \in Bytes2 /\ Number16(<<q, r>>) = n
    BY <1>1, SMT DEF Bytes2, Number16
  <1>4. QED
    BY <1>2, <1>3, SMT

\* The bytes of a 16-bit number are determined by it.
LEMMA NumberInjective ==
  ASSUME NEW x \in Bytes2, NEW y \in Bytes2, Number16(x) = Number16(y)
  PROVE  x = y
  <1>1. PICK a \in Byte, b \in Byte : x = <<a, b>>
    BY DEF Bytes2
  <1>2. PICK c \in Byte, d \in Byte : y = <<c, d>>
    BY DEF Bytes2
  <1>3. a * 256 + b = c * 256 + d
    BY <1>1, <1>2 DEF Number16
  <1>4. a \in 0..255 /\ b \in 0..255 /\ c \in 0..255 /\ d \in 0..255
    BY DEF Byte
  <1>5. a = c /\ b = d
    BY <1>3, <1>4
  <1>6. QED
    BY <1>1, <1>2, <1>5, SMT

-----------------------------------------------------------------------------
(* What the hooks make of a field in network order.                        *)

\* In both builds a load followed by its conversion yields the number whose
\* bytes are those on the wire, and the reverse for a store.
LEMMA NetworkFields ==
  ASSUME build \in {"little", "big"}
  PROVE  /\ \A m \in Bytes2 : ntohs(Load16(m)) = m /\ Store16(htons(m)) = m
         /\ \A m \in Bytes4 : ntohl(Load32(m)) = m /\ Store32(htonl(m)) = m
  <1>1. CASE build = "little"
    BY <1>1, SwapInvolution, SMT
       DEF ntohs, htons, ntohl, htonl, Load16, Load32, Store16, Store32
  <1>2. CASE build = "big"
    BY <1>2, SMT
       DEF ntohs, htons, ntohl, htonl, Load16, Load32, Store16, Store32
  <1>3. QED
    BY <1>1, <1>2

\* In the little-endian build the 32-bit detour of user_port keeps the port
\* as well, in both directions.
LEMMA LittleEndianPorts ==
  ASSUME build = "little"
  PROVE  \A m \in Bytes2 :
           /\ Low16(ShiftRight16(ntohl(LoadPort(m)))) = m
           /\ StorePort(htonl(ShiftLeft16(Extend(m)))) = m
  BY SMT DEF Low16, ShiftRight16, ShiftLeft16, ntohl, htonl, LoadPort, StorePort,
             Load16, Store16, Extend, bswap16, bswap32, Bytes2

\* The comparison with htons(9000) is a comparison of the bytes.
LEMMA StoragePort ==
  ASSUME build \in {"little", "big"}, NEW m \in Bytes2
  PROVE  IsStoragePort(m) <=> Number16(m) = 9000
  <1> DEFINE l == Literal16(9000)
  <1>1. 9000 \in Word
    BY SMT DEF Word
  <1>2. l \in Bytes2 /\ Number16(l) = 9000
    BY <1>1, Literals, SMT
  <1> HIDE DEF l
  <1>3. IsStoragePort(m) <=> Extend(Load16(m)) = Extend(htons(l))
    BY DEF IsStoragePort, LoadPort, l
  <1>4. Extend(Load16(m)) = Extend(htons(l)) <=> m = l
    BY <1>2, SMT DEF Extend, Load16, htons, bswap16, Bytes2
  <1>5. m = l <=> Number16(m) = 9000
    BY <1>2, NumberInjective, SMT
  <1>6. QED
    BY <1>3, <1>4, <1>5

\* What the hooks produce is well typed in both builds.
LEMMA HookTypes ==
  ASSUME build \in {"little", "big"}
  PROVE  /\ \A c \in Endpoint :
              Socket(c) \in [dst_addr : Bytes4, dst_port : Bytes2]
         /\ ProxyCtx \in Endpoint
         /\ \A x \in Bytes2 : Store16(htons(x)) \in Bytes2
         /\ \A x \in Bytes4 : Store32(htonl(x)) \in Bytes4
  <1>1. 0 \in Byte /\ 1 \in Byte /\ 127 \in Byte
    BY SMT DEF Byte
  <1>2. Literal16(PROXY_PORT) \in Bytes2
    BY BytesAssumption, Literals, SMT
  <1>3. \A m \in Bytes2 :
          /\ Low16(ShiftRight16(ntohl(LoadPort(m)))) \in Bytes2
          /\ StorePort(htonl(ShiftLeft16(Extend(m)))) \in Bytes2
    BY <1>1, SMT
       DEF Low16, ShiftRight16, ShiftLeft16, ntohl, htonl, LoadPort, StorePort,
           Load16, Store16, Extend, bswap16, bswap32, Bytes2
  <1>4. \A m \in Bytes4 : ntohl(Load32(m)) \in Bytes4 /\ Store32(htonl(m)) \in Bytes4
    BY NetworkFields, SMT
  <1>5. \A x \in Bytes2 : Store16(htons(x)) \in Bytes2
    BY NetworkFields, SMT
  <1>6. ASSUME NEW c \in Endpoint
        PROVE  Socket(c) \in [dst_addr : Bytes4, dst_port : Bytes2]
    BY <1>3, <1>4, SMT DEF Socket, Endpoint
  <1>7. <<127, 0, 0, 1>> \in Bytes4
    BY <1>1, SMT DEF Bytes4
  <1>8. ProxyCtx \in Endpoint
    BY <1>2, <1>3, <1>4, <1>7, SMT DEF ProxyCtx, Endpoint
  <1>9. QED
    BY <1>4, <1>5, <1>6, <1>8

-----------------------------------------------------------------------------
(* The inductive invariant.                                                *)

\* Which connections were redirected, and to where.
Sent ==
  /\ pc = "connect" => ctx = dst
  /\ pc = "passed" => Number16(dst.port) # 9000
  /\ pc \notin {"connect", "passed"} => Number16(dst.port) = 9000
  /\ pc \notin {"connect", "passed"} =>
       /\ ctx.addr = <<127, 0, 0, 1>>
       /\ build = "little" => Number16(ctx.port) = PROXY_PORT

\* What is stored of a connection, and what is given back.
Kept ==
  /\ pc \notin {"connect", "passed"} =>
       /\ sock.dst_addr = dst.addr
       /\ build = "little" => sock.dst_port = dst.port
  /\ pc \in {"recorded", "answered"} => key = src_port
  /\ pc = "answered" =>
       /\ sa.addr = dst.addr
       /\ build = "little" => sa.port = dst.port
  /\ pc # "unknown"

Inv == TypeOK /\ Sent /\ Kept

\* The invariant holds in the beginning and is preserved by every step of
\* the hooks, for every address and port and in both builds.
THEOREM BytesInvariance == Spec => []Inv
  <1>1. Init => Inv
    <2> SUFFICES ASSUME Init PROVE Inv
      OBVIOUS
    <2>1. 0 \in Byte
      BY SMT DEF Byte
    <2>2. <<0, 0, 0, 0>> \in Bytes4 /\ <<0, 0>> \in Bytes2
      BY <2>1, SMT DEF Bytes4, Bytes2
    <2>3. TypeOK
      BY <2>2, BytesAssumption, SMT DEF Init, TypeOK, Endpoint
    <2>4. QED
      BY <2>3 DEF Init, Inv, Sent, Kept
  <1>2. Inv /\ [Next]_vars => Inv'
    <2> SUFFICES ASSUME Inv, [Next]_vars PROVE Inv'
      OBVIOUS
    <2>0. /\ build \in {"little", "big"}
          /\ dst.addr \in Bytes4 /\ dst.port \in Bytes2
          /\ src_port \in Bytes2
          /\ ctx \in Endpoint /\ ctx.port \in Bytes2
          /\ sock.dst_addr \in Bytes4 /\ sock.dst_port \in Bytes2
      BY BytesAssumption, SMT DEF Inv, TypeOK, Endpoint
    <2>1. CASE PassOn
      <3>1. Number16(dst.port) # 9000
        BY <2>0, <2>1, StoragePort, SMT DEF PassOn, Inv, Sent
      <3>2. QED
        BY <2>1, <3>1 DEF PassOn, Inv, TypeOK, Sent, Kept
    <2>2. CASE Redirect
      <3>1. ctx = dst /\ Number16(dst.port) = 9000
        BY <2>0, <2>2, StoragePort, SMT DEF Redirect, Inv, Sent
      <3>2. /\ sock' \in [dst_addr : Bytes4, dst_port : Bytes2]
            /\ ctx' \in Endpoint
        BY <2>0, <2>2, HookTypes DEF Redirect
      <3>3. TypeOK'
        BY <2>2, <3>2 DEF Redirect, Inv, TypeOK
      <3>4. /\ sock'.dst_addr = dst.addr
            /\ build = "little" => sock'.dst_port = dst.port
        BY <2>0, <2>2, <3>1, NetworkFields, LittleEndianPorts, SMT
           DEF Redirect, Socket
      <3>5. <<127, 0, 0, 1>> \in Bytes4
        BY SMT DEF Bytes4, Byte
      <3>6. ctx'.addr = <<127, 0, 0, 1>>
        BY <2>0, <2>2, <3>5, NetworkFields, SMT DEF Redirect, ProxyCtx
      <3>7. ASSUME build = "little" PROVE Number16(ctx'.port) = PROXY_PORT
        <4>1. /\ Literal16(PROXY_PORT) \in Bytes2
              /\ Number16(Literal16(PROXY_PORT)) = PROXY_PORT
          BY BytesAssumption, Literals
        <4>2. ctx'.port = Literal16(PROXY_PORT)
          BY <2>2, <3>7, <4>1, LittleEndianPorts, SMT DEF Redirect, ProxyCtx
        <4>3. QED
          BY <4>1, <4>2
      <3>8. Sent'
        BY <2>2, <3>1, <3>6, <3>7 DEF Redirect, Sent
      <3>9. Kept'
        BY <2>2, <3>4 DEF Redirect, Kept
      <3>10. QED
        BY <3>3, <3>8, <3>9 DEF Inv
    <2>3. CASE Record
      <3>1. key' = src_port
        BY <2>0, <2>3, SMT DEF Record, Low16, Extend, Bytes2
      <3>2. QED
        BY <2>0, <2>3, <3>1 DEF Record, Inv, TypeOK, Sent, Kept
    <2>4. CASE Query
      <3>1. LookupKey = key
        BY <2>0, <2>4, NetworkFields DEF Query, LookupKey, Inv, Kept
      <3>2. /\ sa' = [addr |-> Store32(htonl(sock.dst_addr)),
                      port |-> Store16(htons(sock.dst_port))]
            /\ pc' = "answered"
        BY <2>4, <3>1 DEF Query
      <3>3. sa' = [addr |-> sock.dst_addr, port |-> sock.dst_port]
        BY <2>0, <3>2, NetworkFields
      <3>4. TypeOK'
        BY <2>0, <2>4, <3>2, <3>3, SMT DEF Query, Inv, TypeOK, Endpoint
      <3>5. Sent' /\ Kept'
        BY <2>4, <3>2, <3>3, SMT DEF Query, Inv, Sent, Kept
      <3>6. QED
        BY <3>4, <3>5 DEF Inv
    <2>5. CASE UNCHANGED vars
      BY <2>5 DEF vars, Inv, TypeOK, Sent, Kept
    <2>6. QED
      BY <2>1, <2>2, <2>3, <2>4, <2>5 DEF Next
  <1>3. QED
    BY <1>1, <1>2, PTL DEF Spec

-----------------------------------------------------------------------------
(* What follows.                                                           *)

\* Every variable keeps its type; in particular the ports stay two bytes.
THEOREM BytesTypeCorrect == Spec => []TypeOK
  BY BytesInvariance, PTL DEF Inv

\* Port 9000, and only it, is redirected (cg_connect4).
THEOREM StorageOnly == Spec => []OnlyStorageRedirected
  <1>1. Inv => OnlyStorageRedirected
    BY DEF Inv, Sent, OnlyStorageRedirected
  <1>2. QED
    BY <1>1, BytesInvariance, PTL

\* Redirection leads to the proxy for every PROXY_PORT (cg_connect4).
THEOREM RedirectionIsRight == Spec => []RedirectedToProxyPort
  <1>1. Inv => RedirectedToProxyPort
    BY DEF Inv, Sent, RedirectedToProxyPort
  <1>2. QED
    BY <1>1, BytesInvariance, PTL

\* What getOriginalTargetFromConn returns is the destination of connect(),
\* for every address and port.
THEOREM DestinationSurvives == Spec => []OriginalSurvives
  <1>1. Inv => OriginalSurvives
    BY DEF Inv, Kept, OriginalSurvives, TargetAddr, TargetPort, Number16
  <1>2. QED
    BY <1>1, BytesInvariance, PTL

\* The two hooks agree on the key of map_ports for every port.
THEOREM KeysAgree == Spec => []KeyIsFound
  <1>1. Inv => KeyIsFound
    BY DEF Inv, Kept, KeyIsFound
  <1>2. QED
    BY <1>1, BytesInvariance, PTL

=============================================================================
