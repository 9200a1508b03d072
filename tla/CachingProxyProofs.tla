------------------------- MODULE CachingProxyProofs -------------------------
(***************************************************************************)
(* Proofs about CachingProxy, for any connections, hosts, targets and      *)
(* versions.  What a handler, its fetcher, its call of the cache and its   *)
(* connection to the origin do is tied together per connection; handlers   *)
(* meet only in the entries of the cache and in the versions of the        *)
(* origin, which never go back.                                            *)
(***************************************************************************)
EXTENDS CachingProxy, Integers, TLAPS

\* The content of a version the origin has had under a target with the key
\* k, when the versions are now those of ver.
Genuine(ver, k, data) ==
  \E b \in Blob :
    KeyOf(b[2]) = k /\ \E v \in 0..ver[b] : data = Body(b, v)

\* The content of a version of blob b that the origin has had since it had
\* version f.
Current(ver, b, f, data) == \E v \in f..ver[b] : data = Body(b, v)

\* A handler, its call of the cache and its fetcher go step by step.
Coupled(c) ==
  /\ pc[c] = "read" => request[c] = NoRequest
  /\ pc[c] \notin {"read", "closed"} => request[c] \in Request
  /\ request[c] \in Request => floor[c] <= version[request[c].blob]
  /\ callPc[c] # "put"
  /\ pc[c] \in {"read", "serve"} => callPc[c] = "idle"
  /\ pc[c] = "cache" => callPc[c] # "idle"
  /\ callPc[c] \in {"initialize", "initializer"} => pc[c] = "cache"
  /\ callPc[c] # "idle" =>
       /\ request[c] \in Request /\ request[c].method = "get"
       /\ callKey[c] = KeyOf(request[c].blob[2])
  /\ callPc[c] \in {"idle", "initialize"} => fetcher[c] = "off"
  /\ callPc[c] = "initializer" <=>
       fetcher[c] \in {"dial", "await", "report", "deliver"}

\* Requests are sent, and connections to the origin kept, by the fetcher
\* and by forward only.
Traffic(c) ==
  /\ wire[c] # Idle => fetcher[c] = "await" \/ pc[c] = "await"
  /\ sent[c] <= (IF fetcher[c] \in {"off", "dial"} THEN 0 ELSE 1)
                + (IF pc[c] \in {"await", "closed"} THEN 1 ELSE 0)

\* What a goroutine holds came from the origin, in one piece.
Carried(c) ==
  /\ wire[c].status = "200" /\ wire[c].data # CutData
       /\ request[c].method = "get" =>
       Current(version, request[c].blob, floor[c], wire[c].data)
  /\ fetcher[c] \in {"report", "deliver", "closing", "ended"}
       /\ ~ fetched[c].err =>
       Current(version, request[c].blob, floor[c], fetched[c].data)
  /\ fetcher[c] = "deliver" => ~ fetched[c].err
  /\ callPc[c] = "returned" /\ result[c].err = "nil" =>
       /\ result[c].obj \in Decoded
       /\ result[c].obj.data # NilData =>
            Genuine(version, callKey[c], result[c].obj.data)
  /\ fetcher[c] \in {"closing", "ended"} /\ ~ fetched[c].err =>
       result[c].err = "nil" /\ result[c].obj.data = fetched[c].data
  /\ putting[c] # NoObj => Genuine(version, putting[c].key, putting[c].data)

\* A response that is as good as the properties ask for.
GoodAnswer(c, a) ==
  /\ a.via = "cache" =>
       /\ request[c] \in Request
       /\ Genuine(version, KeyOf(request[c].blob[2]), a.data)
  /\ request[c].method = "get" /\ a.status = "200" /\ a.data # CutData
       /\ Fetched(c, a) =>
       Current(version, request[c].blob, floor[c], a.data)

\* The handler has written nothing yet, or a part of a response to a
\* client that has left.
Silent(c) ==
  \/ answer[c] = <<>>
  \/ client[c] = "left" /\ Len(answer[c]) = 1 /\ answer[c][1].status = "cut"

\* Only a handler that has ended has written a whole response, and it has
\* written one to every request.
Replies(c) ==
  /\ pc[c] \in {"read", "serve", "cache"} => answer[c] = <<>>
  /\ pc[c] # "closed" => Silent(c)
  /\ pc[c] = "closed" /\ request[c] # NoRequest => answer[c] # <<>>
  /\ client[c] # "left" => Len(answer[c]) <= 1
  /\ Len(answer[c]) <= 2
  /\ Len(answer[c]) = 2 =>
       answer[c][1].status = "cut" /\ answer[c][2].status # "cut"
  /\ \A i \in DOMAIN answer[c] : GoodAnswer(c, answer[c][i])

Local(c) == Coupled(c) /\ Traffic(c) /\ Carried(c) /\ Replies(c)

\* The entries of the cache came from the origin, each under its own key.
Entries ==
  \A k \in Key :
    Found(k) /\ store[k].data # Absent => Genuine(version, k, store[k].data)

ProxyInv == TypeOK /\ Entries /\ \A c \in Conn : Local(c)

-----------------------------------------------------------------------------
(* What does not change.                                                   *)

\* The versions of the origin never go back.
Grows == \A b \in Blob : version[b] <= version'[b]

\* A step leaves a connection alone.
Same(d) ==
  /\ callPc'[d] = callPc[d] /\ callKey'[d] = callKey[d]
  /\ result'[d] = result[d] /\ putting'[d] = putting[d]
  /\ pc'[d] = pc[d] /\ request'[d] = request[d] /\ client'[d] = client[d]
  /\ answer'[d] = answer[d] /\ floor'[d] = floor[d]
  /\ fetcher'[d] = fetcher[d] /\ fetched'[d] = fetched[d]
  /\ wire'[d] = wire[d] /\ sent'[d] = sent[d]

\* What was genuine or current stays so.
LEMMA GenuineStays ==
  ASSUME TypeOK, TypeOK', Grows, NEW k, NEW data, Genuine(version, k, data)
  PROVE  Genuine(version', k, data)
<1>1. PICK b \in Blob :
        KeyOf(b[2]) = k /\ \E v \in 0..version[b] : data = Body(b, v)
  BY DEF Genuine
<1>2. PICK v \in 0..version[b] : data = Body(b, v)
  BY <1>1
<1>3. version[b] \in Int /\ version'[b] \in Int /\ version[b] <= version'[b]
  BY ContentAssumption DEF TypeOK, Version, Grows
<1>4. v \in 0..version'[b]
  BY <1>2, <1>3
<1>. QED
  BY <1>1, <1>2, <1>4 DEF Genuine

\* A version the origin has had since a request came in stays one.
LEMMA CurrentStays ==
  ASSUME TypeOK, TypeOK', Grows, NEW b \in Blob, NEW f \in Version, NEW data,
         Current(version, b, f, data)
  PROVE  Current(version', b, f, data)
<1>1. PICK v \in f..version[b] : data = Body(b, v)
  BY DEF Current
<1>2. /\ version[b] \in Int /\ version'[b] \in Int /\ f \in Int
      /\ version[b] <= version'[b]
  BY ContentAssumption DEF TypeOK, Version, Grows
<1>3. v \in f..version'[b]
  BY <1>2
<1>. QED
  BY <1>1, <1>3 DEF Current

\* What is current is genuine.
LEMMA CurrentIsGenuine ==
  ASSUME TypeOK, NEW b \in Blob, NEW f \in Version, NEW data,
         Current(version, b, f, data)
  PROVE  Genuine(version, KeyOf(b[2]), data)
<1>1. PICK v \in f..version[b] : data = Body(b, v)
  BY DEF Current
<1>2. v \in 0..version[b]
  BY ContentAssumption DEF TypeOK, Version
<1>. QED
  BY <1>1, <1>2 DEF Genuine

\* The blob of a request.
LEMMA RequestBlob ==
  ASSUME NEW r \in Request
  PROVE  r.blob \in Blob /\ KeyOf(r.blob[2]) \in Key /\ r.method \in {"get", "put"}
BY DEF Request, Blob, Key

\* A response stays as good as it is.
LEMMA GoodStays ==
  ASSUME TypeOK, TypeOK', Grows, NEW c \in Conn, NEW a, GoodAnswer(c, a),
         request'[c] = request[c], floor'[c] = floor[c],
         fetcher'[c] = fetcher[c], fetched'[c] = fetched[c]
  PROVE  GoodAnswer(c, a)'
<1>1. floor[c] \in Version /\ request[c] \in Request \cup {NoRequest}
  BY DEF TypeOK
<1>2. request[c].method = "get" => request[c].blob \in Blob
  BY <1>1, RequestBlob DEF NoRequest
<1>. QED
  BY <1>1, <1>2, GenuineStays, CurrentStays DEF GoodAnswer, Fetched

\* A connection that a step leaves alone keeps its part of the invariant.
LEMMA SameKeeps ==
  ASSUME TypeOK, TypeOK', Grows, NEW d \in Conn, Local(d), Same(d)
  PROVE  Local(d)'
<1>1. floor[d] \in Version /\ request[d] \in Request \cup {NoRequest}
  BY DEF TypeOK
<1>2. request[d] \in Request => request[d].blob \in Blob
  BY RequestBlob
<1>3. Coupled(d)'
  <2>1. request[d] \in Request => floor[d] <= version'[request[d].blob]
    <3> SUFFICES ASSUME request[d] \in Request
                 PROVE  floor[d] <= version'[request[d].blob]
      OBVIOUS
    <3>1. floor[d] <= version[request[d].blob]
      BY DEF Local, Coupled
    <3>2. /\ version[request[d].blob] \in Int /\ version'[request[d].blob] \in Int
          /\ version[request[d].blob] <= version'[request[d].blob]
          /\ floor[d] \in Int
      BY <1>1, <1>2, ContentAssumption DEF TypeOK, Version, Grows
    <3>. QED
      BY <3>1, <3>2
  <2>. QED
    BY <2>1 DEF Local, Coupled, Same
<1>4. Traffic(d)'
  BY DEF Local, Traffic, Same
<1>5. request[d].method = "get" => request[d] \in Request
  BY <1>1 DEF NoRequest
<1>6. fetcher[d] # "off" => request[d] \in Request
  BY DEF Local, Coupled, TypeOK, CacheTypeOK
<1>7. Carried(d)'
  BY <1>1, <1>2, <1>5, <1>6, GenuineStays, CurrentStays
     DEF Local, Carried, Same
<1>8. Replies(d)'
  <2>1. ASSUME NEW i \in DOMAIN answer'[d]
        PROVE  GoodAnswer(d, answer[d][i])'
    <3>1. GoodAnswer(d, answer[d][i]) /\ answer'[d][i] = answer[d][i]
      BY <2>1 DEF Local, Replies, Same
    <3>. QED
      BY <3>1, GoodStays DEF Same
  <2>. QED
    BY <2>1 DEF Local, Replies, Silent, Same
<1>. QED
  BY <1>3, <1>4, <1>7, <1>8 DEF Local

\* A step of one connection.
LEMMA OneMoves ==
  ASSUME ProxyInv, TypeOK', Entries', Grows, NEW c \in Conn, Local(c)',
         \A d \in Conn \ {c} : Same(d)
  PROVE  ProxyInv'
<1>1. ASSUME NEW d \in Conn PROVE Local(d)'
  BY SameKeeps DEF ProxyInv
<1>. QED
  BY <1>1 DEF ProxyInv

\* A step that changes neither the entries nor the versions.
LEMMA Quiet ==
  ASSUME ProxyInv, UNCHANGED <<store, version>>
  PROVE  Entries' /\ Grows
<1>1. Grows
  BY ContentAssumption DEF ProxyInv, TypeOK, Grows, Version
<1>2. Entries'
  BY DEF ProxyInv, Entries, Found
<1>. QED
  BY <1>1, <1>2

-----------------------------------------------------------------------------
(* The handler.  One lemma per action: what it does to its own connection  *)
(* keeps the invariant, and it does nothing to the others.                 *)

\* A request is read, and the versions of now become its floor.
LEMMA ReadRequestKeeps ==
  ASSUME ProxyInv, NEW c \in Conn, NEW req \in Request, ReadRequest(c, req)
  PROVE  ProxyInv'
<1> USE DEF bigcache, handlerVars, fetchVars, originVars
<1>0. TypeOK /\ Local(c)
  BY DEF ProxyInv
<1>1. TypeOK'
  BY <1>0, RequestBlob DEF ReadRequest, TypeOK, CacheTypeOK
<1>2. \A d \in Conn \ {c} : Same(d)
  BY <1>0 DEF ReadRequest, TypeOK, CacheTypeOK, Same
<1>3. Coupled(c)'
  <2>1. version[req.blob] \in Int
    BY <1>0, RequestBlob, ContentAssumption DEF TypeOK, Version
  <2>. QED
    BY <1>0, <2>1 DEF ReadRequest, Local, Coupled, TypeOK, CacheTypeOK
<1>4. Traffic(c)'
  BY <1>0 DEF ReadRequest, Local, Coupled, Traffic, TypeOK, CacheTypeOK
<1>5. Carried(c)'
  <2>1. wire[c].status = "none" /\ fetcher[c] = "off" /\ callPc[c] = "idle"
    BY <1>0 DEF ReadRequest, Local, Coupled, Traffic, Idle
  <2>. QED
    BY <1>0, <2>1 DEF ReadRequest, Local, Carried, TypeOK, CacheTypeOK
<1>6. Replies(c)'
  BY <1>0 DEF ReadRequest, Local, Coupled, Replies, Silent, GoodAnswer, Fetched, TypeOK, CacheTypeOK
<1>. QED
  BY <1>1, <1>2, <1>3, <1>4, <1>5, <1>6, Quiet, OneMoves DEF ReadRequest, Local

\* A request that cannot be read ends the plain handler without an answer.
LEMMA ReadFailsKeeps ==
  ASSUME ProxyInv, NEW c \in Conn, ReadFails(c)
  PROVE  ProxyInv'
<1> USE DEF bigcache, handlerVars, fetchVars, originVars
<1>0. TypeOK /\ Local(c)
  BY DEF ProxyInv
<1>1. TypeOK'
  BY <1>0 DEF ReadFails, TypeOK, CacheTypeOK
<1>2. \A d \in Conn \ {c} : Same(d)
  BY <1>0 DEF ReadFails, TypeOK, CacheTypeOK, Same
<1>3. Coupled(c)'
  BY <1>0 DEF ReadFails, Local, Coupled, TypeOK, CacheTypeOK
<1>4. Traffic(c)'
  BY <1>0 DEF ReadFails, Local, Coupled, Traffic, TypeOK, CacheTypeOK
<1>5. Carried(c)'
  BY <1>0 DEF ReadFails, Local, Coupled, Carried, TypeOK, CacheTypeOK
<1>6. Replies(c)'
  BY <1>0 DEF ReadFails, Local, Coupled, Replies, Silent, GoodAnswer, Fetched, TypeOK, CacheTypeOK
<1>. QED
  BY <1>1, <1>2, <1>3, <1>4, <1>5, <1>6, Quiet, OneMoves DEF ReadFails, Local

\* A request the adapter turns down goes straight to forward.
LEMMA PassThroughKeeps ==
  ASSUME ProxyInv, NEW c \in Conn, PassThrough(c)
  PROVE  ProxyInv'
<1> USE DEF bigcache, handlerVars, fetchVars, originVars
<1>0. TypeOK /\ Local(c)
  BY DEF ProxyInv
<1>1. TypeOK'
  BY <1>0 DEF PassThrough, TypeOK, CacheTypeOK
<1>2. \A d \in Conn \ {c} : Same(d)
  BY <1>0 DEF PassThrough, TypeOK, CacheTypeOK, Same
<1>3. Coupled(c)'
  BY <1>0 DEF PassThrough, Local, Coupled, TypeOK, CacheTypeOK
<1>4. Traffic(c)'
  BY <1>0 DEF PassThrough, Local, Coupled, Traffic, TypeOK, CacheTypeOK
<1>5. Carried(c)'
  BY <1>0 DEF PassThrough, Local, Coupled, Carried, TypeOK, CacheTypeOK
<1>6. Replies(c)'
  BY <1>0 DEF PassThrough, Local, Coupled, Replies, Silent, GoodAnswer, Fetched, TypeOK, CacheTypeOK
<1>. QED
  BY <1>1, <1>2, <1>3, <1>4, <1>5, <1>6, Quiet, OneMoves DEF PassThrough, Local

\* A Get that failed is followed by forward; its fetcher has ended.
LEMMA GetFailedKeeps ==
  ASSUME ProxyInv, NEW c \in Conn, GetFailed(c)
  PROVE  ProxyInv'
<1> USE DEF bigcache, handlerVars, fetchVars, originVars
<1>0. TypeOK /\ Local(c)
  BY DEF ProxyInv
<1>1. TypeOK'
  BY <1>0 DEF GetFailed, Returned, TypeOK, CacheTypeOK
<1>2. \A d \in Conn \ {c} : Same(d)
  BY <1>0 DEF GetFailed, Returned, TypeOK, CacheTypeOK, Same
<1>3. Coupled(c)'
  BY <1>0 DEF GetFailed, Returned, Local, Coupled, TypeOK, CacheTypeOK
<1>4. Traffic(c)'
  BY <1>0 DEF GetFailed, Returned, Local, Coupled, Traffic, TypeOK, CacheTypeOK
<1>5. Carried(c)'
  BY <1>0 DEF GetFailed, Returned, Local, Coupled, Carried, TypeOK, CacheTypeOK
<1>6. Replies(c)'
  BY <1>0 DEF GetFailed, Returned, Local, Coupled, Replies, Silent, GoodAnswer, Fetched, TypeOK, CacheTypeOK
<1>. QED
  BY <1>1, <1>2, <1>3, <1>4, <1>5, <1>6, Quiet, OneMoves DEF GetFailed, Returned, Local

\* forward sends the request; nothing had been sent by it before.
LEMMA ForwardSendKeeps ==
  ASSUME ProxyInv, NEW c \in Conn, ForwardSend(c)
  PROVE  ProxyInv'
<1> USE DEF bigcache, handlerVars, fetchVars, originVars
<1>0. TypeOK /\ Local(c)
  BY DEF ProxyInv
<1>1. TypeOK'
  <2>1. Sent \in Wire /\ Partial \in Wire /\ Broken \in Wire
    BY DEF Sent, Partial, Broken, Wire, Content
  <2>2. wire' \in [Conn -> Wire] /\ sent' \in [Conn -> Nat]
    <3>1. \E r \in Wire : wire' = [wire EXCEPT ![c] = r]
      BY <2>1 DEF ForwardSend
    <3>2. sent' = sent \/ sent' = [sent EXCEPT ![c] = @ + 1]
      BY DEF ForwardSend
    <3>3. wire' \in [Conn -> Wire]
      BY <1>0, <3>1 DEF TypeOK
    <3>4. sent' \in [Conn -> Nat]
      <4>1. sent \in [Conn -> Nat] /\ sent[c] + 1 \in Nat
        BY <1>0 DEF TypeOK
      <4>. QED
        BY <3>2, <4>1
    <3>. QED
      BY <3>3, <3>4
  <2>. QED
    BY <1>0, <2>2 DEF ForwardSend, TypeOK, CacheTypeOK
<1>2. \A d \in Conn \ {c} : Same(d)
  BY <1>0 DEF ForwardSend, Wire, Sent, Partial, Broken, Content, TypeOK, CacheTypeOK, Same
<1>3. Coupled(c)'
  BY <1>0 DEF ForwardSend, Wire, Sent, Partial, Broken, Content, Local, Coupled, TypeOK, CacheTypeOK
<1>4. Traffic(c)'
  BY <1>0 DEF ForwardSend, Wire, Sent, Partial, Broken, Content, Local, Coupled, Traffic, TypeOK, CacheTypeOK
<1>5. Carried(c)'
  BY <1>0 DEF ForwardSend, Wire, Sent, Partial, Broken, Content, Local, Coupled, Carried, TypeOK, CacheTypeOK
<1>6. Replies(c)'
  BY <1>0 DEF ForwardSend, Wire, Sent, Partial, Broken, Content, Local, Coupled, Replies, Silent, GoodAnswer, Fetched, TypeOK, CacheTypeOK
<1>. QED
  BY <1>1, <1>2, <1>3, <1>4, <1>5, <1>6, Quiet, OneMoves DEF ForwardSend, Wire, Sent, Partial, Broken, Content, Local

\* The fetcher sends the request, for the first time.
LEMMA FetchSendKeeps ==
  ASSUME ProxyInv, NEW c \in Conn, FetchSend(c)
  PROVE  ProxyInv'
<1> USE DEF bigcache, handlerVars, fetchVars, originVars
<1>0. TypeOK /\ Local(c)
  BY DEF ProxyInv
<1>1. TypeOK'
  BY <1>0 DEF FetchSend, Wire, Sent, Content, TypeOK, CacheTypeOK
<1>2. \A d \in Conn \ {c} : Same(d)
  BY <1>0 DEF FetchSend, Wire, Sent, Content, TypeOK, CacheTypeOK, Same
<1>3. Coupled(c)'
  BY <1>0 DEF FetchSend, Wire, Sent, Content, Local, Coupled, TypeOK, CacheTypeOK
<1>4. Traffic(c)'
  BY <1>0 DEF FetchSend, Wire, Sent, Content, Local, Coupled, Traffic, TypeOK, CacheTypeOK
<1>5. Carried(c)'
  BY <1>0 DEF FetchSend, Wire, Sent, Content, Local, Coupled, Carried, TypeOK, CacheTypeOK
<1>6. Replies(c)'
  BY <1>0 DEF FetchSend, Wire, Sent, Content, Local, Coupled, Replies, Silent, GoodAnswer, Fetched, TypeOK, CacheTypeOK
<1>. QED
  BY <1>1, <1>2, <1>3, <1>4, <1>5, <1>6, Quiet, OneMoves DEF FetchSend, Wire, Sent, Content, Local

\* A fetcher that cannot reach the origin has an error to report.
LEMMA FetchSendFailsKeeps ==
  ASSUME ProxyInv, NEW c \in Conn, FetchSendFails(c)
  PROVE  ProxyInv'
<1> USE DEF bigcache, handlerVars, fetchVars, originVars
<1>0. TypeOK /\ Local(c)
  BY DEF ProxyInv
<1>1. TypeOK'
  BY <1>0 DEF FetchSendFails, Failed, Content, TypeOK, CacheTypeOK
<1>2. \A d \in Conn \ {c} : Same(d)
  BY <1>0 DEF FetchSendFails, Failed, Content, TypeOK, CacheTypeOK, Same
<1>3. Coupled(c)'
  BY <1>0 DEF FetchSendFails, Failed, Content, Local, Coupled, TypeOK, CacheTypeOK
<1>4. Traffic(c)'
  BY <1>0 DEF FetchSendFails, Failed, Content, Local, Coupled, Traffic, TypeOK, CacheTypeOK
<1>5. Carried(c)'
  BY <1>0 DEF FetchSendFails, Failed, Content, Local, Coupled, Carried, TypeOK, CacheTypeOK
<1>6. Replies(c)'
  BY <1>0 DEF FetchSendFails, Failed, Content, Local, Coupled, Replies, Silent, GoodAnswer, Fetched, TypeOK, CacheTypeOK
<1>. QED
  BY <1>1, <1>2, <1>3, <1>4, <1>5, <1>6, Quiet, OneMoves DEF FetchSendFails, Failed, Content, Local

\* After a nil on errChan the fetcher turns to objChan with its object.
LEMMA ReportNilKeeps ==
  ASSUME ProxyInv, NEW c \in Conn, ReportNil(c)
  PROVE  ProxyInv'
<1> USE DEF bigcache, handlerVars, fetchVars, originVars
<1>0. TypeOK /\ Local(c)
  BY DEF ProxyInv
<1>1. TypeOK'
  BY <1>0 DEF ReportNil, TypeOK, CacheTypeOK
<1>2. \A d \in Conn \ {c} : Same(d)
  BY <1>0 DEF ReportNil, TypeOK, CacheTypeOK, Same
<1>3. Coupled(c)'
  BY <1>0 DEF ReportNil, Local, Coupled, TypeOK, CacheTypeOK
<1>4. Traffic(c)'
  BY <1>0 DEF ReportNil, Local, Coupled, Traffic, TypeOK, CacheTypeOK
<1>5. Carried(c)'
  BY <1>0 DEF ReportNil, Local, Coupled, Carried, TypeOK, CacheTypeOK
<1>6. Replies(c)'
  BY <1>0 DEF ReportNil, Local, Coupled, Replies, Silent, GoodAnswer, Fetched, TypeOK, CacheTypeOK
<1>. QED
  BY <1>1, <1>2, <1>3, <1>4, <1>5, <1>6, Quiet, OneMoves DEF ReportNil, Local

\* The fetcher closes its connection to the origin, when the handler may
\* have gone on or be done.
LEMMA FetcherClosesKeeps ==
  ASSUME ProxyInv, NEW c \in Conn, FetcherCloses(c)
  PROVE  ProxyInv'
<1> USE DEF bigcache, handlerVars, fetchVars, originVars
<1>0. TypeOK /\ Local(c)
  BY DEF ProxyInv
<1>1. TypeOK'
  BY <1>0 DEF FetcherCloses, TypeOK, CacheTypeOK
<1>2. \A d \in Conn \ {c} : Same(d)
  BY <1>0 DEF FetcherCloses, TypeOK, CacheTypeOK, Same
<1>3. Coupled(c)'
  BY <1>0 DEF FetcherCloses, Local, Coupled, TypeOK, CacheTypeOK
<1>4. Traffic(c)'
  BY <1>0 DEF FetcherCloses, Local, Coupled, Traffic, TypeOK, CacheTypeOK
<1>5. Carried(c)'
  BY <1>0 DEF FetcherCloses, Local, Coupled, Carried, TypeOK, CacheTypeOK
<1>6. Replies(c)'
  BY <1>0 DEF FetcherCloses, Local, Coupled, Replies, Silent, GoodAnswer, Fetched, TypeOK, CacheTypeOK
<1>. QED
  BY <1>1, <1>2, <1>3, <1>4, <1>5, <1>6, Quiet, OneMoves DEF FetcherCloses, Local

\* A refusal of the origin carries no content of an object.
LEMMA OriginRefusesKeeps ==
  ASSUME ProxyInv, NEW c \in Conn, OriginRefuses(c)
  PROVE  ProxyInv'
<1> USE DEF bigcache, handlerVars, fetchVars, originVars
<1>0. TypeOK /\ Local(c)
  BY DEF ProxyInv
<1>1. TypeOK'
  BY <1>0 DEF OriginRefuses, Wire, Content, TypeOK, CacheTypeOK
<1>2. \A d \in Conn \ {c} : Same(d)
  BY <1>0 DEF OriginRefuses, Wire, Content, TypeOK, CacheTypeOK, Same
<1>3. Coupled(c)'
  BY <1>0 DEF OriginRefuses, Wire, Content, Local, Coupled, TypeOK, CacheTypeOK
<1>4. Traffic(c)'
  BY <1>0 DEF OriginRefuses, Local, Traffic, TypeOK, Sent, Partial, Idle
<1>5. Carried(c)'
  BY <1>0 DEF OriginRefuses, Wire, Content, Local, Coupled, Carried, TypeOK, CacheTypeOK
<1>6. Replies(c)'
  BY <1>0 DEF OriginRefuses, Wire, Content, Local, Coupled, Replies, Silent, GoodAnswer, Fetched, TypeOK, CacheTypeOK
<1>. QED
  BY <1>1, <1>2, <1>3, <1>4, <1>5, <1>6, Quiet, OneMoves DEF OriginRefuses, Wire, Content, Local

\* A connection that breaks carries no reply, or a body cut short, which no
\* conjunct of the invariant trusts.
LEMMA BreakKeeps ==
  ASSUME ProxyInv, NEW c \in Conn, Break(c)
  PROVE  ProxyInv'
<1> USE DEF bigcache, handlerVars, fetchVars, originVars
<1>0. TypeOK /\ Local(c)
  BY DEF ProxyInv
<1>1. TypeOK'
  <2>1. Broken \in Wire /\ \A r \in Wire : [r EXCEPT !.data = CutData] \in Wire
    BY DEF Broken, Wire, Content
  <2>2. wire' \in [Conn -> Wire]
    <3>1. wire[c] \in Wire
      BY <1>0 DEF TypeOK
    <3>2. \E r \in Wire : wire' = [wire EXCEPT ![c] = r]
      BY <2>1, <3>1 DEF Break
    <3>. QED
      BY <1>0, <3>2 DEF TypeOK
  <2>. QED
    BY <1>0, <2>2 DEF Break, TypeOK, CacheTypeOK
<1>2. \A d \in Conn \ {c} : Same(d)
  BY <1>0 DEF Break, Wire, Broken, IsReply, Content, TypeOK, CacheTypeOK, Same
<1>3. Coupled(c)'
  BY <1>0 DEF Break, Wire, Broken, IsReply, Content, Local, Coupled, TypeOK, CacheTypeOK
<1>4. Traffic(c)'
  <2>1. wire[c] # Idle
    BY DEF Break, IsReply, Sent, Partial, Idle
  <2>. QED
    BY <1>0, <2>1 DEF Break, Local, Traffic, TypeOK
<1>5. Carried(c)'
  BY <1>0 DEF Break, Wire, Broken, IsReply, Content, Local, Coupled, Carried, TypeOK, CacheTypeOK
<1>6. Replies(c)'
  BY <1>0 DEF Break, Wire, Broken, IsReply, Content, Local, Coupled, Replies, Silent, GoodAnswer, Fetched, TypeOK, CacheTypeOK
<1>. QED
  BY <1>1, <1>2, <1>3, <1>4, <1>5, <1>6, Quiet, OneMoves DEF Break, Wire, Broken, IsReply, Content, Local

\* A body that has arrived changes nothing but what forward may send.
LEMMA ClientSendsBodyKeeps ==
  ASSUME ProxyInv, NEW c \in Conn, ClientSendsBody(c)
  PROVE  ProxyInv'
<1> USE DEF bigcache, handlerVars, fetchVars, originVars
<1>0. TypeOK /\ Local(c)
  BY DEF ProxyInv
<1>1. TypeOK'
  BY <1>0 DEF ClientSendsBody, TypeOK, CacheTypeOK
<1>2. \A d \in Conn \ {c} : Same(d)
  BY <1>0 DEF ClientSendsBody, TypeOK, CacheTypeOK, Same
<1>3. Coupled(c)'
  BY <1>0 DEF ClientSendsBody, Local, Coupled, TypeOK, CacheTypeOK
<1>4. Traffic(c)'
  BY <1>0 DEF ClientSendsBody, Local, Coupled, Traffic, TypeOK, CacheTypeOK
<1>5. Carried(c)'
  BY <1>0 DEF ClientSendsBody, Local, Coupled, Carried, TypeOK, CacheTypeOK
<1>6. Replies(c)'
  BY <1>0 DEF ClientSendsBody, Local, Coupled, Replies, Silent, GoodAnswer, Fetched, TypeOK, CacheTypeOK
<1>. QED
  BY <1>1, <1>2, <1>3, <1>4, <1>5, <1>6, Quiet, OneMoves DEF ClientSendsBody, Local

\* A panic stops the process and changes nothing else.
LEMMA PanicKeeps ==
  ASSUME ProxyInv, NEW c \in Conn, Panic(c)
  PROVE  ProxyInv'
<1> USE DEF bigcache, handlerVars, fetchVars, originVars
<1>0. TypeOK /\ Local(c)
  BY DEF ProxyInv
<1>1. TypeOK'
  BY <1>0 DEF Panic, TypeOK, CacheTypeOK
<1>2. \A d \in Conn \ {c} : Same(d)
  BY <1>0 DEF Panic, TypeOK, CacheTypeOK, Same
<1>3. Coupled(c)'
  BY <1>0 DEF Panic, Local, Coupled, TypeOK, CacheTypeOK
<1>4. Traffic(c)'
  BY <1>0 DEF Panic, Local, Coupled, Traffic, TypeOK, CacheTypeOK
<1>5. Carried(c)'
  BY <1>0 DEF Panic, Local, Coupled, Carried, TypeOK, CacheTypeOK
<1>6. Replies(c)'
  BY <1>0 DEF Panic, Local, Coupled, Replies, Silent, GoodAnswer, Fetched, TypeOK, CacheTypeOK
<1>. QED
  BY <1>1, <1>2, <1>3, <1>4, <1>5, <1>6, Quiet, OneMoves DEF Panic, Local

-----------------------------------------------------------------------------
(* Responses.                                                              *)

\* One response is written and the connection closed.
LEMMA CloseKeeps ==
  ASSUME ProxyInv, NEW c \in Conn, NEW a \in Answer, Close(c, a),
         GoodAnswer(c, a), a.status # "cut",
         pc[c] # "closed", callPc[c] \in {"idle", "returned"},
         sent[c] <= (IF fetcher[c] \in {"off", "dial"} THEN 0 ELSE 1) + 1,
         UNCHANGED <<alive, client, request, floor, fetchVars, sent, version,
                     bigcache>>
  PROVE  ProxyInv'
<1> USE DEF bigcache, fetchVars
<1>0. TypeOK /\ Local(c)
  BY DEF ProxyInv
<1>1. Idle \in Wire
  BY DEF Idle, Wire, Content
<1>2. /\ answer[c] \in Seq(Answer) /\ answer'[c] = Append(answer[c], a)
      /\ answer' \in [Conn -> Seq(Answer)]
  BY <1>0 DEF Close, TypeOK
<1>3. TypeOK'
  BY <1>0, <1>1, <1>2 DEF Close, TypeOK, CacheTypeOK
<1>4. \A d \in Conn \ {c} : Same(d)
  BY <1>0 DEF Close, TypeOK, Same
<1>5. Coupled(c)'
  BY <1>0 DEF Close, Local, Coupled, TypeOK, CacheTypeOK
<1>6. Traffic(c)'
  BY <1>0 DEF Close, Traffic, TypeOK
<1>7. Carried(c)'
  BY <1>0 DEF Close, Local, Carried, TypeOK, Idle
<1>8. Replies(c)'
  <2> DEFINE n == Len(answer[c])
  <2>1. /\ n \in 0..1 /\ Len(answer'[c]) = n + 1
        /\ DOMAIN answer'[c] = 1..(n + 1) /\ answer'[c][n + 1] = a
        /\ \A i \in 1..n : i \in DOMAIN answer[c] /\ answer'[c][i] = answer[c][i]
    BY <1>0, <1>2 DEF Local, Replies, Silent
  <2>2. n = 1 => client[c] = "left" /\ answer[c][1].status = "cut"
    BY <1>0, <1>2 DEF Local, Replies, Silent
  <2>3. GoodAnswer(c, a)'
    BY DEF GoodAnswer, Fetched
  <2>4. ASSUME NEW i \in 1..n PROVE GoodAnswer(c, answer[c][i])'
    BY <1>0, <2>1 DEF Local, Replies, GoodAnswer, Fetched
  <2>5. \A i \in DOMAIN answer'[c] : GoodAnswer(c, answer[c][i])'
    <3> SUFFICES ASSUME NEW i \in DOMAIN answer'[c]
                 PROVE  GoodAnswer(c, answer[c][i])'
      OBVIOUS
    <3>1. CASE i = n + 1
      BY <2>1, <2>3, <3>1
    <3>2. CASE i # n + 1
      <4>1. i \in 1..n
        BY <2>1, <3>2
      <4>. QED
        BY <2>4, <4>1
    <3>. QED
      BY <3>1, <3>2
  <2>6. pc'[c] = "closed" /\ client' = client
    BY <1>0 DEF Close, TypeOK
  <2>7. answer'[c] # <<>>
    BY <2>1
  <2>. HIDE DEF n
  <2>8. /\ client[c] # "left" => Len(answer'[c]) <= 1
        /\ Len(answer'[c]) <= 2
        /\ Len(answer'[c]) = 2 =>
             answer'[c][1].status = "cut" /\ answer'[c][2].status # "cut"
    BY <2>1, <2>2
  <2>. QED
    BY <2>5, <2>6, <2>7, <2>8 DEF Replies
<1>. QED
  BY <1>3, <1>4, <1>5, <1>6, <1>7, <1>8, Quiet, OneMoves DEF Local

\* The response made from the object Get returned is genuine, and current
\* if the object came from the handler's own fetch.
LEMMA RespondKeeps ==
  ASSUME ProxyInv, NEW c \in Conn, Respond(c)
  PROVE  ProxyInv'
<1> DEFINE a == [status |-> "200", data |-> result[c].obj.data, via |-> "cache"]
<1> USE DEF originVars
<1>0. TypeOK /\ Local(c)
  BY DEF ProxyInv
<1>1. /\ pc[c] = "cache" /\ callPc[c] = "returned" /\ result[c].err = "nil"
      /\ result[c].obj.data # NilData
  BY DEF Respond, HasResponse, Returned
<1>2. /\ request[c] \in Request
      /\ callKey[c] = KeyOf(request[c].blob[2])
      /\ fetcher[c] \in {"off", "closing", "ended"} /\ wire[c] = Idle
      /\ sent[c] <= (IF fetcher[c] \in {"off", "dial"} THEN 0 ELSE 1) + 1
      /\ sent[c] \in Nat
  BY <1>0, <1>1 DEF Local, Coupled, Traffic, Replies, TypeOK, CacheTypeOK
<1>3. /\ result[c].obj \in Decoded
      /\ Genuine(version, KeyOf(request[c].blob[2]), result[c].obj.data)
  BY <1>0, <1>1, <1>2 DEF Local, Carried
<1>4. a \in Answer /\ a.status # "cut"
  BY <1>1, <1>3 DEF Answer, Decoded
<1>5. GoodAnswer(c, a)
  BY <1>0, <1>1, <1>2, <1>3 DEF GoodAnswer, Fetched, Local, Carried
<1>6. Close(c, a)
  <2>1. wire = [wire EXCEPT ![c] = Idle]
    BY <1>0, <1>2 DEF TypeOK
  <2>. QED
    BY <2>1 DEF Respond, Close
<1>. HIDE DEF a
<1>. QED
  BY <1>1, <1>2, <1>4, <1>5, <1>6, CloseKeeps DEF Respond

\* What goes out before a write fails is a part of the same response;
\* forward follows.
LEMMA RespondFailsKeeps ==
  ASSUME ProxyInv, NEW c \in Conn, RespondFails(c)
  PROVE  ProxyInv'
<1> DEFINE a == [status |-> "cut", data |-> result[c].obj.data, via |-> "cache"]
<1> USE DEF bigcache, fetchVars, originVars
<1>0. TypeOK /\ Local(c)
  BY DEF ProxyInv
<1>1. /\ pc[c] = "cache" /\ callPc[c] = "returned" /\ result[c].err = "nil"
      /\ result[c].obj.data # NilData
  BY DEF RespondFails, HasResponse, Returned
<1>2. /\ answer[c] = <<>> /\ request[c] \in Request
      /\ callKey[c] = KeyOf(request[c].blob[2])
  BY <1>0, <1>1 DEF Local, Coupled, Replies
<1>3. /\ result[c].obj \in Decoded
      /\ Genuine(version, KeyOf(request[c].blob[2]), result[c].obj.data)
  BY <1>0, <1>1, <1>2 DEF Local, Carried
<1>4. a \in Answer /\ a.status = "cut"
  BY <1>1, <1>3 DEF Answer, Decoded
<1>5. GoodAnswer(c, a)' /\ a' = a
  BY <1>2, <1>3 DEF RespondFails, GoodAnswer
<1>. HIDE DEF a
<1>6. answer' = answer \/ answer' = [answer EXCEPT ![c] = Append(@, a)]
  BY DEF RespondFails, a
<1>7. answer' \in [Conn -> Seq(Answer)]
  <2>1. answer \in [Conn -> Seq(Answer)] /\ Append(answer[c], a) \in Seq(Answer)
    BY <1>0, <1>4 DEF TypeOK
  <2>. QED
    BY <1>6, <2>1
<1>8. answer'[c] = <<>> \/ answer'[c] = <<a>>
  BY <1>0, <1>2, <1>6 DEF TypeOK
<1>9. TypeOK'
  BY <1>0, <1>7 DEF RespondFails, TypeOK, CacheTypeOK
<1>10. \A d \in Conn \ {c} : Same(d)
  BY <1>0, <1>6 DEF RespondFails, TypeOK, CacheTypeOK, Same
<1>11. Coupled(c)'
  BY <1>0, <1>1 DEF RespondFails, Local, Coupled, TypeOK, CacheTypeOK
<1>12. Traffic(c)'
  BY <1>0, <1>1 DEF RespondFails, Local, Traffic, TypeOK
<1>13. Carried(c)'
  BY <1>0 DEF RespondFails, Local, Carried
<1>14. Replies(c)'
  <2>1. pc'[c] = "dial" /\ client'[c] = "left"
    BY <1>0 DEF RespondFails, TypeOK
  <2>2. CASE answer'[c] = <<>>
    BY <2>1, <2>2 DEF Replies, Silent
  <2>3. CASE answer'[c] = <<a>>
    <3>1. Len(answer'[c]) = 1 /\ DOMAIN answer'[c] = {1} /\ answer'[c][1] = a
      BY <2>3
    <3>. QED
      BY <1>4, <1>5, <2>1, <3>1 DEF Replies, Silent
  <2>. QED
    BY <1>8, <2>2, <2>3
<1>. QED
  BY <1>9, <1>10, <1>11, <1>12, <1>13, <1>14, Quiet, OneMoves
     DEF RespondFails, Local

\* The service unavailable response of forward.
LEMMA UnavailableIsGood ==
  ASSUME NEW c \in Conn
  PROVE  /\ ServiceUnavailable \in Answer /\ GoodAnswer(c, ServiceUnavailable)
         /\ ServiceUnavailable.status # "cut"
BY DEF ServiceUnavailable, Answer, Content, GoodAnswer

\* forward answers with an error when it cannot reach the origin.
LEMMA ForwardDialFailsKeeps ==
  ASSUME ProxyInv, NEW c \in Conn, ForwardDialFails(c)
  PROVE  ProxyInv'
<1>0. TypeOK /\ Local(c) /\ pc[c] = "dial"
  BY DEF ProxyInv, ForwardDialFails
<1>1. /\ callPc[c] \in {"idle", "returned"}
      /\ sent[c] <= (IF fetcher[c] \in {"off", "dial"} THEN 0 ELSE 1) + 1
  BY <1>0 DEF Local, Coupled, Traffic, Replies, TypeOK, CacheTypeOK
<1>. QED
  BY <1>0, <1>1, UnavailableIsGood, CloseKeeps DEF ForwardDialFails

\* forward answers with an error when the origin drops the connection.
LEMMA ForwardReadFailsKeeps ==
  ASSUME ProxyInv, NEW c \in Conn, ForwardReadFails(c)
  PROVE  ProxyInv'
<1>0. TypeOK /\ Local(c) /\ pc[c] = "await"
  BY DEF ProxyInv, ForwardReadFails
<1>1. /\ callPc[c] \in {"idle", "returned"}
      /\ sent[c] <= (IF fetcher[c] \in {"off", "dial"} THEN 0 ELSE 1) + 1
  BY <1>0 DEF Local, Coupled, Traffic, Replies, TypeOK, CacheTypeOK
<1>. QED
  BY <1>0, <1>1, UnavailableIsGood, CloseKeeps DEF ForwardReadFails

\* forward hands on what the origin sent, as current as it was on the wire.
LEMMA RelayKeeps ==
  ASSUME ProxyInv, NEW c \in Conn, Relay(c)
  PROVE  ProxyInv'
<1> DEFINE a == [status |-> wire[c].status, data |-> wire[c].data,
                 via |-> "origin"]
<1>0. TypeOK /\ Local(c) /\ pc[c] = "await"
  BY DEF ProxyInv, Relay
<1>1. /\ callPc[c] \in {"idle", "returned"}
      /\ sent[c] <= (IF fetcher[c] \in {"off", "dial"} THEN 0 ELSE 1) + 1
  BY <1>0 DEF Local, Coupled, Traffic, Replies, TypeOK, CacheTypeOK
<1>2. a \in Answer /\ a.status # "cut"
  BY <1>0 DEF Relay, IsReply, TypeOK, Wire, Answer
<1>3. GoodAnswer(c, a)
  BY <1>0 DEF GoodAnswer, Local, Carried
<1>4. Close(c, a)
  BY DEF Relay
<1>. HIDE DEF a
<1>. QED
  BY <1>0, <1>1, <1>2, <1>3, <1>4, CloseKeeps DEF Relay

-----------------------------------------------------------------------------
(* Calls of the cache.                                                     *)

\* What a lookup finds is genuine, if it has its data.
LEMMA LookupGenuine ==
  ASSUME ProxyInv, NEW k \in Key, Found(k)
  PROVE  /\ get(k) \in Decoded
         /\ get(k).data # NilData => Genuine(version, k, get(k).data)
<1>1. store[k] \in Serialized
  BY DEF ProxyInv, TypeOK, CacheTypeOK, Found
<1>2. get(k) \in Decoded
  BY <1>1 DEF get, deserializeObj, Serialized, Decoded
<1>3. get(k).data # NilData => Genuine(version, k, get(k).data)
  BY DEF ProxyInv, Entries, get, deserializeObj
<1>. QED
  BY <1>2, <1>3

\* The response is handled in the same way whether the first or the second
\* lookup found the entry.
LEMMA InterceptKeeps ==
  ASSUME ProxyInv, NEW c \in Conn, Intercept(c)
  PROVE  ProxyInv'
<1> DEFINE k == KeyOf(request[c].blob[2])
<1> USE DEF fetchVars, originVars
<1>0. TypeOK /\ Local(c) /\ pc[c] = "serve" /\ request[c].method = "get"
  BY DEF ProxyInv, Intercept, ShouldIntercept
<1>1. request[c] \in Request /\ k \in Key /\ Get(c, k, TRUE)
  BY <1>0, RequestBlob DEF Intercept, Local, Coupled, ExtractObjectKey
<1>2. /\ callPc[c] = "idle" /\ fetcher[c] = "off" /\ wire[c] = Idle
      /\ answer[c] = <<>>
  BY <1>0 DEF Local, Coupled, Traffic, Replies
<1>3. /\ callKey' = [callKey EXCEPT ![c] = k]
      /\ initializer' = [initializer EXCEPT ![c] = TRUE]
      /\ UNCHANGED <<store, putting, made>>
  BY <1>1 DEF Get
<1>4. \/ /\ callPc' = [callPc EXCEPT ![c] = "returned"]
         /\ result' = [result EXCEPT ![c] = [obj |-> get(k), err |-> "nil"]]
         /\ get(k) \in Decoded
         /\ get(k).data # NilData => Genuine(version, k, get(k).data)
      \/ /\ callPc' = [callPc EXCEPT ![c] = "initialize"]
         /\ result' = result
  BY <1>1, LookupGenuine DEF Get, Return
<1>. HIDE DEF k
<1>5. CacheTypeOK'
  <2>1. callPc' \in [Conn -> {"idle", "initialize", "initializer", "put",
                              "returned"}]
    BY <1>0, <1>4 DEF TypeOK, CacheTypeOK
  <2>2. result' \in [Conn -> [obj : Decoded \cup {NoObj}, err : Errors]]
    <3>1. get(k) \in Decoded =>
            [obj |-> get(k), err |-> "nil"]
              \in [obj : Decoded \cup {NoObj}, err : Errors]
      BY DEF Errors
    <3>. QED
      BY <1>0, <1>4, <3>1 DEF TypeOK, CacheTypeOK
  <2>. QED
    BY <1>0, <1>1, <1>3, <2>1, <2>2 DEF TypeOK, CacheTypeOK
<1>6. TypeOK'
  BY <1>0, <1>5 DEF Intercept, TypeOK
<1>7. \A d \in Conn \ {c} : Same(d)
  BY <1>0, <1>3, <1>4 DEF Intercept, TypeOK, CacheTypeOK, Same
<1>8. Coupled(c)'
  BY <1>0, <1>1, <1>2, <1>3, <1>4 DEF Intercept, Local, Coupled, TypeOK,
     CacheTypeOK, k
<1>9. Traffic(c)'
  BY <1>0 DEF Intercept, Local, Traffic, TypeOK
<1>10. Carried(c)'
  <2>1. callPc'[c] = "returned" =>
          /\ result'[c].obj \in Decoded
          /\ result'[c].obj.data # NilData =>
               Genuine(version', callKey'[c], result'[c].obj.data)
    BY <1>0, <1>3, <1>4 DEF Intercept, TypeOK, CacheTypeOK
  <2>. QED
    BY <1>0, <1>2, <1>3, <2>1 DEF Intercept, Local, Carried, Idle
<1>11. Replies(c)'
  BY <1>0, <1>2 DEF Intercept, Replies, Silent, TypeOK
<1>. QED
  BY <1>3, <1>6, <1>7, <1>8, <1>9, <1>10, <1>11, Quiet, OneMoves
     DEF Intercept, Local

\* The second lookup of Get: an entry it finds is genuine; if there is none
\* the fetcher starts.
LEMMA InitializeKeeps ==
  ASSUME ProxyInv, NEW c \in Conn, Initialize(c)
  PROVE  ProxyInv'
<1> DEFINE k == callKey[c]
<1> USE DEF handlerVars, originVars
<1>0. TypeOK /\ Local(c) /\ callPc[c] = "initialize" /\ DoubleCheck(c)
  BY DEF ProxyInv, Initialize, DoubleCheck
<1>1. /\ request[c] \in Request /\ k = KeyOf(request[c].blob[2]) /\ k \in Key
      /\ pc[c] = "cache" /\ fetcher[c] = "off" /\ wire[c] = Idle
      /\ answer[c] = <<>>
  BY <1>0, RequestBlob DEF Local, Coupled, Traffic, Replies
<1>2. UNCHANGED <<store, callKey, initializer, putting, made>>
  BY <1>0 DEF DoubleCheck
<1>3. \/ /\ callPc' = [callPc EXCEPT ![c] = "returned"]
         /\ result' = [result EXCEPT ![c] = [obj |-> get(k), err |-> "nil"]]
         /\ get(k) \in Decoded
         /\ get(k).data # NilData => Genuine(version, k, get(k).data)
      \/ /\ callPc' = [callPc EXCEPT ![c] = "initializer"]
         /\ result' = result
  BY <1>0, <1>1, LookupGenuine DEF DoubleCheck, Return
<1>4. /\ callPc'[c] = "returned" => fetcher' = fetcher
      /\ callPc'[c] = "initializer" => fetcher' = [fetcher EXCEPT ![c] = "dial"]
  BY DEF Initialize
<1>. HIDE DEF k
<1>5. callPc' \in [Conn -> {"idle", "initialize", "initializer", "put",
                            "returned"}]
  <2>1. \E x \in {"returned", "initializer"} :
          callPc' = [callPc EXCEPT ![c] = x]
    BY <1>3
  <2>. QED
    BY <1>0, <2>1 DEF TypeOK, CacheTypeOK
<1>6. callPc'[c] \in {"returned", "initializer"}
  BY <1>0, <1>3 DEF TypeOK, CacheTypeOK
<1>7. result' \in [Conn -> [obj : Decoded \cup {NoObj}, err : Errors]]
  <2>1. get(k) \in Decoded =>
          [obj |-> get(k), err |-> "nil"]
            \in [obj : Decoded \cup {NoObj}, err : Errors]
    BY DEF Errors
  <2>. QED
    BY <1>0, <1>3, <2>1 DEF TypeOK, CacheTypeOK
<1>8. TypeOK'
  <2>1. fetcher' \in [Conn -> {"off", "dial", "await", "report", "deliver",
                               "closing", "ended"}]
    BY <1>0, <1>4, <1>6 DEF TypeOK
  <2>. QED
    BY <1>0, <1>2, <1>5, <1>7, <2>1 DEF Initialize, TypeOK, CacheTypeOK
<1>9. \A d \in Conn \ {c} : Same(d)
  BY <1>0, <1>2, <1>3, <1>4, <1>6 DEF Initialize, TypeOK, CacheTypeOK, Same
<1>10. Coupled(c)'
  BY <1>0, <1>1, <1>2, <1>4, <1>6
     DEF Initialize, Local, Coupled, TypeOK, CacheTypeOK
<1>11. Traffic(c)'
  BY <1>0, <1>1, <1>4, <1>6 DEF Initialize, Local, Traffic, TypeOK
<1>12. Carried(c)'
  <2>1. callPc'[c] = "returned" =>
          /\ result'[c].obj \in Decoded
          /\ result'[c].obj.data # NilData =>
               Genuine(version', callKey'[c], result'[c].obj.data)
    BY <1>0, <1>2, <1>3 DEF Initialize, TypeOK, CacheTypeOK, k
  <2>2. fetcher'[c] \in {"off", "dial"}
    BY <1>0, <1>1, <1>4, <1>6 DEF TypeOK
  <2>. QED
    BY <1>0, <1>1, <1>2, <2>1, <2>2 DEF Initialize, Local, Carried, Idle
<1>13. Replies(c)'
  BY <1>0, <1>1 DEF Initialize, Replies, Silent
<1>. QED
  BY <1>2, <1>8, <1>9, <1>10, <1>11, <1>12, <1>13, Quiet, OneMoves
     DEF Initialize, Local

-----------------------------------------------------------------------------
(* The fetcher.                                                            *)

\* An object is made of a complete body with status 200 only.
LEMMA FetchReadsKeeps ==
  ASSUME ProxyInv, NEW c \in Conn, FetchReads(c)
  PROVE  ProxyInv'
<1> USE DEF bigcache, handlerVars
<1>0. TypeOK /\ Local(c) /\ fetcher[c] = "await"
  BY DEF ProxyInv, FetchReads
<1>1. /\ callPc[c] = "initializer" /\ request[c].method = "get"
      /\ wire[c] \in Wire
  BY <1>0 DEF Local, Coupled, TypeOK
<1>2. Outcome(wire[c]) \in [err : BOOLEAN, data : Content]
  BY <1>1 DEF Outcome, Failed, Wire, Content
<1>3. ~ Outcome(wire[c]).err =>
        Current(version, request[c].blob, floor[c], Outcome(wire[c]).data)
  BY <1>0, <1>1 DEF Outcome, Failed, Local, Carried
<1>4. Idle \in Wire
  BY DEF Idle, Wire, Content
<1>5. TypeOK'
  BY <1>0, <1>2, <1>4 DEF FetchReads, TypeOK, CacheTypeOK
<1>6. \A d \in Conn \ {c} : Same(d)
  BY <1>0 DEF FetchReads, TypeOK, Same
<1>7. Coupled(c)'
  BY <1>0 DEF FetchReads, Local, Coupled, TypeOK
<1>8. Traffic(c)'
  BY <1>0 DEF FetchReads, Local, Traffic, TypeOK
<1>9. Carried(c)'
  BY <1>0, <1>1, <1>3 DEF FetchReads, Local, Carried, TypeOK, Idle
<1>10. Replies(c)'
  BY <1>0, <1>1 DEF FetchReads, Local, Coupled, Replies, Silent
<1>. QED
  BY <1>5, <1>6, <1>7, <1>8, <1>9, <1>10, Quiet, OneMoves
     DEF FetchReads, Local

\* An error on errChan ends the call of the cache and leaves the fetcher
\* its connection to close.
LEMMA ReportErrorKeeps ==
  ASSUME ProxyInv, NEW c \in Conn, ReportError(c)
  PROVE  ProxyInv'
<1> USE DEF handlerVars, originVars
<1>0. /\ TypeOK /\ Local(c) /\ fetcher[c] = "report" /\ fetched[c].err
      /\ InitializerFails(c)
  BY DEF ProxyInv, ReportError
<1>1. /\ callPc[c] = "initializer" /\ pc[c] = "cache"
      /\ answer[c] = <<>> /\ wire[c] = Idle
  BY <1>0 DEF Local, Coupled, Traffic, Replies
<1>2. [obj |-> NoObj, err |-> "initializer"]
        \in [obj : Decoded \cup {NoObj}, err : Errors]
  BY DEF Errors
<1>3. TypeOK'
  BY <1>0, <1>2 DEF ReportError, InitializerFails, Return, TypeOK, CacheTypeOK
<1>4. \A d \in Conn \ {c} : Same(d)
  BY <1>0 DEF ReportError, InitializerFails, Return, TypeOK, CacheTypeOK, Same
<1>5. Coupled(c)'
  BY <1>0, <1>1 DEF ReportError, InitializerFails, Return, Local, Coupled,
     TypeOK, CacheTypeOK
<1>6. Traffic(c)'
  BY <1>0, <1>1 DEF ReportError, Local, Traffic, TypeOK
<1>7. Carried(c)'
  BY <1>0, <1>1 DEF ReportError, InitializerFails, Return, Local, Carried,
     TypeOK, CacheTypeOK, Idle
<1>8. Replies(c)'
  BY <1>0, <1>1 DEF ReportError, Replies, Silent
<1>. QED
  BY <1>3, <1>4, <1>5, <1>6, <1>7, <1>8, Quiet, OneMoves
     DEF ReportError, InitializerFails, Local

\* The object on objChan is returned and handed to the detached put, under
\* the key of the request.
LEMMA DeliverKeeps ==
  ASSUME ProxyInv, NEW c \in Conn, Deliver(c)
  PROVE  ProxyInv'
<1> DEFINE o == [key |-> callKey[c], data |-> fetched[c].data]
           res == [obj |-> o, err |-> "nil"]
<1> USE DEF handlerVars, originVars
<1>0. /\ TypeOK /\ Local(c) /\ fetcher[c] = "deliver" /\ ~ fetched[c].err
      /\ InitializerReturns(c, o)
  BY DEF ProxyInv, Deliver, Local, Carried
<1>1. /\ callPc[c] = "initializer" /\ pc[c] = "cache"
      /\ answer[c] = <<>> /\ wire[c] = Idle
      /\ request[c] \in Request /\ callKey[c] = KeyOf(request[c].blob[2])
      /\ callKey[c] \in Key /\ request[c].blob \in Blob
  BY <1>0, RequestBlob DEF Local, Coupled, Traffic, Replies
<1>2. /\ Current(version, request[c].blob, floor[c], o.data)
      /\ Genuine(version, o.key, o.data)
  <2>1. Current(version, request[c].blob, floor[c], fetched[c].data)
    BY <1>0 DEF Local, Carried
  <2>2. floor[c] \in Version
    BY <1>0 DEF TypeOK
  <2>. QED
    BY <1>0, <1>1, <2>1, <2>2, CurrentIsGenuine
<1>3. o \in Object /\ o \in Decoded
  BY <1>0, <1>1 DEF TypeOK, Object, Decoded
<1>4. res \in [obj : Decoded \cup {NoObj}, err : Errors]
      /\ res.obj = o /\ res.err = "nil" /\ o.data = fetched[c].data
  BY <1>3 DEF Errors
<1>5. /\ callPc' = [callPc EXCEPT ![c] = "returned"]
      /\ result' = [result EXCEPT ![c] = res]
      /\ putting' = [putting EXCEPT ![c] = o]
      /\ made' = made \cup {o}
      /\ UNCHANGED <<store, callKey, initializer>>
  BY <1>0 DEF InitializerReturns, Return
<1>. HIDE DEF o, res
<1>6. TypeOK'
  BY <1>0, <1>3, <1>4, <1>5 DEF Deliver, TypeOK, CacheTypeOK
<1>7. \A d \in Conn \ {c} : Same(d)
  BY <1>0, <1>5 DEF Deliver, TypeOK, CacheTypeOK, Same
<1>8. Coupled(c)'
  BY <1>0, <1>1, <1>5 DEF Deliver, Local, Coupled, TypeOK, CacheTypeOK
<1>9. Traffic(c)'
  BY <1>0, <1>1 DEF Deliver, Local, Traffic, TypeOK
<1>10. Carried(c)'
  <2>1. /\ result'[c] = res /\ putting'[c] = o /\ callKey'[c] = o.key
        /\ wire'[c].status = "none" /\ fetched'[c] = fetched[c]
        /\ fetcher'[c] = "closing"
        /\ UNCHANGED <<version, request, floor>>
    BY <1>0, <1>1, <1>5 DEF Deliver, TypeOK, CacheTypeOK, Idle, o
  <2>. QED
    BY <1>2, <1>3, <1>4, <2>1 DEF Carried
<1>11. Replies(c)'
  BY <1>0, <1>1 DEF Deliver, Replies, Silent
<1>. QED
  BY <1>5, <1>6, <1>7, <1>8, <1>9, <1>10, <1>11, Quiet, OneMoves
     DEF Deliver, Local

-----------------------------------------------------------------------------
(* The origin, the entries and the clients.                                *)

\* The entries stay genuine while the origin moves on.
LEMMA EntriesStay ==
  ASSUME ProxyInv, TypeOK', Grows, store' = store
  PROVE  Entries'
<1>1. ASSUME NEW k \in Key, Found(k)', store'[k].data # Absent
      PROVE  Genuine(version', k, store'[k].data)
  BY <1>1, GenuineStays DEF ProxyInv, Entries, Found
<1>. QED
  BY <1>1 DEF Entries

\* The origin serves the version it has, or takes a new one.
LEMMA OriginServesKeeps ==
  ASSUME ProxyInv, NEW c \in Conn, OriginServes(c)
  PROVE  ProxyInv'
<1> DEFINE b == request[c].blob
           v == IF request[c].method = "put" THEN version[b] + 1 ELSE version[b]
           reply == [status |-> "200",
                     data |-> IF request[c].method = "put" THEN EmptyData
                              ELSE Body(b, v)]
<1> USE DEF bigcache, handlerVars, fetchVars
<1>0. TypeOK /\ Local(c) /\ wire[c] = Sent
  BY DEF ProxyInv, OriginServes
<1>1. /\ fetcher[c] = "await" \/ pc[c] = "await"
      /\ request[c] \in Request /\ b \in Blob
      /\ pc[c] # "closed" /\ floor[c] <= version[b]
  <2>1. fetcher[c] = "await" \/ pc[c] = "await"
    BY <1>0 DEF Local, Traffic, Sent, Idle
  <2>2. request[c] \in Request /\ pc[c] # "closed"
    BY <1>0, <2>1 DEF Local, Coupled
  <2>. QED
    BY <1>0, <2>1, <2>2, RequestBlob DEF Local, Coupled
<1>2. /\ v \in Version /\ version' = [version EXCEPT ![b] = v]
      /\ wire' = [wire EXCEPT ![c] = reply]
  BY DEF OriginServes
<1>3. /\ version[b] \in Int /\ floor[c] \in Int /\ floor[c] \in Version
      /\ \A x \in Blob : version[x] \in Int
  BY <1>0, <1>1, ContentAssumption DEF TypeOK, Version
<1>4. version[b] <= v /\ v \in Int
  BY <1>3
<1>5. reply \in Wire
  BY <1>1, <1>2 DEF Wire, Content, Body
<1>6. reply.status = "200" /\ (request[c].method = "get" =>
                                 reply.data = Body(b, v))
  OBVIOUS
<1>. HIDE DEF v, reply
<1>7. Grows
  BY <1>0, <1>2, <1>3, <1>4 DEF Grows, TypeOK
<1>8. TypeOK'
  <2>1. UNCHANGED <<alive, client, handlerVars, fetchVars, sent, bigcache>>
    BY DEF OriginServes
  <2>2. version' \in [Blob -> Version] /\ wire' \in [Conn -> Wire]
    BY <1>0, <1>2, <1>5 DEF TypeOK
  <2>. QED
    BY <1>0, <2>1, <2>2 DEF TypeOK, CacheTypeOK
<1>9. Entries'
  BY <1>7, <1>8, EntriesStay DEF OriginServes
<1>10. \A d \in Conn \ {c} : Same(d)
  BY <1>0, <1>2 DEF OriginServes, TypeOK, Same
<1>11. UNCHANGED <<callPc, callKey, result, putting, pc, request, client,
                   answer, floor, fetcher, fetched, sent>>
  BY DEF OriginServes
<1>12. version'[b] = v /\ wire'[c] = reply
  BY <1>0, <1>1, <1>2 DEF TypeOK
<1>. HIDE DEF b
<1>13. Coupled(c)'
  <2>1. floor[c] <= version'[b]
    BY <1>1, <1>3, <1>4, <1>12
  <2>. QED
    BY <1>0, <1>11, <2>1 DEF Local, Coupled, b
<1>14. Traffic(c)'
  BY <1>0, <1>1, <1>11 DEF Local, Traffic
<1>15. Carried(c)'
  <2>1. request[c].method = "get" =>
          Current(version', b, floor[c], wire'[c].data)
    <3>1. v \in floor[c]..version'[b]
      BY <1>1, <1>3, <1>4, <1>12
    <3>. QED
      BY <1>6, <1>12, <3>1 DEF Current
  <2>2. \A data : Current(version, b, floor[c], data) =>
                    Current(version', b, floor[c], data)
    BY <1>0, <1>1, <1>3, <1>7, <1>8, CurrentStays
  <2>3. \A k, data : Genuine(version, k, data) => Genuine(version', k, data)
    BY <1>0, <1>7, <1>8, GenuineStays
  <2>. QED
    BY <1>0, <1>11, <2>1, <2>2, <2>3 DEF Local, Carried, b
<1>16. Replies(c)'
  <2>1. ASSUME NEW i \in DOMAIN answer[c]
        PROVE  GoodAnswer(c, answer[c][i])'
    <3>1. GoodAnswer(c, answer[c][i])
      BY <1>0 DEF Local, Replies
    <3>. QED
      BY <1>0, <1>7, <1>8, <1>11, <3>1, GoodStays
  <2>. QED
    BY <1>0, <1>11, <2>1 DEF Local, Replies, Silent
<1>. QED
  BY <1>7, <1>8, <1>9, <1>10, <1>13, <1>14, <1>15, <1>16, OneMoves DEF Local

\* The detached put stores what the fetcher delivered, or fails.
LEMMA StoreKeeps ==
  ASSUME ProxyInv, NEW c \in Conn, Store(c)
  PROVE  ProxyInv'
<1> DEFINE o == putting[c]
<1> USE DEF proxyVars, handlerVars, fetchVars, originVars
<1>0. TypeOK /\ Local(c) /\ o # NoObj
  BY DEF ProxyInv, Store, PutSets, PutFails
<1>1. o \in Object /\ Genuine(version, o.key, o.data) /\ callPc[c] # "put"
  BY <1>0 DEF TypeOK, CacheTypeOK, Local, Carried, Coupled
<1>2. /\ putting' = [putting EXCEPT ![c] = NoObj]
      /\ UNCHANGED <<callPc, callKey, initializer, result, made, proxyVars>>
  BY <1>1 DEF Store, PutSets, PutFails, PutEnds
<1>3. \/ store' = [store EXCEPT ![o.key] = serializeObj(o)]
      \/ store' = store
  BY DEF Store, PutSets, PutFails
<1>4. o.key \in Key /\ serializeObj(o) \in Serialized
  BY <1>1 DEF Object, serializeObj, Serialized
<1>5. /\ serializeObj(o).data # Absent =>
           Genuine(version, o.key, serializeObj(o).data)
  BY <1>1 DEF serializeObj
<1>. HIDE DEF o
<1>6. TypeOK'
  <2>1. store' \in [Key -> Serialized \cup {Absent}]
    BY <1>0, <1>3, <1>4 DEF TypeOK, CacheTypeOK
  <2>. QED
    BY <1>0, <1>2, <2>1 DEF TypeOK, CacheTypeOK
<1>7. Entries' /\ Grows
  <2>1. Grows
    BY <1>0, <1>2, ContentAssumption DEF TypeOK, Grows, Version
  <2>2. ASSUME NEW k \in Key, Found(k)', store'[k].data # Absent
        PROVE  Genuine(version', k, store'[k].data)
    <3>1. store'[k] = store[k] \/ (k = o.key /\ store'[k] = serializeObj(o))
      BY <1>0, <1>3, <1>4 DEF TypeOK, CacheTypeOK
    <3>2. version' = version
      BY <1>2
    <3>. QED
      BY <1>5, <2>2, <3>1, <3>2 DEF ProxyInv, Entries, Found
  <2>. QED
    BY <2>1, <2>2 DEF Entries
<1>8. \A d \in Conn \ {c} : Same(d)
  BY <1>0, <1>2 DEF TypeOK, CacheTypeOK, Same
<1>9. Coupled(c)' /\ Traffic(c)'
  BY <1>0, <1>2 DEF Local, Coupled, Traffic
<1>10. Carried(c)'
  BY <1>0, <1>2 DEF Local, Carried, TypeOK, CacheTypeOK
<1>11. Replies(c)'
  BY <1>0, <1>2 DEF Local, Replies, Silent, GoodAnswer, Fetched
<1>. QED
  BY <1>6, <1>7, <1>8, <1>9, <1>10, <1>11, OneMoves DEF Local

\* A step that leaves every connection alone.
LEMMA NobodyMoves ==
  ASSUME ProxyInv, TypeOK', Entries', Grows, \A d \in Conn : Same(d)
  PROVE  ProxyInv'
BY SameKeeps DEF ProxyInv

\* An entry that expires takes nothing else with it.
LEMMA ForgetKeeps ==
  ASSUME ProxyInv, NEW k \in Key, Forget(k)
  PROVE  ProxyInv'
<1> USE DEF proxyVars, handlerVars, fetchVars, originVars
<1>1. TypeOK'
  BY DEF ProxyInv, Forget, Expire, TypeOK, CacheTypeOK
<1>2. Grows
  BY ContentAssumption DEF ProxyInv, Forget, TypeOK, Grows, Version
<1>3. Entries'
  BY DEF ProxyInv, Forget, Expire, Entries, Found, TypeOK, CacheTypeOK
<1>4. \A d \in Conn : Same(d)
  BY DEF Forget, Expire, Same
<1>. QED
  BY <1>1, <1>2, <1>3, <1>4, NobodyMoves

\* A step that changes no variable keeps the invariant.
LEMMA StutterKeeps ==
  ASSUME ProxyInv, UNCHANGED vars
  PROVE  ProxyInv'
<1> USE DEF vars, bigcache, proxyVars, handlerVars, fetchVars, originVars
<1>1. TypeOK'
  BY DEF ProxyInv, TypeOK, CacheTypeOK
<1>2. \A d \in Conn : Same(d)
  BY DEF Same
<1>. QED
  BY <1>1, <1>2, Quiet, NobodyMoves

-----------------------------------------------------------------------------
(* The invariant.                                                          *)

\* The invariant holds before the first request.
LEMMA ProxyInit == Init => ProxyInv
<1> SUFFICES ASSUME Init PROVE ProxyInv
  OBVIOUS
<1>1. TypeOK
  <2>1. CacheTypeOK
    BY DEF Init, CacheInit, CacheTypeOK, NoResult, Errors
  <2>2. Failed \in [err : BOOLEAN, data : Content] /\ Idle \in Wire
        /\ 0 \in Version
    BY ContentAssumption DEF Failed, Content, Idle, Wire, Version
  <2>. QED
    BY <2>1, <2>2 DEF Init, TypeOK
<1>2. Entries
  BY DEF Init, CacheInit, Entries, Found
<1>3. ASSUME NEW c \in Conn PROVE Local(c)
  <2>1. Coupled(c)
    BY DEF Init, CacheInit, Coupled, NoRequest, Request
  <2>2. Traffic(c)
    BY DEF Init, Traffic
  <2>3. Carried(c)
    BY DEF Init, CacheInit, Carried, Idle
  <2>4. Replies(c)
    BY DEF Init, Replies, Silent
  <2>. QED
    BY <2>1, <2>2, <2>3, <2>4 DEF Local
<1>. QED
  BY <1>1, <1>2, <1>3 DEF ProxyInv

\* The handler's own steps keep the invariant.
LEMMA ServeStepKeeps ==
  ASSUME ProxyInv, NEW c \in Conn, ServeStep(c)
  PROVE  ProxyInv'
BY ReadFailsKeeps, PassThroughKeeps, InterceptKeeps, InitializeKeeps,
   GetFailedKeeps, PanicKeeps, RespondKeeps, RespondFailsKeeps,
   ForwardDialFailsKeeps, ForwardSendKeeps, ForwardReadFailsKeeps, RelayKeeps
   DEF ServeStep

\* The fetcher's steps keep the invariant.
LEMMA FetcherStepKeeps ==
  ASSUME ProxyInv, NEW c \in Conn, FetcherStep(c)
  PROVE  ProxyInv'
BY FetchSendKeeps, FetchSendFailsKeeps, FetchReadsKeeps, ReportErrorKeeps,
   ReportNilKeeps, DeliverKeeps, FetcherClosesKeeps DEF FetcherStep

\* The origin's steps keep the invariant.
LEMMA OriginStepKeeps ==
  ASSUME ProxyInv, NEW c \in Conn, OriginStep(c)
  PROVE  ProxyInv'
BY OriginServesKeeps, OriginRefusesKeeps, BreakKeeps DEF OriginStep

\* Every step keeps the invariant.
LEMMA ProxyStep == ProxyInv /\ [Next]_vars => ProxyInv'
BY ReadRequestKeeps, ServeStepKeeps, FetcherStepKeeps, StoreKeeps,
   OriginStepKeeps, ClientSendsBodyKeeps, ForgetKeeps, StutterKeeps DEF Next

\* The invariant holds in every state of the handlers, their fetchers and
\* the cache they share.
THEOREM ProxyInvariance == Spec => []ProxyInv
  BY ProxyInit, ProxyStep, PTL DEF Spec

-----------------------------------------------------------------------------
(* What follows from the invariant.                                        *)

\* By the invariant, what was served from the cache is genuine.
LEMMA InvServesGenuine == ProxyInv => ServedIsGenuine
<1> SUFFICES ASSUME ProxyInv, NEW c \in Conn, NEW i \in DOMAIN answer[c],
                    answer[c][i].via = "cache"
             PROVE  HasBeen(c, answer[c][i].data)
  BY DEF ServedIsGenuine
<1>1. Genuine(version, KeyOf(request[c].blob[2]), answer[c][i].data)
  BY DEF ProxyInv, Local, Replies, GoodAnswer
<1>. QED
  BY <1>1 DEF Genuine, HasBeen

\* By the invariant, what was fetched or forwarded is current.
LEMMA InvFresh == ProxyInv => FreshUnlessHit
<1> SUFFICES ASSUME ProxyInv, NEW c \in Conn, NEW i \in DOMAIN answer[c],
                    request[c].method = "get", answer[c][i].status = "200",
                    answer[c][i].data # CutData, Fetched(c, answer[c][i])
             PROVE  \E v \in floor[c]..version[request[c].blob] :
                      answer[c][i].data = Body(request[c].blob, v)
  BY DEF FreshUnlessHit
<1>. QED
  BY DEF ProxyInv, Local, Replies, GoodAnswer, Current

\* Handlers, fetchers, calls and replies keep their types; in particular
\* only whole objects are handed to the cache.
THEOREM ProxyTypeCorrect == Spec => []TypeOK
  <1>1. ProxyInv => TypeOK
    BY DEF ProxyInv
  <1>. QED
    BY <1>1, ProxyInvariance, PTL

\* For any hosts, targets, versions and numbers of connections, a response
\* made from an object of the cache has the complete content of a version
\* the origin has had under a target with the key of the request
\* (ExtractObjectKey, retrieveObjectFromRemote, initialize, put).  Targets
\* may share a key; the theorem does not say that they do not.
THEOREM ServesGenuine == Spec => []ServedIsGenuine
  BY InvServesGenuine, ProxyInvariance, PTL

\* Only a hit can be out of date: what was forwarded or fetched is a version
\* from after the request (retrieveObjectFromRemote, forward).
THEOREM OnlyHitsAreStale == Spec => []FreshUnlessHit
  BY InvFresh, ProxyInvariance, PTL

\* One request, one response, on every way through the handler
\* (handleHttpInternal, forward).
THEOREM AnswersOnce == Spec => []OneAnswer
  <1>1. ProxyInv => OneAnswer
    BY DEF ProxyInv, Local, Replies, OneAnswer
  <1>. QED
    BY <1>1, ProxyInvariance, PTL

\* What changes the origin is sent once, a get at most twice
\* (handleHttpInternal, retrieveObjectFromRemote, forward).
THEOREM SendsOnce == Spec => []SentOnce
  <1>1. ASSUME ProxyInv, NEW c \in Conn
        PROVE  sent[c] <= IF request[c].method = "get" THEN 2 ELSE 1
    <2>1. TypeOK /\ Coupled(c) /\ Traffic(c) /\ sent[c] \in Nat
      BY <1>1 DEF ProxyInv, Local, TypeOK
    <2>2. request[c].method # "get" => fetcher[c] = "off"
      BY <2>1 DEF Coupled, TypeOK, CacheTypeOK
    <2>. QED
      BY <2>1, <2>2 DEF Traffic
  <1>2. ProxyInv => SentOnce
    BY <1>1 DEF SentOnce
  <1>. QED
    BY <1>2, ProxyInvariance, PTL

\* A handler that has closed its connection leaves no goroutine behind that
\* still has something to send; one that has yet to close its connection to
\* the origin may be there (retrieveObjectFromRemote).
THEOREM LeavesNothing == Spec => []NothingLeft
  <1>1. ASSUME ProxyInv, NEW c \in Conn, pc[c] = "closed"
        PROVE  fetcher[c] \in {"off", "closing", "ended"}
    BY <1>1 DEF ProxyInv, Local, Coupled, TypeOK, CacheTypeOK
  <1>2. ProxyInv => NothingLeft
    BY <1>1 DEF NothingLeft
  <1>. QED
    BY <1>2, ProxyInvariance, PTL

-----------------------------------------------------------------------------
(* The cache inside the proxy.                                             *)

\* The theorems about the cache by itself, for the callers, keys and
\* contents of the proxy.
Bigcache == INSTANCE BigcacheProofs WITH
  Caller <- Conn, Data <- Content

\* The constants of the proxy satisfy what the proofs about the cache assume.
LEMMA BigcacheAssumptions ==
  Bigcache!DataAssumption /\ Bigcache!KeyAssumption
BY CacheAssumption DEF Content

\* The handlers use the cache only through its operations, and their
\* initializers return an object with the key they were asked for.
LEMMA ProxyCallsCache == ProxyInv /\ [Next]_vars => [CacheNext]_cacheVars
<1> SUFFICES ASSUME ProxyInv, [Next]_vars PROVE CacheNext \/ UNCHANGED cacheVars
  OBVIOUS
<1> USE DEF cacheVars, bigcache
<1>1. ASSUME NEW c \in Conn, Intercept(c) PROVE CacheNext
  <2>1. request[c] \in Request
    BY <1>1 DEF ProxyInv, Local, Coupled, Intercept
  <2>2. ExtractObjectKey(request[c]) \in Key
    BY <2>1, RequestBlob DEF ExtractObjectKey
  <2>. QED
    BY <1>1, <2>2 DEF Intercept, CacheNext
<1>2. ASSUME NEW c \in Conn, Deliver(c) PROVE CacheNext
  <2> DEFINE o == [key |-> callKey[c], data |-> fetched[c].data]
  <2>1. callKey[c] \in Key /\ fetched[c].data \in Content
    BY <1>2, RequestBlob DEF ProxyInv, TypeOK, Local, Coupled, Deliver
  <2>2. o \in Object /\ o.key = callKey[c] /\ InitializerReturns(c, o)
    BY <1>2, <2>1 DEF Object, Deliver
  <2>. HIDE DEF o
  <2>. QED
    BY <2>2 DEF CacheNext
<1>3. ASSUME NEW c \in Conn,
             Initialize(c) \/ ReportError(c) \/ Store(c)
      PROVE  CacheNext
  BY <1>3 DEF Initialize, ReportError, Store, CacheNext
<1>4. ASSUME NEW k \in Key, Forget(k) PROVE CacheNext
  BY <1>4 DEF Forget, CacheNext
<1>5. ASSUME NEW c \in Conn,
             \/ \E req \in Request : ReadRequest(c, req)
             \/ ReadFails(c) \/ PassThrough(c) \/ GetFailed(c) \/ Panic(c)
             \/ Respond(c) \/ RespondFails(c) \/ ForwardDialFails(c)
             \/ ForwardSend(c) \/ ForwardReadFails(c) \/ Relay(c)
             \/ FetchSend(c) \/ FetchSendFails(c) \/ FetchReads(c)
             \/ ReportNil(c) \/ FetcherCloses(c) \/ OriginStep(c) \/ ClientSendsBody(c)
      PROVE  UNCHANGED cacheVars
  BY <1>5
     DEF ReadRequest, ReadFails, PassThrough, GetFailed, Panic, Respond,
         RespondFails, ForwardDialFails, ForwardSend, ForwardReadFails, Relay,
         FetchSend, FetchSendFails, FetchReads, ReportNil, FetcherCloses, OriginStep,
         OriginServes, OriginRefuses, Break, ClientSendsBody
<1>6. CASE UNCHANGED vars
  BY <1>6 DEF vars
<1>. QED
  BY <1>1, <1>2, <1>3, <1>4, <1>5, <1>6 DEF Next, ServeStep, FetcherStep

\* The two instances of the cache are one.
LEMMA SameCache ==
  /\ CacheInit <=> Bigcache!CacheInit
  /\ CacheNext <=> Bigcache!CacheNext
  /\ cacheVars = Bigcache!cacheVars
<1>1. CacheInit <=> Bigcache!CacheInit
  BY DEF CacheInit, Bigcache!CacheInit, NoResult, Bigcache!NoResult
<1>2. CacheNext <=> Bigcache!CacheNext
  BY DEF CacheNext, Get, InitializerNil, DoubleCheck, InitializerReturns,
         InitializerFails, Put, PutSets, PutFails, PutEnds, Expire, Return,
         Found, get, deserializeObj, serializeObj, Object,
         Bigcache!CacheNext, Bigcache!Get, Bigcache!InitializerNil,
         Bigcache!DoubleCheck, Bigcache!InitializerReturns,
         Bigcache!InitializerFails, Bigcache!Put, Bigcache!PutSets,
         Bigcache!PutFails, Bigcache!PutEnds, Bigcache!Expire,
         Bigcache!Return, Bigcache!Found, Bigcache!get,
         Bigcache!deserializeObj, Bigcache!serializeObj, Bigcache!Object
<1>. QED
  BY <1>1, <1>2 DEF cacheVars, Bigcache!cacheVars

\* The two instances of the abstract cache are one.
LEMMA SameInterface ==
  /\ Bigcache!Cache!Init => Cache!Init
  /\ [Bigcache!Cache!Next]_Bigcache!Cache!cvars => [Cache!Next]_Cache!cvars
<1>1. Bigcache!Cache!Init => Cache!Init
  BY DEF Cache!Init, Bigcache!Cache!Init, State, Bigcache!State
<1>2. Bigcache!Cache!Next => Cache!Next
  BY DEF State, Cache!Next, Cache!Ask, Cache!Answer, Cache!Fail, Cache!Offer,
         Cache!OfferAndAnswer, Cache!Return, Cache!Waiting, Cache!Answers,
         Cache!Copies, Cache!Object,
         Bigcache!State, Bigcache!Cache!Next, Bigcache!Cache!Ask,
         Bigcache!Cache!Answer, Bigcache!Cache!Fail, Bigcache!Cache!Offer,
         Bigcache!Cache!OfferAndAnswer, Bigcache!Cache!Return,
         Bigcache!Cache!Waiting, Bigcache!Cache!Answers,
         Bigcache!Cache!Copies, Bigcache!Cache!Object
<1>. QED
  BY <1>1, <1>2 DEF State, Bigcache!State, Cache!cvars, Bigcache!Cache!cvars

\* Whoever uses the cache as it is specified has a Cache.
LEMMA CacheSpecImplements == CacheSpec => ImplementsCache
<1>1. CacheSpec => Bigcache!CacheSpec
  <2>1. [CacheNext]_cacheVars => [Bigcache!CacheNext]_Bigcache!cacheVars
    BY SameCache DEF cacheVars, Bigcache!cacheVars
  <2>. QED
    BY <2>1, SameCache, PTL DEF CacheSpec, Bigcache!CacheSpec
<1>2. Bigcache!CacheSpec => Bigcache!ImplementsCache
  BY BigcacheAssumptions, Bigcache!WrapperIsACache
<1>3. Bigcache!ImplementsCache => ImplementsCache
  BY SameInterface, PTL
     DEF ImplementsCache, Bigcache!ImplementsCache, Cache!Spec,
         Bigcache!Cache!Spec
<1>. QED
  BY <1>1, <1>2, <1>3, PTL

\* The proxy runs the cache as it is specified by itself: the handlers, the
\* fetchers and the origin add no behaviour to it (handleHttpInternal,
\* retrieveObjectFromRemote, bigcacheWrapper.go).
THEOREM ProxyRunsCache == Spec => CacheSpec
  <1>1. Init => CacheInit
    BY DEF Init
  <1>. QED
    BY <1>1, ProxyInvariance, ProxyCallsCache, PTL DEF Spec, CacheSpec

\* Composed with its handlers, the cache still keeps the promise of the
\* interface Cache to each of them.
THEOREM ProxyCacheIsACache == Spec => ImplementsCache
  BY ProxyRunsCache, CacheSpecImplements, PTL

=============================================================================
