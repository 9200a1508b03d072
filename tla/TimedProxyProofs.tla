-------------------------- MODULE TimedProxyProofs --------------------------
(***************************************************************************)
(* Proofs about TimedProxy.  Every step of the timed handler but the       *)
(* answer to a request it cannot read is a step of the plain one, so that  *)
(* the invariant of CachingProxyProofs carries over.  What is added ties   *)
(* the flags of an entry to where its handler and its fetcher are.         *)
(***************************************************************************)
EXTENDS TimedProxy, CachingProxyProofs

\* A flag is raised before the request it accounts for can be sent.
Recorded(c) ==
  /\ callPc[c] = "idle" => stats[c].objectKey = NoKey
  /\ callPc[c] = "initialize" => stats[c].cacheMiss
  /\ fetcher[c] # "off" => stats[c].cacheMiss
  /\ pc[c] \in {"dial", "await"} =>
       stats[c].forwarded \/ stats[c].objectKey = NoKey
  /\ sent[c] <= Accounted(stats[c])
  /\ stats[c].failed => stats[c].forwarded

TimedInv ==
  /\ ProxyInv
  /\ StatsTypeOK
  /\ timed => \A c \in Conn : Recorded(c)

-----------------------------------------------------------------------------
\* A request that cannot be read is answered with 400.
LEMMA TimedReadFailsKeeps ==
  ASSUME ProxyInv, NEW c \in Conn, TimedReadFails(c)
  PROVE  ProxyInv'
<1>0. TypeOK /\ Local(c) /\ pc[c] = "read"
  BY DEF ProxyInv, TimedReadFails
<1>1. /\ BadRequest \in Answer /\ GoodAnswer(c, BadRequest)
      /\ BadRequest.status # "cut"
  BY DEF BadRequest, Answer, Content, GoodAnswer
<1>2. /\ callPc[c] = "idle"
      /\ sent[c] <= (IF fetcher[c] \in {"off", "dial"} THEN 0 ELSE 1) + 1
  BY <1>0 DEF Local, Coupled, Traffic, TypeOK
<1>. QED
  BY <1>0, <1>1, <1>2, CloseKeeps DEF TimedReadFails

\* Every other step is one of the plain handler.
LEMMA TimedIsPlain ==
  TimedNext =>
    Next \/ \E c \in Conn : TimedReadFails(c) /\ UNCHANGED timed
BY DEF TimedNext, TimedServeStep, TimedIntercept, TimedGetFailed,
       TimedRespondFails, Unrecorded, TimedFetcherStep, Unmeasured, Next,
       ServeStep

\* The invariant of the plain handler holds with the timed one.
LEMMA TimedProxyStep == ProxyInv /\ [TimedNext]_timedVars => ProxyInv'
BY TimedIsPlain, TimedReadFailsKeeps, ProxyStep DEF timedVars

\* An entry is replaced by an entry.
LEMMA RecordTyped ==
  ASSUME StatsTypeOK, NEW c \in Conn, NEW e \in Entry, Record(c, e)
  PROVE  /\ stats' \in [Conn -> Entry]
         /\ timed => stats'[c] = e
         /\ \A d \in Conn \ {c} : stats'[d] = stats[d]
BY DEF StatsTypeOK, Record

\* A miss and a fallback each account for one request.
LEMMA AccountedType ==
  ASSUME NEW e \in Entry
  PROVE  /\ Accounted(e) \in Nat
         /\ e.cacheMiss => Accounted(e) >= 1
         /\ e.forwarded \/ e.objectKey = NoKey =>
              Accounted(e) = (IF e.cacheMiss THEN 1 ELSE 0) + 1
BY DEF Accounted, Entry

\* What a step of the proxy that writes no entry does to Recorded.
LEMMA UnrecordedKeeps ==
  ASSUME TimedInv, timed, UNCHANGED stats, NEW c \in Conn, NEW d \in Conn,
         \/ TimedReadFails(c) \/ Unrecorded(c) \/ FetcherStep(c)
         \/ \E req \in Request : ReadRequest(c, req)
         \/ Store(c) \/ OriginStep(c) \/ ClientSendsBody(c)
  PROVE  Recorded(d)'
<1> USE DEF bigcache, handlerVars, fetchVars, originVars, proxyVars
<1>0. /\ TypeOK /\ Coupled(c) /\ Traffic(c)
      /\ Recorded(c) /\ Recorded(d)
  BY DEF TimedInv, ProxyInv, Local
<1>1. /\ stats[d] \in Entry /\ Accounted(stats[d]) \in Nat
      /\ stats[d].cacheMiss => Accounted(stats[d]) >= 1
      /\ stats[d].forwarded \/ stats[d].objectKey = NoKey =>
           Accounted(stats[d]) = (IF stats[d].cacheMiss THEN 1 ELSE 0) + 1
  BY AccountedType DEF TimedInv, StatsTypeOK
<1>2. /\ sent[c] \in Nat /\ sent[d] \in Nat
      /\ sent \in [Conn -> Nat] /\ DOMAIN pc = Conn /\ DOMAIN fetcher = Conn
      /\ DOMAIN callPc = Conn
  BY <1>0 DEF TypeOK, CacheTypeOK
<1>3. CASE UNCHANGED <<callPc, fetcher, sent>> /\
           \E x \in {"serve", "dial", "closed"} :
             /\ pc' = [pc EXCEPT ![c] = x]
             /\ x = "dial" => callPc[c] = "idle"
  BY <1>0, <1>2, <1>3 DEF Recorded
<1>4. CASE UNCHANGED <<callPc, fetcher, pc, sent>>
  BY <1>0, <1>4 DEF Recorded
<1>5. CASE Initialize(c)
  BY <1>0, <1>2, <1>5
     DEF Initialize, DoubleCheck, Return, Recorded, Coupled
<1>6. CASE ForwardSend(c)
  <2>1. pc[c] = "dial" /\ pc' = [pc EXCEPT ![c] = "await"]
        /\ UNCHANGED <<callPc, fetcher>>
    BY <1>6 DEF ForwardSend
  <2>2. sent' = sent \/ sent' = [sent EXCEPT ![c] = @ + 1]
    BY <1>6 DEF ForwardSend
  <2>3. d = c => sent[c] + 1 <= Accounted(stats[c])
    BY <1>0, <1>1, <1>2, <2>1 DEF Traffic, Recorded
  <2>4. sent'[d] <= Accounted(stats[d])
    BY <1>0, <1>1, <1>2, <2>2, <2>3 DEF Recorded
  <2>. QED
    BY <1>0, <1>2, <2>1, <2>4 DEF Recorded
<1>7. CASE FetchSend(c)
  <2>1. fetcher[c] = "dial" /\ fetcher' = [fetcher EXCEPT ![c] = "await"]
        /\ sent' = [sent EXCEPT ![c] = @ + 1] /\ UNCHANGED <<callPc, pc>>
    BY <1>7 DEF FetchSend
  <2>2. d = c => sent[c] + 1 <= Accounted(stats[c])
    BY <1>0, <1>1, <1>2, <2>1 DEF Traffic, Coupled, Recorded
  <2>3. sent'[d] <= Accounted(stats[d])
    BY <1>0, <1>1, <1>2, <2>1, <2>2 DEF Recorded
  <2>. QED
    BY <1>0, <1>2, <2>1, <2>3 DEF Recorded
<1>8. CASE FetcherStep(c) /\ ~ FetchSend(c)
  <2>1. /\ fetcher[c] # "off" /\ UNCHANGED <<pc, sent>>
        /\ \E x \in {"report", "deliver", "closing", "ended"} :
             fetcher' = [fetcher EXCEPT ![c] = x]
        /\ callPc' = callPc \/ callPc' = [callPc EXCEPT ![c] = "returned"]
    BY <1>8 DEF FetcherStep, FetchSendFails, FetchReads, ReportNil, ReportError,
                Deliver, FetcherCloses, InitializerFails, InitializerReturns,
                Return
  <2>. QED
    BY <1>0, <1>2, <2>1 DEF Recorded
<1>9. CASE \E req \in Request : ReadRequest(c, req)
  BY <1>3, <1>9 DEF ReadRequest
<1>10. CASE TimedReadFails(c) \/ (Unrecorded(c) /\ ~ Initialize(c)
                                    /\ ~ ForwardSend(c))
  BY <1>0, <1>3, <1>4, <1>10
     DEF TimedReadFails, Unrecorded, ReadFails, PassThrough, Panic, Respond,
         ForwardDialFails, ForwardReadFails, Relay, Close, Coupled
<1>11. CASE Store(c) \/ OriginStep(c) \/ ClientSendsBody(c)
  BY <1>0, <1>4, <1>11
     DEF Store, PutSets, PutFails, PutEnds, Coupled, OriginStep, OriginServes,
         OriginRefuses, Break, ClientSendsBody
<1>. QED
  BY <1>5, <1>6, <1>7, <1>8, <1>9, <1>10, <1>11

\* The steps that write the entry of their connection.
LEMMA TimedInterceptRecords ==
  ASSUME TimedInv, NEW c \in Conn, TimedIntercept(c)
  PROVE  /\ stats' \in [Conn -> Entry]
         /\ timed => \A d \in Conn : Recorded(d)'
<1> USE DEF fetchVars, originVars
<1> DEFINE e == [stats[c] EXCEPT !.objectKey = ExtractObjectKey(request[c]),
                                 !.cacheMiss = callPc'[c] # "returned"]
<1>0. TypeOK /\ Coupled(c) /\ Traffic(c) /\ pc[c] = "serve" /\ stats[c] \in Entry
  BY DEF TimedInv, ProxyInv, Local, TimedIntercept, Intercept, StatsTypeOK
<1>1. ExtractObjectKey(request[c]) \in Key
  BY <1>0, RequestBlob DEF Coupled, ExtractObjectKey
<1>2. /\ e \in Entry
      /\ e.cacheMiss = (callPc'[c] # "returned")
      /\ e.failed = stats[c].failed /\ e.forwarded = stats[c].forwarded
  BY <1>0, <1>1 DEF Entry
<1>3. Record(c, e)
  BY DEF TimedIntercept
<1>4. /\ callPc[c] = "idle" /\ fetcher[c] = "off" /\ sent[c] = 0
      /\ pc' = [pc EXCEPT ![c] = "cache"] /\ UNCHANGED <<fetcher, sent>>
      /\ \E x \in {"returned", "initialize"} :
           callPc' = [callPc EXCEPT ![c] = x]
  BY <1>0 DEF TimedIntercept, Intercept, Get, Return, Coupled, Traffic, TypeOK
<1>. HIDE DEF e
<1>5. /\ stats' \in [Conn -> Entry]
      /\ timed => stats'[c] = e
      /\ \A d \in Conn \ {c} : stats'[d] = stats[d]
  BY <1>2, <1>3, RecordTyped DEF TimedInv
<1>6. ASSUME timed, NEW d \in Conn PROVE Recorded(d)'
  <2>1. DOMAIN pc = Conn /\ DOMAIN callPc = Conn
    BY <1>0 DEF TypeOK, CacheTypeOK
  <2>2. CASE d = c
    <3>1. /\ callPc'[c] \in {"returned", "initialize"} /\ pc'[c] = "cache"
          /\ stats'[c] = e /\ sent'[c] = 0 /\ fetcher'[c] = "off"
      BY <1>4, <1>5, <1>6, <2>1
    <3>2. e.failed => e.forwarded
      BY <1>2, <1>6 DEF TimedInv, Recorded
    <3>3. Accounted(e) \in Nat /\ callPc'[c] = "initialize" => e.cacheMiss
      BY <1>2, <3>1, AccountedType
    <3>4. 0 <= Accounted(e)
      BY <1>2, AccountedType
    <3>. QED
      BY <1>2, <2>2, <3>1, <3>2, <3>3, <3>4 DEF Recorded
  <2>3. CASE d # c
    BY <1>4, <1>5, <1>6, <2>1, <2>3 DEF TimedInv, Recorded
  <2>. QED
    BY <2>2, <2>3
<1>. QED
  BY <1>5, <1>6

\* The fallback to forward marks the entry before the request is sent.
LEMMA FallbackRecords ==
  ASSUME TimedInv, NEW c \in Conn, TimedGetFailed(c) \/ TimedRespondFails(c)
  PROVE  /\ stats' \in [Conn -> Entry]
         /\ timed => \A d \in Conn : Recorded(d)'
<1> USE DEF bigcache, fetchVars, originVars
<1>0. TypeOK /\ Coupled(c) /\ Traffic(c) /\ stats[c] \in Entry
  BY DEF TimedInv, ProxyInv, Local, StatsTypeOK
<1>1. /\ callPc[c] = "returned" /\ pc[c] = "cache"
      /\ pc' = [pc EXCEPT ![c] = "dial"] /\ UNCHANGED <<callPc, fetcher, sent>>
  BY DEF TimedGetFailed, TimedRespondFails, GetFailed, RespondFails,
         HasResponse, Returned
<1>2. PICK e \in Entry :
        /\ Record(c, e)
        /\ e.forwarded /\ e.cacheMiss = stats[c].cacheMiss
  <2>1. /\ [stats[c] EXCEPT !.forwarded = TRUE] \in Entry
        /\ [stats[c] EXCEPT !.forwarded = TRUE, !.failed = TRUE] \in Entry
    BY <1>0 DEF Entry
  <2>2. CASE TimedGetFailed(c)
    BY <1>0, <2>1, <2>2 DEF TimedGetFailed, Entry
  <2>3. CASE TimedRespondFails(c)
    BY <1>0, <2>1, <2>3 DEF TimedRespondFails, Entry
  <2>. QED
    BY <2>2, <2>3
<1>3. /\ stats' \in [Conn -> Entry]
      /\ timed => stats'[c] = e
      /\ \A d \in Conn \ {c} : stats'[d] = stats[d]
  BY <1>2, RecordTyped DEF TimedInv
<1>4. ASSUME timed, NEW d \in Conn PROVE Recorded(d)'
  <2>1. DOMAIN pc = Conn
    BY <1>0 DEF TypeOK
  <2>2. CASE d = c
    <3>1. /\ callPc'[c] = "returned" /\ pc'[c] = "dial" /\ stats'[c] = e
          /\ sent'[c] = sent[c] /\ fetcher'[c] = fetcher[c]
      BY <1>1, <1>3, <1>4, <2>1
    <3>2. fetcher[c] # "off" => e.cacheMiss
      BY <1>2, <1>4 DEF TimedInv, Recorded
    <3>3. sent[c] <= 1 /\ sent[c] \in Nat
      BY <1>0, <1>1 DEF Traffic, TypeOK
    <3>4. Accounted(e) \in Nat /\ Accounted(e) >= 1
      BY <1>2, AccountedType DEF Entry
    <3>5. sent[c] <= Accounted(e)
      BY <3>3, <3>4
    <3>. QED
      BY <1>2, <2>2, <3>1, <3>2, <3>5 DEF Recorded
  <2>3. CASE d # c
    BY <1>1, <1>3, <1>4, <2>1, <2>3 DEF TimedInv, Recorded
  <2>. QED
    BY <2>2, <2>3
<1>. QED
  BY <1>3, <1>4

-----------------------------------------------------------------------------
\* Every step of both handlers keeps the invariant.
LEMMA TimedStep == TimedInv /\ [TimedNext]_timedVars => TimedInv'
<1> SUFFICES ASSUME TimedInv, [TimedNext]_timedVars PROVE TimedInv'
  OBVIOUS
<1>0. ProxyInv' /\ timed \in BOOLEAN /\ stats \in [Conn -> Entry]
  BY TimedProxyStep DEF TimedInv, StatsTypeOK
<1>1. ASSUME UNCHANGED <<timed, stats>>,
             timed => \A d \in Conn : Recorded(d)'
      PROVE  TimedInv'
  BY <1>0, <1>1 DEF TimedInv, StatsTypeOK
<1>2. ASSUME NEW c \in Conn, TimedServeStep(c) PROVE TimedInv'
  <2>1. CASE TimedReadFails(c) \/ Unrecorded(c)
    BY <1>1, <1>2, <2>1, UnrecordedKeeps
       DEF TimedServeStep, TimedReadFails, Unrecorded
  <2>2. CASE TimedIntercept(c)
    BY <1>0, <1>2, <2>2, TimedInterceptRecords
       DEF TimedServeStep, TimedInv, StatsTypeOK
  <2>3. CASE TimedGetFailed(c) \/ TimedRespondFails(c)
    BY <1>0, <1>2, <2>3, FallbackRecords
       DEF TimedServeStep, TimedInv, StatsTypeOK
  <2>. QED
    BY <1>2, <2>1, <2>2, <2>3 DEF TimedServeStep
<1>3. ASSUME NEW c \in Conn, TimedFetcherStep(c) PROVE TimedInv'
  BY <1>1, <1>3, UnrecordedKeeps DEF TimedFetcherStep
<1>4. CASE Unmeasured
  <2>1. UNCHANGED <<timed, stats>>
    BY <1>4 DEF Unmeasured
  <2>2. CASE \E c \in Conn :
               \/ \E req \in Request : ReadRequest(c, req)
               \/ Store(c) \/ OriginStep(c) \/ ClientSendsBody(c)
    BY <1>1, <2>1, <2>2, UnrecordedKeeps
  <2>3. CASE \E k \in Key : Forget(k)
    <3>1. UNCHANGED <<callPc, fetcher, pc, sent, stats>>
      BY <2>1, <2>3
         DEF Forget, Expire, proxyVars, handlerVars, fetchVars, originVars
    <3>2. timed => \A d \in Conn : Recorded(d)'
      BY <3>1 DEF TimedInv, Recorded
    <3>. QED
      BY <1>1, <2>1, <3>2
  <2>. QED
    BY <1>4, <2>2, <2>3 DEF Unmeasured
<1>5. CASE UNCHANGED timedVars
  <2>1. UNCHANGED <<timed, stats, callPc, fetcher, pc, sent>>
    BY <1>5 DEF timedVars, vars, bigcache, proxyVars, handlerVars, fetchVars,
                originVars
  <2>2. timed => \A d \in Conn : Recorded(d)'
    BY <2>1 DEF TimedInv, Recorded
  <2>. QED
    BY <1>1, <2>1, <2>2
<1>. QED
  BY <1>2, <1>3, <1>4, <1>5 DEF TimedNext

\* The invariant holds before the first request.
LEMMA TimedInitInv == TimedInit => TimedInv
<1> SUFFICES ASSUME TimedInit PROVE TimedInv
  OBVIOUS
<1>1. ProxyInv
  BY ProxyInit DEF TimedInit
<1>2. NewEntry \in Entry /\ Accounted(NewEntry) = 1
  BY DEF NewEntry, Entry, Accounted
<1>3. StatsTypeOK
  BY <1>2 DEF TimedInit, StatsTypeOK
<1>4. \A c \in Conn : Recorded(c)
  <2> TAKE c \in Conn
  <2>1. /\ callPc[c] = "idle" /\ fetcher[c] = "off"
        /\ pc[c] = "read" /\ sent[c] = 0
    BY DEF TimedInit, Init, CacheInit
  <2>2. stats[c] = NewEntry
    BY DEF TimedInit
  <2>3. NewEntry.objectKey = NoKey /\ ~NewEntry.failed
    BY DEF NewEntry
  <2>. QED
    BY <1>2, <2>1, <2>2, <2>3 DEF Recorded
<1>. QED
  BY <1>1, <1>3, <1>4 DEF TimedInv

-----------------------------------------------------------------------------
(* Theorems.                                                               *)

\* The invariant holds in every state of both handlers.
THEOREM TimedInvariance == TimedSpec => []TimedInv
  BY TimedInitInv, TimedStep, PTL DEF TimedSpec

\* The entries of the statistics are well formed.
THEOREM StatsTypeCorrect == TimedSpec => []StatsTypeOK
  <1>1. TimedInv => StatsTypeOK
    BY DEF TimedInv
  <1>. QED
    BY <1>1, TimedInvariance, PTL

\* The statistics never hide traffic to the origin, for any number of
\* connections and any origin (handleHttpTimed).
THEOREM StatsHideNothing == TimedSpec => []TrafficAccounted
  <1>1. TimedInv => TrafficAccounted
    BY DEF TimedInv, Recorded, TrafficAccounted
  <1>. QED
    BY <1>1, TimedInvariance, PTL

\* The timed handler, too, serves from the cache only what the origin has
\* had, whole, under a target with the key of the request, whichever targets
\* share a key (handleHttpTimed, retrieveObjectFromRemoteTimed).
THEOREM TimedServesGenuine == TimedSpec => []ServedIsGenuine
  <1>1. TimedInv => ServedIsGenuine
    BY InvServesGenuine DEF TimedInv
  <1>. QED
    BY <1>1, TimedInvariance, PTL

\* With the timed handlers, too, the cache is a Cache.
THEOREM TimedCacheIsACache == TimedSpec => ImplementsCache
  <1>1. TimedInit => CacheInit
    BY DEF TimedInit, Init
  <1>2. TimedInv /\ [TimedNext]_timedVars => [CacheNext]_cacheVars
    <2> SUFFICES ASSUME TimedInv, [TimedNext]_timedVars
                 PROVE  [CacheNext]_cacheVars
      OBVIOUS
    <2>1. CASE [Next]_vars
      BY <2>1, ProxyCallsCache DEF TimedInv
    <2>2. ASSUME NEW c \in Conn, TimedReadFails(c) PROVE UNCHANGED cacheVars
      BY <2>2 DEF TimedReadFails, bigcache, cacheVars
    <2>. QED
      BY <2>1, <2>2, TimedIsPlain DEF timedVars
  <1>. QED
    BY <1>1, <1>2, TimedInvariance, CacheSpecImplements, PTL
       DEF TimedSpec, CacheSpec

=============================================================================
