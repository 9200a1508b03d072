---------------------------- MODULE CachingProxy ----------------------------
(***************************************************************************)
(* HttpCachingProxy of proxy/httpCachingProxy.go with the adapter for      *)
(* MinIO and the cache of BigcacheWrapper: what a worker does with one     *)
(* connection, from reading its request to closing it.  The origin (the    *)
(* object storage server), its replies and the clients are the             *)
(* environment.                                                            *)
(*                                                                         *)
(* A blob is an object at the origin.  Its content is the pair of the blob *)
(* and its version, so that a body says where it came from, or EmptyData   *)
(* for the versions without bytes.  A "put" stands for every request that  *)
(* changes the origin and has a body, a "get" for every read.              *)
(***************************************************************************)
EXTENDS Naturals, Sequences

CONSTANTS
  Conn,          \* connections, one request each: the handler closes them
  Reader, Writer,  \* those whose client may send a get, and a put
  Host,          \* Host headers that contain the adapter's host
  Target,        \* request targets: a path, some of it escaped, and a query
  Uncached,      \* those that name no object or ask for a location
  MaxVersion,    \* bound on the versions of a blob
  EmptyVersion,  \* versions of blobs that have no bytes
  EmptyData, NilData, NoKey, NoObj, Absent,  \* see BigcacheWrapper
  CutData        \* a body that ended too early

Blob == Host \X Target
Version == 0..MaxVersion
Content == (Blob \X Version) \cup {EmptyData, CutData}

ASSUME ContentAssumption ==
  /\ MaxVersion \in Nat
  /\ EmptyVersion \subseteq Blob \X Version
  /\ Target \subseteq [path : Seq([char : STRING, escaped : BOOLEAN]),
                        query : Seq(STRING)]
  /\ Uncached \subseteq Target
  /\ Reader \cup Writer = Conn

\* The key under which the adapter files a target: url.Parse has undone the
\* escapes of the path, and the query is appended to it as it came.  A
\* client of an object storage server sends the origin form, in which the
\* host is not part of the URL.
Unescape(path) == [i \in DOMAIN path |-> path[i].char]
KeyOf(target) == Unescape(target.path) \o <<"?">> \o target.query
Key == {KeyOf(target) : target \in Target}

\* Absent values are not values.
ASSUME CacheAssumption ==
  /\ {NilData, Absent} \cap Content = {}
  /\ NoKey \notin Key
  /\ NoObj \notin [key : Key, data : Content \cup {NilData}]
  /\ Absent \notin [key : Key, data : Content \cup {Absent}]

VARIABLES
  store, callPc, callKey, initializer, result, putting, made,  \* the cache
  alive,     \* no panic has ended the process
  pc,        \* where each handler is
  request,   \* the request it has read
  client,    \* is it still sending a body, or has the handler lost it?
  answer,    \* the responses written to the client
  fetcher,   \* where the goroutine of retrieveObjectFromRemote is
  fetched,   \* what it sends on errChan and objChan
  wire,      \* the connection to the origin
  sent,      \* number of requests sent to the origin
  version,   \* the origin's version of each blob
  floor      \* auxiliary: the blob's version when the request was read

INSTANCE BigcacheWrapper WITH Caller <- Conn, Data <- Content

bigcache == <<store, callPc, callKey, initializer, result, putting, made>>
handlerVars == <<pc, request, answer, floor>>
fetchVars == <<fetcher, fetched>>
originVars == <<wire, sent, version>>
proxyVars == <<alive, client, handlerVars, fetchVars, originVars>>
vars == <<bigcache, proxyVars>>

Request == [method : {"get", "put"}, blob : Blob]
NoRequest == [method |-> "none", blob |-> <<>>]
Wire == [status : {"none", "sent", "partial", "broken", "200", "error"},
         data : Content]
Idle == [status |-> "none", data |-> EmptyData]
Sent == [status |-> "sent", data |-> EmptyData]
Partial == [status |-> "partial", data |-> EmptyData]
Broken == [status |-> "broken", data |-> EmptyData]
IsReply(r) == r.status \in {"200", "error"}
Answer == [status : {"200", "cut", "error", "503", "400"}, data : Content,
           via : {"cache", "origin"}]
Failed == [err |-> TRUE, data |-> CutData]

TypeOK ==
  /\ CacheTypeOK
  /\ alive \in BOOLEAN
  /\ pc \in [Conn -> {"read", "serve", "cache", "dial", "await", "closed"}]
  /\ request \in [Conn -> Request \cup {NoRequest}]
  /\ client \in [Conn -> {"waiting", "sending", "left"}]
  /\ answer \in [Conn -> Seq(Answer)]
  /\ fetcher \in [Conn -> {"off", "dial", "await", "report", "deliver",
                             "closing", "ended"}]
  /\ fetched \in [Conn -> [err : BOOLEAN, data : Content]]
  /\ wire \in [Conn -> Wire]
  /\ sent \in [Conn -> Nat]
  /\ version \in [Blob -> Version]
  /\ floor \in [Conn -> Version]

Init ==
  /\ CacheInit
  /\ alive = TRUE
  /\ pc = [c \in Conn |-> "read"]
  /\ request = [c \in Conn |-> NoRequest]
  /\ client = [c \in Conn |-> "waiting"]
  /\ answer = [c \in Conn |-> <<>>]
  /\ fetcher = [c \in Conn |-> "off"]
  /\ fetched = [c \in Conn |-> Failed]
  /\ wire = [c \in Conn |-> Idle]
  /\ sent = [c \in Conn |-> 0]
  /\ version = [b \in Blob |-> 0]
  /\ floor = [c \in Conn |-> 0]

Body(b, v) == IF <<b, v>> \in EmptyVersion THEN EmptyData ELSE <<b, v>>

-----------------------------------------------------------------------------
(* The adapter.                                                            *)

\* Fault: the path is not part of the key.
ExtractObjectKeyWithoutPath(req) == CHOOSE k \in Key : TRUE

ExtractObjectKey(req) == KeyOf(req.blob[2])

\* Fault: the method is not looked at.
ShouldInterceptAny(req) == req.blob[2] \notin Uncached

ShouldIntercept(req) == req.method = "get" /\ req.blob[2] \notin Uncached

-----------------------------------------------------------------------------
(* handleHttpInternal.                                                     *)

\* ReadRequest returns when it has the headers; a body is still on its way.
ReadRequest(c, req) ==
  /\ pc[c] = "read"
  /\ c \in IF req.method = "put" THEN Writer ELSE Reader
  /\ pc' = [pc EXCEPT ![c] = "serve"]
  /\ request' = [request EXCEPT ![c] = req]
  /\ floor' = [floor EXCEPT ![c] = version[req.blob]]
  /\ client' = [client EXCEPT ![c] =
       IF req.method = "put" THEN "sending" ELSE "waiting"]
  /\ UNCHANGED <<alive, answer, fetchVars, originVars, bigcache>>

\* The client has left, or what it sent is no HTTP request.
ReadFails(c) ==
  /\ pc[c] = "read"
  /\ pc' = [pc EXCEPT ![c] = "closed"]
  /\ UNCHANGED <<alive, client, request, answer, floor, fetchVars, originVars,
                 bigcache>>

PassThrough(c) ==
  /\ pc[c] = "serve"
  /\ ~ ShouldIntercept(request[c])
  /\ pc' = [pc EXCEPT ![c] = "dial"]
  /\ UNCHANGED <<alive, client, request, answer, floor, fetchVars, originVars,
                 bigcache>>

Intercept(c) ==
  /\ pc[c] = "serve"
  /\ ShouldIntercept(request[c])
  /\ pc' = [pc EXCEPT ![c] = "cache"]
  /\ Get(c, ExtractObjectKey(request[c]), TRUE)
  /\ UNCHANGED <<alive, client, request, answer, floor, fetchVars, originVars>>

\* The second lookup; a miss runs the initializer, which starts the fetcher.
Initialize(c) ==
  /\ DoubleCheck(c)
  /\ fetcher' = IF callPc'[c] = "initializer"
                THEN [fetcher EXCEPT ![c] = "dial"] ELSE fetcher
  /\ UNCHANGED <<alive, client, handlerVars, fetched, originVars>>

Returned(c) == pc[c] = "cache" /\ callPc[c] = "returned"

GetFailed(c) ==
  /\ Returned(c)
  /\ result[c].err # "nil"
  /\ pc' = [pc EXCEPT ![c] = "dial"]
  /\ UNCHANGED <<alive, client, request, answer, floor, fetchVars, originVars,
                 bigcache>>

\* CreateLocalResponse dereferences object.Data; no handler recovers.
Panic(c) ==
  /\ Returned(c)
  /\ result[c].err = "nil"
  /\ result[c].obj.data = NilData
  /\ alive' = FALSE
  /\ UNCHANGED <<client, handlerVars, fetchVars, originVars, bigcache>>

HasResponse(c) ==
  Returned(c) /\ result[c].err = "nil" /\ result[c].obj.data # NilData

\* Fault: no return after a local response.
RespondAndForward(c) ==
  /\ HasResponse(c)
  /\ answer' = [answer EXCEPT ![c] =
       Append(@, [status |-> "200", data |-> result[c].obj.data,
                  via |-> "cache"])]
  /\ pc' = [pc EXCEPT ![c] = "dial"]
  /\ UNCHANGED <<alive, client, request, floor, fetchVars, originVars,
                 bigcache>>

Respond(c) ==
  /\ HasResponse(c)
  /\ answer' = [answer EXCEPT ![c] =
       Append(@, [status |-> "200", data |-> result[c].obj.data,
                  via |-> "cache"])]
  /\ pc' = [pc EXCEPT ![c] = "closed"]
  /\ UNCHANGED <<alive, client, request, floor, fetchVars, originVars,
                 bigcache>>

\* The client has left, and the write fails, at once or after a part of the
\* response is out; forward then writes another one.
RespondFails(c) ==
  /\ HasResponse(c)
  /\ client' = [client EXCEPT ![c] = "left"]
  /\ \/ UNCHANGED answer
     \/ answer' = [answer EXCEPT ![c] =
          Append(@, [status |-> "cut", data |-> result[c].obj.data,
                     via |-> "cache"])]
  /\ pc' = [pc EXCEPT ![c] = "dial"]
  /\ UNCHANGED <<alive, request, floor, fetchVars, originVars,
                 bigcache>>

-----------------------------------------------------------------------------
(* The goroutine of retrieveObjectFromRemote.  errChan and objChan are not *)
(* buffered: a send and its receive are one step of both goroutines.       *)

FetchSend(c) ==
  /\ fetcher[c] = "dial"
  /\ fetcher' = [fetcher EXCEPT ![c] = "await"]
  /\ wire' = [wire EXCEPT ![c] = Sent]
  /\ sent' = [sent EXCEPT ![c] = @ + 1]
  /\ UNCHANGED <<alive, client, handlerVars, fetched, version, bigcache>>

\* Fault: the goroutine returns without a word.
FetchSendFailsSilently(c) ==
  /\ fetcher[c] = "dial"
  /\ fetcher' = [fetcher EXCEPT ![c] = "ended"]
  /\ UNCHANGED <<alive, client, handlerVars, fetched, originVars, bigcache>>

FetchSendFails(c) ==
  /\ fetcher[c] = "dial"
  /\ fetcher' = [fetcher EXCEPT ![c] = "report"]
  /\ fetched' = [fetched EXCEPT ![c] = Failed]
  /\ UNCHANGED <<alive, client, handlerVars, originVars, bigcache>>

\* Fault: the error of reading the body is ignored.
OutcomePartial(r) ==
  IF r.status = "200"
  THEN [err |-> FALSE, data |-> r.data]
  ELSE Failed

\* Only a complete body with status 200 becomes an object.
Outcome(r) ==
  IF r.status = "200" /\ r.data # CutData
  THEN [err |-> FALSE, data |-> r.data]
  ELSE Failed

\* The reply is read; the connection stays open until the goroutine ends.
FetchReads(c) ==
  /\ fetcher[c] = "await"
  /\ wire[c] = Broken \/ IsReply(wire[c])
  /\ fetcher' = [fetcher EXCEPT ![c] = "report"]
  /\ fetched' = [fetched EXCEPT ![c] = Outcome(wire[c])]
  /\ wire' = [wire EXCEPT ![c] = Idle]
  /\ UNCHANGED <<alive, client, handlerVars, sent, version, bigcache>>

\* Fault: no return after the error was sent.
ReportErrorAndDeliver(c) ==
  /\ fetcher[c] = "report"
  /\ fetched[c].err
  /\ fetcher' = [fetcher EXCEPT ![c] = "deliver"]
  /\ InitializerFails(c)
  /\ UNCHANGED <<alive, client, handlerVars, fetched, originVars>>

ReportError(c) ==
  /\ fetcher[c] = "report"
  /\ fetched[c].err
  /\ fetcher' = [fetcher EXCEPT ![c] = "closing"]
  /\ InitializerFails(c)
  /\ UNCHANGED <<alive, client, handlerVars, fetched, originVars>>

ReportNil(c) ==
  /\ fetcher[c] = "report"
  /\ ~ fetched[c].err
  /\ fetcher' = [fetcher EXCEPT ![c] = "deliver"]
  /\ UNCHANGED <<alive, client, handlerVars, fetched, originVars, bigcache>>

\* Fault: an entry that appeared meanwhile takes the place of the object.
DeliverEntry(c) ==
  LET k == callKey[c]
      fresh == ~ Found(k) \/ get(k).data = NilData
  IN /\ fetcher[c] = "deliver"
     /\ fetcher' = [fetcher EXCEPT ![c] = "closing"]
     /\ InitializerReturns(c,
          [key |-> k, data |-> IF fresh THEN fetched[c].data ELSE get(k).data])
     /\ UNCHANGED <<alive, client, handlerVars, fetched, originVars>>

Deliver(c) ==
  /\ fetcher[c] = "deliver"
  /\ fetcher' = [fetcher EXCEPT ![c] = "closing"]
  /\ InitializerReturns(c, [key |-> callKey[c], data |-> fetched[c].data])
  /\ UNCHANGED <<alive, client, handlerVars, fetched, originVars>>

\* The deferred Close.  The handler does not wait for it.
FetcherCloses(c) ==
  /\ fetcher[c] = "closing"
  /\ fetcher' = [fetcher EXCEPT ![c] = "ended"]
  /\ UNCHANGED <<alive, client, handlerVars, fetched, originVars, bigcache>>

-----------------------------------------------------------------------------
(* forward.                                                                *)

Close(c, reply) ==
  /\ answer' = [answer EXCEPT ![c] = Append(@, reply)]
  /\ pc' = [pc EXCEPT ![c] = "closed"]
  /\ wire' = [wire EXCEPT ![c] = Idle]

ServiceUnavailable ==
  [status |-> "503", data |-> EmptyData, via |-> "origin"]

ForwardDialFails(c) ==
  /\ pc[c] = "dial"
  /\ Close(c, ServiceUnavailable)
  /\ UNCHANGED <<alive, client, request, floor, fetchVars, sent, version, bigcache>>

\* req.Write copies the body from the client and returns when it has all of
\* it, when the client ends too early or when the origin takes no more.  Its
\* error is ignored: whatever has reached the origin, a response is awaited.
ForwardSend(c) ==
  /\ pc[c] = "dial"
  /\ pc' = [pc EXCEPT ![c] = "await"]
  /\ \/ /\ client[c] # "sending"
        /\ wire' = [wire EXCEPT ![c] = Sent]
        /\ sent' = [sent EXCEPT ![c] = @ + 1]
     \/ /\ request[c].method = "put"
        /\ wire' = [wire EXCEPT ![c] = Partial]
        /\ sent' = [sent EXCEPT ![c] = @ + 1]
     \/ /\ wire' = [wire EXCEPT ![c] = Broken]
        /\ UNCHANGED sent
  /\ UNCHANGED <<alive, client, request, answer, floor, fetchVars, version, bigcache>>

ForwardReadFails(c) ==
  /\ pc[c] = "await"
  /\ wire[c] = Broken
  /\ Close(c, ServiceUnavailable)
  /\ UNCHANGED <<alive, client, request, floor, fetchVars, sent, version, bigcache>>

\* res.Write copies what there is of the body.
Relay(c) ==
  /\ pc[c] = "await"
  /\ IsReply(wire[c])
  /\ Close(c, [status |-> wire[c].status, data |-> wire[c].data,
               via |-> "origin"])
  /\ UNCHANGED <<alive, client, request, floor, fetchVars, sent, version,
                 bigcache>>

-----------------------------------------------------------------------------
(* The environment: the origin and the clients.                            *)

OriginServes(c) ==
  /\ wire[c] = Sent
  /\ LET b == request[c].blob
         v == IF request[c].method = "put" THEN version[b] + 1 ELSE version[b]
     IN /\ v \in Version
        /\ version' = [version EXCEPT ![b] = v]
        /\ wire' = [wire EXCEPT ![c] =
             [status |-> "200",
              data |-> IF request[c].method = "put" THEN EmptyData
                       ELSE Body(b, v)]]
  /\ UNCHANGED <<alive, client, handlerVars, fetchVars, sent, bigcache>>

\* All that the origin can do with a part of a request.
OriginRefuses(c) ==
  /\ wire[c] \in {Sent, Partial}
  /\ wire' = [wire EXCEPT ![c] = [status |-> "error", data |-> EmptyData]]
  /\ UNCHANGED <<alive, client, handlerVars, fetchVars, sent, version, bigcache>>

\* The connection breaks: before the reply's headers, or in its body.
Break(c) ==
  /\ \/ /\ wire[c] \in {Sent, Partial} \/ IsReply(wire[c])
        /\ wire' = [wire EXCEPT ![c] = Broken]
     \/ /\ IsReply(wire[c]) /\ wire[c].data # EmptyData
        /\ wire' = [wire EXCEPT ![c].data = CutData]
  /\ UNCHANGED <<alive, client, handlerVars, fetchVars, sent, version, bigcache>>

\* req.Write has read the last of the body.
ClientSendsBody(c) ==
  /\ pc[c] = "dial"
  /\ client[c] = "sending"
  /\ client' = [client EXCEPT ![c] = "waiting"]
  /\ UNCHANGED <<alive, handlerVars, fetchVars, originVars, bigcache>>

-----------------------------------------------------------------------------
Store(c) == (PutSets(c) \/ PutFails(c)) /\ UNCHANGED proxyVars
Forget(k) == Expire(k) /\ UNCHANGED proxyVars

ServeStep(c) ==
  \/ ReadFails(c) \/ PassThrough(c) \/ Intercept(c) \/ Initialize(c)
  \/ GetFailed(c) \/ Panic(c) \/ Respond(c) \/ RespondFails(c)
  \/ ForwardDialFails(c) \/ ForwardSend(c) \/ ForwardReadFails(c) \/ Relay(c)

FetcherStep(c) ==
  \/ FetchSend(c) \/ FetchSendFails(c) \/ FetchReads(c)
  \/ ReportError(c) \/ ReportNil(c) \/ Deliver(c) \/ FetcherCloses(c)

OriginStep(c) == OriginServes(c) \/ OriginRefuses(c) \/ Break(c)

Next ==
  /\ alive
  /\ \/ \E c \in Conn :
          \/ \E req \in Request : ReadRequest(c, req)
          \/ ServeStep(c) \/ FetcherStep(c) \/ Store(c)
          \/ OriginStep(c) \/ ClientSendsBody(c)
     \/ \E k \in Key : Forget(k)

Spec == Init /\ [][Next]_vars

-----------------------------------------------------------------------------
(* Properties.                                                             *)

\* Contents the origin has had under a target with the key of a request.
\* The key leaves out the host, and two targets share one when the escapes
\* hide where the path ends: "/b/a%3Fx" and "/b/a?x?".
HasBeen(c, data) ==
  \E b \in Blob :
    /\ KeyOf(b[2]) = KeyOf(request[c].blob[2])
    /\ \E v \in 0..version[b] : data = Body(b, v)

\* A response made from an object of the cache carries the content of a
\* version the origin has had under the key that was asked for, that of the
\* very blob if no other has its key: no error page, no truncated body and
\* no content of another key is ever cached or handed on, whatever the
\* origin, the two channels, the detached put and the expiry of entries do
\* in between (retrieveObjectFromRemote, initialize, put).
ServedIsGenuine ==
  \A c \in Conn : \A i \in DOMAIN answer[c] :
    answer[c][i].via = "cache" => HasBeen(c, answer[c][i].data)

\* The handler writes one response, by the time it closes a connection it
\* has read a request from, on every way through the cache, the fetcher and
\* the fallback to forward.  Only a client that has left can be sent two,
\* and then the first was cut short.
OneAnswer ==
  \A c \in Conn :
    /\ client[c] # "left" => Len(answer[c]) <= 1
    /\ Len(answer[c]) <= 2
    /\ Len(answer[c]) = 2 =>
         answer[c][1].status = "cut" /\ answer[c][2].status # "cut"
    /\ pc[c] = "closed" /\ request[c] # NoRequest => answer[c] # <<>>

\* A request that changes the origin reaches it at most once; a get at most
\* twice, from the fetcher and from the fallback.
SentOnce ==
  \A c \in Conn :
    sent[c] <= IF request[c].method = "get" THEN 2 ELSE 1

\* When a handler has closed its connection its fetcher has nothing more to
\* send and waits for nobody: neither channel of retrieveObjectFromRemote
\* ever keeps a goroutine and its connection to the origin.
NothingLeft ==
  \A c \in Conn :
    pc[c] = "closed" => fetcher[c] \in {"off", "closing", "ended"}

\* Answers that did not come out of an entry of the cache: forwarded ones,
\* and those made of the object the handler's own fetcher delivered.
Fetched(c, a) ==
  \/ a.via = "origin"
  \/ fetcher[c] \in {"closing", "ended"} /\ ~ fetched[c].err

\* Only an entry that the lookup found can be out of date: an answer that
\* was forwarded, or made from the handler's own fetch, shows a version the
\* origin had between the arrival of the request and the answer, however
\* many older objects other handlers put into the cache meanwhile
\* (retrieveObjectFromRemote returns its own object, never the entry).
FreshUnlessHit ==
  \A c \in Conn : \A i \in DOMAIN answer[c] :
    LET a == answer[c][i]
        b == request[c].blob
        served == request[c].method = "get" /\ a.status = "200"
    IN served /\ a.data # CutData /\ Fetched(c, a) =>
         \E v \in floor[c]..version[b] : a.data = Body(b, v)

-----------------------------------------------------------------------------
(* What comments, tests and the README of the repository say, and the code *)
(* does not always do.                                                     *)

\* "Cache hit - Serve from cache": an object found in the cache can be made
\* into a response (handleHttpInternal, CreateLocalResponse).
HitIsServable ==
  \A c \in Conn :
    Returned(c) /\ result[c].err = "nil" => result[c].obj.data # NilData

=============================================================================
