# Verification of the transparent object-storage cache

The program intercepts TCP connections to object storage servers (port 9000)
with eBPF, sends them to a proxy on the same machine, and answers reads from an
in-memory cache. This directory holds TLA+ models of its core, the TLC runs that
check them on small instances, and TLAPS proofs, for instances of any size, of
every safety property that holds in a run.

## 1. Inventory

| Component | State it keeps | Operations | Where |
|---|---|---|---|
| eBPF hooks and maps | `map_config` (one element), `map_socks` (cookie → original destination), `map_ports` (client port → cookie), both with at most `MAX_CONNECTIONS` elements | `cg_connect4`, `cg_sock_ops`, `cg_sock_opt` | `proxy.c` |
| boot | attached links, listener, published configuration | `run`, exit through `log.Fatalf`, a panic or the signal handler | `main.go` |
| original-destination query | the answer for one accepted connection | `getOriginalTargetFromConn` | `main.go` |
| accept loop, worker pool, counter | `jobQueue`, `done`, `ConnectionCounter` | accept, enqueue, take, report, count down | `main.go` |
| BigcacheWrapper | the serialized entries of bigcache; goroutines in `put` | `Get`, `GetTimed`, `Put`, `initialize`, `put` | `cache/bigcacheWrapper.go` |
| HttpCachingProxy | per connection: request, response, fetching goroutine with `errChan` and `objChan`, connection to the origin | `handleHttpInternal`, `retrieveObjectFromRemote`, `forward` | `proxy/httpCachingProxy.go` |
| MinIO adapter | none | `ShouldIntercept`, `ExtractObjectKey`, `CreateLocalResponse` | `objectStorage/` |
| HttpCachingTimedProxy | as above, without the fetching goroutine, and a statistics entry per connection | as above, with measurements | `proxy/httpCachingTimedProxy.go` |
| MemcachedClient | entries in a memcached server | `Get`, `GetTimed`, `Put`, `Delete`, `Flush`, `initialize`, `set` | `cache/memcachedClient.go` |
| bypass tunnel | two copying goroutines that meet on `ready`, two connections | `forwardConnection` | `main.go` |
| byte-order macros | none | `ntohs`, `htons`, `ntohl`, `htonl` | `bpf-utils.h` |
| DummyPrinterCache, FakePasstroughCache, dummy adapter | none | left over from earlier interfaces | `cache/`, `objectStorage/` |
| HttpPrintingProxy | parsing goroutine and channels | `handleHttpConn` | `proxy/httpPrintingProxy.go` |
| signal handler, statistics | collected statistics | write files, exit | `main.go` |

How they interact. A client's `connect()` runs `cg_connect4`, which stores the
destination under the socket's cookie and rewrites it to the proxy. When the
handshake completes, `cg_sock_ops` stores the cookie under the client's port.
The accept loop queues the connection; a worker takes it and asks with
`getsockopt(SO_ORIGINAL_DST)`, which `cg_sock_opt` answers by following port,
cookie and destination and deleting both elements. The worker then reads one
HTTP request. A read that the adapter accepts goes through the cache, whose miss
runs the proxy's fetch as initializer; everything else, and every failure, is
forwarded to the origin. The proxy's own connections go through the same hooks
and must not be redirected. With `--bypass` the worker joins the two connections
instead of reading a request.

What is hard here: the hooks of different sockets, the queries of workers and
the loader run concurrently on shared maps; a port is used as an identity; maps
and channels have limits and errors of updates are dropped; the process may exit
and restart under live connections; lookups, fetches and stores of the cache are
separate steps of different goroutines; handler and fetcher meet on unbuffered
channels; the origin may refuse, break off in the middle of a body or change the
object; clients may leave at any moment; addresses and ports cross byte orders,
field widths and two languages; a cache server may restart, evict and lose
replies. `PROJECT.json` lists these hazards line
by line with the properties that cover them.

What makes each part correct:

- hooks and query: an answer is the client's own destination or nothing; a
  recorded connection stays resolvable; queries clean up; no proxy loop;
- pool: each connection is handled and counted once; the counter is exact; the
  pool keeps going when some handlers never return;
- bytes: what the client asked for is what the worker dials;
- tunnel: a tunnel that ends without an error forwarded everything; the two
  goroutines do not wait for each other for ever;
- cache: what comes out went in, under that key, and each call is answered once;
- proxy: answers are genuine and complete, one per request; changes are sent once;
  only a hit can be out of date; no fetching goroutine is left waiting; every
  request of a client that goes on ends, whatever other clients do; the
  statistics account for the traffic.

## 2. Modules

`Redirector` models `proxy.c` with the boot sequence of `run` and the query. A
socket stands for its cookie and connects once. `Connect` is `connect()` with
`cg_connect4`; `Establish` is the handshake with `cg_sock_ops`. The query has
five steps, one for each access of `cg_sock_opt` to a map: `LookupPort` (line
160), `LookupSock` (165), `Answer` (169-178), `DeletePort` (183), `DeleteSock`
(184), and `NoOriginalTarget` where a lookup finds nothing. They are separate
because the two lookups return pointers into the maps that the hook goes on
reading without a lock: `cookieAt` and `sockAt` are what these pointers see, and
other hooks may have deleted and refilled the element by then.
`AttachConnect4` ... `UpdateConfig` are the stages of `run`; `Exit` is every way
out (a hook that fails to attach leads to a panic through the deferred `Close`
of a nil link); `Restart` starts over with new maps. Port allocation, handshake,
refusal and close are the kernel's and modelled from what the hooks see. An
endpoint is one value; its bytes are the subject of `ByteOrder`. Two constants
switch on behaviour that the code does not exclude: `EarlyClose` (a client closes
before its worker has asked, and the kernel may give its port to another) and
`SlotReuse` (an element of `map_ports` or `map_socks` that was freed is refilled,
by `Connect` or `Establish`, while a query still points to it: `RefillSocks`,
`RefillPorts`). `misled` is auxiliary: it marks the queries one of whose pointers
led to a refilled element.

`OriginalDst` is the abstract specification of what a worker is promised: a
connection that reaches the proxy is answered once, with its own destination or,
if that was not recorded, with none, and only the end of the process takes a
connection away. `Redirector` implements it (`ImplementsOriginalDst`); the
mapping reads `orig`, `known`, `srv` and `target` and hides both maps, the stages
of `run` and the steps of the query. Where a port does not identify a connection
(`Exact` false) it promises only that an answer is some client's destination.

`ByteOrder` follows the bytes of one connection through the same three hooks and
the decoding in `getOriginalTargetFromConn`. A number in a register is the tuple
of its bytes, so widths, swaps, shifts and truncations are those of the code;
`build` chooses which of the two sets of macros in `bpf-utils.h` is compiled in.

`WorkerPool` models the accept loop, the workers and the per-connection counting
goroutines, one action per channel operation or critical section. `Stalled` is a
set of connections whose handler never returns, since no deadline is set
anywhere. The timed and the untimed loop differ only in what a report carries.

`BypassTunnel` models `forwardConnection`: dialling, the worker's and the second
goroutine's `io.Copy` as alternating reads and writes of chunks, the unbuffered
channel `ready`, and the deferred closes. The peers may shut down their half,
close or reset at any time.

`ObjectCache` is the abstract specification of the interface `Cache`: a `Get` is
answered once, with an object somebody has offered for its key (up to the loss of
an empty body), or fails. `BigcacheWrapper` and `MemcachedClient` implement it
(`ImplementsCache` in both).

`BigcacheWrapper` models the cache. `Get`, `DoubleCheck`, the initializer's
return, and the store by a detached goroutine are separate actions. Between the
second lookup (`bigcacheWrapper.go:109`) and the call of the initializer (112)
there is no lock: the state "initializer" covers both sides of the call, so an
initializer may well start when the entry has appeared. The gob
round trip is modelled by what it does: a pointer to an empty byte slice is not
sent and comes back nil. bigcache itself is external: an entry may fail to be
set and may disappear at any time.

`MemcachedClient` models the other cache. It stores before it returns, rejects
short keys in `get` and `Delete` but not in `set`, and talks to a server that may
be unreachable, come back with or without its entries, evict, refuse, or carry
out a set whose reply is lost. `GetTimed` takes the steps of `Get`. Initializers
return an object with the key they were asked for, as those of the proxies do.

`CachingProxy` composes one handler per connection, with its fetching goroutine,
with `BigcacheWrapper` (through `INSTANCE`; `Intercept`, `Initialize`,
`ReportError` and `Deliver` conjoin handler steps with the cache's actions). A
send on an unbuffered channel and its receive are one step; the fetcher then
still has its deferred `Close` ahead of it ("closing", `FetcherCloses`), while the
handler goes on. The origin and the clients are the environment: the origin
serves, refuses, changes objects, and breaks connections before the headers or
within the body. A content is a pair of object and version, so that a body says
where it comes from. "get" stands for reads, "put" for requests that change the
origin and have a body. `ReadRequest` returns with the headers; `forward` reads
the body from the client while it sends, so that the origin gets the whole of it
(`ClientSendsBody`, then `Sent`) or a part (`Partial`, which it can only refuse).
A response to a client that has left may fail with a part of it written
(`RespondFails`, status "cut"); `forward` then writes another one. A client's
leaving shows only there and when its request or its body is read, so it is not
an action of its own.

A request target is a record of a path, whose characters may be escaped, and a
query. `KeyOf` is `ExtractObjectKey`: unescaped path, "?", raw query. It is not
injective: "/b/a%3Fx" and "/b/a?x?" have the key "/b/a?x?". `HasBeen` therefore
speaks of the contents of all targets with the key of a request. `Uncached` are
the targets the adapter's string tests turn down. `Reader` and `Writer` say which
connections may carry which kind of request; with both equal to `Conn` nothing is
restricted, and every behaviour of that instance is one of some smaller choice.

`TimedProxy` puts `HttpCachingTimedProxy` beside it: `timed` is the constant
`TIMED`, chosen initially, and each action of the handler is joined with what the
timed one does to its `ProxyStatsEntry`. The timed handler fetches in its own
goroutine; what the plain one sends on `errChan` and `objChan` in one step each is
there a return value, and it closes the connection to the origin before it goes
on. It answers an unreadable request with 400. `Slow` are connections whose
client may stop reading and sending for ever without closing.

`MC*` modules add the symmetries and constant values of the runs. The theorems
are in `RedirectorProofs`, `ByteOrderProofs`, `WorkerPoolProofs`, `BypassProofs`,
`BigcacheProofs`, `MemcachedProofs`, `CachingProxyProofs` and `TimedProxyProofs`.

Definitions whose comment begins with "Fault:" are not part of the models. Each
is a plausible mistake in the definition after it; put in its place, it makes
TLC report the property listed with it in `PROJECT.json`.

## 3. Runs

| Run | What it shows | Bounds |
|---|---|---|
| `redirector` | `AnsweredIsOriginal`, `PendingResolvable`, `NoSelfProxy`, `RecordedLeavesNothing`, `TypeOK`, and the refinement `ImplementsOriginalDst`; no deadlock | three clients, one proxy socket, two ports, two servers, maps of two elements |
| `redirector_disturbed` | with `EarlyClose` and `SlotReuse`, `AnswerSharesPort` (an answer belongs to a connection from the same port, unless a pointer of the query led to a refilled element) and `ImplementsOriginalDst` (each connection is answered once, if at all, and with some client's destination) | three clients, no proxy socket, one address, two ports, two servers, maps of two elements; more addresses only with the theorems |
| `byte_order` | `OnlyStorageRedirected`, `RedirectedToProxyPort`, `OriginalSurvives`, `KeyIsFound`, `TypeOK` | both builds; addresses of bytes 0, 1, 127, 255 with unequal neighbours; five ports, 9000 and its reflection among them |
| `worker_pool` | `EachConnOnce`, `GaugeExact`, `ReadersBalance`, `TypeOK`, and `EventuallyCollected` under fairness | three connections, one of them stalled, two workers, channels of capacity one |
| `bypass_tunnel` | `AllForwarded`, `LeftBehind`, `TypeOK`, and `EventuallyEnds` under fairness | three chunks in each direction |
| `bigcache` | `GetReturnsMade`, `CacheTypeOK`, and the refinement `ImplementsCache` | three callers, two keys, an ordinary and an empty content |
| `memcached` | `ImplementsCache`, `MemTypeOK` | three callers, a valid, a short and the empty key, an ordinary and an empty content |
| `caching_proxy` | `ServedIsGenuine`, `OneAnswer`, `SentOnce`, `NothingLeft`, `FreshUnlessHit`, `TypeOK` | two readers and a writer, one target, two versions, the second of them empty |
| `timed_proxy` | `EventuallyAnswered` and `FetcherEnds` under fairness, `ServedIsGenuine` with two keys, `TrafficAccounted`, `StatsTypeOK` | two connections, one of them slow, the other also a writer; three targets, one of them not cached; two versions, both handlers |

Why the bounds are enough to be interesting. Three clients on two ports and maps
of two elements make ports be reused and both maps overflow; one proxy socket is
enough for a loop. One stalled connection, one spare worker and channels of
capacity one reach every blocking state of the pool. Three callers give a reader,
a filler and a writer on the same key. With three chunks each direction can have
one sent, one in a goroutine's hands and one forwarded. Two readers and a writer
put a stale and a fresh version in flight together: one reader stores the old
version after the other has asked for the new one. Each connection, call and request happens once
in a behaviour, so behaviours are finite without further counters; `MaxVersion`
caps the versions of an object (a change beyond it can only be refused).
Deadlock checking is off where a behaviour ends because all connections have
been served.

Symmetry is used only in runs without liveness properties (a refinement without
fairness is a safety property), over sets whose elements no definition tells
apart.

Fairness. Goroutines that can run are scheduled: weak fairness of the accept
loop, the fetcher and the counting goroutines, and of the handlers whose client
is not in `Slow`. Go serves goroutines
that wait on a channel in order, so a worker waiting to send or to take does not
lose every race: strong fairness of `Take` and `SendReport`. The
code sets no deadline on dialling, reading or writing. That the origin answers or
drops a connection is therefore an assumption about the environment, and so is
that a client outside `Slow` reads what it is sent and sends, or drops, the body
it announced: `response.Write` and `res.Write` (`httpCachingProxy.go:54`, `169`)
and the body's part of `req.Write` (`161`) wait for it. `EventuallyAnswered`
speaks of the requests of such clients, and says that a client in `Slow` holds up
its own handler only; `FetcherEnds` speaks of all fetchers. A slow client does
keep its worker, which is what `Stalled` stands for in `WorkerPool`. In
`BypassTunnel` only the two goroutines are fair; the dial has a timeout of five
seconds. `EventuallyEnds` speaks of tunnels both of whose peers have finished,
and assumes that a peer that has shut down its half goes on reading while it is
open: a write to it would block otherwise, since no deadline is set.

### Disagreements between code and documentation

These runs check what a comment or the README says, and TLC finds a behaviour of
the code that violates it.

| Run | Property | What happens |
|---|---|---|
| `redirector_boot` | `RedirectedToProxy` | `cg_connect4` is attached before the configuration is written; meanwhile clients are sent to 127.0.0.1:0 |
| `redirector_port_reuse` | `RecordedIsResolvable` | a client gives up early, its port is given out again, and its late query consumes the elements of the new connection |
| `caching_proxy_empty` | `HitIsServable` | an object without bytes comes back from the cache with nil data, and building the response panics |

Observed while modelling, without a run of their own:

- the result of the update of `map_socks` is ignored: with the map full a
  connection is redirected and its destination lost (the worker is then told
  nothing, never something wrong: `AnsweredIsOriginal`);
- `cg_sock_opt` reads through its two pointers without a lock. Two queries for
  one port (one of them late, after an early close) can delete the elements under
  each other, and a connection from another port can refill them: the answer is
  then that connection's destination. `SlotReuse` models it, `AnswerSharesPort`
  excepts exactly these queries (`misled`) and is violated without the exception;
- after its own deletion of the element of `map_ports`, line 184 reads the cookie
  once more: refilled by then, it deletes the destination of a connection that is
  still waiting. `PendingResolvable` therefore excludes `SlotReuse`, and is
  violated with it; the victim is told nothing, and `ImplementsOriginalDst` allows
  that in this setting;
- the cookies of connections that were refused, or closed before they were
  established, stay in `map_socks` for ever; `RecordedLeavesNothing` speaks of
  recorded connections and their queries only;
- in the big-endian build the 32-bit swap is the identity, so the shifts leave 0
  for the stored port and for the port of the proxy; this is why
  `RedirectedToProxyPort` and `OriginalSurvives` speak of ports in the
  little-endian build only (the big-endian build is broken);
- both ends of a tunnel may be left waiting on `ready` after a failure
  (`LeftBehind` says exactly when; a worker left waiting is lost to the pool);
- bigcache's wrapper stores an object in a goroutine started after the
  initializer returned, so a caller whose double check falls in between
  initializes again; so does one whose double check comes just before the store;
- a change that goes through the proxy leaves the cached version in place;
  `FreshUnlessHit` shows that hits are the only stale answers;
- `MemcachedClient` never finds what it stores under a key that `get` rejects.
  Its test initializes "testKey", such a key, twice, the second time under the
  comment "Object is already in cache" (`memcachedClient_test.go:51`): the second
  call runs the initializer again, and the test, whose initializer moreover
  returns an object with another key, passes because it does;
- the timed handler's `ReadRequest` is overwritten with 0 by a successful fetch
  (`httpCachingTimedProxy.go:179`), and `Total` is never set;
- the host is not part of a cache key, and the key does not tell an escaped "?" in
  the path from the one before the query, so hosts that share a path, and targets
  like "/b/a%3Fx" and "/b/a?x?", share an entry: one is served the content of the
  other (hence "under the key" in `ServedIsGenuine`);
- `README.md` tries the proxy with port 8000, while only port 9000 is redirected.

## 4. Proofs

`RedirectorProofs`, for any sets of sockets, addresses, ports and endpoints and
any map size. Assumptions: `SocketAssumption` (client and proxy sockets are
disjoint, absent values are not values), `EndpointAssumption` (the proxy's
endpoint is not on port 9000; 127.0.0.1:0 and 0.0.0.0:0 are not destinations).
The properties are not inductive by themselves. The invariant is

    Inv == TypeOK /\ Sane /\ Ported /\ (Undisturbed => Linked)

- `Sane`: the configuration is published before workers serve (`Booted`); a
  socket's state bounds what may be recorded of it (`Phases`); `map_socks` holds
  a socket's own destination (`Recorded`); live connections have distinct tuples
  (`TuplesDistinct`); `NoSelfProxy`.
- `Ported`: `map_ports` leads only to sockets that connected from that port, and
  so do the pointers and the answers of queries that were not misled. It needs
  that a socket connects once (`ConnectsOnce`).
- `Linked`, while a port identifies a connection and no element is refilled:
  waiting connections are established (`Waiting`), every element of `map_ports`
  is that of a waiting recorded connection (`PortsPending`) and conversely
  (`RecordedPending`), answers are right (`AnswerRight`), and cookies of recorded
  connections go with their query (`CookiesGone`).

The heart is `PortsDiffer`: two connections that wait with the proxy from one
address cannot share a port, because the kernel keeps the tuples of live
connections apart; so `PortLeadsHome`, the port of a waiting connection leads to
its own cookie or to none. From `Inv` follow `TypeCorrect`,
`ProxyNeverProxiesItself`, `AnswersAreOriginal`, `PendingStaysResolvable`,
`QueriesCleanUp` and, for any setting of the two switches, `AnswersShareThePort`
(of the queries that were not misled).

`HooksImplementOriginalDst` is the refinement: `StepRefines` goes through the
actions. A query (`QueryRefines`) is an `Answer`, because `Inv` holds after it and
says what `target` then is; a handshake (`EstablishRefines`) is an `Arrive` or,
for a connection that was not redirected, invisible; `Exit` is `LoseAll`.

`ByteOrderProofs`, for any addresses, ports and proxy port. `Inv` (`TypeOK`, `Sent`, `Kept`) says, for
each stage of the connection, what each field holds as a function of what the
client passed; it is needed because the answer depends on a value stored three
steps earlier. `StorageOnly` and `KeysAgree` hold for both builds,
`RedirectionIsRight` and `DestinationSurvives` for ports in the little-endian one.

`BypassProofs`, for any number of chunks. The invariant ties the two program
counters to the ends and to the set of failed directions: a goroutine past its
copy has forwarded everything or is in `failed`. It gives `TunnelTypeCorrect`,
`EverythingForwarded` and `OnlyFailuresLeave`.

`BigcacheProofs`, for any callers, keys and contents, from `DataAssumption` and
`KeyAssumption` (absent values are not values). `CacheInv` follows an object from
where it was made: what a goroutine is about to store was made (`PutsMade`), an
entry is the encoding of an object made for its key (`EntriesMade`), and so is
what a lookup returns (`GetFindsMade`). It gives `CacheTypeCorrect`,
`GetsReturnMade`. `WrapperIsACache` is the refinement of `ObjectCache`: an
answer found by a lookup is one of the `Answers` of its key (`LookupAnswers`,
`RoundTripIsCopy`), an initializer's return offers and answers at once, and puts
and expiries are invisible.

`MemcachedProofs`, for any callers, keys, valid keys and contents, from
`MemDataAssumption` and `MemKeyAssumption`. `MemInv` says that entries were made
(`EntriesMade`), that what a call is about to set was made and, for a `Get`, has
its key (`SetsMade`), and that a running `Get` has its key and no result yet
(`CallsKeyed`, `CallsOpen`). It gives `MemTypeCorrect` and
the refinement `ClientIsACache`, in which a set that fails is a `Fail` of the
`Get` it belongs to, whether or not the server has stored the object.

`WorkerPoolProofs`, for any finite sets of connections and workers and any
capacities of the two channels (`PoolAssumption`). A connection goes through
eight stages: not yet opened, the listener's backlog, the accept loop's variable,
`jobQueue`, a worker, `done`, a counting goroutine, the collected statistics.
There is one lemma per action, which says that it moves one connection from one
stage to another or moves none. The invariant is

    PoolInv == Placed /\ GaugeExact /\ ReadersBalance
    Placed  == TypeOK /\ Holding /\ OneStage /\ NoTwice

`EachConnOnce` counts places and is not inductive: a move keeps it only if the
stages are disjoint (`OneStage`), if a queue or a set of reports holds no
connection twice (`NoTwice`), and if the program counters say who holds a
connection (`Holding`). `MoveKeepsOneStage` does this once for all moves. The
two counters follow, since the open connections are those of five stages
(`OpenByStage`), so that one enters with the increment and one leaves with the
decrement, although the goroutine that counts down belongs to another connection.
Results: `PoolTypeCorrect`, `EachConnectionOnce`, `GaugeIsExact`,
`ReportsHaveReaders`.

`CachingProxyProofs`, for any connections, hosts, targets, versions and choice of
empty objects, from `ContentAssumption` (what the constants are). The invariant is

    ProxyInv == TypeOK /\ Entries /\ \A c \in Conn : Local(c)
    Local(c) == Coupled(c) /\ Traffic(c) /\ Carried(c) /\ Replies(c)

- `Coupled`: handler, call of the cache and fetcher go step by step; a running
  call has the key of its request; a fetcher has something to send exactly while
  the initializer runs.
- `Traffic`: who may hold a connection to the origin, and how many requests have
  been sent at each stage.
- `Carried`: what is on the wire, fetched, returned or about to be stored is a
  content the origin has had, and what was fetched is one it has had since the
  request came in.
- `Replies`: only a handler that has ended has written a whole response, before
  that at most a part of one to a client that has left, and what it wrote is good.
- `Entries`: each entry of the cache is a content the origin has had under a
  target with its key. This and the versions of the origin are all that handlers share.

A step of one connection leaves `Local` of the others alone (`SameKeeps`): the
versions only grow (`Grows`), so what was genuine or current stays so. From
`ProxyInv` follow `ProxyTypeCorrect`, `ServesGenuine`, `OnlyHitsAreStale`,
`AnswersOnce`, `SendsOnce` and `LeavesNothing` (no fetcher is left with something
to send; one may still be about to close its connection). Nothing is assumed of
`KeyOf`: with two targets under one key `ServesGenuine` promises a content of one
of them. The composition with the cache is
proved from the cache's own theorem: `ProxyRunsCache` shows that every behaviour
of the proxy is one of `BigcacheWrapper` (the handlers call it only as it may be
called, and their initializers return an object with the key they were asked
for), and `ProxyCacheIsACache` then cites `WrapperIsACache` through an instance of
`BigcacheProofs`, whose assumptions follow from `CacheAssumption` (absent values
are not values).

`TimedProxyProofs`, for both handlers, from the same assumptions. Every step but
the timed handler's answer to an unreadable request is a step of the plain one
(`TimedIsPlain`), so `ProxyInv` carries over. `Recorded` ties an entry of the
statistics to the program counters: a flag is raised before the request it
accounts for can be sent. It is needed because `TrafficAccounted` relates a count
to flags that were set several steps earlier. Results: `StatsTypeCorrect`,
`StatsHideNothing`, `TimedServesGenuine`, `TimedCacheIsACache`.

`Placed`, `ProxyInv` and `TimedInv` were checked with TLC on small instances
before they were proved.

Only model-checked: the liveness properties `EventuallyCollected`,
`EventuallyEnds`, `EventuallyAnswered` and `FetcherEnds`, since fairness and ENABLED are out of
the prover's reach. The violated properties have counterexamples and no proofs.

## 5. Not modelled

- the adapter's string tests on URLs, and what HTTP headers become;
- a socket that connects again, under the same cookie, after a refused attempt;
- `DummyPrinterCache`, `FakePasstroughCache` and the dummy adapter: each lacks a
  method of the interface it was written for, so nothing can use them;
  `HttpPrintingProxy`, which only its own test constructs;
- durations, log output and the files written on a signal;
- the age of cache entries: expiry may happen at any time, so the ten-minute
  limit on staleness is not a theorem;
- `bpf-builtin.h`: 4900 of the 5111 lines of C in the repository are generated
  declarations of kernel helpers, function pointers with comments, of which the
  hooks call five. There is no behaviour in them to model, so a count of C lines
  says little here: of the C that runs, the three hooks, their maps and the macros
  of `bpf-utils.h` are all modelled; the rest of the system is in Go;
- `handler.go`, which nothing uses, and the test server.

## 6. Plan

Done: all modules of section 2 and the proofs of section 4. What is left:

1. `CachingProxy` over `ObjectCache` instead of `BigcacheWrapper`, so that its
   properties hold with either cache.
2. Sockets that connect again in `Redirector`.
3. `ShouldIntercept` as an operator on structured requests.
4. The age of entries, with staleness bounded by the life window.
