----------------------------- MODULE TimedProxy -----------------------------
(***************************************************************************)
(* HttpCachingTimedProxy of proxy/httpCachingTimedProxy.go next to         *)
(* HttpCachingProxy: run() builds the one or the other by its constant     *)
(* TIMED.  The timed handler goes the way of the plain one and fills in an *)
(* entry of the statistics.  It answers a request it cannot read with 400, *)
(* and it fetches in the handler's own goroutine, so that what the plain   *)
(* one sends on its channels is what the timed one returns.                *)
(*                                                                         *)
(* Durations are left out; what is kept of an entry is the key and the     *)
(* three flags from which the statistics file is read.                     *)
(***************************************************************************)
EXTENDS CachingProxy

CONSTANT
  Slow  \* connections whose client may stop reading and sending for ever
        \* without closing: writes to it and reads of a body then block

ASSUME SlowAssumption == Slow \subseteq Conn

VARIABLES
  timed,  \* TIMED
  stats   \* ProxyStatsEntry of each handler

timedVars == <<vars, timed, stats>>

Entry == [objectKey : Key \cup {NoKey}, cacheMiss : BOOLEAN,
          forwarded : BOOLEAN, failed : BOOLEAN]

NewEntry == [objectKey |-> NoKey, cacheMiss |-> FALSE,
             forwarded |-> FALSE, failed |-> FALSE]

StatsTypeOK == timed \in BOOLEAN /\ stats \in [Conn -> Entry]

TimedInit ==
  /\ Init
  /\ timed \in BOOLEAN
  /\ stats = [c \in Conn |-> NewEntry]

Record(c, entry) ==
  stats' = IF timed THEN [stats EXCEPT ![c] = entry] ELSE stats

-----------------------------------------------------------------------------
(* handleHttpTimed.                                                        *)

BadRequest == [status |-> "400", data |-> EmptyData, via |-> "origin"]

TimedReadFails(c) ==
  /\ timed
  /\ pc[c] = "read"
  /\ Close(c, BadRequest)
  /\ UNCHANGED <<alive, client, request, floor, fetchVars, sent, version,
                 bigcache, stats>>

\* Fault: the path is recorded for the key.
TimedInterceptPath(c) ==
  /\ Intercept(c)
  /\ Record(c,
       [stats[c] EXCEPT !.objectKey = Unescape(request[c].blob[2].path)])

\* GetTimed reports a duration of initialize, and so a miss, if and only if
\* the first lookup found nothing.  Nobody reads the entry before the
\* handler returns it, so the flag is set when it is decided.
TimedIntercept(c) ==
  /\ Intercept(c)
  /\ Record(c, [stats[c] EXCEPT !.objectKey = ExtractObjectKey(request[c]),
                                !.cacheMiss = callPc'[c] # "returned"])

\* Fault: the fallback after a failed Get is not marked.
TimedGetFailedUnmarked(c) == GetFailed(c) /\ UNCHANGED stats

TimedGetFailed(c) ==
  /\ GetFailed(c)
  /\ Record(c, [stats[c] EXCEPT !.forwarded = TRUE])

TimedRespondFails(c) ==
  /\ RespondFails(c)
  /\ Record(c, [stats[c] EXCEPT !.forwarded = TRUE, !.failed = TRUE])

\* The steps that do not touch the entry.
Unrecorded(c) ==
  /\ \/ ~ timed /\ ReadFails(c)
     \/ PassThrough(c) \/ Initialize(c) \/ Panic(c) \/ Respond(c)
     \/ ForwardDialFails(c) \/ ForwardSend(c) \/ ForwardReadFails(c)
     \/ Relay(c)
  /\ UNCHANGED stats

\* The timed fetch runs in the handler's goroutine, which closes the
\* connection to the origin before it goes on.
TimedServeStep(c) ==
  /\ timed => fetcher[c] # "closing"
  /\ \/ TimedReadFails(c) \/ TimedIntercept(c) \/ TimedGetFailed(c)
     \/ TimedRespondFails(c) \/ Unrecorded(c)
  /\ UNCHANGED timed

TimedFetcherStep(c) == FetcherStep(c) /\ UNCHANGED <<timed, stats>>

Unmeasured ==
  /\ \/ \E c \in Conn :
          \/ \E req \in Request : ReadRequest(c, req)
          \/ Store(c) \/ OriginStep(c) \/ ClientSendsBody(c)
     \/ \E k \in Key : Forget(k)
  /\ UNCHANGED <<timed, stats>>

TimedNext ==
  /\ alive
  /\ \/ \E c \in Conn : TimedServeStep(c) \/ TimedFetcherStep(c)
     \/ Unmeasured

\* Goroutines that can run do run: the fetchers, and the handlers whose
\* client reads what it is sent and sends or drops what it began to send.
\* That is an assumption about those clients, as it is one about the origin
\* that it answers or drops a connection: nothing has a deadline.
Fairness ==
  /\ \A c \in Conn \ Slow : WF_timedVars(alive /\ TimedServeStep(c))
  /\ \A c \in Conn :
       /\ WF_timedVars(alive /\ TimedFetcherStep(c))
       /\ WF_timedVars(/\ alive
                       /\ OriginServes(c) \/ OriginRefuses(c)
                       /\ UNCHANGED <<timed, stats>>)

TimedSpec == TimedInit /\ [][TimedNext]_timedVars /\ Fairness

-----------------------------------------------------------------------------
(* Properties.                                                             *)

\* The requests an entry owns up to: one for a miss and one for a forward.
\* An entry without a key is that of a request that was passed through.
Accounted(e) ==
  (IF e.cacheMiss THEN 1 ELSE 0)
    + (IF e.forwarded \/ e.objectKey = NoKey THEN 1 ELSE 0)

\* The statistics never hide traffic: an entry that says neither miss nor
\* forwarded, under a key, is that of a request the origin has not seen,
\* and no more requests reach the origin than the flags account for.  A
\* flag is only raised on the way to the fetch or the fallback that may
\* follow, and a failed entry is a forwarded one (handleHttpTimed).
TrafficAccounted ==
  timed =>
    \A c \in Conn :
      /\ sent[c] <= Accounted(stats[c])
      /\ stats[c].failed => stats[c].forwarded

\* A request that was read is answered, and its handler ends, as long as
\* its own client and the origin go on and nothing panics, whatever the
\* clients in Slow do to their handlers, in the plain handler with its
\* channels and in the timed one.
EventuallyAnswered ==
  \A c \in Conn \ Slow : pc[c] = "serve" ~> pc[c] = "closed" \/ ~ alive

\* A fetcher ends and closes its connection to the origin even when the
\* client it works for has stalled: both of its sends find their receiver
\* (retrieveObjectFromRemote).
FetcherEnds ==
  \A c \in Conn : fetcher[c] = "dial" ~> fetcher[c] = "ended" \/ ~ alive

=============================================================================
