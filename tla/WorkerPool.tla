----------------------------- MODULE WorkerPool -----------------------------
(***************************************************************************)
(* The accept loop, the worker pool and the connection counter of main.go. *)
(* One goroutine accepts, counts and queues connections on a buffered      *)
(* channel and starts, per connection, a goroutine that waits for one      *)
(* report of any worker and then counts down.  A fixed number of workers   *)
(* takes connections from the channel and sends a report for each.         *)
(*                                                                         *)
(* The reports carry the statistics of the timed variant; in the variant   *)
(* that TIMED = false selects they are the number 0 and collectedStats is  *)
(* not kept.  An Accept that fails changes nothing and is left out.        *)
(***************************************************************************)
EXTENDS Naturals, Integers, Sequences, FiniteSets

CONSTANTS
  Conn,      \* connections, each accepted at most once
  Worker,    \* MAX_WORKERS goroutines
  QueueCap,  \* capacity of jobQueue, MAX_BUFFER_SIZE
  DoneCap,   \* capacity of done, MAX_BUFFER_SIZE
  Stalled,   \* connections whose handler never returns: no deadline is set
             \* on reading a request, dialling or reading a response
  NoConn

ASSUME PoolAssumption ==
  /\ IsFiniteSet(Conn) /\ IsFiniteSet(Worker)
  /\ QueueCap \in Nat \ {0} /\ DoneCap \in Nat \ {0}
  /\ Stalled \subseteq Conn
  /\ NoConn \notin Conn

VARIABLES
  fresh,           \* connections no client has opened yet
  backlog,         \* the listener's accept queue
  accPc,           \* where the accept loop is
  accConn,         \* the connection it holds
  jobQueue,        \* channel of ProxyTask
  workerPc,        \* where each worker is
  job,             \* the connection each worker holds
  done,            \* channel of reports
  readers,         \* number of goroutines blocked in <-done
  received,        \* reports received and not yet counted down
  connections,     \* connectionCounter.connections
  collectedStats   \* connectionCounter.collectedStats, as a set

acceptVars == <<accPc, accConn>>
workerVars == <<workerPc, job>>
counterVars == <<connections, collectedStats>>
vars == <<fresh, backlog, acceptVars, jobQueue, workerVars, done, readers,
          received, counterVars>>

Report == [conn : Conn, worker : Worker]

TypeOK ==
  /\ fresh \subseteq Conn
  /\ backlog \in Seq(Conn)
  /\ accPc \in {"accept", "count", "enqueue", "spawn"}
  /\ accConn \in Conn \cup {NoConn}
  /\ jobQueue \in Seq(Conn) /\ Len(jobQueue) <= QueueCap
  /\ workerPc \in [Worker -> {"idle", "handle", "report"}]
  /\ job \in [Worker -> Conn \cup {NoConn}]
  /\ done \in Seq(Report) /\ Len(done) <= DoneCap
  /\ readers \in Nat
  /\ received \subseteq Report
  /\ connections \in Int
  /\ collectedStats \subseteq Report

Init ==
  /\ fresh = Conn
  /\ backlog = <<>>
  /\ accPc = "accept"
  /\ accConn = NoConn
  /\ jobQueue = <<>>
  /\ workerPc = [w \in Worker |-> "idle"]
  /\ job = [w \in Worker |-> NoConn]
  /\ done = <<>>
  /\ readers = 0
  /\ received = {}
  /\ connections = 0
  /\ collectedStats = {}

-----------------------------------------------------------------------------
\* A client's handshake completes (the kernel's part).
Arrive(c) ==
  /\ c \in fresh
  /\ fresh' = fresh \ {c}
  /\ backlog' = Append(backlog, c)
  /\ UNCHANGED <<acceptVars, jobQueue, workerVars, done, readers, received,
                 counterVars>>

(* The accept loop of run(). *)

Accept ==
  /\ accPc = "accept"
  /\ backlog # <<>>
  /\ accConn' = Head(backlog)
  /\ backlog' = Tail(backlog)
  /\ accPc' = "count"
  /\ UNCHANGED <<fresh, jobQueue, workerVars, done, readers, received,
                 counterVars>>

\* connectionCounter.connections++ under the lock.
Count ==
  /\ accPc = "count"
  /\ connections' = connections + 1
  /\ accPc' = "enqueue"
  /\ UNCHANGED <<fresh, backlog, accConn, jobQueue, workerVars, done, readers,
                 received, collectedStats>>

\* Fault: the queue grows without bound.
EnqueueUnbounded ==
  /\ accPc = "enqueue"
  /\ jobQueue' = Append(jobQueue, accConn)
  /\ accConn' = NoConn
  /\ accPc' = "spawn"
  /\ UNCHANGED <<fresh, backlog, workerVars, done, readers, received,
                 counterVars>>

\* jobQueue <- ProxyTask blocks while the channel is full.
Enqueue ==
  /\ accPc = "enqueue"
  /\ Len(jobQueue) < QueueCap
  /\ jobQueue' = Append(jobQueue, accConn)
  /\ accConn' = NoConn
  /\ accPc' = "spawn"
  /\ UNCHANGED <<fresh, backlog, workerVars, done, readers, received,
                 counterVars>>

\* Fault: no goroutine is started while the counter shows one connection.
SpawnIfBusy ==
  /\ accPc = "spawn"
  /\ readers' = IF connections > 1 THEN readers + 1 ELSE readers
  /\ accPc' = "accept"
  /\ UNCHANGED <<fresh, backlog, accConn, jobQueue, workerVars, done, received,
                 counterVars>>

Spawn ==
  /\ accPc = "spawn"
  /\ readers' = readers + 1
  /\ accPc' = "accept"
  /\ UNCHANGED <<fresh, backlog, accConn, jobQueue, workerVars, done, received,
                 counterVars>>

-----------------------------------------------------------------------------
(* proxyWorker and timedProxyWorker. *)

\* Fault: the workers share a lock that is held while a connection is
\* handled.
TakeSerially(w) ==
  /\ \A v \in Worker : workerPc[v] = "idle"
  /\ jobQueue # <<>>
  /\ job' = [job EXCEPT ![w] = Head(jobQueue)]
  /\ jobQueue' = Tail(jobQueue)
  /\ workerPc' = [workerPc EXCEPT ![w] = "handle"]
  /\ UNCHANGED <<fresh, backlog, acceptVars, done, readers, received,
                 counterVars>>

Take(w) ==
  /\ workerPc[w] = "idle"
  /\ jobQueue # <<>>
  /\ job' = [job EXCEPT ![w] = Head(jobQueue)]
  /\ jobQueue' = Tail(jobQueue)
  /\ workerPc' = [workerPc EXCEPT ![w] = "handle"]
  /\ UNCHANGED <<fresh, backlog, acceptVars, done, readers, received,
                 counterVars>>

\* handleConnection returns.
Finish(w) ==
  /\ workerPc[w] = "handle"
  /\ job[w] \notin Stalled
  /\ workerPc' = [workerPc EXCEPT ![w] = "report"]
  /\ UNCHANGED <<fresh, backlog, acceptVars, jobQueue, job, done, readers,
                 received, counterVars>>

\* Fault: the worker reports and keeps its previous connection.
SendReportKeepsJob(w) ==
  /\ workerPc[w] = "report"
  /\ Len(done) < DoneCap
  /\ done' = Append(done, [conn |-> job[w], worker |-> w])
  /\ workerPc' = [workerPc EXCEPT ![w] = "handle"]
  /\ UNCHANGED <<fresh, backlog, acceptVars, jobQueue, job, readers, received,
                 counterVars>>

\* results <- stats blocks while the channel is full.
SendReport(w) ==
  /\ workerPc[w] = "report"
  /\ Len(done) < DoneCap
  /\ done' = Append(done, [conn |-> job[w], worker |-> w])
  /\ job' = [job EXCEPT ![w] = NoConn]
  /\ workerPc' = [workerPc EXCEPT ![w] = "idle"]
  /\ UNCHANGED <<fresh, backlog, acceptVars, jobQueue, readers, received,
                 counterVars>>

-----------------------------------------------------------------------------
(* The goroutine started for each connection.  It receives the report of   *)
(* whichever worker is first, not that of its own connection.              *)

Receive ==
  /\ readers > 0
  /\ done # <<>>
  /\ readers' = readers - 1
  /\ received' = received \cup {Head(done)}
  /\ done' = Tail(done)
  /\ UNCHANGED <<fresh, backlog, acceptVars, jobQueue, workerVars, counterVars>>

\* Fault: the statistics are kept and the counter is forgotten.
CountDownForgotten(r) ==
  /\ r \in received
  /\ received' = received \ {r}
  /\ collectedStats' = collectedStats \cup {r}
  /\ UNCHANGED <<fresh, backlog, acceptVars, jobQueue, workerVars, done,
                 readers, connections>>

CountDown(r) ==
  /\ r \in received
  /\ received' = received \ {r}
  /\ connections' = connections - 1
  /\ collectedStats' = collectedStats \cup {r}
  /\ UNCHANGED <<fresh, backlog, acceptVars, jobQueue, workerVars, done,
                 readers>>

-----------------------------------------------------------------------------
AcceptLoop == Accept \/ Count \/ Enqueue \/ Spawn
WorkerStep(w) == Take(w) \/ Finish(w) \/ SendReport(w)

Next ==
  \/ \E c \in Conn : Arrive(c)
  \/ AcceptLoop
  \/ \E w \in Worker : WorkerStep(w)
  \/ Receive
  \/ \E r \in Report : CountDown(r)

Spec == Init /\ [][Next]_vars

\* Goroutines that can run do run.  Senders blocked on a channel are served
\* in order, so a worker that waits for room in done gets it if room keeps
\* coming; likewise a worker waiting for a job.
Fairness ==
  /\ WF_vars(AcceptLoop)
  /\ \A w \in Worker :
       WF_vars(Finish(w)) /\ SF_vars(Take(w)) /\ SF_vars(SendReport(w))
  /\ WF_vars(Receive)
  /\ \A r \in Report : WF_vars(CountDown(r))

FairSpec == Spec /\ Fairness

-----------------------------------------------------------------------------
(* Properties.                                                             *)

Elements(q) == {q[i] : i \in DOMAIN q}

Busy == {w \in Worker : workerPc[w] # "idle"}

\* Connections that were counted and not yet counted down.
Open ==
  (IF accPc = "enqueue" THEN {accConn} ELSE {})
    \cup Elements(jobQueue)
    \cup {job[w] : w \in Busy}
    \cup {r.conn : r \in Elements(done) \cup received}

\* The counter shown as "Connections: n/100000" is the number of
\* connections accepted and not yet finished, although any goroutine may
\* count down for any connection (run in main.go).
GaugeExact == connections = Cardinality(Open)

\* There is a waiting goroutine for each report that is or will be sent,
\* but for the one the accept loop is about to start: the reports in done
\* never outnumber the goroutines that drain it, so done cannot stay full.
ReadersBalance ==
  readers + (IF accPc = "spawn" THEN 1 ELSE 0)
    = Len(jobQueue) + Cardinality(Busy) + Len(done)

\* Every place in which a connection is.
Places(c) ==
  (IF c \in fresh THEN {<<"fresh">>} ELSE {})
    \cup {<<"backlog", i>> : i \in {j \in DOMAIN backlog : backlog[j] = c}}
    \cup (IF accConn = c THEN {<<"accepting">>} ELSE {})
    \cup {<<"queue", i>> : i \in {j \in DOMAIN jobQueue : jobQueue[j] = c}}
    \cup {<<"worker", w>> : w \in {v \in Worker : job[v] = c}}
    \cup {<<"done", i>> : i \in {j \in DOMAIN done : done[j].conn = c}}
    \cup {<<"received", r>> : r \in {q \in received : q.conn = c}}
    \cup {<<"collected", r>> : r \in {q \in collectedStats : q.conn = c}}

\* No connection is lost, handled by two workers or reported twice between
\* the accept queue and the collected statistics (run, timedProxyWorker).
EachConnOnce == \A c \in Conn : Cardinality(Places(c)) = 1

\* As long as a worker is left over from the connections that stall, every
\* connection that arrives and does not stall is handled and its report
\* collected, at every capacity of the two channels (main.go).
EventuallyCollected ==
  Cardinality(Stalled) < Cardinality(Worker) =>
    \A c \in Conn \ Stalled :
      c \notin fresh ~> \E r \in collectedStats : r.conn = c

=============================================================================
