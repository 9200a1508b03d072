-------------------------- MODULE WorkerPoolProofs --------------------------
(***************************************************************************)
(* Proofs about WorkerPool, for any finite sets of connections and workers *)
(* and any capacities.  A connection goes through eight stages, from the   *)
(* client that has not opened it to the collected statistics; every step   *)
(* moves at most one connection to the next stage.                         *)
(***************************************************************************)
EXTENDS WorkerPool, FiniteSetTheorems, SequenceTheorems, TLAPS

ConnsOf(R) == {r.conn : r \in R}

\* The connections of each stage.
Stage(s) ==
  CASE s = 1 -> fresh
    [] s = 2 -> Elements(backlog)
    [] s = 3 -> {accConn} \ {NoConn}
    [] s = 4 -> Elements(jobQueue)
    [] s = 5 -> {job[w] : w \in Worker} \ {NoConn}
    [] s = 6 -> ConnsOf(Elements(done))
    [] s = 7 -> ConnsOf(received)
    [] s = 8 -> ConnsOf(collectedStats)

\* Every connection is in exactly one stage.
OneStage ==
  \A c \in Conn : \E s \in 1..8 : \A t \in 1..8 : c \in Stage(t) <=> t = s

\* No stage holds a connection twice.
NoRepeat(q) == \A i, j \in DOMAIN q : q[i] = q[j] => i = j
OnePerConn(R) == \A q, r \in R : q.conn = r.conn => q = r

NoTwice ==
  /\ NoRepeat(backlog)
  /\ NoRepeat(jobQueue)
  /\ \A v, w \in Worker : job[v] = job[w] /\ job[v] # NoConn => v = w
  /\ NoRepeat(done)
  /\ OnePerConn(Elements(done))
  /\ OnePerConn(received)
  /\ OnePerConn(collectedStats)

\* The accept loop and the workers hold a connection exactly when they are
\* busy with it.
Holding ==
  /\ accConn # NoConn <=> accPc \in {"count", "enqueue"}
  /\ \A w \in Worker : job[w] # NoConn <=> workerPc[w] # "idle"

\* One connection goes from one stage to another, and all others stay.
Moves(c, s, t) ==
  /\ c \in Stage(s)
  /\ Stage(s)' = Stage(s) \ {c}
  /\ Stage(t)' = Stage(t) \cup {c}
  /\ \A u \in 1..8 \ {s, t} : Stage(u)' = Stage(u)

Stays == \A t \in 1..8 : Stage(t)' = Stage(t)

Placed == TypeOK /\ Holding /\ OneStage /\ NoTwice

-----------------------------------------------------------------------------
(* Queues.                                                                 *)

\* Appending to a queue adds one element to it, behind the others.
LEMMA AppendAdds ==
  ASSUME NEW S, NEW q \in Seq(S), NEW e \in S
  PROVE  /\ Append(q, e) \in Seq(S)
         /\ Len(Append(q, e)) = Len(q) + 1
         /\ Elements(Append(q, e)) = Elements(q) \cup {e}
         /\ NoRepeat(q) /\ e \notin Elements(q) => NoRepeat(Append(q, e))
<1>1. /\ Append(q, e) \in Seq(S) /\ Len(Append(q, e)) = Len(q) + 1
      /\ DOMAIN q = 1..Len(q) /\ DOMAIN Append(q, e) = 1..(Len(q) + 1)
      /\ Len(q) \in Nat
      /\ \A i \in 1..Len(q) : Append(q, e)[i] = q[i]
      /\ Append(q, e)[Len(q) + 1] = e
  OBVIOUS
<1>2. Elements(Append(q, e)) = Elements(q) \cup {e}
  BY <1>1 DEF Elements
<1>3. NoRepeat(q) /\ e \notin Elements(q) => NoRepeat(Append(q, e))
  BY <1>1 DEF Elements, NoRepeat
<1>. QED
  BY <1>1, <1>2, <1>3

\* Taking the head of a queue removes one element from it.
LEMMA TailRemoves ==
  ASSUME NEW S, NEW q \in Seq(S), q # <<>>
  PROVE  /\ Head(q) \in S /\ Head(q) \in Elements(q)
         /\ Tail(q) \in Seq(S)
         /\ Len(q) \in Nat /\ Len(q) > 0 /\ Len(Tail(q)) = Len(q) - 1
         /\ Elements(q) = Elements(Tail(q)) \cup {Head(q)}
         /\ NoRepeat(q) => NoRepeat(Tail(q)) /\ Head(q) \notin Elements(Tail(q))
<1>1. /\ Head(q) \in S /\ Head(q) = q[1] /\ Tail(q) \in Seq(S)
      /\ Len(q) \in Nat /\ Len(q) > 0 /\ Len(Tail(q)) = Len(q) - 1
      /\ DOMAIN q = 1..Len(q) /\ DOMAIN Tail(q) = 1..(Len(q) - 1)
      /\ \A i \in 1..(Len(q) - 1) : Tail(q)[i] = q[i + 1]
  BY HeadTailProperties, EmptySeq, LenProperties
<1>2. Head(q) \in Elements(q)
  BY <1>1 DEF Elements
<1>3. Elements(q) = Elements(Tail(q)) \cup {Head(q)}
  <2>1. \A i \in DOMAIN q : i = 1 \/ i - 1 \in DOMAIN Tail(q)
    BY <1>1
  <2>2. \A i \in DOMAIN q : q[i] = Head(q) \/ q[i] = Tail(q)[i - 1]
    BY <1>1
  <2>3. \A i \in DOMAIN Tail(q) : i + 1 \in DOMAIN q /\ Tail(q)[i] = q[i + 1]
    BY <1>1
  <2>. QED
    BY <1>2, <2>1, <2>2, <2>3, <1>1 DEF Elements
<1>4. NoRepeat(q) => NoRepeat(Tail(q)) /\ Head(q) \notin Elements(Tail(q))
  BY <1>1 DEF Elements, NoRepeat
<1>. QED
  BY <1>1, <1>2, <1>3, <1>4

-----------------------------------------------------------------------------
(* Stages.                                                                 *)

\* The stages by number, before and after a step.
LEMMA StageTable ==
  /\ Stage(1) = fresh /\ Stage(1)' = fresh'
  /\ Stage(2) = Elements(backlog) /\ Stage(2)' = Elements(backlog')
  /\ Stage(3) = {accConn} \ {NoConn} /\ Stage(3)' = {accConn'} \ {NoConn}
  /\ Stage(4) = Elements(jobQueue) /\ Stage(4)' = Elements(jobQueue')
  /\ Stage(5) = {job[w] : w \in Worker} \ {NoConn}
  /\ Stage(5)' = {job'[w] : w \in Worker} \ {NoConn}
  /\ Stage(6) = ConnsOf(Elements(done)) /\ Stage(6)' = ConnsOf(Elements(done'))
  /\ Stage(7) = ConnsOf(received) /\ Stage(7)' = ConnsOf(received')
  /\ Stage(8) = ConnsOf(collectedStats)
  /\ Stage(8)' = ConnsOf(collectedStats')
BY DEF Stage, Elements, ConnsOf

\* A stage changes only if the variable it is made of does.
LEMMA StageKept ==
  /\ UNCHANGED fresh => Stage(1)' = Stage(1)
  /\ UNCHANGED backlog => Stage(2)' = Stage(2)
  /\ UNCHANGED accConn => Stage(3)' = Stage(3)
  /\ UNCHANGED jobQueue => Stage(4)' = Stage(4)
  /\ UNCHANGED job => Stage(5)' = Stage(5)
  /\ UNCHANGED done => Stage(6)' = Stage(6)
  /\ UNCHANGED received => Stage(7)' = Stage(7)
  /\ UNCHANGED collectedStats => Stage(8)' = Stage(8)
BY StageTable

\* A connection that is in one stage is in no other.
LEMMA InOneStage ==
  ASSUME OneStage, NEW c \in Conn, NEW s \in 1..8, NEW t \in 1..8,
         c \in Stage(s), c \in Stage(t)
  PROVE  s = t
BY DEF OneStage

\* A step that moves one connection to another stage leaves every
\* connection in one stage.
LEMMA MoveKeepsOneStage ==
  ASSUME OneStage, NEW c \in Conn, NEW s \in 1..8, NEW t \in 1..8, s # t,
         Moves(c, s, t)
  PROVE  OneStage'
<1> SUFFICES ASSUME NEW d \in Conn
             PROVE  \E r \in 1..8 : \A u \in 1..8 : d \in Stage(u)' <=> u = r
  BY DEF OneStage
<1>1. PICK r \in 1..8 : \A u \in 1..8 : d \in Stage(u) <=> u = r
  BY DEF OneStage
<1>2. CASE d = c
  <2>1. r = s
    BY <1>1, <1>2 DEF Moves
  <2>2. \A u \in 1..8 : d \in Stage(u)' <=> u = t
    BY <1>1, <1>2, <2>1 DEF Moves
  <2>. QED
    BY <2>2
<1>3. CASE d # c
  <2>1. \A u \in 1..8 : d \in Stage(u)' <=> d \in Stage(u)
    BY <1>3 DEF Moves
  <2>. QED
    BY <1>1, <2>1
<1>. QED
  BY <1>2, <1>3

\* A step that moves no connection keeps each in its stage.
LEMMA StayKeepsOneStage == OneStage /\ Stays => OneStage'
BY DEF OneStage, Stays

-----------------------------------------------------------------------------
(* Where connections are: one lemma per action.                            *)

\* A client's connection goes to the backlog.
LEMMA ArrivePlaces ==
  ASSUME Placed, NEW c \in Conn, Arrive(c)
  PROVE  Placed' /\ Moves(c, 1, 2)
<1> USE PoolAssumption
<1>1. c \in Stage(1) /\ backlog \in Seq(Conn)
  BY StageTable DEF Arrive, Placed, TypeOK
<1>2. c \notin Elements(backlog)
  BY <1>1, StageTable, InOneStage, 1 \in 1..8, 2 \in 1..8, 1 # 2 DEF Placed
<1>3. /\ backlog' \in Seq(Conn) /\ NoRepeat(backlog')
      /\ Elements(backlog') = Elements(backlog) \cup {c}
  BY <1>1, <1>2, AppendAdds DEF Arrive, Placed, NoTwice
<1>4. TypeOK'
  BY <1>3 DEF Arrive, Placed, TypeOK, acceptVars, workerVars, counterVars
<1>5. Holding'
  BY DEF Arrive, Placed, Holding, acceptVars, workerVars
<1>6. Moves(c, 1, 2)
  <2>1. Stage(1)' = Stage(1) \ {c}
    BY StageTable DEF Arrive
  <2>2. Stage(2)' = Stage(2) \cup {c}
    BY <1>3, StageTable
  <2>3. \A u \in {3, 4, 5, 6, 7, 8} : Stage(u)' = Stage(u)
    BY StageKept DEF Arrive, acceptVars, workerVars, counterVars
  <2>. QED
    BY <1>1, <2>1, <2>2, <2>3 DEF Moves
<1>7. NoTwice'
  BY <1>3 DEF Arrive, Placed, NoTwice, acceptVars, workerVars, counterVars
<1>. QED
  BY <1>4, <1>5, <1>6, <1>7, MoveKeepsOneStage,
     1 \in 1..8, 2 \in 1..8, 1 # 2 DEF Placed

\* Accept takes the first connection of the backlog.
LEMMA AcceptPlaces ==
  ASSUME Placed, Accept
  PROVE  Placed' /\ Moves(Head(backlog), 2, 3)
<1> USE PoolAssumption
<1>1. backlog \in Seq(Conn) /\ backlog # <<>> /\ NoRepeat(backlog)
  BY DEF Accept, Placed, TypeOK, NoTwice
<1>2. /\ Head(backlog) \in Conn /\ Head(backlog) \in Elements(backlog)
      /\ backlog' \in Seq(Conn) /\ NoRepeat(backlog')
      /\ Elements(backlog') = Elements(backlog) \ {Head(backlog)}
  BY <1>1, TailRemoves DEF Accept
<1>3. TypeOK'
  BY <1>2 DEF Accept, Placed, TypeOK, workerVars, counterVars
<1>4. Holding'
  BY <1>2 DEF Accept, Placed, Holding, workerVars
<1>5. accConn = NoConn
  BY DEF Accept, Placed, Holding
<1>6. Moves(Head(backlog), 2, 3)
  <2>1. Stage(2)' = Stage(2) \ {Head(backlog)} /\ Head(backlog) \in Stage(2)
    BY <1>2, StageTable
  <2>2. Stage(3)' = Stage(3) \cup {Head(backlog)}
    BY <1>2, <1>5, StageTable DEF Accept
  <2>3. \A u \in {1, 4, 5, 6, 7, 8} : Stage(u)' = Stage(u)
    BY StageKept DEF Accept, workerVars, counterVars
  <2>. QED
    BY <2>1, <2>2, <2>3 DEF Moves
<1>7. NoTwice'
  BY <1>2 DEF Accept, Placed, NoTwice, workerVars, counterVars
<1>. QED
  BY <1>2, <1>3, <1>4, <1>6, <1>7, MoveKeepsOneStage,
     2 \in 1..8, 3 \in 1..8, 2 # 3 DEF Placed

\* Counting up moves no connection.
LEMMA CountPlaces ==
  ASSUME Placed, Count
  PROVE  Placed' /\ Stays
<1>1. TypeOK'
  BY DEF Count, Placed, TypeOK, workerVars
<1>2. Holding'
  BY DEF Count, Placed, Holding, workerVars
<1>3. Stays
  BY StageTable DEF Count, Stays, workerVars
<1>4. NoTwice'
  BY DEF Count, Placed, NoTwice, workerVars
<1>. QED
  BY <1>1, <1>2, <1>3, <1>4, StayKeepsOneStage DEF Placed

\* The accept loop puts its connection at the end of jobQueue.
LEMMA EnqueuePlaces ==
  ASSUME Placed, Enqueue
  PROVE  Placed' /\ accConn \in Conn /\ Moves(accConn, 3, 4)
<1> USE PoolAssumption
<1>1. accConn \in Conn /\ accConn \in Stage(3) /\ jobQueue \in Seq(Conn)
  BY StageTable DEF Enqueue, Placed, TypeOK, Holding
<1>2. accConn \notin Elements(jobQueue)
  BY <1>1, StageTable, InOneStage, 3 \in 1..8, 4 \in 1..8, 3 # 4 DEF Placed
<1>3. /\ jobQueue' \in Seq(Conn) /\ NoRepeat(jobQueue')
      /\ Len(jobQueue') = Len(jobQueue) + 1 /\ Len(jobQueue) \in Nat
      /\ Elements(jobQueue') = Elements(jobQueue) \cup {accConn}
  BY <1>1, <1>2, AppendAdds, LenProperties DEF Enqueue, Placed, NoTwice
<1>4. TypeOK'
  BY <1>3 DEF Enqueue, Placed, TypeOK, workerVars, counterVars
<1>5. Holding'
  BY DEF Enqueue, Placed, Holding, workerVars
<1>6. Moves(accConn, 3, 4)
  <2>1. Stage(3)' = Stage(3) \ {accConn}
    BY <1>1, StageTable DEF Enqueue
  <2>2. Stage(4)' = Stage(4) \cup {accConn}
    BY <1>3, StageTable
  <2>3. \A u \in {1, 2, 5, 6, 7, 8} : Stage(u)' = Stage(u)
    BY StageKept DEF Enqueue, workerVars, counterVars
  <2>. QED
    BY <1>1, <2>1, <2>2, <2>3 DEF Moves
<1>7. NoTwice'
  BY <1>3 DEF Enqueue, Placed, NoTwice, workerVars, counterVars
<1>. QED
  BY <1>1, <1>4, <1>5, <1>6, <1>7, MoveKeepsOneStage,
     3 \in 1..8, 4 \in 1..8, 3 # 4 DEF Placed

\* Starting a counting goroutine moves no connection.
LEMMA SpawnPlaces ==
  ASSUME Placed, Spawn
  PROVE  Placed' /\ Stays
<1>1. TypeOK'
  BY DEF Spawn, Placed, TypeOK, workerVars, counterVars
<1>2. Holding'
  BY DEF Spawn, Placed, Holding, workerVars
<1>3. Stays
  BY StageTable DEF Spawn, Stays, workerVars, counterVars
<1>4. NoTwice'
  BY DEF Spawn, Placed, NoTwice, workerVars, counterVars
<1>. QED
  BY <1>1, <1>2, <1>3, <1>4, StayKeepsOneStage DEF Placed

\* An idle worker takes the first connection of jobQueue.
LEMMA TakePlaces ==
  ASSUME Placed, NEW w \in Worker, Take(w)
  PROVE  Placed' /\ Moves(Head(jobQueue), 4, 5)
<1> USE PoolAssumption
<1>1. jobQueue \in Seq(Conn) /\ jobQueue # <<>> /\ NoRepeat(jobQueue)
  BY DEF Take, Placed, TypeOK, NoTwice
<1>2. /\ Head(jobQueue) \in Conn /\ Head(jobQueue) \in Elements(jobQueue)
      /\ jobQueue' \in Seq(Conn) /\ NoRepeat(jobQueue')
      /\ Len(jobQueue) \in Nat /\ Len(jobQueue') = Len(jobQueue) - 1
      /\ Elements(jobQueue') = Elements(jobQueue) \ {Head(jobQueue)}
  BY <1>1, TailRemoves DEF Take
<1>3. TypeOK'
  BY <1>2 DEF Take, Placed, TypeOK, acceptVars, counterVars
<1>4. Holding'
  BY <1>2 DEF Take, Placed, Holding, TypeOK, acceptVars
<1>5. job[w] = NoConn /\ \A v \in Worker : job[v] # Head(jobQueue)
  <2>1. Head(jobQueue) \notin Stage(5)
    BY <1>2, StageTable, InOneStage, 4 \in 1..8, 5 \in 1..8, 4 # 5 DEF Placed
  <2>. QED
    BY <1>2, <2>1, StageTable DEF Take, Placed, Holding
<1>6. Stage(5)' = Stage(5) \cup {Head(jobQueue)}
  BY <1>2, <1>5, StageTable DEF Take, Placed, TypeOK
<1>7. Moves(Head(jobQueue), 4, 5)
  <2>1. Stage(4)' = Stage(4) \ {Head(jobQueue)} /\ Head(jobQueue) \in Stage(4)
    BY <1>2, StageTable
  <2>2. \A u \in {1, 2, 3, 6, 7, 8} : Stage(u)' = Stage(u)
    BY StageKept DEF Take, acceptVars, counterVars
  <2>. QED
    BY <1>6, <2>1, <2>2 DEF Moves
<1>8. NoTwice'
  <2>1. \A u, v \in Worker : job'[u] = job'[v] /\ job'[u] # NoConn => u = v
    BY <1>5 DEF Take, Placed, NoTwice, TypeOK
  <2>. QED
    BY <1>2, <2>1 DEF Take, Placed, NoTwice, acceptVars, counterVars
<1>. QED
  BY <1>2, <1>3, <1>4, <1>7, <1>8, MoveKeepsOneStage,
     4 \in 1..8, 5 \in 1..8, 4 # 5 DEF Placed

\* A handler that returns leaves the connection with its worker.
LEMMA FinishPlaces ==
  ASSUME Placed, NEW w \in Worker, Finish(w)
  PROVE  Placed' /\ Stays
<1>1. TypeOK'
  BY DEF Finish, Placed, TypeOK, acceptVars, counterVars
<1>2. Holding'
  BY DEF Finish, Placed, Holding, TypeOK, acceptVars
<1>3. Stays
  BY StageTable DEF Finish, Stays, acceptVars, counterVars
<1>4. NoTwice'
  BY DEF Finish, Placed, NoTwice, acceptVars, counterVars
<1>. QED
  BY <1>1, <1>2, <1>3, <1>4, StayKeepsOneStage DEF Placed

\* A worker hands its connection on as a report in done.
LEMMA SendReportPlaces ==
  ASSUME Placed, NEW w \in Worker, SendReport(w)
  PROVE  Placed' /\ job[w] \in Conn /\ Moves(job[w], 5, 6)
<1> USE PoolAssumption
<1> DEFINE report == [conn |-> job[w], worker |-> w]
<1>1. job[w] \in Conn /\ report \in Report /\ done \in Seq(Report)
  BY DEF SendReport, Placed, TypeOK, Holding, Report
<1>2. job[w] \in Stage(5)
  BY <1>1, StageTable
<1>3. job[w] \notin ConnsOf(Elements(done))
  BY <1>1, <1>2, StageTable, InOneStage, 5 \in 1..8, 6 \in 1..8, 5 # 6 DEF Placed
<1>4. report \notin Elements(done) /\ report.conn = job[w]
  BY <1>3 DEF ConnsOf
<1>5. /\ done' \in Seq(Report) /\ NoRepeat(done')
      /\ Len(done') = Len(done) + 1 /\ Len(done) \in Nat
      /\ Elements(done') = Elements(done) \cup {report}
  BY <1>1, <1>4, AppendAdds, LenProperties DEF SendReport, Placed, NoTwice
<1>6. TypeOK'
  BY <1>5 DEF SendReport, Placed, TypeOK, acceptVars, counterVars
<1>7. Holding'
  BY DEF SendReport, Placed, Holding, TypeOK, acceptVars
<1>8. \A v \in Worker : v # w => job[v] # job[w]
  BY <1>1 DEF Placed, NoTwice
<1>9. Moves(job[w], 5, 6)
  <2>1. Stage(5)' = Stage(5) \ {job[w]}
    BY <1>1, <1>8, StageTable DEF SendReport, Placed, TypeOK
  <2>2. Stage(6)' = Stage(6) \cup {job[w]}
    BY <1>4, <1>5, StageTable DEF ConnsOf
  <2>3. \A u \in {1, 2, 3, 4, 7, 8} : Stage(u)' = Stage(u)
    BY StageKept DEF SendReport, acceptVars, counterVars
  <2>. QED
    BY <1>2, <2>1, <2>2, <2>3 DEF Moves
<1>10. NoTwice'
  <2>1. \A u, v \in Worker : job'[u] = job'[v] /\ job'[u] # NoConn => u = v
    BY DEF SendReport, Placed, NoTwice, TypeOK
  <2>2. OnePerConn(Elements(done'))
    BY <1>3, <1>4, <1>5 DEF Placed, NoTwice, OnePerConn, ConnsOf
  <2>. QED
    BY <1>5, <2>1, <2>2 DEF SendReport, Placed, NoTwice, acceptVars, counterVars
<1>. QED
  BY <1>1, <1>6, <1>7, <1>9, <1>10, MoveKeepsOneStage,
     5 \in 1..8, 6 \in 1..8, 5 # 6 DEF Placed

\* A counting goroutine takes the first report of done.
LEMMA ReceivePlaces ==
  ASSUME Placed, Receive
  PROVE  Placed' /\ Moves(Head(done).conn, 6, 7)
<1> USE PoolAssumption
<1> DEFINE report == Head(done)
<1>1. done \in Seq(Report) /\ done # <<>> /\ NoRepeat(done)
  BY DEF Receive, Placed, TypeOK, NoTwice
<1>2. /\ report \in Report /\ report \in Elements(done)
      /\ done' \in Seq(Report) /\ NoRepeat(done')
      /\ Len(done) \in Nat /\ Len(done') = Len(done) - 1
      /\ Elements(done') = Elements(done) \ {report}
  BY <1>1, TailRemoves DEF Receive
<1>3. report.conn \in Conn /\ report.conn \in Stage(6)
  BY <1>2, StageTable DEF Report, ConnsOf
<1>4. report.conn \notin ConnsOf(received)
  BY <1>3, StageTable, InOneStage, 6 \in 1..8, 7 \in 1..8, 6 # 7 DEF Placed
<1>5. TypeOK'
  BY <1>2 DEF Receive, Placed, TypeOK, acceptVars, workerVars, counterVars
<1>6. Holding'
  BY DEF Receive, Placed, Holding, acceptVars, workerVars
<1>7. Moves(report.conn, 6, 7)
  <2>1. Stage(6)' = Stage(6) \ {report.conn}
    BY <1>2, StageTable DEF Placed, NoTwice, OnePerConn, ConnsOf
  <2>2. Stage(7)' = Stage(7) \cup {report.conn}
    BY StageTable DEF Receive, ConnsOf
  <2>3. \A u \in {1, 2, 3, 4, 5, 8} : Stage(u)' = Stage(u)
    BY StageKept DEF Receive, acceptVars, workerVars, counterVars
  <2>. QED
    BY <1>3, <2>1, <2>2, <2>3 DEF Moves
<1>8. NoTwice'
  <2>1. OnePerConn(Elements(done'))
    BY <1>2 DEF Placed, NoTwice, OnePerConn
  <2>2. OnePerConn(received')
    BY <1>4 DEF Receive, Placed, NoTwice, OnePerConn, ConnsOf
  <2>. QED
    BY <1>2, <2>1, <2>2
       DEF Receive, Placed, NoTwice, acceptVars, workerVars, counterVars
<1>. QED
  BY <1>3, <1>5, <1>6, <1>7, <1>8, MoveKeepsOneStage,
     6 \in 1..8, 7 \in 1..8, 6 # 7 DEF Placed

\* Counting down puts a received report among the collected ones.
LEMMA CountDownPlaces ==
  ASSUME Placed, NEW r \in Report, CountDown(r)
  PROVE  Placed' /\ Moves(r.conn, 7, 8)
<1> USE PoolAssumption
<1>1. r.conn \in Conn /\ r.conn \in Stage(7)
  BY StageTable DEF CountDown, Report, ConnsOf
<1>2. r.conn \notin ConnsOf(collectedStats)
  BY <1>1, StageTable, InOneStage, 7 \in 1..8, 8 \in 1..8, 7 # 8 DEF Placed
<1>3. TypeOK'
  BY DEF CountDown, Placed, TypeOK, acceptVars, workerVars
<1>4. Holding'
  BY DEF CountDown, Placed, Holding, acceptVars, workerVars
<1>5. Moves(r.conn, 7, 8)
  <2>1. Stage(7)' = Stage(7) \ {r.conn}
    BY StageTable DEF CountDown, Placed, NoTwice, OnePerConn, ConnsOf
  <2>2. Stage(8)' = Stage(8) \cup {r.conn}
    BY StageTable DEF CountDown, ConnsOf
  <2>3. \A u \in {1, 2, 3, 4, 5, 6} : Stage(u)' = Stage(u)
    BY StageKept DEF CountDown, acceptVars, workerVars
  <2>. QED
    BY <1>1, <2>1, <2>2, <2>3 DEF Moves
<1>6. NoTwice'
  <2>1. OnePerConn(collectedStats')
    BY <1>2 DEF CountDown, Placed, NoTwice, OnePerConn, ConnsOf
  <2>2. OnePerConn(received')
    BY DEF CountDown, Placed, NoTwice, OnePerConn
  <2>. QED
    BY <2>1, <2>2 DEF CountDown, Placed, NoTwice, acceptVars, workerVars
<1>. QED
  BY <1>1, <1>3, <1>4, <1>5, <1>6, MoveKeepsOneStage,
     7 \in 1..8, 8 \in 1..8, 7 # 8 DEF Placed

-----------------------------------------------------------------------------
(* The counter and the goroutines that wait for reports.                   *)

OpenStages ==
  (IF accPc = "enqueue" THEN Stage(3) ELSE {})
    \cup Stage(4) \cup Stage(5) \cup Stage(6) \cup Stage(7)

PoolInv == Placed /\ GaugeExact /\ ReadersBalance

\* The open connections are those of five stages, in every state in which
\* whoever is busy holds a connection.
LEMMA OpenByStage ==
  /\ Placed => Open = OpenStages
  /\ Placed' => Open' = OpenStages'
<1>1. ASSUME Placed PROVE Open = OpenStages
  <2>1. {job[w] : w \in Busy} = Stage(5)
    BY <1>1, PoolAssumption, StageTable DEF Placed, Holding, TypeOK, Busy
  <2>2. {r.conn : r \in Elements(done) \cup received} = Stage(6) \cup Stage(7)
    BY StageTable DEF ConnsOf
  <2>3. accPc = "enqueue" => Stage(3) = {accConn}
    BY <1>1, StageTable DEF Placed, Holding
  <2>4. Stage(4) = Elements(jobQueue)
    BY StageTable
  <2>. QED
    BY <2>1, <2>2, <2>3, <2>4 DEF Open, OpenStages
<1>2. ASSUME Placed' PROVE Open' = OpenStages'
  <2>1. {job'[w] : w \in Busy'} = Stage(5)'
    BY <1>2, PoolAssumption, StageTable DEF Placed, Holding, TypeOK, Busy
  <2>2. {r.conn : r \in Elements(done') \cup received'}
          = Stage(6)' \cup Stage(7)'
    BY StageTable DEF ConnsOf
  <2>3. accPc' = "enqueue" => Stage(3)' = {accConn'}
    BY <1>2, StageTable DEF Placed, Holding
  <2>4. Stage(4)' = Elements(jobQueue')
    BY StageTable
  <2>. QED
    BY <2>1, <2>2, <2>3, <2>4 DEF Open, OpenStages, Elements
<1>. QED
  BY <1>1, <1>2

\* There are finitely many open connections and busy workers.
LEMMA Finite ==
  ASSUME Placed
  PROVE  /\ IsFiniteSet(Open) /\ IsFiniteSet(Busy)
         /\ Cardinality(Busy) \in Nat
         /\ Len(jobQueue) \in Nat /\ Len(done) \in Nat
<1>1. Open \subseteq Conn
  <2>1. /\ Elements(jobQueue) \subseteq Conn
        /\ Elements(done) \subseteq Report
    BY ElementOfSeq, LenProperties DEF Placed, TypeOK, Elements
  <2>2. {r.conn : r \in Elements(done) \cup received} \subseteq Conn
    BY <2>1 DEF Placed, TypeOK, Report
  <2>3. {job[w] : w \in Busy} \subseteq Conn
    BY DEF Placed, TypeOK, Holding, Busy
  <2>4. accPc = "enqueue" => accConn \in Conn
    BY DEF Placed, TypeOK, Holding
  <2>. QED
    BY <2>1, <2>2, <2>3, <2>4 DEF Open
<1>2. Busy \subseteq Worker
  BY DEF Busy
<1>3. IsFiniteSet(Open) /\ IsFiniteSet(Busy)
  BY <1>1, <1>2, PoolAssumption, FS_Subset
<1>4. Cardinality(Busy) \in Nat
  BY <1>3, FS_CardinalityType
<1>. QED
  BY <1>3, <1>4, LenProperties DEF Placed, TypeOK

\* Every step keeps the counter in step with the open connections, and the
\* waiting goroutines in step with the reports to come.
LEMMA PoolStep == PoolInv /\ Next => PoolInv'
<1> SUFFICES ASSUME PoolInv, Next PROVE PoolInv'
  OBVIOUS
<1> USE PoolAssumption
<1>0. Placed /\ GaugeExact /\ ReadersBalance
  BY DEF PoolInv
<1>1. /\ Open = OpenStages /\ IsFiniteSet(Open) /\ IsFiniteSet(Busy)
      /\ Cardinality(Busy) \in Nat /\ Len(jobQueue) \in Nat /\ Len(done) \in Nat
      /\ readers \in Nat
  BY <1>0, OpenByStage, Finite DEF Placed, TypeOK
<1>2. ASSUME NEW c \in Conn, Arrive(c) PROVE PoolInv'
  <2>1. Placed' /\ Moves(c, 1, 2)
    BY <1>0, <1>2, ArrivePlaces
  <2>2. Open' = Open
    BY <1>1, <1>2, <2>1, OpenByStage DEF OpenStages, Moves, Arrive, acceptVars
  <2>3. GaugeExact' /\ ReadersBalance'
    BY <1>0, <1>2, <2>2
       DEF Arrive, GaugeExact, ReadersBalance, Busy, acceptVars, workerVars,
           counterVars
  <2>. QED
    BY <2>1, <2>3 DEF PoolInv
<1>3. CASE Accept
  <2>1. Placed' /\ Moves(Head(backlog), 2, 3)
    BY <1>0, <1>3, AcceptPlaces
  <2>2. Open' = Open
    BY <1>1, <1>3, <2>1, OpenByStage DEF OpenStages, Moves, Accept
  <2>3. GaugeExact' /\ ReadersBalance'
    BY <1>0, <1>3, <2>2
       DEF Accept, GaugeExact, ReadersBalance, Busy, workerVars, counterVars
  <2>. QED
    BY <2>1, <2>3 DEF PoolInv
<1>4. CASE Count
  <2>1. Placed' /\ Stays
    BY <1>0, <1>4, CountPlaces
  <2>2. accConn \in Conn /\ Stage(3) = {accConn}
    BY <1>0, <1>4, StageTable DEF Count, Placed, Holding, TypeOK
  <2>3. Open' = Open \cup {accConn}
    BY <1>1, <1>4, <2>1, <2>2, OpenByStage DEF OpenStages, Stays, Count
  <2>4. accConn \notin Open
    <3>1. \A t \in 1..8 : accConn \in Stage(t) => t = 3
      BY <1>0, <2>2, InOneStage, 3 \in 1..8 DEF Placed
    <3>. QED
      BY <1>1, <1>4, <3>1 DEF OpenStages, Count
  <2>5. Cardinality(Open') = Cardinality(Open) + 1
    BY <1>1, <2>3, <2>4, FS_AddElement
  <2>6. GaugeExact' /\ ReadersBalance'
    BY <1>0, <1>4, <2>5
       DEF Count, GaugeExact, ReadersBalance, Busy, workerVars
  <2>. QED
    BY <2>1, <2>6 DEF PoolInv
<1>5. CASE Enqueue
  <2>1. Placed' /\ accConn \in Conn /\ Moves(accConn, 3, 4)
    BY <1>0, <1>5, EnqueuePlaces
  <2>2. Stage(3)' = {}
    BY <1>5, StageTable DEF Enqueue
  <2>3. Open' = Open
    BY <1>1, <1>5, <2>1, <2>2, OpenByStage DEF OpenStages, Moves, Enqueue
  <2>4. Len(jobQueue') = Len(jobQueue) + 1
    BY <1>0, <1>5, <2>1, AppendAdds DEF Enqueue, Placed, TypeOK
  <2>5. GaugeExact' /\ ReadersBalance'
    BY <1>0, <1>1, <1>5, <2>3, <2>4
       DEF Enqueue, GaugeExact, ReadersBalance, Busy, workerVars, counterVars
  <2>. QED
    BY <2>1, <2>5 DEF PoolInv
<1>6. CASE Spawn
  <2>1. Placed' /\ Stays
    BY <1>0, <1>6, SpawnPlaces
  <2>2. Open' = Open
    BY <1>1, <1>6, <2>1, OpenByStage DEF OpenStages, Stays, Spawn
  <2>3. GaugeExact' /\ ReadersBalance'
    BY <1>0, <1>1, <1>6, <2>2
       DEF Spawn, GaugeExact, ReadersBalance, Busy, workerVars, counterVars
  <2>. QED
    BY <2>1, <2>3 DEF PoolInv
<1>7. ASSUME NEW w \in Worker, Take(w) PROVE PoolInv'
  <2>1. Placed' /\ Moves(Head(jobQueue), 4, 5)
    BY <1>0, <1>7, TakePlaces
  <2>2. Open' = Open
    BY <1>1, <1>7, <2>1, OpenByStage DEF OpenStages, Moves, Take, acceptVars
  <2>3. Busy' = Busy \cup {w} /\ w \notin Busy
    BY <1>0, <1>7 DEF Take, Busy, Placed, TypeOK
  <2>4. Cardinality(Busy') = Cardinality(Busy) + 1
    BY <1>1, <2>3, FS_AddElement
  <2>5. Len(jobQueue') = Len(jobQueue) - 1
    BY <1>0, <1>7, TailRemoves DEF Take, Placed, TypeOK
  <2>6. GaugeExact' /\ ReadersBalance'
    BY <1>0, <1>1, <1>7, <2>2, <2>4, <2>5
       DEF Take, GaugeExact, ReadersBalance, acceptVars, counterVars
  <2>. QED
    BY <2>1, <2>6 DEF PoolInv
<1>8. ASSUME NEW w \in Worker, Finish(w) PROVE PoolInv'
  <2>1. Placed' /\ Stays
    BY <1>0, <1>8, FinishPlaces
  <2>2. Open' = Open
    BY <1>1, <1>8, <2>1, OpenByStage DEF OpenStages, Stays, Finish, acceptVars
  <2>3. Busy' = Busy
    BY <1>0, <1>8 DEF Finish, Busy, Placed, TypeOK
  <2>4. GaugeExact' /\ ReadersBalance'
    BY <1>0, <1>8, <2>2, <2>3
       DEF Finish, GaugeExact, ReadersBalance, acceptVars, counterVars
  <2>. QED
    BY <2>1, <2>4 DEF PoolInv
<1>9. ASSUME NEW w \in Worker, SendReport(w) PROVE PoolInv'
  <2>1. Placed' /\ Moves(job[w], 5, 6)
    BY <1>0, <1>9, SendReportPlaces
  <2>2. Open' = Open
    BY <1>1, <1>9, <2>1, OpenByStage DEF OpenStages, Moves, SendReport, acceptVars
  <2>3. Busy' = Busy \ {w} /\ w \in Busy
    BY <1>0, <1>9 DEF SendReport, Busy, Placed, TypeOK
  <2>4. Cardinality(Busy') = Cardinality(Busy) - 1
    BY <1>1, <2>3, FS_RemoveElement
  <2>5. Len(done') = Len(done) + 1
    <3>1. [conn |-> job[w], worker |-> w] \in Report
      BY <1>0, <1>9, SendReportPlaces DEF Report
    <3>. QED
      BY <1>0, <1>9, <3>1, AppendAdds DEF SendReport, Placed, TypeOK
  <2>6. GaugeExact' /\ ReadersBalance'
    BY <1>0, <1>1, <1>9, <2>2, <2>4, <2>5
       DEF SendReport, GaugeExact, ReadersBalance, acceptVars, counterVars
  <2>. QED
    BY <2>1, <2>6 DEF PoolInv
<1>10. CASE Receive
  <2>1. Placed' /\ Moves(Head(done).conn, 6, 7)
    BY <1>0, <1>10, ReceivePlaces
  <2>2. Open' = Open
    BY <1>1, <1>10, <2>1, OpenByStage DEF OpenStages, Moves, Receive, acceptVars
  <2>3. Len(done') = Len(done) - 1
    BY <1>0, <1>10, TailRemoves DEF Receive, Placed, TypeOK
  <2>4. GaugeExact' /\ ReadersBalance'
    BY <1>0, <1>1, <1>10, <2>2, <2>3
       DEF Receive, GaugeExact, ReadersBalance, Busy, acceptVars, workerVars,
           counterVars
  <2>. QED
    BY <2>1, <2>4 DEF PoolInv
<1>11. ASSUME NEW r \in Report, CountDown(r) PROVE PoolInv'
  <2>1. Placed' /\ Moves(r.conn, 7, 8)
    BY <1>0, <1>11, CountDownPlaces
  <2>2. r.conn \in Conn /\ \A t \in 1..8 : r.conn \in Stage(t) => t = 7
    BY <1>0, <2>1, InOneStage, 7 \in 1..8 DEF Report, Moves, Placed
  <2>3. Open' = Open \ {r.conn} /\ r.conn \in Open
    BY <1>1, <1>11, <2>1, <2>2, OpenByStage
       DEF OpenStages, Moves, CountDown, acceptVars
  <2>4. Cardinality(Open') = Cardinality(Open) - 1
    BY <1>1, <2>3, FS_RemoveElement
  <2>5. GaugeExact' /\ ReadersBalance'
    BY <1>0, <1>11, <2>4
       DEF CountDown, GaugeExact, ReadersBalance, Busy, acceptVars, workerVars
  <2>. QED
    BY <2>1, <2>5 DEF PoolInv
<1>. QED
  BY <1>2, <1>3, <1>4, <1>5, <1>6, <1>7, <1>8, <1>9, <1>10, <1>11
     DEF Next, AcceptLoop, WorkerStep

\* The invariant holds before the first connection.
LEMMA PoolInit == Init => PoolInv
<1> SUFFICES ASSUME Init PROVE PoolInv
  OBVIOUS
<1> USE PoolAssumption
<1>1. /\ Elements(<<>>) = {} /\ NoRepeat(<<>>)
      /\ \A S : <<>> \in Seq(S) /\ Len(<<>>) = 0
  BY EmptySeq DEF Elements, NoRepeat
<1>2. TypeOK
  BY <1>1 DEF Init, TypeOK
<1>3. Holding
  BY DEF Init, Holding
<1>4. OneStage
  <2>1. Stage(1) = Conn /\ \A t \in {2, 3, 4, 5, 6, 7, 8} : Stage(t) = {}
    BY <1>1, StageTable DEF Init, ConnsOf
  <2>. QED
    BY <2>1, 1 \in 1..8 DEF OneStage
<1>5. NoTwice
  BY <1>1 DEF Init, NoTwice, OnePerConn
<1>6. Open = {} /\ Busy = {}
  BY <1>1 DEF Init, Open, Busy
<1>7. GaugeExact /\ ReadersBalance
  BY <1>1, <1>6, FS_EmptySet DEF Init, GaugeExact, ReadersBalance
<1>. QED
  BY <1>2, <1>3, <1>4, <1>5, <1>7 DEF PoolInv, Placed

\* A step that changes no variable keeps the invariant.
LEMMA PoolStutter == PoolInv /\ UNCHANGED vars => PoolInv'
<1> SUFFICES ASSUME PoolInv, UNCHANGED vars PROVE PoolInv'
  OBVIOUS
<1> USE DEF vars, acceptVars, workerVars, counterVars
<1>1. TypeOK' /\ Holding' /\ NoTwice'
  BY DEF PoolInv, Placed, TypeOK, Holding, NoTwice
<1>2. Stays
  <2>1. \A t \in {1, 2, 3, 4, 5, 6, 7, 8} : Stage(t)' = Stage(t)
    BY StageKept
  <2>. QED
    BY <2>1 DEF Stays
<1>3. OneStage'
  BY <1>2, StayKeepsOneStage DEF PoolInv, Placed
<1>4. GaugeExact' /\ ReadersBalance'
  BY DEF PoolInv, GaugeExact, ReadersBalance, Open, Busy, Elements
<1>. QED
  BY <1>1, <1>3, <1>4 DEF PoolInv, Placed

\* A connection that is in one stage, and there once, is in one place.
LEMMA OnePlace == Placed => EachConnOnce
<1> SUFFICES ASSUME Placed, NEW c \in Conn
             PROVE  Cardinality(Places(c)) = 1
  BY DEF EachConnOnce
<1> USE PoolAssumption
<1> DEFINE
  P1 == IF c \in fresh THEN {<<"fresh">>} ELSE {}
  P2 == {<<"backlog", i>> : i \in {j \in DOMAIN backlog : backlog[j] = c}}
  P3 == IF accConn = c THEN {<<"accepting">>} ELSE {}
  P4 == {<<"queue", i>> : i \in {j \in DOMAIN jobQueue : jobQueue[j] = c}}
  P5 == {<<"worker", w>> : w \in {v \in Worker : job[v] = c}}
  P6 == {<<"done", i>> : i \in {j \in DOMAIN done : done[j].conn = c}}
  P7 == {<<"received", r>> : r \in {q \in received : q.conn = c}}
  P8 == {<<"collected", r>> : r \in {q \in collectedStats : q.conn = c}}
  Alone(P, s) == IF c \in Stage(s) THEN \E x : P = {x} ELSE P = {}
<1>0. Places(c) = P1 \cup P2 \cup P3 \cup P4 \cup P5 \cup P6 \cup P7 \cup P8
  BY DEF Places
<1>1. Alone(P1, 1)
  BY StageTable
<1>2. Alone(P2, 2)
  <2>1. CASE c \in Stage(2)
    <3>1. PICK i \in DOMAIN backlog : backlog[i] = c
      BY <2>1, StageTable DEF Elements
    <3>2. \A j \in DOMAIN backlog : backlog[j] = c => j = i
      BY <3>1 DEF Placed, NoTwice, NoRepeat
    <3>3. P2 = {<<"backlog", i>>}
      BY <3>1, <3>2
    <3>. QED
      BY <2>1, <3>3
  <2>2. CASE c \notin Stage(2)
    BY <2>2, StageTable DEF Elements
  <2>. QED
    BY <2>1, <2>2
<1>3. Alone(P3, 3)
  BY StageTable
<1>4. Alone(P4, 4)
  <2>1. CASE c \in Stage(4)
    <3>1. PICK i \in DOMAIN jobQueue : jobQueue[i] = c
      BY <2>1, StageTable DEF Elements
    <3>2. \A j \in DOMAIN jobQueue : jobQueue[j] = c => j = i
      BY <3>1 DEF Placed, NoTwice, NoRepeat
    <3>3. P4 = {<<"queue", i>>}
      BY <3>1, <3>2
    <3>. QED
      BY <2>1, <3>3
  <2>2. CASE c \notin Stage(4)
    BY <2>2, StageTable DEF Elements
  <2>. QED
    BY <2>1, <2>2
<1>5. Alone(P5, 5)
  <2>1. CASE c \in Stage(5)
    <3>1. PICK w \in Worker : job[w] = c
      BY <2>1, StageTable
    <3>2. \A v \in Worker : job[v] = c => v = w
      BY <3>1 DEF Placed, NoTwice
    <3>3. P5 = {<<"worker", w>>}
      BY <3>1, <3>2
    <3>. QED
      BY <2>1, <3>3
  <2>2. CASE c \notin Stage(5)
    BY <2>2, StageTable
  <2>. QED
    BY <2>1, <2>2
<1>6. Alone(P6, 6)
  <2>1. CASE c \in Stage(6)
    <3>1. PICK i \in DOMAIN done : done[i].conn = c
      BY <2>1, StageTable DEF Elements, ConnsOf
    <3>2. \A j \in DOMAIN done : done[j].conn = c => j = i
      BY <3>1 DEF Placed, NoTwice, NoRepeat, OnePerConn, Elements
    <3>3. P6 = {<<"done", i>>}
      BY <3>1, <3>2
    <3>. QED
      BY <2>1, <3>3
  <2>2. CASE c \notin Stage(6)
    BY <2>2, StageTable DEF Elements, ConnsOf
  <2>. QED
    BY <2>1, <2>2
<1>7. Alone(P7, 7)
  <2>1. CASE c \in Stage(7)
    <3>1. PICK r \in received : r.conn = c
      BY <2>1, StageTable DEF ConnsOf
    <3>2. \A q \in received : q.conn = c => q = r
      BY <3>1 DEF Placed, NoTwice, OnePerConn
    <3>3. P7 = {<<"received", r>>}
      BY <3>1, <3>2
    <3>. QED
      BY <2>1, <3>3
  <2>2. CASE c \notin Stage(7)
    BY <2>2, StageTable DEF ConnsOf
  <2>. QED
    BY <2>1, <2>2
<1>8. Alone(P8, 8)
  <2>1. CASE c \in Stage(8)
    <3>1. PICK r \in collectedStats : r.conn = c
      BY <2>1, StageTable DEF ConnsOf
    <3>2. \A q \in collectedStats : q.conn = c => q = r
      BY <3>1 DEF Placed, NoTwice, OnePerConn
    <3>3. P8 = {<<"collected", r>>}
      BY <3>1, <3>2
    <3>. QED
      BY <2>1, <3>3
  <2>2. CASE c \notin Stage(8)
    BY <2>2, StageTable DEF ConnsOf
  <2>. QED
    BY <2>1, <2>2
<1>9. PICK s \in 1..8 : \A t \in 1..8 : c \in Stage(t) <=> t = s
  BY DEF Placed, OneStage
<1>10. \E x : Places(c) = {x}
  <2> HIDE DEF P1, P2, P3, P4, P5, P6, P7, P8
  <2>1. s \in {1, 2, 3, 4, 5, 6, 7, 8}
    BY <1>9
  <2>2. \A t \in {1, 2, 3, 4, 5, 6, 7, 8} : c \in Stage(t) <=> t = s
    BY <1>9
  <2>3. CASE s = 1
    <3>1. P2 = {} /\ P3 = {} /\ P4 = {} /\ P5 = {} /\ P6 = {}
          /\ P7 = {} /\ P8 = {}
      BY <2>2, <2>3, <1>2, <1>3, <1>4, <1>5, <1>6, <1>7, <1>8
    <3>. QED
      BY <1>0, <1>1, <2>2, <2>3, <3>1
  <2>4. CASE s = 2
    <3>1. P1 = {} /\ P3 = {} /\ P4 = {} /\ P5 = {} /\ P6 = {}
          /\ P7 = {} /\ P8 = {}
      BY <2>2, <2>4, <1>1, <1>3, <1>4, <1>5, <1>6, <1>7, <1>8
    <3>. QED
      BY <1>0, <1>2, <2>2, <2>4, <3>1
  <2>5. CASE s = 3
    <3>1. P1 = {} /\ P2 = {} /\ P4 = {} /\ P5 = {} /\ P6 = {}
          /\ P7 = {} /\ P8 = {}
      BY <2>2, <2>5, <1>1, <1>2, <1>4, <1>5, <1>6, <1>7, <1>8
    <3>. QED
      BY <1>0, <1>3, <2>2, <2>5, <3>1
  <2>6. CASE s = 4
    <3>1. P1 = {} /\ P2 = {} /\ P3 = {} /\ P5 = {} /\ P6 = {}
          /\ P7 = {} /\ P8 = {}
      BY <2>2, <2>6, <1>1, <1>2, <1>3, <1>5, <1>6, <1>7, <1>8
    <3>. QED
      BY <1>0, <1>4, <2>2, <2>6, <3>1
  <2>7. CASE s = 5
    <3>1. P1 = {} /\ P2 = {} /\ P3 = {} /\ P4 = {} /\ P6 = {}
          /\ P7 = {} /\ P8 = {}
      BY <2>2, <2>7, <1>1, <1>2, <1>3, <1>4, <1>6, <1>7, <1>8
    <3>. QED
      BY <1>0, <1>5, <2>2, <2>7, <3>1
  <2>8. CASE s = 6
    <3>1. P1 = {} /\ P2 = {} /\ P3 = {} /\ P4 = {} /\ P5 = {}
          /\ P7 = {} /\ P8 = {}
      BY <2>2, <2>8, <1>1, <1>2, <1>3, <1>4, <1>5, <1>7, <1>8
    <3>. QED
      BY <1>0, <1>6, <2>2, <2>8, <3>1
  <2>9. CASE s = 7
    <3>1. P1 = {} /\ P2 = {} /\ P3 = {} /\ P4 = {} /\ P5 = {}
          /\ P6 = {} /\ P8 = {}
      BY <2>2, <2>9, <1>1, <1>2, <1>3, <1>4, <1>5, <1>6, <1>8
    <3>. QED
      BY <1>0, <1>7, <2>2, <2>9, <3>1
  <2>10. CASE s = 8
    <3>1. P1 = {} /\ P2 = {} /\ P3 = {} /\ P4 = {} /\ P5 = {}
          /\ P6 = {} /\ P7 = {}
      BY <2>2, <2>10, <1>1, <1>2, <1>3, <1>4, <1>5, <1>6, <1>7
    <3>. QED
      BY <1>0, <1>8, <2>2, <2>10, <3>1
  <2>. QED
    BY <2>1, <2>3, <2>4, <2>5, <2>6, <2>7, <2>8, <2>9, <2>10
<1>. QED
  BY <1>10, FS_Singleton

-----------------------------------------------------------------------------
(* Theorems.                                                               *)

\* The invariant holds in every state of the accept loop and the pool.
THEOREM PoolInvariance == Spec => []PoolInv
  BY PoolInit, PoolStep, PoolStutter, PTL DEF Spec

\* The channels of main.go never hold more than their capacity, and every
\* connection and report is where its type allows it.
THEOREM PoolTypeCorrect == Spec => []TypeOK
  <1>1. PoolInv => TypeOK
    BY DEF PoolInv, Placed
  <1>. QED
    BY <1>1, PoolInvariance, PTL

\* No connection is lost, handled by two workers or reported twice, for any
\* number of connections and workers and any capacities (run and
\* timedProxyWorker in main.go).
THEOREM EachConnectionOnce == Spec => []EachConnOnce
  <1>1. PoolInv => EachConnOnce
    BY OnePlace DEF PoolInv
  <1>. QED
    BY <1>1, PoolInvariance, PTL

\* The counter printed as "Connections" is exact in every state, for any
\* number of workers and connections (run in main.go).
THEOREM GaugeIsExact == Spec => []GaugeExact
  <1>1. PoolInv => GaugeExact
    BY DEF PoolInv
  <1>. QED
    BY <1>1, PoolInvariance, PTL

\* There is a goroutine to receive each report that is or will be sent, so
\* that no worker waits for room in done for ever (run in main.go).
THEOREM ReportsHaveReaders == Spec => []ReadersBalance
  <1>1. PoolInv => ReadersBalance
    BY DEF PoolInv
  <1>. QED
    BY <1>1, PoolInvariance, PTL

=============================================================================
