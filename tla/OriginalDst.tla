---------------------------- MODULE OriginalDst ----------------------------
(***************************************************************************)
(* What a worker is promised by getOriginalTargetFromConn, however the     *)
(* hooks of proxy.c keep track of connections: a connection that reaches   *)
(* the proxy is asked about once, and the answer is the destination the    *)
(* client had passed to connect(), or none if that was not recorded.  Only *)
(* the end of the proxy takes a connection away unanswered.                *)
(***************************************************************************)

CONSTANTS
  Sock, Dst, NoDst,
  Exact   \* does a source port identify a connection?

VARIABLES
  dst,       \* the destination a socket asked for
  recorded,  \* was it recorded when the connection was established?
  query,     \* "none", "waiting", "answered" or "lost"
  answer     \* what the worker was told

dvars == <<dst, recorded, query, answer>>

Init ==
  /\ dst = [s \in Sock |-> NoDst]
  /\ recorded = [s \in Sock |-> FALSE]
  /\ query = [s \in Sock |-> "none"]
  /\ answer = [s \in Sock |-> NoDst]

Connect(s, d) ==
  /\ dst[s] = NoDst
  /\ dst' = [dst EXCEPT ![s] = d]
  /\ UNCHANGED <<recorded, query, answer>>

\* The connection is established with the proxy.
Arrive(s, r) ==
  /\ dst[s] # NoDst
  /\ query[s] = "none"
  /\ recorded' = [recorded EXCEPT ![s] = r]
  /\ query' = [query EXCEPT ![s] = "waiting"]
  /\ UNCHANGED <<dst, answer>>

\* Without Exact an answer is at least some client's destination.
Answers(s) ==
  IF Exact THEN {IF recorded[s] THEN dst[s] ELSE NoDst}
  ELSE {NoDst} \cup {dst[t] : t \in Sock}

Answer(s) ==
  /\ query[s] = "waiting"
  /\ query' = [query EXCEPT ![s] = "answered"]
  /\ \E a \in Answers(s) : answer' = [answer EXCEPT ![s] = a]
  /\ UNCHANGED <<dst, recorded>>

\* The proxy ends.
LoseAll ==
  /\ query' = [s \in Sock |-> IF query[s] = "none" THEN "none" ELSE "lost"]
  /\ UNCHANGED <<dst, recorded, answer>>

Next ==
  \/ \E s \in Sock :
       \/ \E d \in Dst : Connect(s, d)
       \/ \E r \in BOOLEAN : Arrive(s, r)
       \/ Answer(s)
  \/ LoseAll

Spec == Init /\ [][Next]_dvars

=============================================================================
