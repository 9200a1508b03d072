---------------------------- MODULE BypassProofs ----------------------------
(* Proofs about BypassTunnel, for any number of chunks.                    *)
EXTENDS BypassTunnel, TLAPS

\* Everything the peer sent was passed on and it will send no more.
Drained(s) == end[s] # "open" /\ taken[s] = sent[s] /\ passed[s] = taken[s]

\* The worker's connections, and the goroutine it starts, follow its steps.
Lifecycle ==
  /\ handler \in {"dial", "refused"} <=> copier = "off"
  /\ handler \in {"copy", "wait"} => open = Peer
  /\ handler \in {"returned", "refused"} => open = {}

\* A goroutine that got past its copy without an error has drained it.
Progress ==
  /\ handler \in {"dial", "copy", "wait", "refused"} => "origin" \notin failed
  /\ handler = "wait" => Drained("origin")
  /\ copier \in {"off", "copy", "send"} => "client" \notin failed
  /\ copier = "send" => Drained("client")

\* Without an error only the rendezvous ends either goroutine.
Ending ==
  /\ handler = "returned" /\ "origin" \notin failed =>
       copier = "ended" /\ "client" \notin failed /\ Drained("origin")
  /\ copier = "ended" /\ "client" \notin failed =>
       handler = "returned" /\ "origin" \notin failed /\ Drained("client")

Inv == TypeOK /\ Lifecycle /\ Progress /\ Ending

\* The invariant holds in the beginning and every step of the worker, the
\* copier and the peers preserves it.
THEOREM TunnelInvariance == Spec => []Inv
  <1> USE ChunkAssumption
  <1>1. Init => Inv
    BY DEF Init, Inv, TypeOK, Lifecycle, Progress, Ending, Peer
  <1>2. Inv /\ [Next]_vars => Inv'
    <2> SUFFICES ASSUME Inv, [Next]_vars PROVE Inv'
      OBVIOUS
    <2>0. \A s \in Peer :
            /\ sent[s] \in Nat /\ taken[s] \in Nat /\ passed[s] \in Nat
            /\ Other(s) \in Peer /\ Other(s) # s
      BY DEF Inv, TypeOK, Peer, Other
    <2>1. CASE Dial
      BY <2>1 DEF Dial, Inv, TypeOK, Lifecycle, Progress, Ending, Drained, Peer
    <2>2. CASE DialFails
      BY <2>2 DEF DialFails, Inv, TypeOK, Lifecycle, Progress, Ending, Drained, Peer
    <2>3. ASSUME NEW s \in Peer, Read(s),
                 s = "origin" => handler = "copy",
                 s = "client" => copier = "copy"
          PROVE  Inv'
      <3>1. TypeOK'
        BY <2>0, <2>3 DEF Read, Inv, TypeOK
      <3>2. \A t \in Peer : Drained(t) => Drained(t)'
        BY <2>0, <2>3 DEF Read, Drained, Inv, TypeOK
      <3>3. QED
        BY <2>3, <3>1, <3>2 DEF Read, Inv, Lifecycle, Progress, Ending, Peer
    <2>4. ASSUME NEW s \in Peer, Write(s),
                 s = "origin" => handler = "copy",
                 s = "client" => copier = "copy"
          PROVE  Inv'
      <3>1. TypeOK'
        BY <2>0, <2>4 DEF Write, Inv, TypeOK
      <3>2. \A t \in Peer : Drained(t) => Drained(t)'
        BY <2>0, <2>4 DEF Write, Drained, Inv, TypeOK
      <3>3. QED
        BY <2>4, <3>1, <3>2 DEF Write, Inv, Lifecycle, Progress, Ending, Peer
    <2>5. CASE HandlerDone
      BY <2>5 DEF HandlerDone, AtEOF, Inv, TypeOK, Lifecycle, Progress, Ending,
                  Drained, Peer
    <2>6. CASE HandlerFails
      BY <2>6 DEF HandlerFails, Inv, TypeOK, Lifecycle, Progress, Ending,
                  Drained, Peer
    <2>7. CASE Rendezvous
      BY <2>7 DEF Rendezvous, Inv, TypeOK, Lifecycle, Progress, Ending,
                  Drained, Peer
    <2>8. CASE CopierDone
      BY <2>8 DEF CopierDone, AtEOF, Inv, TypeOK, Lifecycle, Progress, Ending,
                  Drained, Peer
    <2>9. CASE CopierFails
      BY <2>9 DEF CopierFails, Inv, TypeOK, Lifecycle, Progress, Ending,
                  Drained, Peer
    <2>10. ASSUME NEW s \in Peer, Send(s) PROVE Inv'
      <3>1. TypeOK'
        BY <2>0, <2>10 DEF Send, Inv, TypeOK
      <3>2. \A t \in Peer : Drained(t) => Drained(t)'
        BY <2>0, <2>10 DEF Send, Drained, Inv, TypeOK
      <3>3. QED
        BY <2>10, <3>1, <3>2 DEF Send, Inv, Lifecycle, Progress, Ending, Peer
    <2>11. ASSUME NEW s \in Peer, NEW how, Finish(s, how) PROVE Inv'
      <3>1. TypeOK'
        BY <2>0, <2>11 DEF Finish, Inv, TypeOK
      <3>2. \A t \in Peer : Drained(t) => Drained(t)'
        BY <2>0, <2>11 DEF Finish, Drained, Inv, TypeOK
      <3>3. QED
        BY <2>11, <3>1, <3>2 DEF Finish, Inv, Lifecycle, Progress, Ending, Peer
    <2>12. CASE UNCHANGED vars
      BY <2>12 DEF vars, Inv, TypeOK, Lifecycle, Progress, Ending, Drained
    <2>13. CASE HandlerStep
      BY <2>1, <2>2, <2>3, <2>4, <2>5, <2>6, <2>7, <2>13
         DEF HandlerStep, HandlerCopies, Peer
    <2>14. CASE CopierStep
      BY <2>3, <2>4, <2>8, <2>9, <2>14 DEF CopierStep, CopierCopies, Peer
    <2>15. CASE PeerStep
      BY <2>10, <2>11, <2>15 DEF PeerStep
    <2>16. QED
      BY <2>12, <2>13, <2>14, <2>15 DEF Next
  <1>3. QED
    BY <1>1, <1>2, PTL DEF Spec

\* Type correctness: in particular a goroutine holds at most one chunk.
THEOREM TunnelTypeCorrect == Spec => []TypeOK
  BY TunnelInvariance, PTL DEF Inv

\* A tunnel that ended without an error has passed on everything.
THEOREM EverythingForwarded == Spec => []AllForwarded
  <1>1. Inv => AllForwarded
    BY DEF Inv, Ending, Drained, AllForwarded, Peer
  <1>2. QED
    BY <1>1, TunnelInvariance, PTL

\* A goroutine is left behind only after the other one failed.
THEOREM OnlyFailuresLeave == Spec => []LeftBehind
  <1>1. Inv => LeftBehind
    BY DEF Inv, TypeOK, Lifecycle, Progress, Ending, Drained, LeftBehind,
           WorkerLeft, CopierLeft, Peer
  <1>2. QED
    BY <1>1, TunnelInvariance, PTL

=============================================================================
