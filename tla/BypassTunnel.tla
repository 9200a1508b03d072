---------------------------- MODULE BypassTunnel ----------------------------
(***************************************************************************)
(* forwardConnection of main.go: with --bypass a worker joins the client's *)
(* connection to one it dials, and copies in both directions until both    *)
(* have ended.  The worker's own goroutine (handler) copies from the       *)
(* origin to the client, a second one (copier) from the client to the      *)
(* origin; they meet on the unbuffered channel "ready".                    *)
(*                                                                         *)
(* One tunnel is modelled: tunnels share nothing.  What the two peers send *)
(* is a number of chunks.  TCP is external: a peer may shut down its half, *)
(* close or reset its end at any time, and it keeps reading while it is    *)
(* open, so that a write does not block for ever.                          *)
(***************************************************************************)
EXTENDS Naturals

CONSTANT MaxChunks  \* bound on what a peer sends

ASSUME ChunkAssumption == MaxChunks \in Nat

VARIABLES
  handler,  \* the worker in forwardConnection
  copier,   \* the goroutine it starts
  end,      \* each peer's end of its connection
  open,     \* the ends the proxy holds: conn and targetConn
  sent,     \* chunks each peer has sent
  taken,    \* chunks the proxy has read from it
  passed,   \* chunks the proxy has written on to the other peer
  failed    \* the peers whose chunks were not all copied: err # nil

vars == <<handler, copier, end, open, sent, taken, passed, failed>>

Peer == {"client", "origin"}
Other(s) == IF s = "client" THEN "origin" ELSE "client"

TypeOK ==
  /\ handler \in {"dial", "copy", "wait", "returned", "refused"}
  /\ copier \in {"off", "copy", "send", "ended"}
  /\ end \in [Peer -> {"open", "fin", "closed", "reset"}]
  /\ open \subseteq Peer
  /\ sent \in [Peer -> 0..MaxChunks]
  /\ taken \in [Peer -> 0..MaxChunks]
  /\ passed \in [Peer -> 0..MaxChunks]
  /\ \A s \in Peer :
       taken[s] <= sent[s] /\ taken[s] \in {passed[s], passed[s] + 1}
  /\ failed \subseteq Peer

Init ==
  /\ handler = "dial"
  /\ copier = "off"
  /\ end = [s \in Peer |-> "open"]
  /\ open = {"client"}
  /\ sent = [s \in Peer |-> 0]
  /\ taken = [s \in Peer |-> 0]
  /\ passed = [s \in Peer |-> 0]
  /\ failed = {}

-----------------------------------------------------------------------------
(* io.Copy from the connection of peer s to that of the other one.         *)

\* Fault: the next chunk is read over the one still in hand.
ReadOver(s) ==
  /\ s \in open /\ end[s] # "reset"
  /\ taken[s] < sent[s]
  /\ taken' = [taken EXCEPT ![s] = @ + 1]
  /\ UNCHANGED <<handler, copier, end, open, sent, passed, failed>>

Read(s) ==
  /\ passed[s] = taken[s]
  /\ s \in open /\ end[s] # "reset"
  /\ taken[s] < sent[s]
  /\ taken' = [taken EXCEPT ![s] = @ + 1]
  /\ UNCHANGED <<handler, copier, end, open, sent, passed, failed>>

\* A peer that has closed answers with a reset, which comes sooner or later.
Write(s) ==
  LET o == Other(s)
  IN /\ passed[s] < taken[s]
     /\ o \in open /\ end[o] # "reset"
     /\ passed' = [passed EXCEPT ![s] = @ + 1]
     /\ \/ UNCHANGED end
        \/ end[o] = "closed" /\ end' = [end EXCEPT ![o] = "reset"]
     /\ UNCHANGED <<handler, copier, open, sent, taken, failed>>

\* The peer's last chunk has been read and its end of file comes.
AtEOF(s) ==
  /\ passed[s] = taken[s]
  /\ s \in open /\ end[s] \in {"fin", "closed"}
  /\ taken[s] = sent[s]

Gone(s) == s \notin open \/ end[s] = "reset"

\* Fault: an error of a write is not noticed.
ReadFails(s) == passed[s] = taken[s] /\ Gone(s)

\* The next read, or the write of the chunk in hand, fails.
CopyFails(s) == IF passed[s] = taken[s] THEN Gone(s) ELSE Gone(Other(s))

-----------------------------------------------------------------------------
(* The worker.                                                             *)

DialFails ==
  /\ handler = "dial"
  /\ handler' = "refused"
  /\ open' = {}
  /\ UNCHANGED <<copier, end, sent, taken, passed, failed>>

Dial ==
  /\ handler = "dial"
  /\ handler' = "copy"
  /\ open' = Peer
  /\ copier' = "copy"
  /\ UNCHANGED <<end, sent, taken, passed, failed>>

HandlerCopies ==
  handler = "copy" /\ (Read("origin") \/ Write("origin"))

\* Fault: the worker does not wait for the copier.
HandlerDoneAtOnce ==
  /\ handler = "copy" /\ AtEOF("origin")
  /\ handler' = "returned"
  /\ open' = {}
  /\ UNCHANGED <<copier, end, sent, taken, passed, failed>>

HandlerDone ==
  /\ handler = "copy" /\ AtEOF("origin")
  /\ handler' = "wait"
  /\ UNCHANGED <<copier, end, open, sent, taken, passed, failed>>

\* The deferred calls close both connections.
HandlerFails ==
  /\ handler = "copy" /\ CopyFails("origin")
  /\ handler' = "returned"
  /\ open' = {}
  /\ failed' = failed \cup {"origin"}
  /\ UNCHANGED <<copier, end, sent, taken, passed>>

\* "ready <- struct{}{}" and "<-ready"; the worker returns.
Rendezvous ==
  /\ handler = "wait" /\ copier = "send"
  /\ handler' = "returned"
  /\ copier' = "ended"
  /\ open' = {}
  /\ UNCHANGED <<end, sent, taken, passed, failed>>

-----------------------------------------------------------------------------
(* The copier.                                                             *)

CopierCopies ==
  copier = "copy" /\ (Read("client") \/ Write("client"))

\* Fault: the copier ends without sending on ready.
CopierDoneSilently ==
  /\ copier = "copy" /\ AtEOF("client")
  /\ copier' = "ended"
  /\ UNCHANGED <<handler, end, open, sent, taken, passed, failed>>

CopierDone ==
  /\ copier = "copy" /\ AtEOF("client")
  /\ copier' = "send"
  /\ UNCHANGED <<handler, end, open, sent, taken, passed, failed>>

CopierFails ==
  /\ copier = "copy" /\ CopyFails("client")
  /\ copier' = "ended"
  /\ failed' = failed \cup {"client"}
  /\ UNCHANGED <<handler, end, open, sent, taken, passed>>

-----------------------------------------------------------------------------
(* The peers.                                                              *)

Connected(s) == s = "client" \/ handler \notin {"dial", "refused"}

Send(s) ==
  /\ Connected(s)
  /\ end[s] = "open" /\ sent[s] < MaxChunks
  /\ sent' = [sent EXCEPT ![s] = @ + 1]
  /\ UNCHANGED <<handler, copier, end, open, taken, passed, failed>>

Finish(s, how) ==
  /\ Connected(s)
  /\ \/ end[s] = "open" /\ how \in {"fin", "closed", "reset"}
     \/ end[s] = "fin" /\ how \in {"closed", "reset"}
     \/ end[s] = "closed" /\ how = "reset"
  /\ end' = [end EXCEPT ![s] = how]
  /\ UNCHANGED <<handler, copier, open, sent, taken, passed, failed>>

-----------------------------------------------------------------------------
HandlerStep ==
  Dial \/ DialFails \/ HandlerCopies \/ HandlerDone \/ HandlerFails
    \/ Rendezvous

CopierStep == CopierCopies \/ CopierDone \/ CopierFails

PeerStep ==
  \E s \in Peer :
    Send(s) \/ \E how \in {"fin", "closed", "reset"} : Finish(s, how)

Next == HandlerStep \/ CopierStep \/ PeerStep

Spec == Init /\ [][Next]_vars

\* The scheduler runs both goroutines and the dial has a timeout; nothing
\* is assumed of the peers.
FairSpec == Spec /\ WF_vars(HandlerStep) /\ WF_vars(CopierStep)

-----------------------------------------------------------------------------
(* Properties.                                                             *)

\* A tunnel that ended without an error has passed on everything both peers
\* ever sent: whichever of them finishes first, the other direction is
\* copied to its end before the connections are closed, and a chunk is
\* never in a goroutine's hands when they are (forwardConnection).
AllForwarded ==
  handler = "returned" /\ failed = {} =>
    \A s \in Peer : end[s] # "open" /\ passed[s] = sent[s]

WorkerLeft == handler = "wait" /\ copier = "ended"
CopierLeft == handler = "returned" /\ copier = "send"

\* A goroutine is left behind in one of two ways only: the worker waits for
\* ready although the copier has failed, after the origin had ended
\* normally, with both connections open; or the copier offers ready
\* although the worker has failed, after the client had ended normally
\* (the two returns before ready in forwardConnection).
LeftBehind ==
  /\ WorkerLeft =>
       failed = {"client"} /\ open = Peer /\ end["origin"] # "open"
  /\ CopierLeft =>
       failed = {"origin"} /\ open = {} /\ end["client"] # "open"

\* Once both peers have finished, however they did and whatever was under
\* way, both goroutines end or, after a failure, one is left behind as
\* LeftBehind says: none goes on copying, and no two wait for each other.
\* A peer that has only shut down its half is taken to go on reading.
EventuallyEnds ==
  (\A s \in Peer : end[s] # "open") ~>
    \/ handler \in {"returned", "refused"} /\ copier \in {"off", "ended"}
    \/ WorkerLeft
    \/ CopierLeft

=============================================================================
