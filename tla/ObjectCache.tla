---------------------------- MODULE ObjectCache ----------------------------
(***************************************************************************)
(* What the interface Cache of cache/cacheInterface.go promises a caller   *)
(* of Get, whatever stores the objects: the answer is an object somebody   *)
(* has offered for that key, or a failure, and it comes once.  Nothing is  *)
(* said about how long an object is kept; the cache may forget it.         *)
(*                                                                         *)
(* Objects are offered by a Put or by the initializer of some Get.         *)
(***************************************************************************)

CONSTANTS Caller, Key, Data, EmptyData, NilData, NoKey, NoObj

VARIABLES
  asked,    \* the key each Get was called with
  offered,  \* the objects handed to the cache
  state,    \* "pending", "answered" or "failed"
  got       \* the object returned

cvars == <<asked, offered, state, got>>

Object == [key : Key, data : Data]

Init ==
  /\ asked = [c \in Caller |-> NoKey]
  /\ offered = {}
  /\ state = [c \in Caller |-> "pending"]
  /\ got = [c \in Caller |-> NoObj]

\* Storing an object may lose an empty body.
Copies(o) ==
  {o} \cup {p \in {[key |-> o.key, data |-> NilData]} : o.data = EmptyData}

\* What a Get for k may return when the objects in objs have been offered.
Answers(k, objs) == UNION {Copies(o) : o \in {x \in objs : x.key = k}}

Return(c, o) ==
  /\ state' = [state EXCEPT ![c] = "answered"]
  /\ got' = [got EXCEPT ![c] = o]

\* A call of Get; it may find an object at once.
Ask(c, k) ==
  /\ asked[c] = NoKey
  /\ asked' = [asked EXCEPT ![c] = k]
  /\ \/ UNCHANGED <<state, got>>
     \/ \E o \in Answers(k, offered) : Return(c, o)
  /\ UNCHANGED offered

Waiting(c) == asked[c] # NoKey /\ state[c] = "pending"

Answer(c) ==
  /\ Waiting(c)
  /\ \E o \in Answers(asked[c], offered) : Return(c, o)
  /\ UNCHANGED <<asked, offered>>

Fail(c) ==
  /\ Waiting(c)
  /\ state' = [state EXCEPT ![c] = "failed"]
  /\ UNCHANGED <<asked, offered, got>>

Offer(o) ==
  /\ offered' = offered \cup {o}
  /\ UNCHANGED <<asked, state, got>>

\* A Get answered with the object its own initializer offers.
OfferAndAnswer(c, o) ==
  /\ Waiting(c)
  /\ o.key = asked[c]
  /\ offered' = offered \cup {o}
  /\ Return(c, o)
  /\ UNCHANGED asked

Next ==
  \/ \E c \in Caller :
       \/ \E k \in Key : Ask(c, k)
       \/ Answer(c)
       \/ Fail(c)
       \/ \E o \in Object : OfferAndAnswer(c, o)
  \/ \E o \in Object : Offer(o)

Spec == Init /\ [][Next]_cvars

=============================================================================
