-------------------------- MODULE MemcachedProofs --------------------------
(***************************************************************************)
(* MemcachedClient implements ObjectCache, for any callers, keys and       *)
(* contents and whatever the server does.                                  *)
(***************************************************************************)
EXTENDS MemcachedClient, TLAPS

\* An entry of the server is the encoding of an object made for its key.
EntriesMade ==
  \A k \in Key :
    store[k] # Absent => \E o \in made : o.key = k /\ store[k] = serializeObj(o)

\* An object on its way to the server was made if it is a proper one, and
\* that of a Get is, and has the key of the Get.
SetsMade ==
  \A c \in Caller :
    callPc[c] = "set" =>
      /\ putting[c] \in Object => putting[c] \in made
      /\ callKey[c] # NoKey =>
           putting[c] \in Object /\ putting[c].key = callKey[c]

\* A Get that runs has its key; a call that has not begun has none.
CallsKeyed ==
  \A c \in Caller :
    /\ callPc[c] \in {"initialize", "initializer"} => callKey[c] \in Key
    /\ callPc[c] = "idle" => callKey[c] = NoKey

\* A call that has not returned has no result.
CallsOpen ==
  \A c \in Caller : callPc[c] # "returned" => result[c].obj = NoObj

MemInv == MemTypeOK /\ EntriesMade /\ SetsMade /\ CallsKeyed /\ CallsOpen

-----------------------------------------------------------------------------
\* A lookup returns a decoded object.
LEMMA LookupTyped ==
  ASSUME MemTypeOK, NEW k \in Key, store[k] # Absent
  PROVE  get(k) \in Decoded
<1>1. store[k] \in Serialized
  BY DEF MemTypeOK
<1>. QED
  BY <1>1 DEF get, deserializeObj, Serialized, Decoded

\* What set accepts is a proper object, and its encoding is an entry.
LEMMA AcceptedIsObject ==
  ASSUME NEW o \in Decoded \cup {NoObj}, Invalid(o) = "nil"
  PROVE  o \in Object /\ o.key \in Key /\ serializeObj(o) \in Serialized
<1>1. o # NoObj /\ o.data # NilData
  BY DEF Invalid
<1>2. o \in Object
  BY <1>1 DEF Decoded, Object
<1>. QED
  BY <1>2 DEF Object, serializeObj, Serialized

\* Storing an object that was made keeps the entries.
LEMMA StoringKeepsEntries ==
  ASSUME MemInv, NEW o \in made, o.key \in Key,
         serializeObj(o) \in Serialized,
         store' = Stored(o), made' = made
  PROVE  EntriesMade' /\ store' \in [Key -> Serialized \cup {Absent}]
<1>1. store' = [store EXCEPT ![o.key] = serializeObj(o)]
  BY DEF Stored
<1>2. store \in [Key -> Serialized \cup {Absent}]
  BY DEF MemInv, MemTypeOK
<1>3. store'[o.key] = serializeObj(o)
  BY <1>1, <1>2
<1>4. ASSUME NEW k \in Key, store'[k] # Absent
      PROVE  \E x \in made' : x.key = k /\ store'[k] = serializeObj(x)
  <2>1. CASE k = o.key
    BY <1>3, <2>1
  <2>2. CASE k # o.key
    <3>1. store'[k] = store[k]
      BY <1>1, <1>2, <2>2
    <3>2. PICK x \in made : x.key = k /\ store[k] = serializeObj(x)
      BY <1>4, <3>1 DEF MemInv, EntriesMade
    <3>. QED
      BY <3>1, <3>2
  <2>. QED
    BY <2>1, <2>2
<1>5. EntriesMade'
  BY <1>4 DEF EntriesMade, serializeObj
<1>6. store' \in [Key -> Serialized \cup {Absent}]
  BY <1>1, <1>2
<1>. QED
  BY <1>5, <1>6

\* A call that ends keeps what is said about all calls.
LEMMA ReturnKeepsCalls ==
  ASSUME MemInv, NEW c \in Caller, NEW o \in Decoded \cup {NoObj},
         NEW e \in Errors, Return(c, o, e),
         callKey' = callKey \/ (\E k \in Key : callKey' = [callKey EXCEPT ![c] = k]),
         putting' = putting, made' = made
  PROVE  /\ callPc' \in [Caller -> {"idle", "initialize", "initializer", "set",
                                    "returned"}]
         /\ result' \in [Caller -> [obj : Decoded \cup {NoObj}, err : Errors]]
         /\ SetsMade' /\ CallsKeyed' /\ CallsOpen'
<1>1. /\ callPc' = [callPc EXCEPT ![c] = "returned"]
      /\ result' = [result EXCEPT ![c] = [obj |-> o, err |-> e]]
  BY DEF Return
<1>2. [obj |-> o, err |-> e] \in [obj : Decoded \cup {NoObj}, err : Errors]
  OBVIOUS
<1>3. /\ callPc' \in [Caller -> {"idle", "initialize", "initializer", "set",
                                 "returned"}]
      /\ result' \in [Caller -> [obj : Decoded \cup {NoObj}, err : Errors]]
  BY <1>1, <1>2 DEF MemInv, MemTypeOK
<1>4. \A d \in Caller \ {c} : /\ callPc'[d] = callPc[d] /\ result'[d] = result[d]
                              /\ callKey'[d] = callKey[d]
  BY <1>1 DEF MemInv, MemTypeOK
<1>5. callPc'[c] = "returned"
  BY <1>1 DEF MemInv, MemTypeOK
<1>6. SetsMade'
  BY <1>4, <1>5 DEF MemInv, SetsMade
<1>7. CallsKeyed' /\ CallsOpen'
  BY <1>4, <1>5 DEF MemInv, CallsKeyed, CallsOpen
<1>. QED
  BY <1>3, <1>6, <1>7

-----------------------------------------------------------------------------
\* Every step of a call and of the server keeps the invariant.
LEMMA MemStep == MemInv /\ MemNext => MemInv'
<1> SUFFICES ASSUME MemInv, MemNext PROVE MemInv'
  OBVIOUS
<1> USE MemDataAssumption, MemKeyAssumption
<1>1. ASSUME NEW c \in Caller, NEW k \in Key, NEW given \in BOOLEAN,
             Get(c, k, given)
      PROVE  MemInv'
  <2>1. /\ callKey' = [callKey EXCEPT ![c] = k]
        /\ callKey' \in [Caller -> Key \cup {NoKey}]
        /\ initializer' \in [Caller -> BOOLEAN]
        /\ store' = store /\ up' = up /\ putting' = putting /\ made' = made
    BY <1>1 DEF Get, MemInv, MemTypeOK
  <2>2. CASE Found(k)
    <3>1. Return(c, get(k), "nil") /\ get(k) \in Decoded /\ "nil" \in Errors
      BY <1>1, <2>2, LookupTyped DEF Get, Found, MemInv, Errors
    <3>2. /\ callPc' \in [Caller -> {"idle", "initialize", "initializer", "set",
                                     "returned"}]
          /\ result' \in [Caller -> [obj : Decoded \cup {NoObj}, err : Errors]]
          /\ SetsMade' /\ CallsKeyed' /\ CallsOpen'
      BY <2>1, <3>1, ReturnKeepsCalls
    <3>. QED
      BY <2>1, <3>2 DEF MemInv, MemTypeOK, EntriesMade
  <2>3. CASE ~ Found(k)
    <3>1. callPc' = [callPc EXCEPT ![c] = "initialize"] /\ result' = result
          /\ callPc[c] = "idle"
      BY <1>1, <2>3 DEF Get
    <3>2. MemTypeOK' /\ EntriesMade'
      BY <2>1, <3>1 DEF MemInv, MemTypeOK, EntriesMade
    <3>3. SetsMade' /\ CallsKeyed' /\ CallsOpen'
      BY <2>1, <3>1 DEF MemInv, MemTypeOK, SetsMade, CallsKeyed, CallsOpen
    <3>. QED
      BY <3>2, <3>3 DEF MemInv
  <2>. QED
    BY <2>2, <2>3
<1>2. ASSUME NEW c \in Caller, NEW e \in Errors, Return(c, NoObj, e),
             UNCHANGED <<up, callKey, initializer, putting, made>>,
             EntriesMade', store' \in [Key -> Serialized \cup {Absent}]
      PROVE  MemInv'
  <2>1. /\ callPc' \in [Caller -> {"idle", "initialize", "initializer", "set",
                                   "returned"}]
        /\ result' \in [Caller -> [obj : Decoded \cup {NoObj}, err : Errors]]
        /\ SetsMade' /\ CallsKeyed' /\ CallsOpen'
    BY <1>2, ReturnKeepsCalls
  <2>. QED
    BY <1>2, <2>1 DEF MemInv, MemTypeOK
<1>3. ASSUME NEW c \in Caller,
             InitializerNil(c) \/ InitializerFails(c) \/ SetRejects(c)
      PROVE  MemInv'
  <2>1. /\ \E e \in Errors : Return(c, NoObj, e)
        /\ UNCHANGED <<store, up, callKey, initializer, putting, made>>
    BY <1>3 DEF InitializerNil, InitializerFails, SetRejects, Invalid, Errors
  <2>2. EntriesMade' /\ store' \in [Key -> Serialized \cup {Absent}]
    BY <2>1 DEF MemInv, MemTypeOK, EntriesMade
  <2>. QED
    BY <1>2, <2>1, <2>2
<1>4. ASSUME NEW c \in Caller, DoubleCheck(c) PROVE MemInv'
  <2>1. /\ callPc[c] = "initialize" /\ callKey[c] \in Key
        /\ UNCHANGED <<store, up, callKey, initializer, putting, made>>
    BY <1>4 DEF DoubleCheck, MemInv, CallsKeyed
  <2>2. CASE Found(callKey[c])
    <3>1. /\ Return(c, get(callKey[c]), "nil")
          /\ get(callKey[c]) \in Decoded /\ "nil" \in Errors
      BY <1>4, <2>1, <2>2, LookupTyped DEF DoubleCheck, Found, MemInv, Errors
    <3>2. /\ callPc' \in [Caller -> {"idle", "initialize", "initializer", "set",
                                     "returned"}]
          /\ result' \in [Caller -> [obj : Decoded \cup {NoObj}, err : Errors]]
          /\ SetsMade' /\ CallsKeyed' /\ CallsOpen'
      BY <2>1, <3>1, ReturnKeepsCalls
    <3>. QED
      BY <2>1, <3>2 DEF MemInv, MemTypeOK, EntriesMade
  <2>3. CASE ~ Found(callKey[c])
    BY <1>4, <2>1, <2>3
       DEF DoubleCheck, MemInv, MemTypeOK, EntriesMade, SetsMade, CallsKeyed,
           CallsOpen
  <2>. QED
    BY <2>2, <2>3
<1>5. ASSUME NEW c \in Caller, NEW o \in Object, o.key = callKey[c],
             InitializerReturns(c, o)
      PROVE  MemInv'
  <2>1. o \in Decoded
    BY DEF Object, Decoded
  <2>2. MemTypeOK' /\ EntriesMade'
    BY <1>5, <2>1 DEF InitializerReturns, MemInv, MemTypeOK, EntriesMade
  <2>3. SetsMade' /\ CallsKeyed' /\ CallsOpen'
    BY <1>5 DEF InitializerReturns, MemInv, MemTypeOK, SetsMade, CallsKeyed,
                CallsOpen
  <2>. QED
    BY <2>2, <2>3 DEF MemInv
<1>6. ASSUME NEW c \in Caller, NEW o \in Decoded \cup {NoObj}, Put(c, o)
      PROVE  MemInv'
  <2>1. MemTypeOK' /\ EntriesMade'
    BY <1>6 DEF Put, MemInv, MemTypeOK, EntriesMade
  <2>2. SetsMade' /\ CallsKeyed' /\ CallsOpen'
    BY <1>6 DEF Put, MemInv, MemTypeOK, SetsMade, CallsKeyed, CallsOpen
  <2>. QED
    BY <2>1, <2>2 DEF MemInv
<1>7. ASSUME NEW c \in Caller, callPc[c] = "set", Invalid(putting[c]) = "nil",
             store' = Stored(putting[c]), made' = made
      PROVE  EntriesMade' /\ store' \in [Key -> Serialized \cup {Absent}]
  <2>1. /\ putting[c] \in Object /\ putting[c].key \in Key
        /\ serializeObj(putting[c]) \in Serialized
    BY <1>7, AcceptedIsObject DEF MemInv, MemTypeOK
  <2>2. putting[c] \in made
    BY <1>7, <2>1 DEF MemInv, SetsMade
  <2>. QED
    BY <1>7, <2>1, <2>2, StoringKeepsEntries
<1>8. ASSUME NEW c \in Caller, SetStores(c) PROVE MemInv'
  <2>1. PICK o \in {NoObj, putting[c]} : Return(c, o, "nil")
    BY <1>8 DEF SetStores
  <2>2. o \in Decoded \cup {NoObj} /\ "nil" \in Errors
    BY DEF MemInv, MemTypeOK, Errors
  <2>3. /\ UNCHANGED <<up, callKey, initializer, putting, made>>
        /\ EntriesMade' /\ store' \in [Key -> Serialized \cup {Absent}]
    BY <1>7, <1>8 DEF SetStores
  <2>4. /\ callPc' \in [Caller -> {"idle", "initialize", "initializer", "set",
                                   "returned"}]
        /\ result' \in [Caller -> [obj : Decoded \cup {NoObj}, err : Errors]]
        /\ SetsMade' /\ CallsKeyed' /\ CallsOpen'
    BY <2>1, <2>2, <2>3, ReturnKeepsCalls
  <2>. QED
    BY <2>3, <2>4 DEF MemInv, MemTypeOK
<1>9. ASSUME NEW c \in Caller, SetFails(c) PROVE MemInv'
  <2>1. /\ Return(c, NoObj, "server") /\ "server" \in Errors
        /\ UNCHANGED <<up, callKey, initializer, putting, made>>
    BY <1>9 DEF SetFails, Errors
  <2>2. EntriesMade' /\ store' \in [Key -> Serialized \cup {Absent}]
    <3>1. CASE store' = store
      BY <2>1, <3>1 DEF MemInv, MemTypeOK, EntriesMade
    <3>2. CASE store' = Stored(putting[c])
      BY <1>7, <1>9, <2>1, <3>2 DEF SetFails
    <3>. QED
      BY <1>9, <3>1, <3>2 DEF SetFails
  <2>. QED
    BY <1>2, <2>1, <2>2
<1>10. ASSUME NEW c \in Caller,
              \/ \E k \in Key : Delete(c, k)
              \/ Flush(c)
       PROVE  MemInv'
  <2>1. /\ \E e \in Errors : Return(c, NoObj, e)
        /\ UNCHANGED <<up, callKey, initializer, putting, made>>
    BY <1>10 DEF Delete, Flush, Errors
  <2>2. \/ store' = store
        \/ \E k \in Key : store' = [store EXCEPT ![k] = Absent]
        \/ store' = [k \in Key |-> Absent]
    BY <1>10 DEF Delete, Flush, Removed
  <2>3. EntriesMade' /\ store' \in [Key -> Serialized \cup {Absent}]
    BY <2>1, <2>2 DEF MemInv, MemTypeOK, EntriesMade
  <2>. QED
    BY <1>2, <2>1, <2>3
<1>11. ASSUME \/ \E k \in Key : Expire(k)
              \/ ServerLost \/ ServerBack
       PROVE  MemInv'
  <2>1. /\ UNCHANGED <<callPc, callKey, initializer, result, putting, made>>
        /\ up' \in BOOLEAN
    BY <1>11 DEF Expire, ServerLost, ServerBack, MemInv, MemTypeOK
  <2>2. \/ store' = store
        \/ \E k \in Key : store' = [store EXCEPT ![k] = Absent]
        \/ store' = [k \in Key |-> Absent]
    BY <1>11 DEF Expire, ServerLost, ServerBack, Removed
  <2>3. EntriesMade' /\ store' \in [Key -> Serialized \cup {Absent}]
    BY <2>1, <2>2 DEF MemInv, MemTypeOK, EntriesMade
  <2>. QED
    BY <2>1, <2>3 DEF MemInv, MemTypeOK, SetsMade, CallsKeyed, CallsOpen
<1>. QED
  BY <1>1, <1>3, <1>4, <1>5, <1>6, <1>8, <1>9, <1>10, <1>11
     DEF MemNext, CallStep

\* The invariant holds in every behaviour of the client.
THEOREM MemInvariance == MemSpec => []MemInv
<1>1. MemInit => MemInv
  BY MemKeyAssumption
     DEF MemInit, MemInv, MemTypeOK, EntriesMade, SetsMade, CallsKeyed,
         CallsOpen, Errors
<1>2. MemInv /\ UNCHANGED memVars => MemInv'
  BY DEF MemInv, MemTypeOK, EntriesMade, SetsMade, CallsKeyed, CallsOpen, memVars
<1>. QED
  BY <1>1, <1>2, MemStep, PTL DEF MemSpec

\* Entries, results and objects on their way keep their types.
THEOREM MemTypeCorrect == MemSpec => []MemTypeOK
  BY MemInvariance, PTL DEF MemInv

-----------------------------------------------------------------------------
(* Refinement of ObjectCache.                                              *)

\* What a lookup finds is an answer ObjectCache allows.
LEMMA LookupAnswers ==
  ASSUME MemInv, NEW k \in Key, Found(k)
  PROVE  get(k) \in Cache!Answers(k, made)
<1>1. PICK o \in made : o.key = k /\ store[k] = serializeObj(o)
  BY DEF MemInv, EntriesMade, Found
<1>2. /\ o.key \in Key /\ o.data \in Data
      /\ o = [key |-> o.key, data |-> o.data]
  BY DEF MemInv, MemTypeOK, Object
<1>3. get(k) = deserializeObj(serializeObj(o))
  BY <1>1 DEF get
<1>4. CASE o.data = EmptyData
  <2>1. get(k) = [key |-> o.key, data |-> NilData]
    BY <1>3, <1>4 DEF serializeObj, deserializeObj
  <2>. QED
    BY <1>1, <1>4, <2>1 DEF Cache!Answers, Cache!Copies
<1>5. CASE o.data # EmptyData
  <2>1. get(k) = o
    BY <1>2, <1>3, <1>5, MemDataAssumption DEF serializeObj, deserializeObj
  <2>. QED
    BY <1>1, <2>1 DEF Cache!Answers, Cache!Copies
<1>. QED
  BY <1>4, <1>5

\* How the abstract variables change when a Get ends.
LEMMA ReturnRefines ==
  ASSUME MemInv, NEW c \in Caller, NEW o, NEW e,
         Return(c, o, e), callPc[c] # "returned",
         callKey'[c] # NoKey,
         \A d \in Caller \ {c} : callKey'[d] = callKey[d]
  PROVE  /\ [d \in Caller |-> State(d)]' =
              [[d \in Caller |-> State(d)] EXCEPT ![c] =
                 IF e = "nil" THEN "answered" ELSE "failed"]
         /\ [d \in Caller |-> result[d].obj]' =
              [[d \in Caller |-> result[d].obj] EXCEPT ![c] = o]
<1>1. /\ callPc'[c] = "returned" /\ result'[c] = [obj |-> o, err |-> e]
      /\ \A d \in Caller \ {c} : callPc'[d] = callPc[d] /\ result'[d] = result[d]
  BY DEF Return, MemInv, MemTypeOK
<1>2. /\ State(c)' = IF e = "nil" THEN "answered" ELSE "failed"
      /\ \A d \in Caller \ {c} : State(d)' = State(d)
  BY <1>1 DEF State
<1>3. \A d \in Caller : result'[d].obj = IF d = c THEN o ELSE result[d].obj
  BY <1>1
<1>. QED
  BY <1>2, <1>3

\* ObjectCache does not see the end of a call that is not a Get.
LEMMA OtherReturnInvisible ==
  ASSUME MemInv, NEW c \in Caller, NEW e, Return(c, NoObj, e),
         callPc[c] # "returned", callKey[c] = NoKey,
         callKey' = callKey, made' = made
  PROVE  UNCHANGED Cache!cvars
<1>1. /\ callPc' = [callPc EXCEPT ![c] = "returned"]
      /\ result' = [result EXCEPT ![c] = [obj |-> NoObj, err |-> e]]
      /\ result[c].obj = NoObj
  BY DEF Return, MemInv, CallsOpen
<1>2. \A d \in Caller : State(d)' = State(d) /\ result'[d].obj = result[d].obj
  BY <1>1 DEF State, MemInv, MemTypeOK
<1>3. /\ [d \in Caller |-> State(d)]' = [d \in Caller |-> State(d)]
      /\ [d \in Caller |-> result[d].obj]' = [d \in Caller |-> result[d].obj]
  BY <1>2
<1>. QED
  BY <1>3 DEF Cache!cvars

\* ObjectCache does not see a call take a step short of its end.
LEMMA InnerStepInvisible ==
  ASSUME MemInv, NEW c \in Caller, NEW pc, pc # "returned",
         callPc' = [callPc EXCEPT ![c] = pc], callPc[c] # "returned",
         \A d \in Caller \ {c} : callKey'[d] = callKey[d], result' = result
  PROVE  /\ [d \in Caller |-> State(d)]' = [d \in Caller |-> State(d)]
         /\ [d \in Caller |-> result[d].obj]' = [d \in Caller |-> result[d].obj]
<1>1. \A d \in Caller : State(d)' = State(d)
  BY DEF State, MemInv, MemTypeOK
<1>. QED
  BY <1>1

\* A Get that runs and ends with an error is a failure of ObjectCache.
LEMMA ErrorRefines ==
  ASSUME MemInv, NEW c \in Caller, NEW e, e # "nil", Return(c, NoObj, e),
         callPc[c] # "returned", callKey[c] # NoKey,
         callKey' = callKey, made' = made
  PROVE  Cache!Fail(c)
<1> DEFINE st == [d \in Caller |-> State(d)]
           gt == [d \in Caller |-> result[d].obj]
<1>1. st[c] = "pending" /\ gt[c] = NoObj
  BY DEF State, MemInv, CallsOpen
<1>2. st' = [st EXCEPT ![c] = "failed"] /\ gt' = [gt EXCEPT ![c] = NoObj]
  BY ReturnRefines
<1>3. gt' = gt
  BY <1>1, <1>2
<1>. QED
  BY <1>1, <1>2, <1>3 DEF Cache!Fail, Cache!Waiting

\* A step of the client is a step of ObjectCache or one it cannot see.
LEMMA MemStepRefines ==
  ASSUME MemInv, MemNext
  PROVE  Cache!Next \/ UNCHANGED Cache!cvars
<1> DEFINE st == [d \in Caller |-> State(d)]
           gt == [d \in Caller |-> result[d].obj]
<1> USE MemKeyAssumption
<1>1. ASSUME NEW c \in Caller, NEW k \in Key, NEW given \in BOOLEAN,
             Get(c, k, given)
      PROVE  Cache!Ask(c, k)
  <2>1. /\ callKey[c] = NoKey /\ callPc[c] = "idle"
        /\ callKey' = [callKey EXCEPT ![c] = k]
        /\ made' = made
    BY <1>1 DEF Get, MemInv, CallsKeyed
  <2>2. /\ callKey'[c] = k /\ k # NoKey
        /\ \A d \in Caller \ {c} : callKey'[d] = callKey[d]
    BY <2>1 DEF MemInv, MemTypeOK
  <2>3. CASE Found(k)
    <3>1. Return(c, get(k), "nil")
      BY <1>1, <2>3 DEF Get
    <3>2. /\ st' = [st EXCEPT ![c] = "answered"]
          /\ gt' = [gt EXCEPT ![c] = get(k)]
      BY <2>1, <2>2, <3>1, ReturnRefines
    <3>3. get(k) \in Cache!Answers(k, made)
      BY <2>3, LookupAnswers
    <3>. QED
      BY <2>1, <3>2, <3>3 DEF Cache!Ask, Cache!Return
  <2>4. CASE ~ Found(k)
    <3>1. callPc' = [callPc EXCEPT ![c] = "initialize"] /\ result' = result
      BY <1>1, <2>4 DEF Get
    <3>2. st' = st /\ gt' = gt
      BY <2>1, <2>2, <3>1, InnerStepInvisible
    <3>. QED
      BY <2>1, <3>2 DEF Cache!Ask
  <2>. QED
    BY <2>3, <2>4
<1>2. ASSUME NEW c \in Caller, InitializerNil(c) \/ InitializerFails(c)
      PROVE  Cache!Fail(c)
  <2>1. PICK e \in Errors \ {"nil"} : Return(c, NoObj, e)
    BY <1>2 DEF InitializerNil, InitializerFails, Errors
  <2>2. /\ callPc[c] \in {"initialize", "initializer"}
        /\ callKey' = callKey /\ made' = made
    BY <1>2 DEF InitializerNil, InitializerFails
  <2>3. callKey[c] # NoKey
    BY <2>2 DEF MemInv, CallsKeyed
  <2>. QED
    BY <2>1, <2>2, <2>3, ErrorRefines
<1>3. ASSUME NEW c \in Caller, DoubleCheck(c)
      PROVE  Cache!Answer(c) \/ UNCHANGED Cache!cvars
  <2>1. /\ callPc[c] = "initialize"
        /\ callKey' = callKey /\ made' = made
    BY <1>3 DEF DoubleCheck
  <2>2. callKey[c] \in Key /\ callKey[c] # NoKey /\ st[c] = "pending"
    BY <2>1 DEF MemInv, CallsKeyed, State
  <2>3. CASE Found(callKey[c])
    <3>1. Return(c, get(callKey[c]), "nil")
      BY <1>3, <2>3 DEF DoubleCheck
    <3>2. /\ st' = [st EXCEPT ![c] = "answered"]
          /\ gt' = [gt EXCEPT ![c] = get(callKey[c])]
      BY <2>1, <2>2, <3>1, ReturnRefines
    <3>3. get(callKey[c]) \in Cache!Answers(callKey[c], made)
      BY <2>2, <2>3, LookupAnswers
    <3>. QED
      BY <2>1, <2>2, <3>2, <3>3 DEF Cache!Answer, Cache!Return, Cache!Waiting
  <2>4. CASE ~ Found(callKey[c])
    <3>1. callPc' = [callPc EXCEPT ![c] = "initializer"] /\ result' = result
      BY <1>3, <2>4 DEF DoubleCheck
    <3>2. st' = st /\ gt' = gt
      BY <2>1, <3>1, InnerStepInvisible
    <3>. QED
      BY <2>1, <3>2 DEF Cache!cvars
  <2>. QED
    BY <2>3, <2>4
<1>4. ASSUME NEW c \in Caller, NEW o \in Object, InitializerReturns(c, o)
      PROVE  Cache!Offer(o)
  <2>1. /\ callPc[c] = "initializer" /\ callPc' = [callPc EXCEPT ![c] = "set"]
        /\ callKey' = callKey /\ made' = made \cup {o} /\ result' = result
    BY <1>4 DEF InitializerReturns
  <2>2. st' = st /\ gt' = gt
    BY <2>1, InnerStepInvisible
  <2>. QED
    BY <2>1, <2>2 DEF Cache!Offer
<1>5. ASSUME NEW c \in Caller, NEW o \in Decoded \cup {NoObj}, Put(c, o)
      PROVE  (o \in Object /\ Cache!Offer(o)) \/ UNCHANGED Cache!cvars
  <2>1. /\ callPc[c] = "idle" /\ callPc' = [callPc EXCEPT ![c] = "set"]
        /\ callKey' = callKey /\ result' = result
        /\ made' = made \cup ({o} \cap Object)
    BY <1>5 DEF Put
  <2>2. st' = st /\ gt' = gt
    BY <2>1, InnerStepInvisible
  <2>3. CASE o \in Object
    <3>1. made' = made \cup {o}
      BY <2>1, <2>3
    <3>. QED
      BY <2>1, <2>2, <2>3, <3>1 DEF Cache!Offer
  <2>4. CASE o \notin Object
    <3>1. made' = made
      BY <2>1, <2>4
    <3>. QED
      BY <2>1, <2>2, <3>1 DEF Cache!cvars
  <2>. QED
    BY <2>3, <2>4
<1>6. ASSUME NEW c \in Caller, SetRejects(c) \/ SetFails(c)
      PROVE  Cache!Fail(c) \/ UNCHANGED Cache!cvars
  <2>1. PICK e : e # "nil" /\ Return(c, NoObj, e)
    BY <1>6 DEF SetRejects, SetFails
  <2>2. callPc[c] = "set" /\ callKey' = callKey /\ made' = made
    BY <1>6 DEF SetRejects, SetFails
  <2>. QED
    BY <2>1, <2>2, ErrorRefines, OtherReturnInvisible
<1>7. ASSUME NEW c \in Caller, SetStores(c)
      PROVE  Cache!Answer(c) \/ UNCHANGED Cache!cvars
  <2>1. callPc[c] = "set" /\ callKey' = callKey /\ made' = made
    BY <1>7 DEF SetStores
  <2>2. CASE callKey[c] = NoKey
    <3>1. Return(c, NoObj, "nil")
      BY <1>7, <2>2 DEF SetStores
    <3>. QED
      BY <2>1, <2>2, <3>1, OtherReturnInvisible
  <2>3. CASE callKey[c] # NoKey
    <3>1. Return(c, putting[c], "nil")
      BY <1>7, <2>3 DEF SetStores
    <3>2. /\ putting[c] \in made /\ putting[c].key = callKey[c]
          /\ st[c] = "pending"
      BY <2>1, <2>3 DEF MemInv, SetsMade, State
    <3>3. /\ st' = [st EXCEPT ![c] = "answered"]
          /\ gt' = [gt EXCEPT ![c] = putting[c]]
      BY <2>1, <2>3, <3>1, ReturnRefines
    <3>4. putting[c] \in Cache!Answers(callKey[c], made)
      BY <3>2 DEF Cache!Answers, Cache!Copies
    <3>. QED
      BY <2>1, <2>3, <3>2, <3>3, <3>4
         DEF Cache!Answer, Cache!Return, Cache!Waiting
  <2>. QED
    BY <2>2, <2>3
<1>8. ASSUME NEW c \in Caller, (\E k \in Key : Delete(c, k)) \/ Flush(c)
      PROVE  UNCHANGED Cache!cvars
  <2>1. PICK e : Return(c, NoObj, e)
    BY <1>8 DEF Delete, Flush
  <2>2. /\ callPc[c] = "idle" /\ callKey[c] = NoKey
        /\ callKey' = callKey /\ made' = made
    BY <1>8 DEF Delete, Flush, MemInv, CallsKeyed
  <2>. QED
    BY <2>1, <2>2, OtherReturnInvisible
<1>9. ASSUME UNCHANGED <<callPc, callKey, result, made>>
      PROVE  UNCHANGED Cache!cvars
  <2>1. st' = st /\ gt' = gt
    BY <1>9 DEF State
  <2>. QED
    BY <1>9, <2>1 DEF Cache!cvars
<1>10. Cache!Object = Object
  BY DEF Cache!Object, Object
<1>11. CASE \E c \in Caller : CallStep(c)
  BY <1>11, <1>1, <1>2, <1>3, <1>4, <1>5, <1>6, <1>7, <1>8, <1>10
     DEF CallStep, Cache!Next
<1>12. CASE (\E k \in Key : Expire(k)) \/ ServerLost \/ ServerBack
  BY <1>9, <1>12 DEF Expire, ServerLost, ServerBack
<1>. QED
  BY <1>11, <1>12 DEF MemNext

\* MemcachedClient implements ObjectCache, whatever the server loses,
\* refuses or forgets: each Get is answered once, with an object offered
\* for its key or with an error.
THEOREM ClientIsACache == MemSpec => ImplementsCache
<1>1. MemInit => Cache!Init
  BY DEF MemInit, Cache!Init, State
<1>2. MemInv /\ [MemNext]_memVars => [Cache!Next]_Cache!cvars
  <2>1. ASSUME UNCHANGED memVars PROVE UNCHANGED Cache!cvars
    BY <2>1 DEF memVars, Cache!cvars, State
  <2>. QED
    BY <2>1, MemStepRefines
<1>. QED
  BY <1>1, <1>2, MemInvariance, PTL DEF MemSpec, ImplementsCache, Cache!Spec

=============================================================================
