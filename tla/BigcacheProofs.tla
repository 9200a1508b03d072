--------------------------- MODULE BigcacheProofs ---------------------------
(***************************************************************************)
(* Proofs about BigcacheWrapper for any callers, keys and contents.  The   *)
(* invariant follows an object from the initializer or the Put that made   *)
(* it, through the goroutine that stores it and the entry it becomes, to   *)
(* the caller that gets it.                                                *)
(***************************************************************************)
EXTENDS BigcacheWrapper, TLAPS

\* An entry is the encoding of an object that was made for its key.
EntriesMade ==
  \A k \in Key :
    Found(k) => \E o \in made : o.key = k /\ store[k] = serializeObj(o)

\* What a goroutine in put is about to store was made.
PutsMade == \A c \in Caller : putting[c] # NoObj => putting[c] \in made

\* A Get that runs has its key, and nothing but a Get has one.
CallsKeyed ==
  \A c \in Caller :
    /\ callPc[c] \in {"initialize", "initializer"} => callKey[c] \in Key
    /\ callPc[c] \in {"idle", "put"} => callKey[c] = NoKey

\* A call that has not returned has no result.
CallsIdle ==
  \A c \in Caller : callPc[c] # "returned" => result[c].obj = NoObj

Provenance ==
  EntriesMade /\ PutsMade /\ CallsKeyed /\ CallsIdle /\ GetReturnsMade

CacheInv == CacheTypeOK /\ Provenance

\* An object that a lookup finds has the key that was looked up, and was
\* made.
LEMMA GetFindsMade ==
  ASSUME CacheTypeOK, EntriesMade, NEW k \in Key, Found(k)
  PROVE  /\ get(k) \in Decoded
         /\ get(k).key = k
         /\ \E o \in made : get(k) \in {o, RoundTrip(o)}
<1>1. PICK o \in made : o.key = k /\ store[k] = serializeObj(o)
  BY DEF EntriesMade
<1>2. o \in Object
  BY DEF CacheTypeOK
<1>3. get(k) = RoundTrip(o)
  BY <1>1 DEF get, RoundTrip
<1>4. get(k).key = k
  BY <1>1, <1>3 DEF RoundTrip, deserializeObj, serializeObj
<1>5. get(k) \in Decoded
  BY <1>1, <1>2 DEF get, deserializeObj, serializeObj, Object, Decoded
<1>. QED
  BY <1>3, <1>4, <1>5

\* A step in which at most one call returns, with nothing or with an object
\* made for its key, keeps the promise about results.
LEMMA OneReturns ==
  ASSUME CacheTypeOK, GetReturnsMade, made \subseteq made',
         NEW c \in Caller,
         \A d \in Caller \ {c} :
           result'[d] = result[d] /\ callKey'[d] = callKey[d],
         \/ result'[c].obj = NoObj
         \/ /\ result'[c].obj.key = callKey'[c]
            /\ \E o \in made' : result'[c].obj \in {o, RoundTrip(o)}
         \/ result'[c] = result[c] /\ callKey'[c] = callKey[c]
  PROVE  GetReturnsMade'
<1> SUFFICES ASSUME NEW d \in Caller, result'[d].obj # NoObj
             PROVE  /\ result'[d].obj.key = callKey'[d]
                    /\ \E o \in made' : result'[d].obj \in {o, RoundTrip(o)}
  BY DEF GetReturnsMade, RoundTrip, serializeObj, deserializeObj
<1>1. CASE result'[d] = result[d] /\ callKey'[d] = callKey[d]
  <2>1. PICK o \in made : result[d].obj \in {o, RoundTrip(o)}
    BY <1>1 DEF GetReturnsMade
  <2>2. result[d].obj.key = callKey[d]
    BY <1>1 DEF GetReturnsMade
  <2>. QED
    BY <1>1, <2>1, <2>2
<1>2. CASE d = c
  BY <1>1, <1>2
<1>. QED
  BY <1>1, <1>2

\* The end of put keeps the types of what it changes.
LEMMA PutEndsTyped ==
  ASSUME CacheTypeOK, NEW c \in Caller, NEW e \in Errors, PutEnds(c, e)
  PROVE  /\ callPc' \in [Caller -> {"idle", "initialize", "initializer", "put",
                                    "returned"}]
         /\ result' \in [Caller -> [obj : Decoded \cup {NoObj}, err : Errors]]
         /\ putting' \in [Caller -> Object \cup {NoObj}]
<1>1. CASE callPc[c] = "put"
  <2>1. [obj |-> NoObj, err |-> e] \in [obj : Decoded \cup {NoObj}, err : Errors]
    OBVIOUS
  <2>. QED
    BY <1>1, <2>1 DEF CacheTypeOK, PutEnds, Return
<1>2. CASE callPc[c] # "put"
  BY <1>2 DEF CacheTypeOK, PutEnds
<1>. QED
  BY <1>1, <1>2

\* Every step of a caller, of a goroutine in put and of bigcache keeps the
\* invariant.
LEMMA CacheStep == CacheInv /\ CacheNext => CacheInv'
<1> SUFFICES ASSUME CacheInv, CacheNext PROVE CacheInv'
  OBVIOUS
<1> USE DataAssumption, KeyAssumption
<1> USE DEF CacheInv, Provenance
<1>1. ASSUME NEW c \in Caller, NEW k \in Key, NEW given \in BOOLEAN,
             Get(c, k, given)
      PROVE CacheInv'
  <2>1. CacheTypeOK'
    <3>0. /\ initializer' \in [Caller -> BOOLEAN]
          /\ callKey' \in [Caller -> Key \cup {NoKey}]
      BY <1>1 DEF CacheTypeOK, Get
    <3>1. CASE Found(k)
      <4>1. [obj |-> get(k), err |-> "nil"]
              \in [obj : Decoded \cup {NoObj}, err : Errors]
        BY <3>1, GetFindsMade DEF Errors
      <4>2. /\ callPc' = [callPc EXCEPT ![c] = "returned"]
            /\ result' = [result EXCEPT ![c] = [obj |-> get(k), err |-> "nil"]]
            /\ UNCHANGED <<store, putting, made>>
        BY <1>1, <3>1 DEF Get, Return
      <4>. QED
        BY <3>0, <4>1, <4>2 DEF CacheTypeOK
    <3>2. CASE ~ Found(k)
      BY <1>1, <3>0, <3>2 DEF CacheTypeOK, Get
    <3>. QED
      BY <3>1, <3>2
  <2>2. EntriesMade' /\ PutsMade'
    BY <1>1 DEF Get, EntriesMade, PutsMade, Found
  <2>3. CallsKeyed' /\ CallsIdle'
    BY <1>1 DEF CacheTypeOK, Get, Return, CallsKeyed, CallsIdle
  <2>4. GetReturnsMade'
    <3>1. CASE Found(k)
      <4>1. result'[c].obj = get(k) /\ callKey'[c] = k /\ made' = made
        BY <1>1, <3>1 DEF CacheTypeOK, Get, Return
      <4>2. /\ result'[c].obj.key = callKey'[c]
            /\ \E o \in made' : result'[c].obj \in {o, RoundTrip(o)}
        BY <3>1, <4>1, GetFindsMade
      <4>3. \A d \in Caller \ {c} :
              result'[d] = result[d] /\ callKey'[d] = callKey[d]
        BY <1>1, <3>1 DEF CacheTypeOK, Get, Return
      <4>. QED
        BY <4>1, <4>2, <4>3, OneReturns
    <3>2. CASE ~ Found(k)
      <4>1. result' = result /\ made' = made /\ result[c].obj = NoObj
        BY <1>1, <3>2 DEF CacheTypeOK, Get, CallsIdle
      <4>2. \A d \in Caller \ {c} : callKey'[d] = callKey[d]
        BY <1>1 DEF CacheTypeOK, Get
      <4>. QED
        BY <4>1, <4>2, OneReturns
    <3>. QED
      BY <3>1, <3>2
  <2>. QED
    BY <2>1, <2>2, <2>3, <2>4
<1>2. ASSUME NEW c \in Caller, InitializerNil(c) \/ InitializerFails(c)
      PROVE CacheInv'
  <2>1. CacheTypeOK'
    BY <1>2 DEF InitializerNil, InitializerFails, Return, CacheTypeOK, Errors
  <2>2. EntriesMade' /\ PutsMade' /\ CallsKeyed' /\ CallsIdle'
    BY <1>2 DEF InitializerNil, InitializerFails, Return, CacheTypeOK,
                EntriesMade, PutsMade, CallsKeyed, CallsIdle, Found
  <2>3. GetReturnsMade'
    <3>1. /\ made' = made /\ callKey' = callKey /\ result'[c].obj = NoObj
          /\ \A d \in Caller \ {c} : result'[d] = result[d]
      BY <1>2 DEF InitializerNil, InitializerFails, Return, CacheTypeOK
    <3>. QED
      BY <3>1, OneReturns
  <2>. QED
    BY <2>1, <2>2, <2>3
<1>3. ASSUME NEW c \in Caller, DoubleCheck(c) PROVE CacheInv'
  <2>0. callKey[c] \in Key
    BY <1>3 DEF DoubleCheck, CallsKeyed
  <2>1. CacheTypeOK'
    <3>1. CASE Found(callKey[c])
      <4>1. [obj |-> get(callKey[c]), err |-> "nil"]
              \in [obj : Decoded \cup {NoObj}, err : Errors]
        BY <2>0, <3>1, GetFindsMade DEF Errors
      <4>. QED
        BY <1>3, <3>1, <4>1 DEF CacheTypeOK, DoubleCheck, Return
    <3>2. CASE ~ Found(callKey[c])
      BY <1>3, <3>2 DEF CacheTypeOK, DoubleCheck
    <3>. QED
      BY <3>1, <3>2
  <2>2. EntriesMade' /\ PutsMade'
    BY <1>3 DEF DoubleCheck, EntriesMade, PutsMade, Found
  <2>3. CallsKeyed' /\ CallsIdle'
    BY <1>3, <2>0 DEF CacheTypeOK, DoubleCheck, Return, CallsKeyed, CallsIdle
  <2>4. GetReturnsMade'
    <3>0. made' = made /\ callKey' = callKey
      BY <1>3 DEF DoubleCheck
    <3>1. CASE Found(callKey[c])
      <4>1. /\ result'[c].obj = get(callKey[c])
            /\ \A d \in Caller \ {c} : result'[d] = result[d]
        BY <1>3, <3>1 DEF CacheTypeOK, DoubleCheck, Return
      <4>2. /\ result'[c].obj.key = callKey'[c]
            /\ \E o \in made' : result'[c].obj \in {o, RoundTrip(o)}
        BY <2>0, <3>0, <3>1, <4>1, GetFindsMade
      <4>. QED
        BY <3>0, <4>1, <4>2, OneReturns
    <3>2. CASE ~ Found(callKey[c])
      <4>1. result' = result
        BY <1>3, <3>2 DEF DoubleCheck
      <4>. QED
        BY <3>0, <4>1, OneReturns
    <3>. QED
      BY <3>1, <3>2
  <2>. QED
    BY <2>1, <2>2, <2>3, <2>4
<1>4. ASSUME NEW c \in Caller, NEW o \in Object, o.key = callKey[c],
             InitializerReturns(c, o)
      PROVE CacheInv'
  <2>1. CacheTypeOK'
    BY <1>4 DEF CacheTypeOK, InitializerReturns, Return, Errors, Object, Decoded
  <2>2. EntriesMade' /\ PutsMade'
    BY <1>4 DEF CacheTypeOK, InitializerReturns, EntriesMade, PutsMade, Found
  <2>3. CallsKeyed' /\ CallsIdle'
    BY <1>4 DEF CacheTypeOK, InitializerReturns, Return, CallsKeyed, CallsIdle
  <2>4. GetReturnsMade'
    <3>1. /\ made' = made \cup {o} /\ callKey' = callKey
          /\ result'[c].obj = o
          /\ \A d \in Caller \ {c} : result'[d] = result[d]
      BY <1>4 DEF CacheTypeOK, InitializerReturns, Return
    <3>. QED
      BY <1>4, <3>1, OneReturns
  <2>. QED
    BY <2>1, <2>2, <2>3, <2>4
<1>5. ASSUME NEW c \in Caller, NEW o \in Object, Put(c, o) PROVE CacheInv'
  <2>1. CacheTypeOK'
    BY <1>5 DEF CacheTypeOK, Put, Object
  <2>2. EntriesMade' /\ PutsMade'
    BY <1>5 DEF CacheTypeOK, Put, EntriesMade, PutsMade, Found
  <2>3. CallsKeyed' /\ CallsIdle'
    BY <1>5 DEF CacheTypeOK, Put, CallsKeyed, CallsIdle
  <2>4. GetReturnsMade'
    <3>1. /\ made' = made \cup {o} /\ result' = result
          /\ result[c].obj = NoObj
          /\ \A d \in Caller \ {c} : callKey'[d] = callKey[d]
      BY <1>5 DEF CacheTypeOK, Put, CallsIdle
    <3>. QED
      BY <3>1, OneReturns
  <2>. QED
    BY <2>1, <2>2, <2>3, <2>4
<1>6. ASSUME NEW c \in Caller, PutSets(c) PROVE CacheInv'
  <2> DEFINE o == putting[c]
  <2>0. o \in made /\ o \in Object /\ o.key \in Key
    BY <1>6 DEF PutSets, PutsMade, CacheTypeOK, Object
  <2>1. serializeObj(o) \in Serialized
    BY <2>0 DEF serializeObj, Object, Serialized
  <2>2. CacheTypeOK'
    <3>1. store' \in [Key -> Serialized \cup {Absent}]
      BY <1>6, <2>0, <2>1 DEF CacheTypeOK, PutSets
    <3>. QED
      BY <1>6, <3>1, PutEndsTyped DEF CacheTypeOK, PutSets, PutEnds, Errors
  <2>3. EntriesMade'
    BY <1>6, <2>0 DEF CacheTypeOK, PutSets, PutEnds, EntriesMade, Found
  <2>4. PutsMade'
    BY <1>6 DEF CacheTypeOK, PutSets, PutEnds, PutsMade
  <2>5. CallsKeyed' /\ CallsIdle'
    BY <1>6 DEF CacheTypeOK, PutSets, PutEnds, Return, CallsKeyed, CallsIdle
  <2>6. GetReturnsMade'
    <3>1. /\ made' = made /\ callKey' = callKey
          /\ result'[c].obj = NoObj \/ result'[c] = result[c]
          /\ \A d \in Caller \ {c} : result'[d] = result[d]
      BY <1>6 DEF CacheTypeOK, PutSets, PutEnds, Return
    <3>. QED
      BY <3>1, OneReturns
  <2>. QED
    BY <2>2, <2>3, <2>4, <2>5, <2>6
<1>7. ASSUME NEW c \in Caller, PutFails(c) PROVE CacheInv'
  <2>1. CacheTypeOK'
    BY <1>7, PutEndsTyped DEF CacheTypeOK, PutFails, PutEnds, Errors
  <2>2. EntriesMade' /\ PutsMade'
    BY <1>7 DEF CacheTypeOK, PutFails, PutEnds, EntriesMade, PutsMade, Found
  <2>3. CallsKeyed' /\ CallsIdle'
    BY <1>7 DEF CacheTypeOK, PutFails, PutEnds, Return, CallsKeyed, CallsIdle
  <2>4. GetReturnsMade'
    <3>1. /\ made' = made /\ callKey' = callKey
          /\ result'[c].obj = NoObj \/ result'[c] = result[c]
          /\ \A d \in Caller \ {c} : result'[d] = result[d]
      BY <1>7 DEF CacheTypeOK, PutFails, PutEnds, Return
    <3>. QED
      BY <3>1, OneReturns
  <2>. QED
    BY <2>1, <2>2, <2>3, <2>4
<1>8. ASSUME NEW k \in Key, Expire(k) PROVE CacheInv'
  <2>1. CacheTypeOK' /\ EntriesMade'
    BY <1>8 DEF Expire, CacheTypeOK, EntriesMade, Found
  <2>. QED
    BY <1>8, <2>1 DEF Expire, PutsMade, CallsKeyed, CallsIdle, GetReturnsMade
<1>. QED
  BY <1>1, <1>2, <1>3, <1>4, <1>5, <1>6, <1>7, <1>8 DEF CacheNext

\* An empty cache satisfies the invariant.
LEMMA CacheInitInv == CacheInit => CacheInv
  BY DataAssumption, KeyAssumption
     DEF CacheInit, CacheInv, Provenance, CacheTypeOK, EntriesMade, PutsMade,
         CallsKeyed, CallsIdle, GetReturnsMade, Found, NoResult, Errors

\* The invariant depends on the cache's variables only.
LEMMA CacheStutter == CacheInv /\ UNCHANGED cacheVars => CacheInv'
  BY DEF CacheInv, Provenance, CacheTypeOK, EntriesMade, PutsMade, CallsKeyed,
         CallsIdle, GetReturnsMade, Found, cacheVars

\* The provenance invariant holds in every behaviour of the cache.
THEOREM CacheInvariance == CacheSpec => []CacheInv
  BY CacheInitInv, CacheStep, CacheStutter, PTL DEF CacheSpec

\* Entries, results and objects on their way keep their types.
THEOREM CacheTypeCorrect == CacheSpec => []CacheTypeOK
<1>1. CacheInv => CacheTypeOK
  BY DEF CacheInv
<1>. QED
  BY <1>1, CacheInvariance, PTL

\* Whatever the interleaving of lookups, initializers, detached puts,
\* failing sets and expiries, a Get returns an object that was made for the
\* key it was asked for.
THEOREM GetsReturnMade == CacheSpec => []GetReturnsMade
<1>1. CacheInv => GetReturnsMade
  BY DEF CacheInv, Provenance
<1>. QED
  BY <1>1, CacheInvariance, PTL

-----------------------------------------------------------------------------
(* Refinement of ObjectCache.                                              *)

\* A round trip through gob is one of the copies ObjectCache allows.
LEMMA RoundTripIsCopy ==
  ASSUME NEW o \in Object
  PROVE  RoundTrip(o) \in Cache!Copies(o)
<1>1. o.key \in Key /\ o.data \in Data /\ o = [key |-> o.key, data |-> o.data]
  BY DEF Object
<1>2. CASE o.data = EmptyData
  <2>1. RoundTrip(o) = [key |-> o.key, data |-> NilData]
    BY <1>2 DEF RoundTrip, serializeObj, deserializeObj
  <2>. QED
    BY <1>2, <2>1 DEF Cache!Copies
<1>3. CASE o.data # EmptyData
  <2>1. RoundTrip(o) = o
    BY <1>1, <1>3, DataAssumption DEF RoundTrip, serializeObj, deserializeObj
  <2>. QED
    BY <2>1 DEF Cache!Copies
<1>. QED
  BY <1>2, <1>3

\* What a lookup finds is an answer ObjectCache allows.
LEMMA LookupAnswers ==
  ASSUME CacheInv, NEW k \in Key, Found(k)
  PROVE  get(k) \in Cache!Answers(k, made)
<1>1. PICK o \in made : o.key = k /\ store[k] = serializeObj(o)
  BY DEF CacheInv, Provenance, EntriesMade
<1>2. o \in Object
  BY DEF CacheInv, CacheTypeOK
<1>3. get(k) = RoundTrip(o)
  BY <1>1 DEF get, RoundTrip
<1>4. get(k) \in Cache!Copies(o)
  BY <1>2, <1>3, RoundTripIsCopy
<1>. QED
  BY <1>1, <1>4 DEF Cache!Answers

\* How the abstract variables change when one Get ends.
LEMMA ReturnRefines ==
  ASSUME CacheInv, NEW c \in Caller, NEW o, NEW e,
         Return(c, o, e), callPc[c] # "returned",
         callKey'[c] # NoKey,
         \A d \in Caller \ {c} : callKey'[d] = callKey[d]
  PROVE  /\ [d \in Caller |-> State(d)]' =
              [[d \in Caller |-> State(d)] EXCEPT ![c] =
                 IF e = "nil" THEN "answered" ELSE "failed"]
         /\ [d \in Caller |-> result[d].obj]' =
              [[d \in Caller |-> result[d].obj] EXCEPT ![c] = o]
<1>1. /\ callPc' = [callPc EXCEPT ![c] = "returned"]
      /\ result' = [result EXCEPT ![c] = [obj |-> o, err |-> e]]
  BY DEF Return
<1>2. /\ callPc'[c] = "returned" /\ result'[c] = [obj |-> o, err |-> e]
      /\ \A d \in Caller \ {c} : callPc'[d] = callPc[d] /\ result'[d] = result[d]
  BY <1>1 DEF CacheInv, CacheTypeOK
<1>3. /\ State(c)' = IF e = "nil" THEN "answered" ELSE "failed"
      /\ \A d \in Caller \ {c} : State(d)' = State(d)
  BY <1>2 DEF State
<1>4. [d \in Caller |-> State(d)]' =
        [[d \in Caller |-> State(d)] EXCEPT ![c] =
           IF e = "nil" THEN "answered" ELSE "failed"]
  BY <1>3
<1>5. [d \in Caller |-> result[d].obj]' =
        [[d \in Caller |-> result[d].obj] EXCEPT ![c] = o]
  <2>1. \A d \in Caller :
          result'[d].obj = IF d = c THEN o ELSE result[d].obj
    BY <1>2
  <2>. QED
    BY <2>1
<1>. QED
  BY <1>4, <1>5

\* A step of the wrapper is a step of ObjectCache or one it cannot see.
LEMMA CacheStepRefines ==
  ASSUME CacheInv, CacheNext
  PROVE  Cache!Next \/ UNCHANGED Cache!cvars
<1> DEFINE st == [d \in Caller |-> State(d)]
           gt == [d \in Caller |-> result[d].obj]
<1> USE KeyAssumption
<1>1. ASSUME NEW c \in Caller, NEW k \in Key, NEW given \in BOOLEAN,
             Get(c, k, given)
      PROVE  Cache!Ask(c, k)
  <2>1. /\ callKey[c] = NoKey /\ callPc[c] = "idle"
        /\ callKey' = [callKey EXCEPT ![c] = k]
        /\ made' = made
    BY <1>1 DEF Get, CacheInv, Provenance, CallsKeyed
  <2>2. /\ callKey'[c] = k /\ k # NoKey
        /\ \A d \in Caller \ {c} : callKey'[d] = callKey[d]
    BY <2>1 DEF CacheInv, CacheTypeOK
  <2>3. CASE Found(k)
    <3>1. Return(c, get(k), "nil")
      BY <1>1, <2>3 DEF Get
    <3>2. /\ st' = [st EXCEPT ![c] = "answered"]
          /\ gt' = [gt EXCEPT ![c] = get(k)]
      BY <2>1, <2>2, <3>1, ReturnRefines
    <3>3. get(k) \in Cache!Answers(k, made)
      BY <2>3, LookupAnswers
    <3>. QED
      BY <2>1, <3>2, <3>3 DEF Cache!Ask, Cache!Return
  <2>4. CASE ~ Found(k)
    <3>1. /\ callPc' = [callPc EXCEPT ![c] = "initialize"]
          /\ result' = result
      BY <1>1, <2>4 DEF Get
    <3>2. \A d \in Caller : State(d)' = State(d)
      BY <2>1, <2>2, <3>1 DEF State, CacheInv, CacheTypeOK
    <3>3. st' = st /\ gt' = gt
      BY <3>1, <3>2
    <3>. QED
      BY <2>1, <3>3 DEF Cache!Ask
  <2>. QED
    BY <2>3, <2>4
<1>2. ASSUME NEW c \in Caller, InitializerNil(c) \/ InitializerFails(c)
      PROVE  Cache!Fail(c)
  <2>1. PICK e \in Errors \ {"nil"} : Return(c, NoObj, e)
    BY <1>2 DEF InitializerNil, InitializerFails, Errors
  <2>2. /\ callPc[c] \in {"initialize", "initializer"}
        /\ callKey' = callKey /\ made' = made
    BY <1>2 DEF InitializerNil, InitializerFails
  <2>3. callKey[c] # NoKey /\ st[c] = "pending" /\ gt[c] = NoObj
    BY <2>2 DEF CacheInv, Provenance, CallsKeyed, CallsIdle, State
  <2>4. /\ st' = [st EXCEPT ![c] = "failed"]
        /\ gt' = [gt EXCEPT ![c] = NoObj]
    BY <2>1, <2>2, <2>3, ReturnRefines
  <2>5. gt' = gt
    BY <2>3, <2>4
  <2>. QED
    BY <2>2, <2>3, <2>4, <2>5 DEF Cache!Fail, Cache!Waiting
<1>3. ASSUME NEW c \in Caller, DoubleCheck(c)
      PROVE  Cache!Answer(c) \/ UNCHANGED Cache!cvars
  <2>1. /\ callPc[c] = "initialize"
        /\ callKey' = callKey /\ made' = made
    BY <1>3 DEF DoubleCheck
  <2>2. callKey[c] \in Key /\ callKey[c] # NoKey /\ st[c] = "pending"
    BY <2>1 DEF CacheInv, Provenance, CallsKeyed, State
  <2>3. CASE Found(callKey[c])
    <3>1. Return(c, get(callKey[c]), "nil")
      BY <1>3, <2>3 DEF DoubleCheck
    <3>2. /\ st' = [st EXCEPT ![c] = "answered"]
          /\ gt' = [gt EXCEPT ![c] = get(callKey[c])]
      BY <2>1, <2>2, <3>1, ReturnRefines
    <3>3. get(callKey[c]) \in Cache!Answers(callKey[c], made)
      BY <2>2, <2>3, LookupAnswers
    <3>. QED
      BY <2>1, <2>2, <3>2, <3>3 DEF Cache!Answer, Cache!Return, Cache!Waiting
  <2>4. CASE ~ Found(callKey[c])
    <3>1. /\ callPc' = [callPc EXCEPT ![c] = "initializer"]
          /\ result' = result
      BY <1>3, <2>4 DEF DoubleCheck
    <3>2. \A d \in Caller : State(d)' = State(d)
      BY <2>1, <3>1 DEF State, CacheInv, CacheTypeOK
    <3>3. st' = st /\ gt' = gt
      BY <3>1, <3>2
    <3>. QED
      BY <2>1, <3>3 DEF Cache!cvars
  <2>. QED
    BY <2>3, <2>4
<1>4. ASSUME NEW c \in Caller, NEW o \in Object, o.key = callKey[c],
             InitializerReturns(c, o)
      PROVE  Cache!OfferAndAnswer(c, o)
  <2>1. /\ callPc[c] = "initializer" /\ Return(c, o, "nil")
        /\ callKey' = callKey /\ made' = made \cup {o}
    BY <1>4 DEF InitializerReturns
  <2>2. callKey[c] # NoKey /\ st[c] = "pending"
    BY <2>1 DEF CacheInv, Provenance, CallsKeyed, State
  <2>3. /\ st' = [st EXCEPT ![c] = "answered"]
        /\ gt' = [gt EXCEPT ![c] = o]
    BY <2>1, <2>2, ReturnRefines
  <2>. QED
    BY <1>4, <2>1, <2>2, <2>3
       DEF Cache!OfferAndAnswer, Cache!Return, Cache!Waiting
<1>5. ASSUME NEW c \in Caller, NEW o \in Object, Put(c, o)
      PROVE  Cache!Offer(o)
  <2>1. /\ callPc[c] = "idle" /\ callPc' = [callPc EXCEPT ![c] = "put"]
        /\ callKey' = callKey /\ made' = made \cup {o} /\ result' = result
    BY <1>5 DEF Put
  <2>2. \A d \in Caller : State(d)' = State(d)
    BY <2>1 DEF State, CacheInv, CacheTypeOK
  <2>3. st' = st /\ gt' = gt
    BY <2>1, <2>2
  <2>. QED
    BY <2>1, <2>3 DEF Cache!Offer
<1>6. ASSUME NEW c \in Caller, NEW e, PutEnds(c, e)
      PROVE  UNCHANGED Cache!cvars
  <2>1. callKey' = callKey /\ made' = made
    BY <1>6 DEF PutEnds
  <2>2. CASE callPc[c] = "put"
    <3>1. /\ callKey[c] = NoKey /\ result[c].obj = NoObj
          /\ callPc' = [callPc EXCEPT ![c] = "returned"]
          /\ result' = [result EXCEPT ![c] = [obj |-> NoObj, err |-> e]]
      BY <1>6, <2>2
         DEF PutEnds, Return, CacheInv, Provenance, CallsKeyed, CallsIdle
    <3>2. \A d \in Caller :
            State(d)' = State(d) /\ result'[d].obj = result[d].obj
      BY <2>1, <3>1 DEF State, CacheInv, CacheTypeOK
    <3>3. st' = st /\ gt' = gt
      BY <3>2
    <3>. QED
      BY <2>1, <3>3 DEF Cache!cvars
  <2>3. CASE callPc[c] # "put"
    <3>1. callPc' = callPc /\ result' = result
      BY <1>6, <2>3 DEF PutEnds
    <3>2. st' = st /\ gt' = gt
      BY <2>1, <3>1 DEF State
    <3>. QED
      BY <2>1, <3>2 DEF Cache!cvars
  <2>. QED
    BY <2>2, <2>3
<1>7. ASSUME NEW k \in Key, Expire(k) PROVE UNCHANGED Cache!cvars
  <2>1. st' = st /\ gt' = gt
    BY <1>7 DEF Expire, State
  <2>. QED
    BY <1>7, <2>1 DEF Expire, Cache!cvars
<1>8. Cache!Object = Object
  BY DEF Cache!Object, Object
<1>. QED
  BY <1>1, <1>2, <1>3, <1>4, <1>5, <1>6, <1>7, <1>8
     DEF CacheNext, PutSets, PutFails, Cache!Next

\* BigcacheWrapper implements ObjectCache: lookups, detached puts, failing
\* sets and expiries are invisible, and each Get is answered once, with an
\* object offered for its key or with an error.
THEOREM WrapperIsACache == CacheSpec => ImplementsCache
<1>1. CacheInit => Cache!Init
  BY DEF CacheInit, Cache!Init, State, NoResult
<1>2. CacheInv /\ [CacheNext]_cacheVars => [Cache!Next]_Cache!cvars
  <2>1. ASSUME UNCHANGED cacheVars PROVE UNCHANGED Cache!cvars
    BY <2>1 DEF cacheVars, Cache!cvars, State
  <2>. QED
    BY <2>1, CacheStepRefines
<1>. QED
  BY <1>1, <1>2, CacheInvariance, PTL DEF CacheSpec, ImplementsCache, Cache!Spec

=============================================================================
