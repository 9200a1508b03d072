--------------------------- MODULE BigcacheWrapper ---------------------------
(***************************************************************************)
(* The in-memory object cache of cache/bigcacheWrapper.go.  Any number of  *)
(* goroutines call Get and Put; a miss runs the caller's initializer and   *)
(* stores what it returned from a goroutine of its own.                    *)
(*                                                                         *)
(* GetTimed takes the same steps as Get and measures them.  bigcache       *)
(* itself is external: Get and Set of one key are atomic, Set fails for an *)
(* entry its shard cannot hold, and an entry disappears when its           *)
(* LifeWindow is over, when its shard needs the room or when a key with    *)
(* the same hash is set.                                                   *)
(*                                                                         *)
(* The actions mention only the cache's variables, so that CachingProxy    *)
(* can conjoin them with the steps of the connection handlers.             *)
(***************************************************************************)

CONSTANTS
  Caller,     \* goroutines, each of which makes one call
  Key,        \* object keys
  Data,       \* contents of objects: body and headers
  EmptyData,  \* the content whose body has no bytes
  NilData,    \* the nil pointer
  NoKey,      \* the key of a goroutine that has not called Get
  NoObj,      \* a nil *Object
  Absent      \* no entry

ASSUME DataAssumption ==
  /\ EmptyData \in Data
  /\ NilData \notin Data
  /\ Absent \notin Data

ASSUME KeyAssumption ==
  /\ NoKey \notin Key
  /\ NoObj \notin [key : Key, data : Data \cup {NilData}]
  /\ Absent \notin [key : Key, data : Data \cup {Absent}]

VARIABLES
  store,        \* the entries of bigcache, serialized
  callPc,       \* where each call is
  callKey,      \* the key of a Get
  initializer,  \* was it given an initializer?
  result,       \* what it returned
  putting,      \* the object a goroutine in put has yet to store
  made          \* auxiliary: the objects handed to the cache so far

cacheVars == <<store, callPc, callKey, initializer, result, putting, made>>

Object == [key : Key, data : Data]

\* A decoded object may lack its data.
Decoded == [key : Key, data : Data \cup {NilData}]

\* gob does not send a field that has its zero value.  An empty byte slice
\* behind a pointer counts as one, and decoding leaves the pointer nil.
Serialized == [key : Key, data : (Data \ {EmptyData}) \cup {Absent}]

Errors == {"nil", "ErrInitializerNil", "initializer", "Set"}
NoResult == [obj |-> NoObj, err |-> "nil"]

CacheTypeOK ==
  /\ store \in [Key -> Serialized \cup {Absent}]
  /\ callPc \in [Caller -> {"idle", "initialize", "initializer", "put",
                            "returned"}]
  /\ callKey \in [Caller -> Key \cup {NoKey}]
  /\ initializer \in [Caller -> BOOLEAN]
  /\ result \in [Caller -> [obj : Decoded \cup {NoObj}, err : Errors]]
  /\ putting \in [Caller -> Object \cup {NoObj}]
  /\ made \subseteq Object

CacheInit ==
  /\ store = [k \in Key |-> Absent]
  /\ callPc = [c \in Caller |-> "idle"]
  /\ callKey = [c \in Caller |-> NoKey]
  /\ initializer = [c \in Caller |-> FALSE]
  /\ result = [c \in Caller |-> NoResult]
  /\ putting = [c \in Caller |-> NoObj]
  /\ made = {}

-----------------------------------------------------------------------------
\* Fault: the key is an unexported field, which gob does not send.
serializeObjWithoutKey(o) ==
  [key |-> CHOOSE k \in Key : TRUE,
   data |-> IF o.data = EmptyData THEN Absent ELSE o.data]

serializeObj(o) ==
  [key |-> o.key, data |-> IF o.data = EmptyData THEN Absent ELSE o.data]

\* Fault: a field that was not sent stays a hole.
deserializeObjWithHole(b) == b

deserializeObj(b) ==
  [key |-> b.key, data |-> IF b.data = Absent THEN NilData ELSE b.data]

Found(k) == store[k] # Absent
get(k) == deserializeObj(store[k])

Return(c, o, e) ==
  /\ callPc' = [callPc EXCEPT ![c] = "returned"]
  /\ result' = [result EXCEPT ![c] = [obj |-> o, err |-> e]]

-----------------------------------------------------------------------------
(* Get.                                                                    *)

Get(c, k, given) ==
  /\ callPc[c] = "idle"
  /\ callKey' = [callKey EXCEPT ![c] = k]
  /\ initializer' = [initializer EXCEPT ![c] = given]
  /\ IF Found(k)
     THEN Return(c, get(k), "nil")
     ELSE /\ callPc' = [callPc EXCEPT ![c] = "initialize"]
          /\ UNCHANGED result
  /\ UNCHANGED <<store, putting, made>>

InitializerNil(c) ==
  /\ callPc[c] = "initialize"
  /\ ~ initializer[c]
  /\ Return(c, NoObj, "ErrInitializerNil")
  /\ UNCHANGED <<store, callKey, initializer, putting, made>>

\* The second lookup of initialize.  From "initializer" on the call is
\* about to run its initializer or runs it; an entry that is stored after
\* this lookup no longer keeps it from doing so.
DoubleCheck(c) ==
  /\ callPc[c] = "initialize"
  /\ initializer[c]
  /\ IF Found(callKey[c])
     THEN Return(c, get(callKey[c]), "nil")
     ELSE /\ callPc' = [callPc EXCEPT ![c] = "initializer"]
          /\ UNCHANGED result
  /\ UNCHANGED <<store, callKey, initializer, putting, made>>

\* The initializer returns an object; "go bw.put(obj)" stores it later.
InitializerReturns(c, o) ==
  /\ callPc[c] = "initializer"
  /\ Return(c, o, "nil")
  /\ putting' = [putting EXCEPT ![c] = o]
  /\ made' = made \cup {o}
  /\ UNCHANGED <<store, callKey, initializer>>

\* Fault: the error of the initializer is dropped.
InitializerFailsSilently(c) ==
  /\ callPc[c] = "initializer"
  /\ Return(c, NoObj, "nil")
  /\ UNCHANGED <<store, callKey, initializer, putting, made>>

InitializerFails(c) ==
  /\ callPc[c] = "initializer"
  /\ Return(c, NoObj, "initializer")
  /\ UNCHANGED <<store, callKey, initializer, putting, made>>

-----------------------------------------------------------------------------
(* Put, and put in the goroutine that initialize started, whose error      *)
(* nobody reads.                                                           *)

Put(c, o) ==
  /\ callPc[c] = "idle"
  /\ callPc' = [callPc EXCEPT ![c] = "put"]
  /\ putting' = [putting EXCEPT ![c] = o]
  /\ made' = made \cup {o}
  /\ UNCHANGED <<store, callKey, initializer, result>>

PutEnds(c, e) ==
  /\ putting' = [putting EXCEPT ![c] = NoObj]
  /\ IF callPc[c] = "put"
     THEN Return(c, NoObj, e)
     ELSE UNCHANGED <<callPc, result>>
  /\ UNCHANGED <<callKey, initializer, made>>

PutSets(c) ==
  /\ putting[c] # NoObj
  /\ store' = [store EXCEPT ![putting[c].key] = serializeObj(putting[c])]
  /\ PutEnds(c, "nil")

PutFails(c) ==
  /\ putting[c] # NoObj
  /\ PutEnds(c, "Set")
  /\ UNCHANGED store

\* An entry leaves bigcache.
Expire(k) ==
  /\ Found(k)
  /\ store' = [store EXCEPT ![k] = Absent]
  /\ UNCHANGED <<callPc, callKey, initializer, result, putting, made>>

-----------------------------------------------------------------------------
(* The cache by itself.  An initializer returns an object with the key it  *)
(* was asked for, as those of both caching proxies do; the one in          *)
(* memcachedClient_test.go returns another key and is not modelled.        *)

CacheNext ==
  \/ \E c \in Caller :
       \/ \E k \in Key, given \in BOOLEAN : Get(c, k, given)
       \/ InitializerNil(c)
       \/ DoubleCheck(c)
       \/ \E o \in Object : o.key = callKey[c] /\ InitializerReturns(c, o)
       \/ InitializerFails(c)
       \/ \E o \in Object : Put(c, o)
       \/ PutSets(c)
       \/ PutFails(c)
  \/ \E k \in Key : Expire(k)

CacheSpec == CacheInit /\ [][CacheNext]_cacheVars

-----------------------------------------------------------------------------
(* Properties.                                                             *)

\* What is left of an object after it went through the cache.
RoundTrip(o) == deserializeObj(serializeObj(o))

\* A Get that returns without an error returns an object of the key it was
\* asked for, which its own or another caller's initializer or a Put had
\* handed to the cache before; the round trip through gob may only have
\* lost an empty body.  No interleaving of lookups, detached puts, failed
\* sets and expiries mixes objects or invents one (bigcacheWrapper.go).
GetReturnsMade ==
  \A c \in Caller :
    result[c].obj # NoObj =>
      /\ result[c].obj.key = callKey[c]
      /\ \E o \in made : result[c].obj \in {o, RoundTrip(o)}

State(c) ==
  IF callKey[c] = NoKey \/ callPc[c] # "returned" THEN "pending"
  ELSE IF result[c].err = "nil" THEN "answered" ELSE "failed"

Cache == INSTANCE ObjectCache WITH
  asked <- callKey,
  offered <- made,
  state <- [c \in Caller |-> State(c)],
  got <- [c \in Caller |-> result[c].obj]

\* The wrapper is a Cache: each Get is answered once, with an object that
\* was offered for its key or with an error and no object, and lookups,
\* detached puts, expiries and failures are steps no caller can see.
ImplementsCache == Cache!Spec

=============================================================================
