-------------------------- MODULE MemcachedClient --------------------------
(***************************************************************************)
(* The other object cache, cache/memcachedClient.go, which keeps its       *)
(* objects in a memcached server.  Unlike BigcacheWrapper it stores the    *)
(* initializer's object before Get returns, and it accepts only keys with  *)
(* at least three segments when it looks an object up.                     *)
(*                                                                         *)
(* GetTimed takes the same steps as Get.  The server is external: it may   *)
(* be unreachable, come back with or without its entries, drop an entry    *)
(* when its TTL is over or room is needed, refuse an object that is too    *)
(* large, and carry out a set whose reply is lost.                         *)
(***************************************************************************)

CONSTANTS
  Caller,     \* goroutines, each of which makes one call
  Key,        \* object keys
  ValidKey,   \* those with three segments or more
  EmptyKey,   \* the key ""
  Data, EmptyData, NilData, NoKey, NoObj, Absent  \* see BigcacheWrapper

ASSUME MemDataAssumption ==
  /\ EmptyData \in Data
  /\ NilData \notin Data
  /\ Absent \notin Data

ASSUME MemKeyAssumption ==
  /\ ValidKey \subseteq Key
  /\ EmptyKey \in Key \ ValidKey
  /\ NoKey \notin Key
  /\ NoObj \notin [key : Key, data : Data \cup {NilData}]
  /\ Absent \notin [key : Key, data : Data \cup {Absent}]

VARIABLES
  store,        \* the entries of the server, serialized
  up,           \* can the server be reached?
  callPc,       \* where each call is
  callKey,      \* the key of a Get
  initializer,  \* was it given an initializer?
  result,       \* what the call returned
  putting,      \* the object a call is about to set
  made          \* auxiliary: the objects handed to the cache so far

memVars == <<store, up, callPc, callKey, initializer, result, putting, made>>

Object == [key : Key, data : Data]
Decoded == [key : Key, data : Data \cup {NilData}]
Serialized == [key : Key, data : (Data \ {EmptyData}) \cup {Absent}]

Errors == {"nil", "ErrInitializerNil", "ErrInvalidKey", "ErrObjectNil",
           "ErrDataNil", "ErrInitializer", "ErrCacheMiss", "server"}

MemTypeOK ==
  /\ store \in [Key -> Serialized \cup {Absent}]
  /\ up \in BOOLEAN
  /\ callPc \in [Caller -> {"idle", "initialize", "initializer", "set",
                            "returned"}]
  /\ callKey \in [Caller -> Key \cup {NoKey}]
  /\ initializer \in [Caller -> BOOLEAN]
  /\ result \in [Caller -> [obj : Decoded \cup {NoObj}, err : Errors]]
  /\ putting \in [Caller -> Decoded \cup {NoObj}]
  /\ made \subseteq Object

MemInit ==
  /\ store = [k \in Key |-> Absent]
  /\ up = TRUE
  /\ callPc = [c \in Caller |-> "idle"]
  /\ callKey = [c \in Caller |-> NoKey]
  /\ initializer = [c \in Caller |-> FALSE]
  /\ result = [c \in Caller |-> [obj |-> NoObj, err |-> "nil"]]
  /\ putting = [c \in Caller |-> NoObj]
  /\ made = {}

-----------------------------------------------------------------------------
\* gob: see BigcacheWrapper.
serializeObj(o) ==
  [key |-> o.key, data |-> IF o.data = EmptyData THEN Absent ELSE o.data]

\* Fault: what was not encoded is not replaced by nil.
deserializeObjWithHole(b) == b

deserializeObj(b) ==
  [key |-> b.key, data |-> IF b.data = Absent THEN NilData ELSE b.data]

Found(k) == k \in ValidKey /\ up /\ store[k] # Absent
get(k) == deserializeObj(store[k])

Return(c, o, e) ==
  /\ callPc' = [callPc EXCEPT ![c] = "returned"]
  /\ result' = [result EXCEPT ![c] = [obj |-> o, err |-> e]]

-----------------------------------------------------------------------------
(* Get.                                                                    *)

Get(c, k, given) ==
  /\ callPc[c] = "idle"
  /\ callKey' = [callKey EXCEPT ![c] = k]
  /\ initializer' = [initializer EXCEPT ![c] = given]
  /\ IF Found(k)
     THEN Return(c, get(k), "nil")
     ELSE /\ callPc' = [callPc EXCEPT ![c] = "initialize"]
          /\ UNCHANGED result
  /\ UNCHANGED <<store, up, putting, made>>

InitializerNil(c) ==
  /\ callPc[c] = "initialize"
  /\ ~ initializer[c]
  /\ Return(c, NoObj, "ErrInitializerNil")
  /\ UNCHANGED <<store, up, callKey, initializer, putting, made>>

DoubleCheck(c) ==
  /\ callPc[c] = "initialize"
  /\ initializer[c]
  /\ IF Found(callKey[c])
     THEN Return(c, get(callKey[c]), "nil")
     ELSE /\ callPc' = [callPc EXCEPT ![c] = "initializer"]
          /\ UNCHANGED result
  /\ UNCHANGED <<store, up, callKey, initializer, putting, made>>

\* The object is set before it is returned.
InitializerReturns(c, o) ==
  /\ callPc[c] = "initializer"
  /\ callPc' = [callPc EXCEPT ![c] = "set"]
  /\ putting' = [putting EXCEPT ![c] = o]
  /\ made' = made \cup {o}
  /\ UNCHANGED <<store, up, callKey, initializer, result>>

InitializerFails(c) ==
  /\ callPc[c] = "initializer"
  /\ Return(c, NoObj, "ErrInitializer")
  /\ UNCHANGED <<store, up, callKey, initializer, putting, made>>

-----------------------------------------------------------------------------
(* Put, and set in both of its uses.                                       *)

Put(c, o) ==
  /\ callPc[c] = "idle"
  /\ callPc' = [callPc EXCEPT ![c] = "set"]
  /\ putting' = [putting EXCEPT ![c] = o]
  /\ made' = made \cup ({o} \cap Object)
  /\ UNCHANGED <<store, up, callKey, initializer, result>>

\* What set finds wrong with an object before it talks to the server.
Invalid(o) ==
  IF o = NoObj THEN "ErrObjectNil"
  ELSE IF o.key = EmptyKey THEN "ErrInvalidKey"
  ELSE IF o.data = NilData THEN "ErrDataNil"
  ELSE "nil"

SetRejects(c) ==
  /\ callPc[c] = "set"
  /\ Invalid(putting[c]) # "nil"
  /\ Return(c, NoObj, Invalid(putting[c]))
  /\ UNCHANGED <<store, up, callKey, initializer, putting, made>>

Stored(o) == [store EXCEPT ![o.key] = serializeObj(o)]

\* A Get returns the object, a Put returns nothing.
SetStores(c) ==
  /\ callPc[c] = "set"
  /\ Invalid(putting[c]) = "nil"
  /\ up
  /\ store' = Stored(putting[c])
  /\ Return(c, IF callKey[c] = NoKey THEN NoObj ELSE putting[c], "nil")
  /\ UNCHANGED <<up, callKey, initializer, putting, made>>

\* Fault: the error of the server is dropped, and the object with it.
SetFailsSilently(c) ==
  /\ callPc[c] = "set"
  /\ Invalid(putting[c]) = "nil"
  /\ Return(c, NoObj, "nil")
  /\ UNCHANGED <<store, up, callKey, initializer, putting, made>>

\* The server cannot be reached, refuses, or its reply is lost.
SetFails(c) ==
  /\ callPc[c] = "set"
  /\ Invalid(putting[c]) = "nil"
  /\ Return(c, NoObj, "server")
  /\ UNCHANGED store \/ (up /\ store' = Stored(putting[c]))
  /\ UNCHANGED <<up, callKey, initializer, putting, made>>

-----------------------------------------------------------------------------
(* Delete and Flush.                                                       *)

Removed(k) == store' = [store EXCEPT ![k] = Absent]

Delete(c, k) ==
  /\ callPc[c] = "idle"
  /\ \/ k \notin ValidKey /\ Return(c, NoObj, "ErrInvalidKey") /\ UNCHANGED store
     \/ k \in ValidKey /\ Return(c, NoObj, "server") /\ UNCHANGED store
     \/ /\ k \in ValidKey /\ up
        /\ Return(c, NoObj, IF store[k] = Absent THEN "ErrCacheMiss" ELSE "nil")
        /\ Removed(k)
  /\ UNCHANGED <<up, callKey, initializer, putting, made>>

Flush(c) ==
  /\ callPc[c] = "idle"
  /\ \/ Return(c, NoObj, "server") /\ UNCHANGED store
     \/ up /\ Return(c, NoObj, "nil") /\ store' = [k \in Key |-> Absent]
  /\ UNCHANGED <<up, callKey, initializer, putting, made>>

-----------------------------------------------------------------------------
(* The server.                                                             *)

Expire(k) ==
  /\ store[k] # Absent
  /\ Removed(k)
  /\ UNCHANGED <<up, callPc, callKey, initializer, result, putting, made>>

ServerLost ==
  /\ up
  /\ up' = FALSE
  /\ UNCHANGED <<store, callPc, callKey, initializer, result, putting, made>>

\* After a restart the server has no entries.
ServerBack ==
  /\ ~ up
  /\ up' = TRUE
  /\ store' \in {store, [k \in Key |-> Absent]}
  /\ UNCHANGED <<callPc, callKey, initializer, result, putting, made>>

-----------------------------------------------------------------------------
\* An initializer returns an object with the key it was asked for and with
\* data, as retrieveObjectFromRemote does (the one in memcachedClient_test.go
\* returns another key); a Put may be given anything.
CallStep(c) ==
  \/ \E k \in Key, given \in BOOLEAN : Get(c, k, given)
  \/ InitializerNil(c)
  \/ DoubleCheck(c)
  \/ \E o \in Object : o.key = callKey[c] /\ InitializerReturns(c, o)
  \/ InitializerFails(c)
  \/ \E o \in Decoded \cup {NoObj} : Put(c, o)
  \/ SetRejects(c)
  \/ SetStores(c)
  \/ SetFails(c)
  \/ \E k \in Key : Delete(c, k)
  \/ Flush(c)

MemNext ==
  \/ \E c \in Caller : CallStep(c)
  \/ \E k \in Key : Expire(k)
  \/ ServerLost
  \/ ServerBack

MemSpec == MemInit /\ [][MemNext]_memVars

-----------------------------------------------------------------------------
(* Properties.                                                             *)

State(c) ==
  IF callKey[c] = NoKey \/ callPc[c] # "returned" THEN "pending"
  ELSE IF result[c].err = "nil" THEN "answered" ELSE "failed"

Cache == INSTANCE ObjectCache WITH
  asked <- callKey,
  offered <- made,
  state <- [c \in Caller |-> State(c)],
  got <- [c \in Caller |-> result[c].obj]

\* The client is a Cache, as BigcacheWrapper is: each Get is answered once,
\* with an object offered for its key or with an error and no object.  In
\* particular a set that fails after a successful initializer fails the
\* whole Get, whether or not the server has stored the object, and an
\* answer is never half an answer (initialize, set).
ImplementsCache == Cache!Spec

=============================================================================
