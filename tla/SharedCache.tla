---------------------------- MODULE SharedCache -----------------------------
(***************************************************************************)
(* The LocalVolume object of a node as one process sees it: the API object *)
(* behind the generated client, the informer's cache of it, and the        *)
(* goroutines that take the cached object from the lister.  A lister hands *)
(* out the pointer that is in the cache, so that every goroutine that      *)
(* holds the object shares its map Status.PreAllocated: a Go map that is   *)
(* written while another goroutine ranges over it ends the process.        *)
(*                                                                         *)
(* Maps live on a heap of references.  Threads run the read of             *)
(* getNodeFreeSize, the write of bind, and the write of the agent's        *)
(* reconciler; Ops says which of them the process has.                     *)
(***************************************************************************)
EXTENDS Naturals, FiniteSets

CONSTANTS
    Threads,        \* HTTP handlers of the extender, or workers of the agent
    Ops,            \* what they run: "read", "bind", "reconcile"
    Keys,           \* keys of PreAllocated
    BindKey,        \* the key bind adds
    Refs,           \* places on the heap
    Nil,            \* the nil map, the missing object
    MaxVersion      \* bound: resource versions

\* What the proofs assume of the constants.
SetsAssumption == BindKey \in Keys /\ Nil \notin Refs /\ Ops \subseteq {"read", "bind", "reconcile"}
BoundsAssumption == MaxVersion \in Nat

VARIABLES
    versions,   \* the API object: its PreAllocated keys at each resource version
    version,    \* its present version, 0 when it does not exist
    heap,       \* keys of the map at a reference
    cache,      \* the cached object: its version and its map
    pc,         \* where each thread is
    object,     \* the object a thread took from the lister
    copy,       \* the thread's copy of it
    todo,       \* keys a loop has still to come to
    seen        \* keys the loop of a reader has come to

vars == <<versions, version, heap, cache, pc, object, copy, todo, seen>>

Objects == [version : 0 .. MaxVersion, map : Refs \cup {Nil}]
NoObject == [version |-> 0, map |-> Nil]

\* The keys of a map; a nil map reads as an empty one.
KeysOf(r) == IF r = Nil THEN {} ELSE heap[r]

\* References that something still points to; the others are free.
Reachable == {cache.map} \cup {object[t].map : t \in Threads} \cup {copy[t].map : t \in Threads}

Init ==
    /\ versions = [v \in 1 .. MaxVersion |-> {}]
    /\ version = 0
    /\ heap = [r \in Refs |-> {}]
    /\ cache = NoObject
    /\ pc = [t \in Threads |-> "idle"]
    /\ object = [t \in Threads |-> NoObject]
    /\ copy = [t \in Threads |-> NoObject]
    /\ todo = [t \in Threads |-> {}]
    /\ seen = [t \in Threads |-> {}]

Goto(t, label) == pc' = [pc EXCEPT ![t] = label]

-----------------------------------------------------------------------------
\* The API server stores a new version.
Store(keys) ==
    /\ version < MaxVersion
    /\ version' = version + 1
    /\ versions' = [versions EXCEPT ![version + 1] = keys]

\* registerNodeLocalVolumeStorage through the client's Create, and the writes
\* of the other process through its UpdateStatus.
Create ==
    /\ version = 0
    /\ Store({})
    /\ UNCHANGED <<heap, cache, pc, object, copy, todo, seen>>

OtherUpdateStatus(keys) ==
    /\ version > 0
    /\ Store(keys)
    /\ UNCHANGED <<heap, cache, pc, object, copy, todo, seen>>

\* ListFunc and WatchFunc: the informer decodes a version it was sent into a new
\* object and puts that into the cache.  A list may be answered from an old
\* version.  An empty map is decoded as a nil map.
CacheSet(v) ==
    /\ v \in 1 .. version
    /\ IF versions[v] = {}
        THEN /\ cache' = [version |-> v, map |-> Nil]
             /\ UNCHANGED heap
        ELSE \E r \in Refs \ Reachable :
                /\ heap' = [heap EXCEPT ![r] = versions[v]]
                /\ cache' = [version |-> v, map |-> r]
    /\ UNCHANGED <<versions, version, pc, object, copy, todo, seen>>

-----------------------------------------------------------------------------
\* LocalVolumes(ns).Get of the lister: the pointer in the cache, or NotFound,
\* which ends the handler.
ListerGet(t, op) ==
    /\ pc[t] = "idle" /\ cache # NoObject
    /\ object' = [object EXCEPT ![t] = cache]
    /\ todo' = [todo EXCEPT ![t] = KeysOf(cache.map)]
    /\ seen' = [seen EXCEPT ![t] = {}]
    /\ Goto(t, op)
    /\ UNCHANGED <<versions, version, heap, cache, copy>>

\* getNodeFreeSize ranges over PreAllocated: any key that is there now, each once.
ReadKey(t, k) ==
    /\ pc[t] = "read" /\ k \in todo[t]
    /\ todo' = [todo EXCEPT ![t] = @ \ {k}]
    /\ seen' = [seen EXCEPT ![t] = IF k \in KeysOf(object[t].map) THEN @ \cup {k} ELSE @]
    /\ UNCHANGED <<versions, version, heap, cache, pc, object, copy>>

ReadDone(t) ==
    /\ pc[t] = "read" /\ todo[t] = {}
    /\ Goto(t, "idle")
    /\ object' = [object EXCEPT ![t] = NoObject]
    /\ UNCHANGED <<versions, version, heap, cache, copy, todo, seen>>

\* LocalVolumeStatus.DeepCopyInto: a map that is not nil is copied into a new
\* one, key by key.
DeepCopyInto(t) ==
    IF object[t].map = Nil
    THEN /\ copy' = [copy EXCEPT ![t] = object[t]]
         /\ UNCHANGED heap
    ELSE \E r \in Refs \ Reachable :
            /\ heap' = [heap EXCEPT ![r] = heap[object[t].map]]
            /\ copy' = [copy EXCEPT ![t] = [object[t] EXCEPT !.map = r]]

\* LocalVolume.DeepCopy, in bind and in the agent's reconciler.
DeepCopy(t) ==
    /\ pc[t] \in {"bind", "reconcile"}
    /\ DeepCopyInto(t)
    /\ Goto(t, IF pc[t] = "bind" THEN "makemap" ELSE "delete")
    /\ UNCHANGED <<versions, version, cache, object, todo, seen>>

\* bind makes a map where there is none.
MakeMap(t) ==
    /\ pc[t] = "makemap"
    /\ IF copy[t].map = Nil
        THEN \E r \in Refs \ Reachable :
                /\ heap' = [heap EXCEPT ![r] = {}]
                /\ copy' = [copy EXCEPT ![t].map = r]
        ELSE UNCHANGED <<heap, copy>>
    /\ Goto(t, "add")
    /\ UNCHANGED <<versions, version, cache, object, todo, seen>>

\* copylv.Status.PreAllocated[v] = "".
AddKey(t) ==
    /\ pc[t] = "add"
    /\ heap' = [r \in Refs |-> IF r = copy[t].map THEN heap[r] \cup {BindKey} ELSE heap[r]]
    /\ Goto(t, "updatestatus")
    /\ UNCHANGED <<versions, version, cache, object, copy, todo, seen>>

\* The agent deletes the keys of the claims bound on its node, one at a time.
DeleteKey(t, k) ==
    /\ pc[t] = "delete" /\ k \in KeysOf(copy[t].map)
    /\ heap' = [r \in Refs |-> IF r = copy[t].map THEN heap[r] \ {k} ELSE heap[r]]
    /\ UNCHANGED <<versions, version, cache, pc, object, copy, todo, seen>>

DeleteDone(t) ==
    /\ pc[t] = "delete"
    /\ Goto(t, "updatestatus")
    /\ UNCHANGED <<versions, version, heap, cache, object, copy, todo, seen>>

\* UpdateStatus: a Put of the copy to the status subresource; the server takes it
\* when the copy is of its present version.  The thread returns either way.
UpdateStatus(t) ==
    /\ pc[t] = "updatestatus"
    /\ IF copy[t].version = version
        THEN Store(KeysOf(copy[t].map))
        ELSE UNCHANGED <<versions, version>>
    /\ object' = [object EXCEPT ![t] = NoObject]
    /\ copy' = [copy EXCEPT ![t] = NoObject]
    /\ Goto(t, "idle")
    /\ UNCHANGED <<heap, cache, todo, seen>>

Thread(t) ==
    \/ \E op \in Ops : ListerGet(t, op)
    \/ \E k \in Keys : ReadKey(t, k)
    \/ ReadDone(t) \/ DeepCopy(t) \/ MakeMap(t) \/ AddKey(t)
    \/ \E k \in Keys : DeleteKey(t, k)
    \/ DeleteDone(t) \/ UpdateStatus(t)

Next ==
    \/ Create
    \/ \E keys \in SUBSET Keys : OtherUpdateStatus(keys)
    \/ \E v \in 1 .. MaxVersion : CacheSet(v)
    \/ \E t \in Threads : Thread(t)

Spec == Init /\ [][Next]_vars

-----------------------------------------------------------------------------
\* The values of the state variables.
TypeOK ==
    /\ versions \in [1 .. MaxVersion -> SUBSET Keys]
    /\ version \in 0 .. MaxVersion
    /\ heap \in [Refs -> SUBSET Keys]
    /\ cache \in Objects
    /\ pc \in [Threads -> {"idle", "read", "bind", "reconcile", "makemap", "add", "delete", "updatestatus"}]
    /\ object \in [Threads -> Objects]
    /\ copy \in [Threads -> Objects]
    /\ todo \in [Threads -> SUBSET Keys]
    /\ seen \in [Threads -> SUBSET Keys]

\* The map a thread is about to write is one that no one else can reach: the
\* informer's cache does not hold it, and no other thread ranges over it or
\* copies it.
NoConcurrentMapWrite ==
    \A t \in Threads :
        pc[t] \in {"add", "delete"} /\ copy[t].map # Nil =>
            /\ copy[t].map # cache.map
            /\ \A u \in Threads : copy[t].map # object[u].map /\ (u # t => copy[t].map # copy[u].map)

\* bind never writes into a nil map, which panics.
NoNilMapWrite == \A t \in Threads : pc[t] = "add" => copy[t].map # Nil

\* What the cache shows is what the API server stored under that version: a
\* change that was refused, or not sent yet, never shows in the cache.
CacheIsStored ==
    cache # NoObject => KeysOf(cache.map) = versions[cache.version]

\* A thread that has ranged over PreAllocated has seen the keys of exactly one
\* stored version, although the cache may have moved on meanwhile.
ReadsOneVersion ==
    \A t \in Threads :
        pc[t] = "read" /\ todo[t] = {} => seen[t] = versions[object[t].version]
=============================================================================
