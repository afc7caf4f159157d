--------------------------- MODULE InformerFactory --------------------------
(***************************************************************************)
(* The shared informer factory (pkg/client/informers/externalversions): a  *)
(* map from object types to informers, a map of the informers started, and *)
(* a mutex.  The injectors, the constructors of the controllers and their  *)
(* listers ask it for informers; Start and WaitForCacheSync may be called  *)
(* at any time, by anyone, any number of times.                            *)
(*                                                                         *)
(* An informer object has a cache and its event handlers: a caller that    *)
(* holds another object than the one that is run sees an empty cache.      *)
(***************************************************************************)
EXTENDS Naturals, FiniteSets

CONSTANTS
    Callers,        \* goroutines
    Types,          \* object types with an informer
    None,           \* no caller, no type, no informer
    MaxInstances    \* bound: informer objects made

\* What the proofs assume of the constants.
SetsAssumption == None \notin Callers /\ None \notin Types /\ None \notin Nat
BoundsAssumption == MaxInstances \in Nat

Instances == 1 .. MaxInstances

VARIABLES
    informers,          \* the map informers: type to object
    startedInformers,   \* the types whose informer has been started
    lock,               \* holder of the mutex
    pc,                 \* where each caller is
    type,               \* the type asked for, or being looked at
    todo,               \* types a caller's loop has still to look at
    created,            \* informer objects made so far
    returned,           \* history: objects InformerFor has returned for a type
    runs,               \* how often Run was called on an object
    synced,             \* objects that have had their first list
    stop,               \* stopCh is closed
    res                 \* types for which WaitForCacheSync answered true

vars == <<informers, startedInformers, lock, pc, type, todo, created, returned, runs, synced, stop, res>>

Known == {t \in Types : informers[t] # None}

Init ==
    /\ informers = [t \in Types |-> None]
    /\ startedInformers = {}
    /\ lock = None
    /\ pc = [c \in Callers |-> "idle"]
    /\ type = [c \in Callers |-> None]
    /\ todo = [c \in Callers |-> {}]
    /\ created = 0
    /\ returned = [t \in Types |-> {}]
    /\ runs = [i \in Instances |-> 0]
    /\ synced = {}
    /\ stop = FALSE
    /\ res = [c \in Callers |-> {}]

-----------------------------------------------------------------------------
Goto(c, label) == pc' = [pc EXCEPT ![c] = label]

\* LocalVolumes().Informer(), .Lister(), and ForResource of a known resource all
\* ask InformerFor for their type.  ForResource of another resource is an error.
Informer(c, t) ==
    /\ pc[c] = "idle"
    /\ type' = [type EXCEPT ![c] = t]
    /\ Goto(c, "informerfor")
    /\ UNCHANGED <<informers, startedInformers, lock, todo, created, returned, runs, synced, stop, res>>

\* InformerFor: under the lock, an informer that exists is returned.
InformerFor(c) ==
    /\ pc[c] = "informerfor" /\ lock = None
    /\ lock' = c
    /\ Goto(c, IF informers[type[c]] # None THEN "return" ELSE "new")
    /\ UNCHANGED <<informers, startedInformers, type, todo, created, returned, runs, synced, stop, res>>

\* newFunc, defaultInformer, NewFilteredLocalVolumeInformer: a new object goes into the map.
NewInformer(c) ==
    /\ pc[c] = "new" /\ created < MaxInstances
    /\ created' = created + 1
    /\ informers' = [informers EXCEPT ![type[c]] = created + 1]
    /\ Goto(c, "return")
    /\ UNCHANGED <<startedInformers, lock, type, todo, returned, runs, synced, stop, res>>

Return(c) ==
    /\ pc[c] = "return"
    /\ returned' = [returned EXCEPT ![type[c]] = @ \cup {informers[type[c]]}]
    /\ lock' = IF lock = c THEN None ELSE lock
    /\ Goto(c, "idle")
    /\ UNCHANGED <<informers, startedInformers, type, todo, created, runs, synced, stop, res>>

-----------------------------------------------------------------------------
\* Start: under the lock, run every informer not yet started, in any order.
Start(c) ==
    /\ pc[c] = "idle" /\ lock = None
    /\ lock' = c
    /\ todo' = [todo EXCEPT ![c] = Known]
    /\ Goto(c, "range")
    /\ UNCHANGED <<informers, startedInformers, type, created, returned, runs, synced, stop, res>>

StartLook(c, t) ==
    /\ pc[c] = "range" /\ t \in todo[c]
    /\ todo' = [todo EXCEPT ![c] = @ \ {t}]
    /\ type' = [type EXCEPT ![c] = t]
    /\ Goto(c, IF t \in startedInformers THEN "range" ELSE "run")
    /\ UNCHANGED <<informers, startedInformers, lock, created, returned, runs, synced, stop, res>>

StartRun(c) ==
    /\ pc[c] = "run"
    /\ runs' = [runs EXCEPT ![informers[type[c]]] = @ + 1]
    /\ startedInformers' = startedInformers \cup {type[c]}
    /\ Goto(c, "range")
    /\ UNCHANGED <<informers, lock, type, todo, created, returned, synced, stop, res>>

StartDone(c) ==
    /\ pc[c] = "range" /\ todo[c] = {}
    /\ lock' = IF lock = c THEN None ELSE lock
    /\ Goto(c, "idle")
    /\ UNCHANGED <<informers, startedInformers, type, todo, created, returned, runs, synced, stop, res>>

-----------------------------------------------------------------------------
\* WaitForCacheSync: the started informers are collected under the lock, and
\* waited for without it, one after the other.
WaitForCacheSync(c) ==
    /\ pc[c] = "idle" /\ lock = None
    /\ todo' = [todo EXCEPT ![c] = Known \cap startedInformers]
    /\ res' = [res EXCEPT ![c] = {}]
    /\ Goto(c, "wait")
    /\ UNCHANGED <<informers, startedInformers, lock, type, created, returned, runs, synced, stop>>

\* cache.WaitForCacheSync: true once HasSynced, false once stopCh is closed.
WaitOne(c, t) ==
    /\ pc[c] = "wait" /\ t \in todo[c]
    /\ \/ informers[t] \in synced /\ res' = [res EXCEPT ![c] = @ \cup {t}]
       \/ stop /\ UNCHANGED res
    /\ todo' = [todo EXCEPT ![c] = @ \ {t}]
    /\ UNCHANGED <<informers, startedInformers, lock, pc, type, created, returned, runs, synced, stop>>

WaitDone(c) ==
    /\ pc[c] = "wait" /\ todo[c] = {}
    /\ Goto(c, "idle")
    /\ UNCHANGED <<informers, startedInformers, lock, type, todo, created, returned, runs, synced, stop, res>>

\* The goroutine of an informer has its first list; the process is stopped.
Sync(i) ==
    /\ runs[i] > 0 /\ i \notin synced /\ ~stop
    /\ synced' = synced \cup {i}
    /\ UNCHANGED <<informers, startedInformers, lock, pc, type, todo, created, returned, runs, stop, res>>

Stop ==
    /\ ~stop
    /\ stop' = TRUE
    /\ UNCHANGED <<informers, startedInformers, lock, pc, type, todo, created, returned, runs, synced, res>>

-----------------------------------------------------------------------------
Call(c) ==
    \/ \E t \in Types : Informer(c, t)
    \/ Start(c)
    \/ WaitForCacheSync(c)

Step(c) ==
    \/ InformerFor(c) \/ NewInformer(c) \/ Return(c)
    \/ \E t \in Types : StartLook(c, t)
    \/ StartRun(c) \/ StartDone(c)
    \/ \E t \in Types : WaitOne(c, t)
    \/ WaitDone(c)

Next ==
    \/ \E c \in Callers : Call(c) \/ Step(c)
    \/ \E i \in Instances : Sync(i)
    \/ Stop

Spec == Init /\ [][Next]_vars

-----------------------------------------------------------------------------
\* The values of the state variables.
TypeOK ==
    /\ informers \in [Types -> Instances \cup {None}]
    /\ startedInformers \subseteq Types
    /\ lock \in Callers \cup {None}
    /\ pc \in [Callers -> {"idle", "informerfor", "new", "return", "range", "run", "wait"}]
    /\ type \in [Callers -> Types \cup {None}]
    /\ todo \in [Callers -> SUBSET Types]
    /\ created \in 0 .. MaxInstances
    /\ returned \in [Types -> SUBSET Instances]
    /\ runs \in [Instances -> Nat]
    /\ synced \subseteq Instances
    /\ stop \in BOOLEAN
    /\ res \in [Callers -> SUBSET Types]

\* Every caller that asks for the informer of a type is given the same object,
\* however the calls interleave: handlers are added to, and listers read from,
\* the informer that is run.
OneInformerPerType ==
    \A t \in Types : \A i, j \in returned[t] : i = j

\* "This allows Start() to be called multiple times safely": no informer's Run
\* is called twice.
RunAtMostOnce == \A i \in Instances : runs[i] <= 1

\* When WaitForCacheSync has answered true for a type, the informer its callers
\* hold has had its first list.
WaitedIsSynced ==
    \A c \in Callers : \A t \in res[c] : \A i \in returned[t] : i \in synced
=============================================================================
