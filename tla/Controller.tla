---------------------------- MODULE Controller ----------------------------
(***************************************************************************)
(* controller.Impl (pkg/common/controller) and the work queue of client-go *)
(* it drives: event handlers add keys, a fixed number of workers take keys *)
(* and reconcile them, failed keys come back after a delay, and Run stops  *)
(* it all.  The agent's and the collector's reconcilers run on one each.   *)
(*                                                                         *)
(* Every operation of the queue holds its lock, so it is one step.  Delays *)
(* are not measured: a delayed key may come back at any time.              *)
(***************************************************************************)
EXTENDS Integers, Sequences

CONSTANTS
    Keys,       \* keys of objects
    Workers,    \* the goroutines Run starts
    NoKey       \* the key of a worker without an item

ASSUME KeysAssumption == NoKey \notin Keys
ASSUME WorkersAssumption == Workers # {}

VARIABLES
    queue,          \* workqueue.Type: the items to work on, in order
    dirty,          \* the items that need processing
    processing,     \* the items being processed
    shuttingDown,   \* the queue ignores new items
    waiting,        \* delayingType: items waiting for their delay
    wpc,            \* where each worker is in processNextWorkItem
    wkey,           \* the key it has taken
    stopped,        \* stopCh is closed
    runPc           \* where Run is

queueVars  == <<queue, dirty, processing>>
workerVars == <<wpc, wkey>>
runVars    == <<stopped, shuttingDown, runPc>>
vars       == <<queueVars, waiting, workerVars, runVars>>

Init ==
    /\ queue = <<>> /\ dirty = {} /\ processing = {}
    /\ shuttingDown = FALSE
    /\ waiting = {}
    /\ wpc = [w \in Workers |-> "get"]
    /\ wkey = [w \in Workers |-> NoKey]
    /\ stopped = FALSE
    /\ runPc = "running"
----------------------------------------------------------------------------
(* The queue *)

\* Mutant: an item being processed is queued all the same.
AddProcessing(k) ==
    IF shuttingDown \/ k \in dirty
    THEN UNCHANGED queueVars
    ELSE /\ dirty' = dirty \cup {k}
         /\ queue' = Append(queue, k)
         /\ UNCHANGED processing

\* Mutant: items are accepted after ShutDown.
AddAlways(k) ==
    IF k \in dirty
    THEN UNCHANGED queueVars
    ELSE /\ dirty' = dirty \cup {k}
         /\ queue' = IF k \in processing THEN queue ELSE Append(queue, k)
         /\ UNCHANGED processing

\* Add marks k as needing processing.
Add(k) ==
    IF shuttingDown \/ k \in dirty
    THEN UNCHANGED queueVars
    ELSE /\ dirty' = dirty \cup {k}
         /\ queue' = IF k \in processing THEN queue ELSE Append(queue, k)
         /\ UNCHANGED processing

\* Mutant: the newest item is taken first.
GetLast(w) ==
    /\ wpc[w] = "get"
    /\ queue # <<>>
    /\ LET k == queue[Len(queue)] IN
       /\ queue' = SubSeq(queue, 1, Len(queue) - 1)
       /\ processing' = processing \cup {k}
       /\ dirty' = dirty \ {k}
       /\ wkey' = [wkey EXCEPT ![w] = k]
    /\ wpc' = [wpc EXCEPT ![w] = "reconcile"]
    /\ UNCHANGED <<waiting, runVars>>

\* Get blocks a worker until there is an item ...
Get(w) ==
    /\ wpc[w] = "get"
    /\ queue # <<>>
    /\ LET k == Head(queue) IN
       /\ queue' = Tail(queue)
       /\ processing' = processing \cup {k}
       /\ dirty' = dirty \ {k}
       /\ wkey' = [wkey EXCEPT ![w] = k]
    /\ wpc' = [wpc EXCEPT ![w] = "reconcile"]
    /\ UNCHANGED <<waiting, runVars>>

\* Mutant: a worker waits for delayed items too, which no one adds any more.
GetShutDownLate(w) ==
    /\ wpc[w] = "get"
    /\ queue = <<>> /\ shuttingDown /\ waiting = {}
    /\ wpc' = [wpc EXCEPT ![w] = "exited"]
    /\ UNCHANGED <<queueVars, waiting, wkey, runVars>>

\* ... or the queue is shutting down and drained, and the worker ends.
GetShutDown(w) ==
    /\ wpc[w] = "get"
    /\ queue = <<>> /\ shuttingDown
    /\ wpc' = [wpc EXCEPT ![w] = "exited"]
    /\ UNCHANGED <<queueVars, waiting, wkey, runVars>>

\* Mutant: an item that became dirty meanwhile is not queued.
DoneOnly(w) ==
    /\ wpc[w] = "done"
    /\ processing' = processing \ {wkey[w]}
    /\ wpc' = [wpc EXCEPT ![w] = "get"]
    /\ wkey' = [wkey EXCEPT ![w] = NoKey]
    /\ UNCHANGED <<queue, dirty, waiting, runVars>>

\* Done: an item that became dirty while it was processed is queued again,
\* also while the queue is shutting down.
Done(w) ==
    LET k == wkey[w] IN
    /\ wpc[w] = "done"
    /\ processing' = processing \ {k}
    /\ queue' = IF k \in dirty THEN Append(queue, k) ELSE queue
    /\ wpc' = [wpc EXCEPT ![w] = "get"]
    /\ wkey' = [wkey EXCEPT ![w] = NoKey]
    /\ UNCHANGED <<dirty, waiting, runVars>>

\* AddAfter hands k to the delaying queue unless that is shutting down.
AddAfter(k) ==
    waiting' = IF shuttingDown THEN waiting ELSE waiting \cup {k}

\* waitingLoop adds an item whose delay is over; it ends at ShutDown.
WaitingLoop(k) ==
    /\ k \in waiting /\ ~shuttingDown
    /\ waiting' = waiting \ {k}
    /\ Add(k)
    /\ UNCHANGED <<workerVars, runVars>>
----------------------------------------------------------------------------
(* Event handlers *)

EnqueueKey(k) ==
    /\ Add(k)
    /\ UNCHANGED <<waiting, workerVars, runVars>>

EnqueueKeyAfter(k) ==
    /\ AddAfter(k)
    /\ UNCHANGED <<queueVars, workerVars, runVars>>
----------------------------------------------------------------------------
(* Workers: processNextWorkItem, between Get and Done *)

\* Reconcile succeeds, or fails with a permanent error: the key is forgotten.
ReconcileEnds(w) ==
    /\ wpc[w] = "reconcile"
    /\ wpc' = [wpc EXCEPT ![w] = "done"]
    /\ UNCHANGED <<queueVars, waiting, wkey, runVars>>

\* Mutant: the worker lets go of its item before it handles the error.
ReconcileFailsReleased(w) ==
    /\ wpc[w] = "reconcile"
    /\ wpc' = [wpc EXCEPT ![w] = "failed"]
    /\ wkey' = [wkey EXCEPT ![w] = NoKey]
    /\ UNCHANGED <<queueVars, waiting, runVars>>

ReconcileFails(w) ==
    /\ wpc[w] = "reconcile"
    /\ wpc' = [wpc EXCEPT ![w] = "failed"]
    /\ UNCHANGED <<queueVars, waiting, wkey, runVars>>

\* Mutant: a failed key is forgotten.
HandleErrForgets(w) ==
    /\ wpc[w] = "failed"
    /\ wpc' = [wpc EXCEPT ![w] = "done"]
    /\ UNCHANGED <<queueVars, waiting, wkey, runVars>>

\* handleErr puts the key back unless the queue is shutting down; AddAfter
\* asks that again, and ShutDown may come in between.
HandleErr(w) ==
    /\ wpc[w] = "failed"
    /\ wpc' = [wpc EXCEPT ![w] = IF shuttingDown THEN "done" ELSE "requeue"]
    /\ UNCHANGED <<queueVars, waiting, wkey, runVars>>

AddRateLimited(w) ==
    /\ wpc[w] = "requeue"
    /\ AddAfter(wkey[w])
    /\ wpc' = [wpc EXCEPT ![w] = "done"]
    /\ UNCHANGED <<queueVars, wkey, runVars>>
----------------------------------------------------------------------------
(* Run *)

CloseStopCh ==
    /\ ~stopped
    /\ stopped' = TRUE
    /\ UNCHANGED <<queueVars, waiting, workerVars, shuttingDown, runPc>>

ShutDown ==
    /\ runPc = "running" /\ stopped
    /\ shuttingDown' = TRUE
    /\ runPc' = "draining"
    /\ UNCHANGED <<queueVars, waiting, workerVars, stopped>>

\* Run polls the queue until it is empty, and then waits for the workers.
RunDrained ==
    /\ runPc = "draining" /\ queue = <<>>
    /\ runPc' = "waiting"
    /\ UNCHANGED <<queueVars, waiting, workerVars, stopped, shuttingDown>>

RunReturns ==
    /\ runPc = "waiting" /\ \A w \in Workers : wpc[w] = "exited"
    /\ runPc' = "returned"
    /\ UNCHANGED <<queueVars, waiting, workerVars, stopped, shuttingDown>>
----------------------------------------------------------------------------
ProcessNextWorkItem(w) ==
    \/ Get(w) \/ GetShutDown(w)
    \/ ReconcileEnds(w) \/ ReconcileFails(w) \/ HandleErr(w) \/ AddRateLimited(w)
    \/ Done(w)

Run == ShutDown \/ RunDrained \/ RunReturns

Next ==
    \/ \E k \in Keys : EnqueueKey(k) \/ EnqueueKeyAfter(k) \/ WaitingLoop(k)
    \/ \E w \in Workers : ProcessNextWorkItem(w)
    \/ CloseStopCh \/ Run

Spec == Init /\ [][Next]_vars

\* Workers, waitingLoop and Run are goroutines; reconcilers return.  Nothing
\* says that stopCh is ever closed or that any event comes.
Fairness ==
    /\ \A w \in Workers : WF_vars(ProcessNextWorkItem(w))
    /\ \A k \in Keys : WF_vars(WaitingLoop(k))
    /\ WF_vars(Run)

FairSpec == Spec /\ Fairness
----------------------------------------------------------------------------
(* Properties *)

Busy(w) == wpc[w] \notin {"get", "exited"}

\* Every variable holds a value of its type, and a worker between Get and Done
\* has a key.
TypeOK ==
    /\ queue \in Seq(Keys)
    /\ dirty \subseteq Keys /\ processing \subseteq Keys /\ waiting \subseteq Keys
    /\ wpc \in [Workers -> {"get", "reconcile", "failed", "requeue", "done", "exited"}]
    /\ wkey \in [Workers -> Keys \cup {NoKey}]
    /\ \A w \in Workers : Busy(w) => wkey[w] \in Keys
    /\ stopped \in BOOLEAN /\ shuttingDown \in BOOLEAN
    /\ runPc \in {"running", "draining", "waiting", "returned"}

\* What the comment on Impl.WorkQueue promises: the same item is never
\* processed by two workers at the same time, however often it is added.
NeverSimultaneous ==
    \A v, w \in Workers : v # w /\ Busy(v) /\ Busy(w) => wkey[v] # wkey[w]

InQueue(k) == \E i \in 1 .. Len(queue) : queue[i] = k

\* An item that needs processing is queued, or a worker has it and will queue
\* it again when it is done.
DirtyIsKept ==
    \A k \in dirty : InQueue(k) \/ \E w \in Workers : Busy(w) /\ wkey[w] = k

\* When Run returns, everything that was accepted has been reconciled and no
\* worker is left, and no later event changes that.
ReturnsDrained ==
    runPc = "returned" => dirty = {} /\ processing = {} /\ queue = <<>>

\* The first in first out order serves every item, whatever keeps coming in,
\* and whether or not the queue is shutting down.
EveryItemServed ==
    \A k \in Keys : k \in dirty ~> \E w \in Workers : wpc[w] = "reconcile" /\ wkey[w] = k

\* A key whose reconcile failed is reconciled again, unless stopCh is closed.
FailedIsRetried ==
    \A w \in Workers, k \in Keys :
        wpc[w] = "failed" /\ wkey[w] = k ~>
            stopped \/ \E v \in Workers : wpc[v] = "reconcile" /\ wkey[v] = k

\* What the comment on Run says: once stopCh is closed Run returns, having
\* waited for the workers.
StopReturns == stopped ~> runPc = "returned"

\* The controller keeps the promises of ReconcileRequests.
Requests ==
    INSTANCE ReconcileRequests WITH
        requested <- dirty \cup waiting \cup
                       {wkey[w] : w \in {v \in Workers : wpc[v] \in {"failed", "requeue"}}},
        active    <- processing,
        stopping  <- shuttingDown

\* No request is lost while the controller runs, and no key is reconciled
\* twice at a time: the controller implements ReconcileRequests.
KeepsRequests == Requests!Spec
=============================================================================
