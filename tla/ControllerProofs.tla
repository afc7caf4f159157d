------------------------- MODULE ControllerProofs -------------------------
(***************************************************************************)
(* Proofs about Controller, for any number of keys and workers: the queue  *)
(* serves one key to one worker at a time, Run returns with nothing left   *)
(* to do, and the controller implements ReconcileRequests.  And about the  *)
(* factory its informers come from, InformerFactory (the instance F), for  *)
(* any callers: one informer object per type, run at most once, and synced *)
(* when a caller was told so.                                              *)
(***************************************************************************)
EXTENDS Controller, TLAPS

\* How the queue, the two sets and the workers fit together.
QueueInv ==
    /\ \A i, j \in 1 .. Len(queue) : queue[i] = queue[j] => i = j
    /\ \A i \in 1 .. Len(queue) : queue[i] \in dirty \ processing
    /\ \A k \in dirty : InQueue(k) \/ k \in processing

WorkerInv ==
    /\ \A w \in Workers : Busy(w) => wkey[w] \in processing
    /\ \A k \in processing : \E w \in Workers : Busy(w) /\ wkey[w] = k
    /\ NeverSimultaneous

\* A worker leaves only when the queue is shutting down, and the last one
\* leaves the queue empty.
ExitInv ==
    /\ runPc # "running" => shuttingDown
    /\ \A w \in Workers : wpc[w] = "exited" => shuttingDown
    /\ (\A w \in Workers : wpc[w] = "exited") => queue = <<>>
    /\ runPc = "returned" => \A w \in Workers : wpc[w] = "exited"

Inv == TypeOK /\ QueueInv /\ WorkerInv /\ ExitInv
----------------------------------------------------------------------------
(* Sequences as the queue uses them *)

LEMMA AppendFacts ==
    ASSUME NEW s \in Seq(Keys), NEW k \in Keys
    PROVE  /\ Append(s, k) \in Seq(Keys)
           /\ Len(Append(s, k)) = Len(s) + 1
           /\ \A i \in 1 .. Len(s) : Append(s, k)[i] = s[i]
           /\ Append(s, k)[Len(s) + 1] = k
  OBVIOUS

LEMMA TailFacts ==
    ASSUME NEW s \in Seq(Keys), s # <<>>
    PROVE  /\ Tail(s) \in Seq(Keys) /\ Head(s) \in Keys
           /\ Len(s) \in Nat \ {0} /\ Len(Tail(s)) = Len(s) - 1
           /\ Head(s) = s[1]
           /\ \A i \in 1 .. Len(s) - 1 : Tail(s)[i] = s[i + 1]
  OBVIOUS

LEMMA AddType ==
    ASSUME TypeOK, NEW k \in Keys, Add(k)
    PROVE  queue' \in Seq(Keys) /\ dirty' \subseteq Keys /\ processing' \subseteq Keys
<1>1. CASE UNCHANGED queueVars
  BY <1>1 DEF TypeOK, queueVars
<1>2. CASE dirty' = dirty \cup {k} /\ queue' \in {queue, Append(queue, k)} /\ UNCHANGED processing
  BY <1>2, AppendFacts DEF TypeOK
<1> QED
  BY <1>1, <1>2 DEF Add

LEMMA NextType == TypeOK /\ [Next]_vars => TypeOK'
<1> SUFFICES ASSUME TypeOK, [Next]_vars PROVE TypeOK'
  OBVIOUS
<1> USE DEF queueVars, workerVars, runVars, Busy
<1>1. ASSUME NEW k \in Keys, EnqueueKey(k) PROVE TypeOK'
  BY <1>1, AddType DEF EnqueueKey, TypeOK
<1>2. ASSUME NEW k \in Keys, EnqueueKeyAfter(k) PROVE TypeOK'
  BY <1>2 DEF EnqueueKeyAfter, AddAfter, TypeOK
<1>3. ASSUME NEW k \in Keys, WaitingLoop(k) PROVE TypeOK'
  BY <1>3, AddType DEF WaitingLoop, TypeOK
<1>4. ASSUME NEW w \in Workers, Get(w) PROVE TypeOK'
  BY <1>4, TailFacts DEF Get, TypeOK
<1>5. ASSUME NEW w \in Workers, GetShutDown(w) PROVE TypeOK'
  BY <1>5 DEF GetShutDown, TypeOK
<1>6. ASSUME NEW w \in Workers, ReconcileEnds(w) \/ ReconcileFails(w) \/ HandleErr(w) PROVE TypeOK'
  BY <1>6 DEF ReconcileEnds, ReconcileFails, HandleErr, TypeOK
<1>7. ASSUME NEW w \in Workers, AddRateLimited(w) PROVE TypeOK'
  BY <1>7 DEF AddRateLimited, AddAfter, TypeOK
<1>8. ASSUME NEW w \in Workers, Done(w) PROVE TypeOK'
  BY <1>8, AppendFacts DEF Done, TypeOK
<1>9. CASE CloseStopCh \/ Run
  BY Zenon, <1>9 DEF CloseStopCh, Run, ShutDown, RunDrained, RunReturns, TypeOK
<1>10. CASE UNCHANGED vars
  BY <1>10 DEF vars, TypeOK
<1> QED
  BY <1>1, <1>2, <1>3, <1>4, <1>5, <1>6, <1>7, <1>8, <1>9, <1>10 DEF Next, ProcessNextWorkItem
----------------------------------------------------------------------------
(* The queue and the two sets *)

LEMMA AddQueue ==
    ASSUME TypeOK, QueueInv, NEW k \in Keys, Add(k)
    PROVE  QueueInv'
<1>1. CASE UNCHANGED queueVars
  BY <1>1 DEF QueueInv, InQueue, queueVars
<1>2. CASE k \notin dirty /\ dirty' = dirty \cup {k} /\ UNCHANGED processing
  <2>1. queue \in Seq(Keys) /\ Len(queue) \in Nat
    BY DEF TypeOK
  <2>2. \A i \in 1 .. Len(queue) : queue[i] # k
    BY <1>2 DEF QueueInv
  <2>3. CASE k \in processing /\ queue' = queue
    BY <1>2, <2>3 DEF QueueInv, InQueue
  <2>4. CASE k \notin processing /\ queue' = Append(queue, k)
    <3>1. /\ Len(queue') = Len(queue) + 1
          /\ \A i \in 1 .. Len(queue) : queue'[i] = queue[i]
          /\ queue'[Len(queue) + 1] = k
      BY <2>1, <2>4, AppendFacts
    <3>2. \A i, j \in 1 .. Len(queue') : queue'[i] = queue'[j] => i = j
      BY <2>1, <2>2, <3>1 DEF QueueInv
    <3>3. \A i \in 1 .. Len(queue') : queue'[i] \in dirty' \ processing'
      BY <1>2, <2>1, <2>4, <3>1 DEF QueueInv
    <3>4. ASSUME NEW d \in dirty' PROVE InQueue(d)' \/ d \in processing'
      BY <1>2, <2>1, <3>1 DEF QueueInv, InQueue
    <3> QED
      BY <3>2, <3>3, <3>4 DEF QueueInv
  <2> QED
    BY <1>2, <2>3, <2>4 DEF Add, queueVars
<1> QED
  BY <1>1, <1>2 DEF Add

LEMMA GetQueue ==
    ASSUME TypeOK, QueueInv, NEW w \in Workers, Get(w)
    PROVE  /\ QueueInv'
           /\ Head(queue) \in Keys /\ Head(queue) \in dirty \ processing
<1> DEFINE k == Head(queue)
<1>1. /\ Len(queue) \in Nat \ {0} /\ Len(queue') = Len(queue) - 1
      /\ k = queue[1] /\ k \in Keys
      /\ \A i \in 1 .. Len(queue) - 1 : queue'[i] = queue[i + 1]
  BY TailFacts DEF Get, TypeOK
<1>2. dirty' = dirty \ {k} /\ processing' = processing \cup {k}
  BY DEF Get
<1> HIDE DEF k
<1>3. k \in dirty \ processing
  BY <1>1 DEF QueueInv
<1>4. \A i, j \in 1 .. Len(queue') : queue'[i] = queue'[j] => i = j
  BY <1>1 DEF QueueInv
<1>5. \A i \in 1 .. Len(queue') : queue'[i] \in dirty' \ processing'
  <2> SUFFICES ASSUME NEW i \in 1 .. Len(queue') PROVE queue'[i] \in dirty' \ processing'
    OBVIOUS
  <2>1. i + 1 \in 1 .. Len(queue) /\ queue'[i] = queue[i + 1] /\ i + 1 # 1 /\ 1 \in 1 .. Len(queue)
    BY <1>1
  <2>2. queue[i + 1] # k
    BY <1>1, <2>1 DEF QueueInv
  <2> QED
    BY <1>2, <2>1, <2>2 DEF QueueInv
<1>6. ASSUME NEW d \in dirty' PROVE InQueue(d)' \/ d \in processing'
  <2>1. d \in dirty /\ d # k
    BY <1>2
  <2>2. CASE d \in processing
    BY <1>2, <2>2
  <2>3. ASSUME NEW i \in 1 .. Len(queue), queue[i] = d PROVE InQueue(d)'
    <3>1. i - 1 \in 1 .. Len(queue') /\ queue'[i - 1] = d
      BY <1>1, <2>1, <2>3
    <3> QED
      BY <3>1 DEF InQueue
  <2> QED
    BY <2>1, <2>2, <2>3 DEF QueueInv, InQueue
<1> QED
  BY <1>1, <1>3, <1>4, <1>5, <1>6 DEF QueueInv, k

LEMMA DoneQueue ==
    ASSUME TypeOK, QueueInv, WorkerInv, NEW w \in Workers, Done(w)
    PROVE  QueueInv'
<1> DEFINE k == wkey[w]
<1>1. k \in Keys /\ k \in processing
  BY DEF Done, TypeOK, WorkerInv, Busy
<1>2. /\ processing' = processing \ {k} /\ UNCHANGED dirty
      /\ queue' = IF k \in dirty THEN Append(queue, k) ELSE queue
  BY DEF Done
<1> HIDE DEF k
<1>3. queue \in Seq(Keys) /\ Len(queue) \in Nat
  BY DEF TypeOK
<1>4. \A i \in 1 .. Len(queue) : queue[i] # k
  BY <1>1 DEF QueueInv
<1>5. CASE k \notin dirty
  BY <1>2, <1>5 DEF QueueInv, InQueue
<1>6. CASE k \in dirty
  <2>1. /\ Len(queue') = Len(queue) + 1
        /\ \A i \in 1 .. Len(queue) : queue'[i] = queue[i]
        /\ queue'[Len(queue) + 1] = k
    BY <1>1, <1>2, <1>3, <1>6, AppendFacts
  <2>2. \A i, j \in 1 .. Len(queue') : queue'[i] = queue'[j] => i = j
    BY <1>3, <1>4, <2>1 DEF QueueInv
  <2>3. \A i \in 1 .. Len(queue') : queue'[i] \in dirty' \ processing'
    BY <1>2, <1>3, <1>6, <2>1 DEF QueueInv
  <2>4. ASSUME NEW d \in dirty' PROVE InQueue(d)' \/ d \in processing'
    BY <1>2, <1>3, <2>1 DEF QueueInv, InQueue
  <2> QED
    BY <2>2, <2>3, <2>4 DEF QueueInv
<1> QED
  BY <1>5, <1>6

LEMMA NextQueue == Inv /\ [Next]_vars => QueueInv'
<1> SUFFICES ASSUME Inv, [Next]_vars PROVE QueueInv'
  OBVIOUS
<1>0. TypeOK /\ QueueInv /\ WorkerInv
  BY DEF Inv
<1>1. CASE UNCHANGED queueVars
  BY <1>0, <1>1 DEF QueueInv, InQueue, queueVars
<1>2. ASSUME NEW k \in Keys, EnqueueKey(k) \/ WaitingLoop(k) PROVE QueueInv'
  BY <1>0, <1>2, AddQueue DEF EnqueueKey, WaitingLoop
<1>3. ASSUME NEW w \in Workers, Get(w) PROVE QueueInv'
  BY <1>0, <1>3, GetQueue
<1>4. ASSUME NEW w \in Workers, Done(w) PROVE QueueInv'
  BY <1>0, <1>4, DoneQueue
<1> QED
  BY <1>1, <1>2, <1>3, <1>4
  DEF Next, ProcessNextWorkItem, EnqueueKeyAfter, GetShutDown, ReconcileEnds, ReconcileFails,
      HandleErr, AddRateLimited, CloseStopCh, Run, ShutDown, RunDrained, RunReturns, vars
----------------------------------------------------------------------------
(* The workers *)

\* Steps that change where a busy worker is and nothing else of it.
LEMMA SameWorkers ==
    ASSUME WorkerInv, UNCHANGED <<processing, wkey>>, \A w \in Workers : Busy(w)' <=> Busy(w)
    PROVE  WorkerInv'
  BY DEF WorkerInv, NeverSimultaneous

LEMMA NextWorkers == Inv /\ [Next]_vars => WorkerInv'
<1> SUFFICES ASSUME Inv, [Next]_vars PROVE WorkerInv'
  OBVIOUS
<1>0. TypeOK /\ QueueInv /\ WorkerInv
  BY DEF Inv
<1>1. CASE UNCHANGED <<processing, workerVars>>
  BY <1>0, <1>1 DEF WorkerInv, NeverSimultaneous, Busy, workerVars
<1>2. ASSUME NEW k \in Keys, EnqueueKey(k) \/ EnqueueKeyAfter(k) \/ WaitingLoop(k) PROVE WorkerInv'
  <2>1. UNCHANGED <<processing, workerVars>>
    BY <1>2 DEF EnqueueKey, EnqueueKeyAfter, WaitingLoop, Add, queueVars
  <2> QED
    BY <1>1, <2>1
<1>3. ASSUME NEW w \in Workers, Get(w) PROVE WorkerInv'
  <2> DEFINE k == Head(queue)
  <2>1. k \in dirty \ processing
    BY <1>0, <1>3, GetQueue
  <2>2. /\ processing' = processing \cup {k}
        /\ ~Busy(w) /\ Busy(w)' /\ wkey'[w] = k
        /\ \A v \in Workers \ {w} : wkey'[v] = wkey[v] /\ (Busy(v)' <=> Busy(v))
    BY <1>0, <1>3 DEF Get, TypeOK, Busy
  <2> HIDE DEF k
  <2>3. \A v \in Workers \ {w} : Busy(v) => wkey[v] # k
    BY <1>0, <2>1 DEF WorkerInv
  <2>4. \A v \in Workers : Busy(v)' => wkey'[v] \in processing'
    BY <1>0, <2>2 DEF WorkerInv
  <2>5. \A d \in processing' : \E v \in Workers : Busy(v)' /\ wkey'[v] = d
    <3>1. ASSUME NEW d \in processing PROVE \E v \in Workers : Busy(v)' /\ wkey'[v] = d
      <4>1. PICK v \in Workers : Busy(v) /\ wkey[v] = d
        BY <1>0, <3>1 DEF WorkerInv
      <4>2. v # w
        BY <2>2, <4>1
      <4> QED
        BY <2>2, <4>1, <4>2
    <3> QED
      BY <2>2, <3>1
  <2>6. NeverSimultaneous'
    BY <1>0, <2>2, <2>3 DEF WorkerInv, NeverSimultaneous
  <2> QED
    BY <2>4, <2>5, <2>6 DEF WorkerInv
<1>4. ASSUME NEW w \in Workers, GetShutDown(w) PROVE WorkerInv'
  BY <1>0, <1>4, SameWorkers DEF GetShutDown, queueVars, TypeOK, Busy
<1>5. ASSUME NEW w \in Workers,
             ReconcileEnds(w) \/ ReconcileFails(w) \/ HandleErr(w) \/ AddRateLimited(w)
      PROVE  WorkerInv'
  BY <1>0, <1>5, SameWorkers
  DEF ReconcileEnds, ReconcileFails, HandleErr, AddRateLimited, queueVars, TypeOK, Busy
<1>6. ASSUME NEW w \in Workers, Done(w) PROVE WorkerInv'
  <2>1. /\ processing' = processing \ {wkey[w]}
        /\ Busy(w) /\ ~Busy(w)'
        /\ \A v \in Workers \ {w} : wkey'[v] = wkey[v] /\ (Busy(v)' <=> Busy(v))
    BY <1>0, <1>6 DEF Done, TypeOK, Busy
  <2>2. \A v \in Workers : Busy(v)' => wkey'[v] \in processing'
    BY <1>0, <2>1 DEF WorkerInv, NeverSimultaneous
  <2>3. \A d \in processing' : \E v \in Workers : Busy(v)' /\ wkey'[v] = d
    <3> SUFFICES ASSUME NEW d \in processing' PROVE \E v \in Workers : Busy(v)' /\ wkey'[v] = d
      OBVIOUS
    <3>1. PICK v \in Workers : Busy(v) /\ wkey[v] = d
      BY <1>0, <2>1 DEF WorkerInv
    <3>2. v # w
      BY <2>1, <3>1
    <3> QED
      BY <2>1, <3>1, <3>2
  <2>4. NeverSimultaneous'
    BY <1>0, <2>1 DEF WorkerInv, NeverSimultaneous
  <2> QED
    BY <2>2, <2>3, <2>4 DEF WorkerInv
<1> QED
  BY <1>1, <1>2, <1>3, <1>4, <1>5, <1>6
  DEF Next, ProcessNextWorkItem, CloseStopCh, Run, ShutDown, RunDrained, RunReturns, vars, queueVars
----------------------------------------------------------------------------
(* Shutting down *)

LEMMA NextExit == Inv /\ [Next]_vars => ExitInv'
<1> SUFFICES ASSUME Inv, [Next]_vars PROVE ExitInv'
  OBVIOUS
<1>0. TypeOK /\ ExitInv
  BY DEF Inv
<1> USE DEF queueVars, workerVars, runVars
\* While the queue takes items, every worker is there.
<1>a. ~shuttingDown => \A w \in Workers : wpc[w] # "exited"
  BY <1>0 DEF ExitInv
<1>1. ASSUME NEW k \in Keys, EnqueueKey(k) \/ WaitingLoop(k) PROVE ExitInv'
  <2>1. UNCHANGED <<wpc, runPc, shuttingDown>> /\ (queue' = queue \/ ~shuttingDown)
    BY <1>1 DEF EnqueueKey, WaitingLoop, Add
  <2> QED
    BY <1>0, <1>a, <2>1, WorkersAssumption DEF ExitInv
<1>2. ASSUME NEW k \in Keys, EnqueueKeyAfter(k) PROVE ExitInv'
  BY <1>0, <1>2 DEF EnqueueKeyAfter, ExitInv
\* A worker that is not gone and does not go.
<1>3. ASSUME NEW w \in Workers, wpc[w] # "exited", wpc'[w] # "exited",
             \A v \in Workers \ {w} : wpc'[v] = wpc[v], UNCHANGED <<runPc, shuttingDown>>
      PROVE  ExitInv'
  BY <1>0, <1>3 DEF ExitInv
<1>4. ASSUME NEW w \in Workers, Get(w) \/ Done(w) PROVE ExitInv'
  BY <1>0, <1>3, <1>4 DEF Get, Done, TypeOK
<1>5. ASSUME NEW w \in Workers,
             ReconcileEnds(w) \/ ReconcileFails(w) \/ HandleErr(w) \/ AddRateLimited(w)
      PROVE  ExitInv'
  BY <1>0, <1>3, <1>5 DEF ReconcileEnds, ReconcileFails, HandleErr, AddRateLimited, TypeOK
<1>6. ASSUME NEW w \in Workers, GetShutDown(w) PROVE ExitInv'
  BY <1>0, <1>6 DEF GetShutDown, ExitInv, TypeOK
<1>7. CASE CloseStopCh \/ Run
  BY <1>0, <1>7 DEF CloseStopCh, Run, ShutDown, RunDrained, RunReturns, ExitInv
<1>8. CASE UNCHANGED vars
  BY <1>0, <1>8 DEF vars, ExitInv
<1> QED
  BY <1>1, <1>2, <1>4, <1>5, <1>6, <1>7, <1>8 DEF Next, ProcessNextWorkItem
----------------------------------------------------------------------------
LEMMA InitInv == Init => Inv
<1> SUFFICES ASSUME Init PROVE Inv
  OBVIOUS
<1>0. Len(queue) = 0 /\ queue \in Seq(Keys)
  BY DEF Init
<1>1. TypeOK
  BY Zenon, <1>0 DEF Init, TypeOK, Busy
<1>2. QueueInv
  <2>1. \A i \in 1 .. Len(queue) : FALSE
    BY <1>0
  <2>2. dirty = {}
    BY DEF Init
  <2> QED
    BY <2>1, <2>2 DEF QueueInv
<1>3. WorkerInv
  BY DEF Init, WorkerInv, NeverSimultaneous, Busy
<1>4. ExitInv
  BY DEF Init, ExitInv
<1> QED
  BY <1>1, <1>2, <1>3, <1>4 DEF Inv

LEMMA AlwaysInv == Spec => []Inv
<1>1. Inv /\ [Next]_vars => Inv'
  BY NextType, NextQueue, NextWorkers, NextExit DEF Inv
<1> QED
  BY <1>1, InitInv, PTL DEF Spec

\* Every variable of the controller keeps its type.
THEOREM ControllerTypes == Spec => []TypeOK
<1>1. Inv => TypeOK
  BY DEF Inv
<1> QED
  BY <1>1, AlwaysInv, PTL

\* Two workers never reconcile the same key at the same time, for any number
\* of workers and keys.
THEOREM OneWorkerPerKey == Spec => []NeverSimultaneous
<1>1. Inv => NeverSimultaneous
  BY DEF Inv, WorkerInv
<1> QED
  BY <1>1, AlwaysInv, PTL

\* A key that needs processing is in the queue or will be put there by the
\* worker that has it.
THEOREM DirtyNotLost == Spec => []DirtyIsKept
<1>1. Inv => DirtyIsKept
  BY DEF Inv, QueueInv, WorkerInv, DirtyIsKept
<1> QED
  BY <1>1, AlwaysInv, PTL

\* When Run has returned there is nothing left to do and no one at work.
THEOREM RunDrains == Spec => []ReturnsDrained
<1>1. ASSUME Inv, runPc = "returned" PROVE dirty = {} /\ processing = {} /\ queue = <<>>
  <2>1. queue = <<>> /\ \A w \in Workers : ~Busy(w)
    BY <1>1 DEF Inv, ExitInv, Busy
  <2>2. processing = {}
    BY <1>1, <2>1 DEF Inv, WorkerInv
  <2>3. \A k \in Keys : ~InQueue(k)
    BY <2>1 DEF InQueue
  <2>4. dirty = {}
    BY <1>1, <2>2, <2>3 DEF Inv, QueueInv, TypeOK
  <2> QED
    BY <2>1, <2>2, <2>4
<1>2. Inv => ReturnsDrained
  BY <1>1 DEF ReturnsDrained
<1> QED
  BY <1>2, AlwaysInv, PTL
----------------------------------------------------------------------------
(* Refinement *)

\* The keys of the workers whose reconcile failed, on their way to the
\* delaying queue.
Failing == {wkey[w] : w \in {v \in Workers : wpc[v] \in {"failed", "requeue"}}}

Requested == dirty \cup waiting \cup Failing

LEMMA StepFailing ==
    ASSUME TypeOK, WorkerInv, NEW w \in Workers,
           wpc[w] \in {"failed", "requeue"}, wpc'[w] \notin {"failed", "requeue"},
           \A v \in Workers \ {w} : wpc'[v] = wpc[v], UNCHANGED wkey
    PROVE  wkey[w] \in Failing /\ Failing' = Failing \ {wkey[w]}
  BY DEF Failing, WorkerInv, NeverSimultaneous, Busy

LEMMA Refines == Inv /\ [Next]_vars => [Requests!Next]_(Requests!vars)
<1> SUFFICES ASSUME Inv, [Next]_vars PROVE [Requests!Next]_(Requests!vars)
  OBVIOUS
<1>0. TypeOK /\ QueueInv /\ WorkerInv
  BY DEF Inv
<1> USE DEF queueVars, workerVars, runVars
\* The steps of the abstract specification, in the controller's terms.
<1>s. UNCHANGED <<Requested, processing, shuttingDown>> => UNCHANGED Requests!vars
  BY DEF Requests!vars, Requested, Failing
<1>r. ASSUME NEW k \in Keys, Requested' = Requested \cup {k}, UNCHANGED <<processing, shuttingDown>>
      PROVE  Requests!Next
  BY <1>r DEF Requests!Next, Requests!Request, Requested, Failing
<1>d. ASSUME NEW k \in Keys, shuttingDown, Requested' \in {Requested, Requested \ {k}},
             UNCHANGED <<processing, shuttingDown>>
      PROVE  [Requests!Next]_(Requests!vars)
  BY <1>d, <1>s DEF Requests!Next, Requests!Drop, Requested, Failing
<1>1. ASSUME NEW k \in Keys, EnqueueKey(k) PROVE [Requests!Next]_(Requests!vars)
  <2>1. UNCHANGED <<waiting, Failing, processing, shuttingDown>> /\ dirty' \in {dirty, dirty \cup {k}}
    BY <1>1 DEF EnqueueKey, Add, Failing
  <2>2. Requested' \in {Requested, Requested \cup {k}}
    BY <2>1 DEF Requested
  <2> QED
    BY <1>r, <1>s, <2>1, <2>2
<1>2. ASSUME NEW k \in Keys, EnqueueKeyAfter(k) PROVE [Requests!Next]_(Requests!vars)
  <2>1. UNCHANGED <<dirty, Failing, processing, shuttingDown>> /\ waiting' \in {waiting, waiting \cup {k}}
    BY <1>2 DEF EnqueueKeyAfter, AddAfter, Failing
  <2>2. Requested' \in {Requested, Requested \cup {k}}
    BY <2>1 DEF Requested
  <2> QED
    BY <1>r, <1>s, <2>1, <2>2
<1>3. ASSUME NEW k \in Keys, WaitingLoop(k) PROVE [Requests!Next]_(Requests!vars)
  <2>1. /\ UNCHANGED <<Failing, processing, shuttingDown>>
        /\ k \in waiting /\ waiting' = waiting \ {k} /\ dirty' = dirty \cup {k}
    BY <1>3 DEF WaitingLoop, Add, Failing
  <2>2. Requested' = Requested
    BY <2>1 DEF Requested
  <2> QED
    BY <1>s, <2>1, <2>2
<1>4. ASSUME NEW w \in Workers, Get(w) PROVE [Requests!Next]_(Requests!vars)
  <2> DEFINE k == Head(queue)
  <2>1. k \in Keys /\ k \in dirty \ processing
    BY <1>0, <1>4, GetQueue
  <2>2. /\ dirty' = dirty \ {k} /\ processing' = processing \cup {k}
        /\ UNCHANGED <<waiting, shuttingDown>>
    BY <1>4 DEF Get
  <2>3. Failing' = Failing
    BY <1>0, <1>4 DEF Get, TypeOK, Failing
  <2> HIDE DEF k
  <2>4. Requested' \in {Requested, Requested \ {k}} /\ k \in Requested
    BY <2>1, <2>2, <2>3 DEF Requested
  <2> QED
    BY <2>1, <2>2, <2>4 DEF Requests!Next, Requests!Start, Requested, Failing
<1>5. ASSUME NEW w \in Workers, GetShutDown(w) \/ ReconcileEnds(w)
      PROVE  [Requests!Next]_(Requests!vars)
  <2>1. UNCHANGED <<dirty, waiting, processing, shuttingDown>>
    BY <1>5 DEF GetShutDown, ReconcileEnds
  <2>2. Failing' = Failing
    BY <1>0, <1>5 DEF GetShutDown, ReconcileEnds, TypeOK, Failing
  <2> QED
    BY <1>s, <2>1, <2>2 DEF Requested
<1>6. ASSUME NEW w \in Workers, ReconcileFails(w) PROVE [Requests!Next]_(Requests!vars)
  <2>1. UNCHANGED <<dirty, waiting, processing, shuttingDown>> /\ wkey[w] \in Keys
    BY <1>0, <1>6 DEF ReconcileFails, TypeOK, Busy
  <2>2. Failing' = Failing \cup {wkey[w]}
    BY <1>0, <1>6 DEF ReconcileFails, TypeOK, Failing
  <2>3. Requested' = Requested \cup {wkey[w]}
    BY <2>1, <2>2 DEF Requested
  <2> QED
    BY <1>r, <2>1, <2>3
<1>7. ASSUME NEW w \in Workers, HandleErr(w) PROVE [Requests!Next]_(Requests!vars)
  <2>1. /\ UNCHANGED <<dirty, waiting, processing, shuttingDown, wkey>> /\ wkey[w] \in Keys
        /\ wpc[w] = "failed" /\ wpc'[w] = IF shuttingDown THEN "done" ELSE "requeue"
        /\ \A v \in Workers \ {w} : wpc'[v] = wpc[v]
    BY <1>0, <1>7 DEF HandleErr, TypeOK, Busy
  <2>2. CASE shuttingDown
    <3>1. Failing' = Failing \ {wkey[w]}
      BY <1>0, <2>1, <2>2, StepFailing
    <3>2. Requested' \in {Requested, Requested \ {wkey[w]}}
      BY <2>1, <3>1 DEF Requested
    <3> QED
      BY <1>d, <2>1, <2>2, <3>2
  <2>3. CASE ~shuttingDown
    <3>1. Failing' = Failing
      BY <2>1, <2>3 DEF Failing
    <3> QED
      BY <1>s, <2>1, <3>1 DEF Requested
  <2> QED
    BY <2>2, <2>3
<1>8. ASSUME NEW w \in Workers, AddRateLimited(w) PROVE [Requests!Next]_(Requests!vars)
  <2>1. /\ UNCHANGED <<dirty, processing, shuttingDown, wkey>> /\ wkey[w] \in Keys
        /\ wpc[w] = "requeue" /\ wpc'[w] = "done"
        /\ \A v \in Workers \ {w} : wpc'[v] = wpc[v]
        /\ waiting' = IF shuttingDown THEN waiting ELSE waiting \cup {wkey[w]}
    BY <1>0, <1>8 DEF AddRateLimited, AddAfter, TypeOK, Busy
  <2>2. wkey[w] \in Failing /\ Failing' = Failing \ {wkey[w]}
    BY <1>0, <2>1, StepFailing
  <2>3. CASE shuttingDown
    <3>1. Requested' \in {Requested, Requested \ {wkey[w]}}
      BY <2>1, <2>2, <2>3 DEF Requested
    <3> QED
      BY <1>d, <2>1, <2>3, <3>1
  <2>4. CASE ~shuttingDown
    <3>1. Requested' = Requested
      BY <2>1, <2>2, <2>4 DEF Requested
    <3> QED
      BY <1>s, <2>1, <3>1
  <2> QED
    BY <2>3, <2>4
<1>9. ASSUME NEW w \in Workers, Done(w) PROVE [Requests!Next]_(Requests!vars)
  <2>1. /\ UNCHANGED <<dirty, waiting, shuttingDown>>
        /\ processing' = processing \ {wkey[w]}
        /\ wkey[w] \in Keys /\ wkey[w] \in processing
    BY <1>0, <1>9 DEF Done, TypeOK, WorkerInv, Busy
  <2>2. Failing' = Failing
    BY <1>0, <1>9 DEF Done, TypeOK, Failing
  <2>3. Requested' = Requested
    BY <2>1, <2>2 DEF Requested
  <2> QED
    BY <2>1, <2>3 DEF Requests!Next, Requests!Finish, Requested, Failing
<1>10. CASE CloseStopCh \/ RunDrained \/ RunReturns \/ UNCHANGED vars
  <2>1. UNCHANGED <<Requested, processing, shuttingDown>>
    BY <1>10 DEF CloseStopCh, RunDrained, RunReturns, vars, Requested, Failing
  <2> QED
    BY <1>s, <2>1
<1>11. CASE ShutDown
  <2>1. UNCHANGED <<Requested, processing>> /\ shuttingDown' = TRUE
    BY <1>11 DEF ShutDown, Requested, Failing
  <2> QED
    BY <2>1 DEF Requests!Next, Requests!Stop, Requested, Failing
<1> QED
  BY <1>1, <1>2, <1>3, <1>4, <1>5, <1>6, <1>7, <1>8, <1>9, <1>10, <1>11
  DEF Next, ProcessNextWorkItem, Run

\* The controller implements ReconcileRequests: it loses no request until it
\* is stopped, and it never reconciles a key twice at the same time.
THEOREM ControllerKeepsRequests == Spec => KeepsRequests
<1>1. Init => Requests!Init
  BY DEF Init, Requests!Init
<1> QED
  BY <1>1, Refines, AlwaysInv, PTL DEF Spec, KeepsRequests, Requests!Spec
---------------------------------------------------------------------------
(* The factory of the informers *)

CONSTANTS Callers, Types, None, MaxInstances
VARIABLES
    informers, startedInformers, lock, pc, type, todo, created, returned, runs, synced, stop, res

F == INSTANCE InformerFactory

\* Where a caller holds the mutex.
Locked == {"new", "return", "range", "run"}

\* The mutex has one holder, and what the holder found out under it still holds.
LockInv ==
    \A c \in Callers :
        /\ pc[c] \in Locked => lock = c
        /\ pc[c] \in {"informerfor", "new", "return", "run"} => type[c] \in Types
        /\ pc[c] = "new" => informers[type[c]] = None
        /\ pc[c] = "return" => informers[type[c]] # None
        /\ pc[c] = "run" => informers[type[c]] # None /\ type[c] \notin startedInformers
        /\ pc[c] \in {"range", "run"} => \A t \in todo[c] : informers[t] # None

\* The map only grows, and no object is in it twice.
MapInv ==
    /\ \A t \in Types : informers[t] # None => informers[t] <= created
    /\ \A t, u \in Types : informers[t] = informers[u] /\ informers[t] # None => t = u
    /\ \A t \in Types : \A i \in returned[t] : informers[t] = i

\* An object that was run is one of a started type.
RunInv ==
    /\ \A i \in F!Instances : runs[i] <= 1
    /\ \A i \in F!Instances : runs[i] # 0 => \E t \in startedInformers : informers[t] = i

\* What WaitForCacheSync answered stays true.
SyncInv == \A c \in Callers : \A t \in res[c] : informers[t] \in synced

FactoryInv == F!TypeOK /\ LockInv /\ MapInv /\ RunInv /\ SyncInv

LEMMA NoneFacts ==
    ASSUME F!SetsAssumption, F!BoundsAssumption
    PROVE  None \notin F!Instances /\ None \notin Callers /\ None \notin Types
  BY F!SetsAssumption, F!BoundsAssumption DEF F!SetsAssumption, F!BoundsAssumption, F!Instances

LEMMA FactoryInit ==
    ASSUME F!BoundsAssumption
    PROVE  F!Init => FactoryInv
<1> SUFFICES ASSUME F!Init PROVE FactoryInv
  OBVIOUS
<1>1. F!TypeOK
  <2>1. 0 \in 0 .. MaxInstances
    BY F!BoundsAssumption DEF F!BoundsAssumption
  <2>2. runs \in [F!Instances -> Nat]
    BY DEF F!Init
  <2> QED
    BY Zenon, <2>1, <2>2 DEF F!Init, F!TypeOK
<1>2. LockInv /\ SyncInv
  BY DEF F!Init, LockInv, SyncInv, Locked
<1>3. MapInv /\ RunInv
  BY DEF F!Init, MapInv, RunInv
<1> QED
  BY <1>1, <1>2, <1>3 DEF FactoryInv

----------------------------------------------------------------------------
(* InformerFor *)

LEMMA InformerStep ==
    ASSUME FactoryInv, NEW c \in Callers, NEW t \in Types, F!Informer(c, t)
    PROVE  FactoryInv'
<1> USE DEF FactoryInv, F!Informer, F!Goto
<1>1. F!TypeOK'
  BY DEF F!TypeOK
<1>2. LockInv'
  BY DEF F!TypeOK, LockInv, Locked
<1>3. MapInv' /\ RunInv' /\ SyncInv'
  BY DEF MapInv, RunInv, SyncInv
<1> QED
  BY <1>1, <1>2, <1>3

LEMMA InformerForStep ==
    ASSUME F!SetsAssumption, F!BoundsAssumption, FactoryInv, NEW c \in Callers, F!InformerFor(c)
    PROVE  FactoryInv'
<1> USE DEF FactoryInv, F!InformerFor, F!Goto
<1>1. F!TypeOK'
  BY DEF F!TypeOK
<1>2. LockInv'
  BY NoneFacts DEF F!TypeOK, LockInv, Locked
<1>3. MapInv' /\ RunInv' /\ SyncInv'
  BY Zenon DEF MapInv, RunInv, SyncInv
<1> QED
  BY <1>1, <1>2, <1>3

LEMMA NewInformerStep ==
    ASSUME F!SetsAssumption, F!BoundsAssumption, FactoryInv, NEW c \in Callers, F!NewInformer(c)
    PROVE  FactoryInv'
<1> DEFINE t == type[c]
<1>1. t \in Types /\ informers[t] = None /\ lock = c
  BY DEF FactoryInv, LockInv, F!NewInformer, Locked
<1>2. created + 1 \in F!Instances /\ created' = created + 1 /\ created \in Nat
  BY F!BoundsAssumption DEF F!BoundsAssumption, FactoryInv, F!TypeOK, F!NewInformer, F!Instances
<1>3. /\ informers' \in [Types -> F!Instances \cup {None}]
      /\ informers'[t] = created + 1
      /\ \A u \in Types : u # t => informers'[u] = informers[u]
  BY <1>1, <1>2 DEF FactoryInv, F!TypeOK, F!NewInformer
<1>4. F!TypeOK'
  BY <1>2, <1>3, F!BoundsAssumption DEF F!BoundsAssumption, FactoryInv, F!TypeOK, F!NewInformer, F!Goto, F!Instances
<1>5. \A d \in Callers \ {c} : pc[d] \notin Locked /\ pc'[d] = pc[d]
  BY <1>1, NoneFacts DEF FactoryInv, F!TypeOK, LockInv, F!NewInformer, F!Goto
<1>6. LockInv'
  BY <1>1, <1>2, <1>3, <1>5, NoneFacts DEF FactoryInv, F!TypeOK, LockInv, F!NewInformer, F!Goto, Locked
<1>7. MapInv'
  <2>1. \A u \in Types : informers[u] # None => informers[u] \in Nat /\ informers[u] <= created
    BY F!BoundsAssumption DEF F!BoundsAssumption, FactoryInv, F!TypeOK, MapInv, F!Instances
  <2>2. returned' = returned /\ \A i \in returned[t] : FALSE
    BY <1>1, NoneFacts DEF FactoryInv, F!TypeOK, MapInv, F!NewInformer
  <2> QED
    BY <1>1, <1>2, <1>3, <2>1, <2>2 DEF FactoryInv, MapInv
<1>8. RunInv'
  <2>1. runs' = runs /\ startedInformers' = startedInformers /\ startedInformers \subseteq Types
    BY DEF F!NewInformer, FactoryInv, F!TypeOK
  <2> QED
    BY <1>1, <1>3, <2>1, NoneFacts DEF FactoryInv, RunInv
<1>9. SyncInv'
  <2>1. res' = res /\ synced' = synced /\ synced \subseteq F!Instances /\ \A d \in Callers : res[d] \subseteq Types
    BY DEF F!NewInformer, FactoryInv, F!TypeOK
  <2> QED
    BY <1>1, <1>3, <2>1, NoneFacts DEF FactoryInv, SyncInv
<1> QED
  BY <1>4, <1>6, <1>7, <1>8, <1>9 DEF FactoryInv

LEMMA ReturnStep ==
    ASSUME F!SetsAssumption, F!BoundsAssumption, FactoryInv, NEW c \in Callers, F!Return(c)
    PROVE  FactoryInv'
<1>1. type[c] \in Types /\ informers[type[c]] # None /\ informers[type[c]] \in F!Instances /\ lock = c
  BY DEF FactoryInv, LockInv, F!Return, Locked, F!TypeOK
<1>2. F!TypeOK'
  BY <1>1 DEF FactoryInv, F!TypeOK, F!Return, F!Goto
<1>3. LockInv'
  BY <1>1, NoneFacts DEF FactoryInv, F!TypeOK, LockInv, F!Return, F!Goto, Locked
<1>4. MapInv'
  BY <1>1 DEF FactoryInv, F!TypeOK, MapInv, F!Return
<1>5. RunInv' /\ SyncInv'
  BY DEF FactoryInv, RunInv, SyncInv, F!Return
<1> QED
  BY <1>2, <1>3, <1>4, <1>5 DEF FactoryInv

----------------------------------------------------------------------------
(* Start *)

LEMMA StartStep ==
    ASSUME F!SetsAssumption, F!BoundsAssumption, FactoryInv, NEW c \in Callers, F!Start(c)
    PROVE  FactoryInv'
<1> USE DEF FactoryInv, F!Start, F!Goto, F!Known
<1>1. F!TypeOK'
  BY DEF F!TypeOK
<1>2. LockInv'
  BY NoneFacts DEF F!TypeOK, LockInv, Locked
<1>3. MapInv' /\ RunInv' /\ SyncInv'
  BY Zenon DEF MapInv, RunInv, SyncInv
<1> QED
  BY <1>1, <1>2, <1>3

LEMMA StartLookStep ==
    ASSUME F!SetsAssumption, F!BoundsAssumption, FactoryInv, NEW c \in Callers, NEW t \in Types, F!StartLook(c, t)
    PROVE  FactoryInv'
<1> USE DEF FactoryInv, F!StartLook, F!Goto
<1>1. F!TypeOK'
  BY DEF F!TypeOK
<1>2. LockInv'
  BY Zenon, NoneFacts DEF F!TypeOK, LockInv, Locked
<1>3. MapInv' /\ RunInv' /\ SyncInv'
  BY Zenon DEF MapInv, RunInv, SyncInv
<1> QED
  BY <1>1, <1>2, <1>3

LEMMA StartRunStep ==
    ASSUME FactoryInv, NEW c \in Callers, F!StartRun(c)
    PROVE  FactoryInv'
<1> DEFINE t == type[c]
           i == informers[t]
<1>1. t \in Types /\ i # None /\ i \in F!Instances /\ t \notin startedInformers /\ lock = c
  BY DEF FactoryInv, LockInv, F!StartRun, Locked, F!TypeOK
<1>2. runs[i] = 0
  <2>1. ASSUME runs[i] # 0 PROVE FALSE
    <3>1. PICK u \in startedInformers : informers[u] = i
      BY <1>1, <2>1 DEF FactoryInv, RunInv
    <3>2. u \in Types
      BY <3>1 DEF FactoryInv, F!TypeOK
    <3> QED
      BY Zenon, <1>1, <3>1, <3>2 DEF FactoryInv, MapInv
  <2> QED
    BY <2>1
<1>3. /\ runs' = [runs EXCEPT ![i] = @ + 1]
      /\ startedInformers' = startedInformers \cup {t} /\ UNCHANGED informers
  BY DEF F!StartRun
<1>4. runs'[i] = 1 /\ \A j \in F!Instances : j # i => runs'[j] = runs[j]
  BY <1>1, <1>2, <1>3 DEF FactoryInv, F!TypeOK
<1>5. F!TypeOK'
  BY <1>1, <1>3 DEF FactoryInv, F!TypeOK, F!StartRun, F!Goto
<1>6. LockInv'
  <2>1. /\ pc' = [pc EXCEPT ![c] = "range"] /\ UNCHANGED <<lock, type, todo>>
        /\ pc[c] = "run" /\ pc'[c] = "range"
    BY DEF F!StartRun, F!Goto, FactoryInv, F!TypeOK
  <2>2. \A d \in Callers \ {c} : pc'[d] = pc[d] /\ pc[d] \notin Locked
    BY <1>1, <2>1 DEF FactoryInv, F!TypeOK, LockInv
  <2>3. \A u \in todo[c] : informers[u] # None
    BY <2>1 DEF FactoryInv, LockInv
  <2>4. ASSUME NEW d \in Callers \ {c}
        PROVE  /\ pc'[d] \notin Locked
               /\ pc'[d] = "informerfor" => type'[d] \in Types
    BY Zenon, <2>1, <2>2 DEF FactoryInv, LockInv
  <2> QED
    BY <1>1, <1>3, <2>1, <2>3, <2>4 DEF LockInv, Locked
<1>7. RunInv'
  BY <1>1, <1>3, <1>4 DEF FactoryInv, RunInv
<1>8. MapInv' /\ SyncInv'
  BY Zenon DEF FactoryInv, MapInv, SyncInv, F!StartRun
<1> QED
  BY <1>5, <1>6, <1>7, <1>8 DEF FactoryInv

LEMMA StartDoneStep ==
    ASSUME F!SetsAssumption, F!BoundsAssumption, FactoryInv, NEW c \in Callers, F!StartDone(c)
    PROVE  FactoryInv'
<1> USE DEF FactoryInv, F!StartDone, F!Goto
<1>1. F!TypeOK'
  BY DEF F!TypeOK
<1>2. LockInv'
  BY NoneFacts DEF F!TypeOK, LockInv, Locked
<1>3. MapInv' /\ RunInv' /\ SyncInv'
  BY DEF MapInv, RunInv, SyncInv
<1> QED
  BY <1>1, <1>2, <1>3

----------------------------------------------------------------------------
(* WaitForCacheSync, and the informers themselves *)

LEMMA WaitStep ==
    ASSUME FactoryInv, NEW c \in Callers,
           F!WaitForCacheSync(c) \/ (\E t \in Types : F!WaitOne(c, t)) \/ F!WaitDone(c)
    PROVE  FactoryInv'
<1> USE DEF FactoryInv, F!Goto, F!Known
<1>1. F!TypeOK'
  BY DEF F!TypeOK, F!WaitForCacheSync, F!WaitOne, F!WaitDone
<1>2. LockInv'
  BY DEF F!TypeOK, LockInv, Locked, F!WaitForCacheSync, F!WaitOne, F!WaitDone
<1>3. MapInv' /\ RunInv'
  <2>1. UNCHANGED <<informers, created, returned, runs, startedInformers>>
    BY Zenon DEF F!WaitForCacheSync, F!WaitOne, F!WaitDone
  <2> QED
    BY Zenon, <2>1 DEF MapInv, RunInv
<1>4. SyncInv'
  BY DEF F!TypeOK, SyncInv, F!WaitForCacheSync, F!WaitOne, F!WaitDone
<1> QED
  BY <1>1, <1>2, <1>3, <1>4

LEMMA InformerGoroutineStep ==
    ASSUME FactoryInv, (\E i \in F!Instances : F!Sync(i)) \/ F!Stop \/ UNCHANGED F!vars
    PROVE  FactoryInv'
<1> USE DEF FactoryInv
<1>1. F!TypeOK'
  BY Zenon DEF F!TypeOK, F!Sync, F!Stop, F!vars
<1>2. LockInv' /\ MapInv' /\ RunInv'
  <2>1. /\ UNCHANGED <<informers, created, returned, runs, startedInformers>>
        /\ UNCHANGED <<pc, lock, type, todo>>
    BY Zenon DEF F!Sync, F!Stop, F!vars
  <2>2. LockInv'
    BY Zenon, <2>1 DEF LockInv
  <2> QED
    BY Zenon, <2>1, <2>2 DEF MapInv, RunInv
<1>3. SyncInv'
  BY Zenon DEF SyncInv, F!Sync, F!Stop, F!vars
<1> QED
  BY <1>1, <1>2, <1>3

----------------------------------------------------------------------------
\* The invariant: what a caller learns under the mutex of the factory is true
\* until it gives the mutex back.
THEOREM FactoryInvariant ==
    ASSUME F!SetsAssumption, F!BoundsAssumption
    PROVE  F!Spec => []FactoryInv
<1>1. FactoryInv /\ [F!Next]_(F!vars) => FactoryInv'
  <2> SUFFICES ASSUME FactoryInv, [F!Next]_(F!vars) PROVE FactoryInv'
    OBVIOUS
  <2>1. CASE (\E i \in F!Instances : F!Sync(i)) \/ F!Stop \/ UNCHANGED F!vars
    BY <2>1, InformerGoroutineStep
  <2>2. ASSUME NEW c \in Callers, F!Call(c) PROVE FactoryInv'
    BY <2>2, InformerStep, StartStep, WaitStep DEF F!Call
  <2>3. ASSUME NEW c \in Callers, F!Step(c) PROVE FactoryInv'
    BY <2>3, InformerForStep, NewInformerStep, ReturnStep, StartLookStep, StartRunStep,
       StartDoneStep, WaitStep DEF F!Step
  <2> QED
    BY <2>1, <2>2, <2>3 DEF F!Next
<1> QED
  BY FactoryInit, <1>1, PTL DEF F!Spec

\* InformerFor of the factory gives every caller the same informer for a type.
THEOREM OneInformer ==
    ASSUME F!SetsAssumption, F!BoundsAssumption
    PROVE  F!Spec => []F!OneInformerPerType
<1>1. FactoryInv => F!OneInformerPerType
  BY DEF FactoryInv, MapInv, F!OneInformerPerType
<1> QED
  BY <1>1, FactoryInvariant, PTL

\* Start calls Run of no informer twice, however often and by whomever it is
\* called.
THEOREM RunOnce ==
    ASSUME F!SetsAssumption, F!BoundsAssumption
    PROVE  F!Spec => []F!RunAtMostOnce
<1>1. FactoryInv => F!RunAtMostOnce
  BY Zenon DEF FactoryInv, RunInv, F!RunAtMostOnce
<1> QED
  BY <1>1, FactoryInvariant, PTL

\* The informer a caller holds is synced when WaitForCacheSync said so.
THEOREM WaitedSynced ==
    ASSUME F!SetsAssumption, F!BoundsAssumption
    PROVE  F!Spec => []F!WaitedIsSynced
<1>1. FactoryInv => F!WaitedIsSynced
  BY DEF FactoryInv, F!TypeOK, MapInv, SyncInv, F!WaitedIsSynced
<1> QED
  BY <1>1, FactoryInvariant, PTL
===========================================================================
