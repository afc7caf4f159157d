------------------------------ MODULE Process ------------------------------
(***************************************************************************)
(* The life of one of the two processes built on dependency injection: the *)
(* node agent (cmd/agent, through sharemain.Main) and the scheduler        *)
(* extender (cmd/scheduler).                                               *)
(*                                                                         *)
(* Package initialisation registers an injector per linked package; main   *)
(* builds the kubeconfig and the signal context, SetupInformers runs the   *)
(* injectors, the constructors take their dependencies from the context,   *)
(* StartInformers starts the caches and waits for them.  Then the agent    *)
(* runs its controllers and waits for a signal, and the extender serves    *)
(* HTTP.  Beside the main goroutine run the signal goroutine, one          *)
(* goroutine per informer, and the controllers' workers.                   *)
(***************************************************************************)
EXTENDS Naturals, Sequences

CONSTANTS
    Programs,       \* the programs, of "agent" and "scheduler"
    Environments,   \* what the process may find where GetConfig looks
    Threads,        \* DefaultThreadsPerController
    MaxQueue,       \* bound: keys waiting in one work queue
    MaxSignals      \* bound: termination signals sent

ASSUME ProgramAssumption ==
    /\ Programs \subseteq {"agent", "scheduler"}
    /\ Environments \subseteq SUBSET {"master", "kubeconfig", "KUBECONFIG", "unreadable", "cluster", "home"}

ASSUME BoundsAssumption == Threads \in Nat \ {0} /\ MaxQueue \in Nat /\ MaxSignals \in Nat

VARIABLES
    program,    \* which of them this process is
    env,        \* what GetConfig will find
    cfg,        \* the rest.Config: where it comes from, and whether -master is in it
    registry,   \* injection.Default: the injectors of each kind, in order of registration
    todo,       \* injectors SetupInformers has still to run
    ctx,        \* keys of the values in the context
    list,       \* informers handed to StartInformers
    pc,         \* the main goroutine
    waitFor,    \* index of the informer StartInformers waits for
    informer,   \* the goroutine and cache of each informer
    controller, \* the goroutine of Impl.Run
    queue,      \* keys in each controller's work queue
    busy,       \* workers of each controller inside Reconcile
    serving,    \* an HTTP request is being answered
    sent,       \* signals sent to the process
    pending,    \* signals in the channel of SetupSignalHandler
    handler,    \* the signal goroutine
    stop,       \* stopCh is closed
    exit        \* how the process ended

setup == <<program, env, cfg, registry, todo, ctx, list>>
work == <<informer, controller, queue, busy, serving>>
signal == <<sent, pending, handler, stop>>
vars == <<setup, pc, waitFor, work, signal, exit>>

-----------------------------------------------------------------------------
\* The generated injectors: what each registers, and the values its with...
\* function takes out of the context with Get (a panic when they are missing).
LocalVolumeClient == [key |-> "lvclient", kind |-> "client", needs |-> {}]
KubeClient == [key |-> "kubeclient", kind |-> "client", needs |-> {}]
LocalVolumeFactory == [key |-> "lvfactory", kind |-> "factory", needs |-> {"lvclient"}]
KubeFactory == [key |-> "kubefactory", kind |-> "factory", needs |-> {"kubeclient"}]
LocalVolumeInformer == [key |-> "localvolume", kind |-> "informer", needs |-> {"lvfactory"}]
PersistentVolumeInformer == [key |-> "persistentvolume", kind |-> "informer", needs |-> {"kubefactory"}]
PersistentVolumeClaimInformer == [key |-> "persistentvolumeclaim", kind |-> "informer", needs |-> {"kubefactory"}]
PodInformer == [key |-> "pod", kind |-> "informer", needs |-> {"kubefactory"}]
StorageClassInformer == [key |-> "storageclass", kind |-> "informer", needs |-> {"kubefactory"}]

Injectors ==
    {LocalVolumeClient, KubeClient, LocalVolumeFactory, KubeFactory, LocalVolumeInformer,
     PersistentVolumeInformer, PersistentVolumeClaimInformer, PodInformer, StorageClassInformer}

Kinds == {"client", "factory", "duck", "informer"}

\* What a constructor takes out of the context.
NewAgentNeeds == {"lvclient", "localvolume", "persistentvolume"}
NewGCNeeds == {"kubeclient", "persistentvolume"}
NewLocalVolumeSchedulerNeeds ==
    {"pod", "persistentvolumeclaim", "storageclass", "localvolume", "lvclient", "kubeclient"}

Controllers == {"agent", "gc"}
Imported ==
    [agent |-> NewAgentNeeds \cup NewGCNeeds, scheduler |-> NewLocalVolumeSchedulerNeeds]

\* The packages a program links: an informer imports its factory, a factory its client.
Imports(keys) == keys \cup UNION {i.needs : i \in {j \in Injectors : j.key \in keys}}
LinkedBy ==
    [p \in {"agent", "scheduler"} |-> {i \in Injectors : i.key \in Imports(Imports(Imported[p]))}]
InformerKeys == {i.key : i \in {j \in Injectors : j.kind = "informer"}}
InformersOf == [p \in {"agent", "scheduler"} |-> {i.key : i \in LinkedBy[p]} \cap InformerKeys]
Linked == LinkedBy[program]
Informers == InformersOf[program]

Sources == {"kubeconfig", "KUBECONFIG", "cluster", "home"}
NoConfig == [source |-> "none", master |-> FALSE]

Init ==
    /\ program \in Programs /\ env \in Environments /\ cfg = NoConfig
    /\ registry = [k \in Kinds |-> <<>>] /\ todo = <<>> /\ ctx = {} /\ list = <<>>
    /\ pc = "init" /\ waitFor = 1
    /\ informer = [i \in Informers |-> "created"]
    /\ controller = [c \in Controllers |-> "none"]
    /\ queue = [c \in Controllers |-> 0] /\ busy = [c \in Controllers |-> 0]
    /\ serving = FALSE
    /\ sent = 0 /\ pending = 0 /\ handler = "none" /\ stop = FALSE
    /\ exit = "none"

-----------------------------------------------------------------------------
\* Package initialisation: imported packages first, otherwise in any order.
Registered == UNION {{registry[k][n].key : n \in DOMAIN registry[k]} : k \in Kinds}

Register(i) ==
    /\ exit = "none" /\ pc = "init" /\ i.key \notin Registered /\ i.needs \subseteq Registered
    /\ registry' = [registry EXCEPT ![i.kind] = Append(@, i)]
    /\ UNCHANGED <<program, env, cfg, todo, ctx, list, pc, waitFor, work, signal, exit>>

\* kubeconfig.GetConfig: a file that is named is used, with the flag -master,
\* or is an error; without one the in-cluster and home configurations are tried.
GetConfig(e) ==
    CASE "kubeconfig" \in e /\ "unreadable" \notin e -> [source |-> "kubeconfig", master |-> "master" \in e]
      [] "kubeconfig" \notin e /\ "KUBECONFIG" \in e /\ "unreadable" \notin e
            -> [source |-> "KUBECONFIG", master |-> "master" \in e]
      [] {"kubeconfig", "KUBECONFIG"} \cap e = {} /\ "cluster" \in e -> [source |-> "cluster", master |-> FALSE]
      [] {"kubeconfig", "KUBECONFIG"} \cap e = {} /\ "cluster" \notin e /\ "home" \in e
            -> [source |-> "home", master |-> FALSE]
      [] OTHER -> NoConfig

Main ==
    /\ exit = "none" /\ pc = "init" /\ Registered = {i.key : i \in Linked}
    /\ cfg' = GetConfig(env)
    /\ pc' = "newcontext"
    /\ exit' = IF cfg' = NoConfig THEN "fatal" ELSE exit
    /\ UNCHANGED <<program, env, registry, todo, ctx, list, waitFor, work, signal>>

\* Mutant: the informers are set up before their factories.
NewContextInformersFirst ==
    /\ exit = "none" /\ pc = "newcontext"
    /\ handler' = "first"
    /\ todo' = registry["client"] \o registry["informer"] \o registry["factory"] \o registry["duck"]
    /\ pc' = "setup"
    /\ UNCHANGED <<program, env, cfg, registry, ctx, list, waitFor, work, sent, pending, stop, exit>>

\* signals.NewContext starts the signal goroutine; its context holds no value.
\* SetupInformers takes a copy of each list of injectors.
NewContext ==
    /\ exit = "none" /\ pc = "newcontext"
    /\ handler' = "first"
    /\ todo' = registry["client"] \o registry["factory"] \o registry["duck"] \o registry["informer"]
    /\ pc' = "setup"
    /\ UNCHANGED <<program, env, cfg, registry, ctx, list, waitFor, work, sent, pending, stop, exit>>

\* One injector of SetupInformers.
Inject ==
    /\ exit = "none" /\ pc = "setup" /\ todo # <<>>
    /\ LET i == Head(todo) IN
        /\ exit' = IF i.needs \subseteq ctx THEN exit ELSE "panic"
        /\ ctx' = ctx \cup {i.key}
        /\ list' = IF i.kind = "informer" THEN Append(list, i.key) ELSE list
    /\ todo' = Tail(todo)
    /\ UNCHANGED <<program, env, cfg, registry, pc, waitFor, work, signal>>

SetUp ==
    /\ exit = "none" /\ pc = "setup" /\ todo = <<>>
    /\ pc' = IF program = "agent" THEN "newagent" ELSE "startinformers"
    /\ UNCHANGED <<setup, waitFor, work, signal, exit>>

\* NewAgent: CreateVG may fail, which is fatal.
NewAgent ==
    /\ exit = "none" /\ pc = "newagent"
    /\ pc' = "newgc"
    /\ exit' \in (IF NewAgentNeeds \subseteq ctx THEN {exit, "fatal"} ELSE {"panic"})
    /\ UNCHANGED <<setup, waitFor, work, signal>>

NewGC ==
    /\ exit = "none" /\ pc = "newgc"
    /\ pc' = "startinformers"
    /\ exit' = IF NewGCNeeds \subseteq ctx THEN exit ELSE "panic"
    /\ UNCHANGED <<setup, waitFor, work, signal>>

-----------------------------------------------------------------------------
\* Mutant: the caches are started and not waited for.
StartInformersOnly ==
    /\ exit = "none" /\ pc = "startinformers"
    /\ informer' = [i \in Informers |-> "running"]
    /\ pc' = IF program = "agent" THEN "startall" ELSE "newscheduler"
    /\ UNCHANGED <<setup, waitFor, controller, queue, busy, serving, signal, exit>>

\* Mutant: the goroutines share the loop variable, and all run the last informer.
StartInformersLoopVariable ==
    /\ exit = "none" /\ pc = "startinformers"
    /\ informer' = [informer EXCEPT ![list[Len(list)]] = "running"]
    /\ pc' = "wait"
    /\ UNCHANGED <<setup, waitFor, controller, queue, busy, serving, signal, exit>>

\* StartInformers: a goroutine per informer, then the caches are waited for in turn.
StartInformers ==
    /\ exit = "none" /\ pc = "startinformers"
    /\ informer' = [i \in Informers |-> IF \E n \in DOMAIN list : list[n] = i THEN "running" ELSE informer[i]]
    /\ pc' = "wait"
    /\ UNCHANGED <<setup, waitFor, controller, queue, busy, serving, signal, exit>>

WaitForCacheSync ==
    /\ exit = "none" /\ pc = "wait"
    /\ IF waitFor <= Len(list)
        THEN informer[list[waitFor]] \in {"synced", "frozen"} /\ waitFor' = waitFor + 1 /\ UNCHANGED pc
        ELSE pc' = (IF program = "agent" THEN "startall" ELSE "newscheduler") /\ UNCHANGED waitFor
    /\ UNCHANGED <<setup, work, signal, exit>>

\* WaitForCacheSync returns false, and StartInformers an error, which is fatal.
StartInformersError ==
    /\ exit = "none" /\ pc = "wait" /\ waitFor <= Len(list) /\ stop
    /\ exit' = "fatal"
    /\ UNCHANGED <<setup, pc, waitFor, work, signal>>

\* The first list of an informer is in its cache; a closed stopCh ends its goroutine.
Sync(i) ==
    /\ exit = "none" /\ informer[i] = "running" /\ ~stop
    /\ informer' = [informer EXCEPT ![i] = "synced"]
    /\ UNCHANGED <<setup, pc, waitFor, controller, queue, busy, serving, signal, exit>>

InformerStops(i) ==
    /\ exit = "none" /\ informer[i] \in {"running", "synced"} /\ stop
    /\ informer' = [informer EXCEPT ![i] = IF @ = "synced" THEN "frozen" ELSE "stopped"]
    /\ UNCHANGED <<setup, pc, waitFor, controller, queue, busy, serving, signal, exit>>

\* An event of an informer puts a key into a controller's queue, unless it is shut down.
Event(c) ==
    /\ exit = "none" /\ program = "agent" /\ \E i \in Informers : informer[i] \in {"running", "synced"}
    /\ queue[c] < MaxQueue /\ controller[c] # "draining" /\ controller[c] # "ended"
    /\ queue' = [queue EXCEPT ![c] = @ + 1]
    /\ UNCHANGED <<setup, pc, waitFor, informer, controller, busy, serving, signal, exit>>

-----------------------------------------------------------------------------
\* go StartAll; the main goroutine waits for the context.
StartAll ==
    /\ exit = "none" /\ pc = "startall"
    /\ controller' = [c \in Controllers |-> "starting"]
    /\ pc' = "done"
    /\ UNCHANGED <<setup, waitFor, informer, queue, busy, serving, signal, exit>>

\* Impl.Run: launch the workers; on stopCh shut the queue down, wait until it
\* is empty, and wait for the workers.
RunController(c) ==
    \/ /\ exit = "none" /\ controller[c] = "starting"
       /\ controller' = [controller EXCEPT ![c] = "running"]
       /\ UNCHANGED <<setup, pc, waitFor, informer, queue, busy, serving, signal, exit>>
    \/ /\ exit = "none" /\ controller[c] = "running" /\ stop
       /\ controller' = [controller EXCEPT ![c] = "draining"]
       /\ UNCHANGED <<setup, pc, waitFor, informer, queue, busy, serving, signal, exit>>
    \/ /\ exit = "none" /\ controller[c] = "draining" /\ queue[c] = 0 /\ busy[c] = 0
       /\ controller' = [controller EXCEPT ![c] = "ended"]
       /\ UNCHANGED <<setup, pc, waitFor, informer, queue, busy, serving, signal, exit>>

\* Mutant: a goroutine per key.
BeginReconcileEach(c) ==
    /\ exit = "none" /\ controller[c] \in {"running", "draining"} /\ queue[c] > 0
    /\ queue' = [queue EXCEPT ![c] = @ - 1]
    /\ busy' = [busy EXCEPT ![c] = @ + 1]
    /\ UNCHANGED <<setup, pc, waitFor, informer, controller, serving, signal, exit>>

\* processNextWorkItem: a worker takes a key and calls Reconcile, and returns from it.
BeginReconcile(c) ==
    /\ exit = "none" /\ controller[c] \in {"running", "draining"} /\ queue[c] > 0 /\ busy[c] < Threads
    /\ queue' = [queue EXCEPT ![c] = @ - 1]
    /\ busy' = [busy EXCEPT ![c] = @ + 1]
    /\ UNCHANGED <<setup, pc, waitFor, informer, controller, serving, signal, exit>>

EndReconcile(c) ==
    /\ exit = "none" /\ busy[c] > 0
    /\ busy' = [busy EXCEPT ![c] = @ - 1]
    /\ UNCHANGED <<setup, pc, waitFor, informer, controller, queue, serving, signal, exit>>

\* Mutant: the context is waited for only when there are no controllers.
MainReturnNever ==
    /\ exit = "none" /\ pc = "done" /\ stop /\ program # "agent"
    /\ exit' = "0"
    /\ UNCHANGED <<setup, pc, waitFor, work, signal>>

\* <-egCtx.Done(); the error group is empty, so that main returns.
MainReturn ==
    /\ exit = "none" /\ pc = "done" /\ stop
    /\ exit' = "0"
    /\ UNCHANGED <<setup, pc, waitFor, work, signal>>

\* cmd/scheduler: NewLocalVolumeScheduler, the routes, and ListenAndServe, which
\* returns only on an error and does not look at the context.
NewLocalVolumeScheduler ==
    /\ exit = "none" /\ pc = "newscheduler"
    /\ pc' = "serve"
    /\ exit' = IF NewLocalVolumeSchedulerNeeds \subseteq ctx THEN exit ELSE "panic"
    /\ UNCHANGED <<setup, waitFor, work, signal>>

ListenAndServe ==
    /\ exit = "none" /\ pc = "serve"
    /\ \/ serving' = ~serving /\ UNCHANGED exit
       \/ exit' = "fatal" /\ UNCHANGED serving
    /\ UNCHANGED <<setup, pc, waitFor, informer, controller, queue, busy, signal>>

-----------------------------------------------------------------------------
\* A signal is the end of a process that has not called Notify yet; afterwards
\* it goes into a channel of two places, and is dropped when that is full.
Signal ==
    /\ exit = "none" /\ sent < MaxSignals
    /\ sent' = sent + 1
    /\ pending' = IF handler # "none" /\ pending < 2 THEN pending + 1 ELSE pending
    /\ exit' = IF handler = "none" THEN "killed" ELSE exit
    /\ UNCHANGED <<setup, pc, waitFor, work, handler, stop>>

\* Mutant: the goroutine ends with the first signal.
SignalHandlerOnce ==
    /\ exit = "none" /\ handler = "first" /\ pending > 0
    /\ pending' = pending - 1
    /\ stop' = TRUE /\ handler' = "ended"
    /\ UNCHANGED <<setup, pc, waitFor, work, sent, exit>>

\* The goroutine of SetupSignalHandler: close the channel, then os.Exit(1).
SignalHandler ==
    /\ exit = "none" /\ handler \in {"first", "second"} /\ pending > 0
    /\ pending' = pending - 1
    /\ stop' = TRUE /\ handler' = "second"
    /\ exit' = IF handler = "second" THEN "1" ELSE exit
    /\ UNCHANGED <<setup, pc, waitFor, work, sent>>

MainGoroutine ==
    \/ \E i \in Linked : Register(i)
    \/ Main \/ NewContext \/ Inject \/ SetUp \/ NewAgent \/ NewGC
    \/ StartInformers \/ WaitForCacheSync \/ StartInformersError
    \/ StartAll \/ MainReturn
    \/ NewLocalVolumeScheduler \/ ListenAndServe

InformerGoroutine(i) == i \in Informers /\ (Sync(i) \/ InformerStops(i))

ControllerGoroutine(c) == RunController(c) \/ BeginReconcile(c) \/ EndReconcile(c)

Next ==
    \/ MainGoroutine
    \/ \E i \in InformerKeys : InformerGoroutine(i)
    \/ \E c \in Controllers : Event(c) \/ ControllerGoroutine(c)
    \/ Signal \/ SignalHandler

Spec == Init /\ [][Next]_vars

\* The Go scheduler runs every goroutine that can run, and the API server
\* answers the first list of every informer.
Fairness ==
    /\ WF_vars(MainGoroutine)
    /\ WF_vars(SignalHandler)
    /\ \A i \in InformerKeys : WF_vars(InformerGoroutine(i))
    /\ \A c \in Controllers : WF_vars(ControllerGoroutine(c))

FairSpec == Spec /\ Fairness

-----------------------------------------------------------------------------
\* The values of the state variables.
TypeOK ==
    /\ program \in Programs /\ env \in Environments
    /\ cfg \in [source : Sources \cup {"none"}, master : BOOLEAN]
    /\ \A k \in Kinds : \A n \in DOMAIN registry[k] : registry[k][n] \in Linked
    /\ ctx \subseteq {i.key : i \in Linked}
    /\ \A n \in DOMAIN list : list[n] \in Informers
    /\ pc \in {"init", "newcontext", "setup", "newagent", "newgc", "startinformers", "wait",
               "startall", "done", "newscheduler", "serve"}
    /\ waitFor \in 1 .. Len(list) + 1
    /\ informer \in [Informers -> {"created", "running", "synced", "stopped", "frozen"}]
    /\ controller \in [Controllers -> {"none", "starting", "running", "draining", "ended"}]
    /\ queue \in [Controllers -> 0 .. MaxQueue]
    /\ busy \in [Controllers -> 0 .. Threads]
    /\ serving \in BOOLEAN /\ stop \in BOOLEAN
    /\ sent \in 0 .. MaxSignals /\ pending \in 0 .. 2
    /\ handler \in {"none", "first", "second"}
    /\ exit \in {"none", "0", "1", "fatal", "panic", "killed"}

\* In whatever order the linked packages were initialised, SetupInformers and
\* the constructors find every value they take out of the context: no Get panics.
NeverPanics == exit # "panic"

\* A worker inside Reconcile, and a request being answered, read caches that
\* have all had their first list, whenever a signal comes during the start-up.
ReadsSyncedCaches ==
    (serving \/ \E c \in Controllers : busy[c] > 0)
        => \A i \in Informers : informer[i] \in {"synced", "frozen"}

\* Signals end the process, whatever it is doing and however many follow: one
\* ends the agent, and a second one the extender, whose server does not look at
\* the context.
SignalsToEnd == IF program = "agent" THEN 1 ELSE 2
SignalsEndProcess == sent >= SignalsToEnd ~> exit # "none"

\* Without a signal the process gets to its work, or ends with an error.
GetsToWork ==
    <>(exit # "none" \/ pc = "serve" \/ (pc = "done" /\ \A c \in Controllers : controller[c] = "running"))
=============================================================================
