---------------------------- MODULE Provisioning ----------------------------
(***************************************************************************)
(* The CSI protocol around the driver: on each node one driver process     *)
(* with its identity, controller and node servers, the registrar that      *)
(* makes the node known, the provisioner and resizer beside the driver of  *)
(* one node (Home), and kubelet, which stages, expands and publishes.      *)
(*                                                                         *)
(* The sidecars, the scheduler and kubelet are external: they are modelled *)
(* by the calls they make and by what they do with the answers, as far as  *)
(* the capabilities the driver announces decide it.  The driver makes and  *)
(* grows the logical volume in NodePublishVolume and nowhere else (module  *)
(* NodeVolume has the steps); here that is one step.                       *)
(***************************************************************************)
EXTENDS Naturals, Sequences, FiniteSets

CONSTANTS
    Claims,     \* PersistentVolumeClaims, each used by one pod
    Nodes,      \* the nodes on which the driver is installed
    Home,       \* the node on which provisioner and resizer run
    None,       \* no node, no requirement, a topology without the driver's key
    MaxSize,    \* bound on the size of a claim
    MaxFaults   \* bound on crashes and lost answers

ASSUME NodesAssumption == IsFiniteSet(Nodes) /\ Home \in Nodes /\ None \notin Nodes
ASSUME BoundsAssumption == MaxSize \in Nat \ {0} /\ MaxFaults \in Nat

VARIABLES
    up,         \* nodes whose driver runs
    registered, \* nodes with a CSINode entry and the topology label
    sidecars,   \* the sidecars that are ready
    want,       \* the size a claim asks for
    selected,   \* the node chosen for the pod of a claim
    creating,   \* the requirement of a CreateVolume on its way
    pv,         \* the PersistentVolume of a claim: its node and size
    status,     \* the capacity a claim reports
    pending,    \* claims with the condition FileSystemResizePending
    pod,        \* how far kubelet is with the pod of a claim
    fs,         \* the size of the filesystem on the node
    faults

driverVars == <<up, registered, sidecars>>
claimVars  == <<want, selected, creating, pv, status, pending>>
nodeVars   == <<pod, fs>>
vars       == <<driverVars, claimVars, nodeVars, faults>>

NoVolume == [node |-> None, size |-> 0]

Init ==
    /\ up = {} /\ registered = {} /\ sidecars = {}
    /\ want = [c \in Claims |-> 1]
    /\ selected = [c \in Claims |-> None]
    /\ creating = [c \in Claims |-> None]
    /\ pv = [c \in Claims |-> NoVolume]
    /\ status = [c \in Claims |-> 0]
    /\ pending = {}
    /\ pod = [c \in Claims |-> "none"]
    /\ fs = [c \in Claims |-> 0]
    /\ faults = 0

Fault == faults < MaxFaults /\ faults' = faults + 1
-----------------------------------------------------------------------------
(* What the driver announces *)

\* Mutant: the constraints of topology are not announced.
PluginCapabilitiesEverywhere == {"CONTROLLER_SERVICE", "VOLUME_EXPANSION_OFFLINE"}

\* Mutant: volumes may be expanded while they are published.
PluginCapabilitiesOnline == {"CONTROLLER_SERVICE", "VOLUME_ACCESSIBILITY_CONSTRAINTS", "VOLUME_EXPANSION_ONLINE"}

PluginCapabilities == {"CONTROLLER_SERVICE", "VOLUME_ACCESSIBILITY_CONSTRAINTS", "VOLUME_EXPANSION_OFFLINE"}

ControllerCapabilities == {"CREATE_DELETE_VOLUME", "PUBLISH_UNPUBLISH_VOLUME", "EXPAND_VOLUME"}

\* Mutant: expansion on the node is not announced.
NodeCapabilitiesStage == {"STAGE_UNSTAGE_VOLUME"}

NodeCapabilities == {"STAGE_UNSTAGE_VOLUME", "EXPAND_VOLUME"}

\* Mutant: the flag -nodeid is not passed on.
NodeGetInfoEmpty(n) == [nodeId |-> None, topology |-> None]

\* The driver works on its own node only.
NodeGetInfo(n) == [nodeId |-> n, topology |-> n]
-----------------------------------------------------------------------------
(* The driver process and its registration *)

\* main, NewLocalVolumeDriver, NewNodeServer and Run: the servers listen.  Without
\* an API configuration NewNodeServer ends the process, which is started again.
Run(n) ==
    /\ n \notin up
    /\ up' = up \cup {n}
    /\ UNCHANGED <<registered, sidecars, claimVars, nodeVars, faults>>

\* The driver ends, and with it the sidecars' connections and calls.
DriverCrash(n) ==
    /\ n \in up /\ Fault
    /\ up' = up \ {n}
    /\ sidecars' = IF n = Home THEN {} ELSE sidecars
    /\ creating' = IF n = Home THEN [c \in Claims |-> None] ELSE creating
    /\ pod' = [c \in Claims |->
                IF pv[c].node = n /\ pod[c] \in {"staged", "expanded"} THEN "waiting" ELSE pod[c]]
    /\ UNCHANGED <<registered, want, selected, pv, status, pending, fs>>

\* GetPluginInfo and NodeGetInfo, for the registrar: the name and version of the
\* driver are constants that are not empty.
Register(n) ==
    /\ n \in up \ registered
    /\ registered' = registered \cup {NodeGetInfo(n).topology}
    /\ UNCHANGED <<up, sidecars, claimVars, nodeVars, faults>>

\* Probe and the capabilities, for the provisioner and the resizer.
Probe(s) ==
    /\ s \notin sidecars /\ Home \in up
    /\ "CONTROLLER_SERVICE" \in PluginCapabilities
    /\ IF s = "provisioner" THEN "CREATE_DELETE_VOLUME" \in ControllerCapabilities
                            ELSE "EXPAND_VOLUME" \in ControllerCapabilities
    /\ sidecars' = sidecars \cup {s}
    /\ UNCHANGED <<up, registered, claimVars, nodeVars, faults>>
-----------------------------------------------------------------------------
(* Provisioning *)

\* kube-scheduler chooses a node that the volume, if there is one, allows.
SelectNode(c, n) ==
    /\ pod[c] = "none"
    /\ n \in registered /\ pv[c].node \in {None, n}
    /\ selected' = [selected EXCEPT ![c] = n]
    /\ pod' = [pod EXCEPT ![c] = "waiting"]
    /\ UNCHANGED <<driverVars, want, creating, pv, status, pending, fs, faults>>

\* The nodes of a set in some order.
Listings(S) == {r \in [1 .. Cardinality(S) -> S] : \A n \in S : \E i \in DOMAIN r : r[i] = n}

\* The provisioner's requirement: the nodes the driver is on as it lists them, and
\* the same list turned so that the selected node comes first.
Requirement(requisite, n) ==
    LET i == CHOOSE j \in DOMAIN requisite : requisite[j] = n
    IN [requisite |-> requisite,
        preferred |-> SubSeq(requisite, i, Len(requisite)) \o SubSeq(requisite, 1, i - 1)]

NoRequirement == [requisite |-> <<>>, preferred |-> <<>>]

SendCreateVolume(c) ==
    /\ "provisioner" \in sidecars
    /\ pv[c] = NoVolume /\ creating[c] = None /\ selected[c] # None
    /\ IF "VOLUME_ACCESSIBILITY_CONSTRAINTS" \in PluginCapabilities
       THEN \E requisite \in Listings(registered) :
                creating' = [creating EXCEPT ![c] = Requirement(requisite, selected[c])]
       ELSE creating' = [creating EXCEPT ![c] = NoRequirement]
    /\ UNCHANGED <<driverVars, want, selected, pv, status, pending, nodeVars, faults>>

\* The first topology of a list that has the driver's key.
FirstWithKey(topologies) ==
    LET found == {i \in DOMAIN topologies : topologies[i] # None}
    IN IF found = {} THEN None
       ELSE topologies[CHOOSE i \in found : \A j \in found : i <= j]

\* Mutant: the requisite topologies come first.
PickNodeIDRequisite(requirement) ==
    IF FirstWithKey(requirement.requisite) # None THEN FirstWithKey(requirement.requisite)
    ELSE FirstWithKey(requirement.preferred)

\* pickNodeID: the first preferred topology with the key, else the first requisite one.
PickNodeID(requirement) ==
    IF FirstWithKey(requirement.preferred) # None THEN FirstWithKey(requirement.preferred)
    ELSE FirstWithKey(requirement.requisite)

\* CreateVolume: an error without a node, else the volume on that node.  The
\* provisioner makes the PersistentVolume of the answer.
CreateVolume(c) ==
    LET nodeID == PickNodeID(creating[c]) IN
    /\ Home \in up /\ creating[c] # None
    /\ creating' = [creating EXCEPT ![c] = None]
    /\ IF nodeID = None
        THEN UNCHANGED <<pv, status>>
        ELSE /\ pv' = [pv EXCEPT ![c] = [node |-> nodeID, size |-> want[c]]]
             /\ status' = [status EXCEPT ![c] = want[c]]
    /\ UNCHANGED <<driverVars, want, selected, pending, nodeVars, faults>>

\* The answer is lost or comes too late; the provisioner calls again.
CreateVolumeLost(c) ==
    /\ creating[c] # None /\ Fault
    /\ creating' = [creating EXCEPT ![c] = None]
    /\ UNCHANGED <<driverVars, want, selected, pv, status, pending, nodeVars>>
-----------------------------------------------------------------------------
(* Expansion *)

\* Someone asks for more.
GrowClaim(c) ==
    /\ pv[c] # NoVolume /\ want[c] < MaxSize
    /\ want' = [want EXCEPT ![c] = @ + 1]
    /\ UNCHANGED <<driverVars, selected, creating, pv, status, pending, nodeVars, faults>>

\* ControllerExpandVolume says that the node has to expand; the resizer writes the
\* new size into the PersistentVolume and leaves the rest to kubelet.  A volume
\* of a plugin that announces offline expansion is not expanded while published:
\* the contract of CSI, which ControllerExpandVolume relies on and does not check.
ControllerExpandVolume(c) ==
    /\ "resizer" \in sidecars /\ Home \in up
    /\ "VOLUME_EXPANSION_OFFLINE" \in PluginCapabilities => pod[c] # "running"
    /\ pv[c] # NoVolume /\ pv[c].size < want[c]
    /\ pv' = [pv EXCEPT ![c].size = want[c]]
    /\ pending' = pending \cup {c}
    /\ UNCHANGED <<driverVars, want, selected, creating, status, nodeVars, faults>>
-----------------------------------------------------------------------------
(* kubelet on the node of the volume *)

\* NodeStageVolume does nothing.
NodeStageVolume(c) ==
    /\ pod[c] = "waiting" /\ pv[c].node # None /\ pv[c].node = selected[c] /\ pv[c].node \in up
    /\ pod' = [pod EXCEPT ![c] = "staged"]
    /\ UNCHANGED <<driverVars, claimVars, fs, faults>>

\* NodeExpandVolume does nothing either.  kubelet calls it for a pending claim,
\* before it publishes and while the pod runs, and then reports the new size.
NodeExpandVolume(c) ==
    /\ \/ pod[c] = "staged"
       \/ pod[c] = "running" /\ c \in pending
    /\ pv[c].node \in up
    /\ IF c \in pending /\ "EXPAND_VOLUME" \in NodeCapabilities
        THEN /\ status' = [status EXCEPT ![c] = pv[c].size]
             /\ pending' = pending \ {c}
        ELSE UNCHANGED <<status, pending>>
    /\ pod' = [pod EXCEPT ![c] = IF @ = "staged" THEN "expanded" ELSE @]
    /\ UNCHANGED <<driverVars, want, selected, creating, pv, fs, faults>>

\* NodePublishVolume makes the logical volume, or resizes it and its filesystem, to
\* the size in the PersistentVolume.
NodePublishVolume(c) ==
    /\ pod[c] = "expanded" /\ pv[c].node \in up
    /\ fs' = [fs EXCEPT ![c] = IF @ < pv[c].size THEN pv[c].size ELSE @]
    /\ pod' = [pod EXCEPT ![c] = "running"]
    /\ UNCHANGED <<driverVars, claimVars, faults>>

\* The pod ends: NodeUnpublishVolume, and NodeUnstageVolume, which does nothing.
NodeUnpublishVolume(c) ==
    /\ pod[c] = "running" /\ pv[c].node \in up
    /\ pod' = [pod EXCEPT ![c] = "none"]
    /\ selected' = [selected EXCEPT ![c] = None]
    /\ UNCHANGED <<driverVars, want, creating, pv, status, pending, fs, faults>>
-----------------------------------------------------------------------------
Sidecars == {"provisioner", "resizer"}

Driver(n) == Run(n) \/ Register(n)

Controller(c) == SendCreateVolume(c) \/ CreateVolume(c) \/ ControllerExpandVolume(c)

Kubelet(c) == NodeStageVolume(c) \/ NodeExpandVolume(c) \/ NodePublishVolume(c)

Next ==
    \/ \E n \in Nodes : Driver(n) \/ DriverCrash(n)
    \/ \E s \in Sidecars : Probe(s)
    \/ \E c \in Claims, n \in Nodes : SelectNode(c, n)
    \/ \E c \in Claims : Controller(c) \/ CreateVolumeLost(c) \/ GrowClaim(c)
    \/ \E c \in Claims : Kubelet(c) \/ NodeUnpublishVolume(c)

Spec == Init /\ [][Next]_vars

\* Processes are started again, sidecars and kubelet repeat their calls.
Fairness ==
    /\ \A n \in Nodes : WF_vars(Driver(n))
    /\ \A s \in Sidecars : WF_vars(Probe(s))
    /\ \A c \in Claims : WF_vars(SendCreateVolume(c)) /\ WF_vars(CreateVolume(c))
                         /\ WF_vars(ControllerExpandVolume(c)) /\ WF_vars(Kubelet(c))

\* Pods come and go: a volume is used again and again.
PodFairness ==
    \A c \in Claims :
        WF_vars(\E n \in Nodes : SelectNode(c, n)) /\ WF_vars(NodeUnpublishVolume(c))

FairSpec == Spec /\ Fairness /\ PodFairness
-----------------------------------------------------------------------------
\* The values of the state variables.
TypeOK ==
    /\ up \subseteq Nodes /\ registered \subseteq Nodes /\ sidecars \subseteq Sidecars
    /\ want \in [Claims -> 1 .. MaxSize]
    /\ selected \in [Claims -> Nodes \cup {None}]
    /\ \A c \in Claims : creating[c] = None \/ DOMAIN creating[c] = {"requisite", "preferred"}
    /\ pv \in [Claims -> [node : Nodes \cup {None}, size : 0 .. MaxSize]]
    /\ status \in [Claims -> 0 .. MaxSize]
    /\ pending \subseteq Claims
    /\ pod \in [Claims -> {"none", "waiting", "staged", "expanded", "running"}]
    /\ fs \in [Claims -> 0 .. MaxSize]
    /\ faults \in 0 .. MaxFaults

\* The volume is where its pod will run: what CreateVolume answers to is the node
\* the scheduler selected, whichever nodes were registered when, and through
\* lost answers and repeated calls.
VolumeOnSelectedNode ==
    \A c \in Claims : pv[c] # NoVolume /\ selected[c] # None => pv[c].node = selected[c]

\* NodeExpandVolume, after which kubelet reports the new size, expands nothing.
\* Still a pod that runs has a filesystem of at least the size its claim
\* reports: expansion is offline, and every publication resizes.
RunningHasCapacity ==
    \A c \in Claims : pod[c] = "running" => fs[c] >= status[c]

\* A pod that was given a node comes to run.
PodsRun == \A c \in Claims : pod[c] = "waiting" ~> pod[c] = "running"

\* A claim that was grown reports its size in the end.
ExpansionReported == \A c \in Claims : c \in pending ~> c \notin pending
=============================================================================
